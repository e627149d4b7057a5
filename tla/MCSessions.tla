----------------------------- MODULE MCSessions -----------------------------
\* Sessions for TLC: ids and workers are interchangeable, and no action reads
\* the audit log, so a run whose properties do not speak of it may identify
\* states that differ there only.
EXTENDS Sessions, TLC

Symmetry == Permutations(SessionIds) \cup Permutations(Workers)

ButAudit == <<table, req, pw, failed>>
=============================================================================
