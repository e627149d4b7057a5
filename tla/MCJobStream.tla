---------------------------- MODULE MCJobStream ----------------------------
\* JobStream for TLC: tabs, workers and jobs are interchangeable.
EXTENDS JobStream, TLC

Symmetry == Permutations(Listeners) \cup Permutations(Workers) \cup Permutations(JobIds)
=============================================================================
