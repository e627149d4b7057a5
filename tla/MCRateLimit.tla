----------------------------- MODULE MCRateLimit -----------------------------
(* Instances of RateLimit for TLC.  Addresses, usernames and requests are   *)
(* alike.                                                                   *)
EXTENDS RateLimit, TLC

Symmetry == Permutations(IPs) \cup Permutations(Workers)
=============================================================================
