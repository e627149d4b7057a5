----------------------------- MODULE MCFirstRun -----------------------------
(* Instances of FirstRun for TLC.  Browsers and usernames are alike.       *)
EXTENDS FirstRun, TLC

Symmetry == Permutations(Clients) \cup Permutations(Names)
=============================================================================
