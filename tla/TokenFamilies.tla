--------------------------- MODULE TokenFamilies ---------------------------
(***************************************************************************)
(* What refresh-token rotation promises (docs/SECURITY.md:36-37), with     *)
(* each request one indivisible step: a family has one usable token or     *)
(* none, a rotation replaces it by a token never seen before, and a family *)
(* without a token never gets one again.  Sessions implements this for one *)
(* request at a time; a family is named by its first token.                *)
(***************************************************************************)
CONSTANTS Tokens, None

VARIABLES
    minted,  \* the tokens that have been handed out
    usable   \* by family: its usable token, or None

Init ==
    /\ minted = {}
    /\ usable = [f \in Tokens |-> None]

Open(f) ==
    /\ f \notin minted
    /\ minted' = minted \cup {f}
    /\ usable' = [usable EXCEPT ![f] = f]

Replace(f, t) ==
    /\ usable[f] # None
    /\ t \notin minted
    /\ minted' = minted \cup {t}
    /\ usable' = [usable EXCEPT ![f] = t]

\* Logout, expiry and reuse close one family, a password change several.
Close(F) ==
    /\ usable' = [f \in Tokens |-> IF f \in F THEN None ELSE usable[f]]
    /\ UNCHANGED minted

Next ==
    \/ \E f \in Tokens : Open(f)
    \/ \E f, t \in Tokens : Replace(f, t)
    \/ \E F \in SUBSET Tokens : Close(F)

Spec == Init /\ [][Next]_<<minted, usable>>
=============================================================================
