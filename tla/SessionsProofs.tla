--------------------------- MODULE SessionsProofs ---------------------------
(***************************************************************************)
(* Theorems about Sessions, for any number of accounts, sessions and       *)
(* concurrent requests, with and without failing statements.               *)
(* The last one, RotationRefines, is about one request at a time.          *)
(***************************************************************************)
EXTENDS Sessions, TLAPS

USE DEF Present, Live, Revoked

\* The sessions table after a step holds the rows it held before: nothing is
\* deleted, no lineage is rewritten and no revocation is taken back.
RowsKept ==
    \A i \in SessionIds : Present(i) =>
        /\ Present(i)'
        /\ Revoked(i) => Revoked(i)'
        /\ table'[i].user = table[i].user
        /\ table'[i].family = table[i].family
        /\ table'[i].parent = table[i].parent
        /\ table'[i].cred = table[i].cred

\* UPDATE ... SET revoked_at touches nothing but the status of live rows.
LEMMA RevokeRowsEffect ==
    ASSUME TypeOK, NEW S, RevokeRows(S)
    PROVE  /\ table' \in [SessionIds -> Row]
           /\ RowsKept
           /\ \A i \in SessionIds :
                 /\ ~Present(i) => table'[i] = table[i]
                 /\ (i \in S /\ Present(i)) => Revoked(i)'
                 /\ i \notin S => table'[i] = table[i]
BY DEF RevokeRows, RowsKept, TypeOK, Row

LEMMA BestEffortRevoke ==
    ASSUME TypeOK, NEW S, BestEffort(RevokeRows(S))
    PROVE  /\ table' \in [SessionIds -> Row]
           /\ RowsKept
           /\ \A i \in SessionIds : ~Present(i) => table'[i] = table[i]
<1>1. CASE RevokeRows(S)
  BY <1>1, RevokeRowsEffect
<1>2. CASE UNCHANGED table
  BY <1>2 DEF RowsKept, TypeOK
<1>3. QED
  BY <1>1, <1>2 DEF BestEffort

\* INSERT INTO sessions adds one live row under an id that had none.
LEMMA CreateSessionEffect ==
    ASSUME TypeOK, NEW i \in SessionIds, ~Present(i),
           NEW u \in Users, NEW f \in SessionIds,
           NEW p \in SessionIds \cup {None}, NEW c \in Nat,
           CreateSession(i, u, f, p, c)
    PROVE  /\ table' \in [SessionIds -> Row]
           /\ RowsKept
           /\ Live(i)'
           /\ table'[i].user = u
           /\ table'[i].family = f
           /\ table'[i].parent = p
           /\ table'[i].cred = c
           /\ \A j \in SessionIds \ {i} : table'[j] = table[j]
BY DEF CreateSession, RowsKept, TypeOK, Row

-----------------------------------------------------------------------------
\* The effect of a step on the table, and with it the types, the lineage of
\* the rows and what the other requests rely on.

\* No row is added.
NoNewRows == \A i \in SessionIds : ~Present(i) => table'[i] = table[i]

LEMMA LineageOfOldRows ==
    ASSUME TypeOK, Lineage, RowsKept, NoNewRows
    PROVE  Lineage'
BY DEF TypeOK, Lineage, LineageOf, RowsKept, NoNewRows, Row

LEMMA LineageOfNewRow ==
    ASSUME TypeOK, Lineage, SessionsAssumption,
           NEW i \in SessionIds, ~Present(i),
           NEW u \in Users, NEW f \in SessionIds,
           NEW p \in SessionIds \cup {None}, NEW c \in Nat,
           CreateSession(i, u, f, p, c),
           \/ p = None /\ f = i
           \/ /\ p # None
              /\ Present(p)
              /\ f = table[p].family
              /\ u = table[p].user
              /\ c = table[p].cred
    PROVE  Lineage'
<1> DEFINE Kept == \A j \in SessionIds \ {i} : table'[j] = table[j]
<1>1. /\ Live(i)' /\ table'[i].user = u /\ table'[i].family = f
      /\ table'[i].parent = p /\ table'[i].cred = c
      /\ Kept
  BY CreateSessionEffect
<1>2. ASSUME NEW j \in SessionIds \ {i}, Present(j)
      PROVE  /\ LineageOf(j)
             /\ table[j].family # i
             /\ table[j].parent # i
  BY <1>2 DEF Lineage, LineageOf
<1> SUFFICES ASSUME NEW j \in SessionIds, Present(j)'
             PROVE  LineageOf(j)'
  BY DEF Lineage
<1>3. CASE j = i /\ p = None
  BY <1>1, <1>3 DEF LineageOf, SessionsAssumption
<1>4. CASE j = i /\ p # None
  <2>1. p \in SessionIds \ {i} /\ LineageOf(p)
    BY <1>2, <1>4
  <2>2. Present(f) /\ table[f].parent = None /\ f # i
    BY <1>4, <2>1 DEF LineageOf
  <2>3. QED
    BY <1>1, <1>4, <2>1, <2>2 DEF LineageOf
<1>5. CASE j # i
  <2>1. table'[j] = table[j] /\ Present(j) /\ LineageOf(j)
    BY <1>1, <1>2, <1>5
  <2>2. Present(table[j].family) /\ table[j].family # i
    BY <1>2, <1>5, <2>1 DEF LineageOf
  <2>3. CASE table[j].parent = None
    BY <1>1, <1>5, <2>1, <2>2, <2>3 DEF LineageOf
  <2>4. CASE table[j].parent # None
    <3>1. table[j].parent \in SessionIds \ {i}
      BY <1>2, <1>5, <2>1, <2>4 DEF LineageOf, TypeOK, Row
    <3>2. QED
      BY <1>1, <1>5, <2>1, <2>2, <2>4, <3>1 DEF LineageOf
  <2>5. QED
    BY <2>3, <2>4
<1>6. QED
  BY <1>3, <1>4, <1>5

-----------------------------------------------------------------------------
\* What the step of one worker leaves to the others.

LEMMA OtherRequests ==
    ASSUME IInv, SessionsAssumption, RowsKept,
           NEW w \in Workers, NEW r \in Request,
           req' = [req EXCEPT ![w] = r],
           \A i \in SessionIds : (~Present(i) /\ i # req[w].new) => ~Present(i)',
           NEW v \in Workers \ {w}
    PROVE  RequestOf(v)'
<1>1. req'[v] = req[v] /\ req[v] \in Request /\ RequestOf(v)
  BY DEF IInv, TypeOK, RequestsOK
<1>2. CASE req[v].at \in {"insert", "issue"}
  <2>1. req[v].new \in SessionIds /\ ~Present(req[v].new) /\ req[v].new # None
    BY <1>1, <1>2 DEF RequestOf, SessionsAssumption
  <2>2. req[v].new # req[w].new
    BY <2>1 DEF IInv, RequestsOK, NewIdsDistinct
  <2>3. QED
    BY <1>1, <1>2, <2>1, <2>2 DEF RequestOf, RowsKept
<1>3. CASE req[v].at \notin {"insert", "issue"}
  BY <1>1, <1>3 DEF RequestOf, RowsKept
<1>4. QED
  BY <1>2, <1>3

LEMMA DistinctKept ==
    ASSUME IInv, SessionsAssumption, NEW w \in Workers, NEW r \in Request,
           req' = [req EXCEPT ![w] = r],
           r.new \in {None, req[w].new} \cup Fresh
    PROVE  NewIdsDistinct'
<1>1. \A v \in Workers \ {w} : req'[v] = req[v]
  BY DEF IInv, TypeOK
<1>2. req'[w] = r
  BY DEF IInv, TypeOK
<1>3. \A v \in Workers \ {w} : r.new # None => req[v].new # r.new
  BY DEF IInv, RequestsOK, NewIdsDistinct, Fresh
<1>4. QED
  BY <1>1, <1>2, <1>3 DEF NewIdsDistinct, IInv, RequestsOK

\* A request that is over relies on nothing.
LEMMA IdleRequests ==
    ASSUME NEW a \in Answers, NEW t \in SessionIds \cup {None}
    PROVE  [IdleRequest EXCEPT !.answer = a, !.tok = t] \in Request
BY DEF IdleRequest, Request, Steps, Answers

\* A step that inserts nothing.
LEMMA QuietStep ==
    ASSUME IInv, SessionsAssumption, failed' \in BOOLEAN,
           NEW w \in Workers, NEW r \in Request,
           req' = [req EXCEPT ![w] = r],
           table' \in [SessionIds -> Row], RowsKept, NoNewRows,
           pw' \in [Users -> Nat], audit' \in SUBSET AuditActions,
           r.new \in {None, req[w].new} \cup Fresh,
           RequestOf(w)'
    PROVE  IInv'
<1>1. TypeOK'
  BY DEF IInv, TypeOK
<1>2. Lineage'
  BY LineageOfOldRows DEF IInv
<1>3. \A i \in SessionIds : ~Present(i) => ~Present(i)'
  BY DEF NoNewRows
<1>4. \A v \in Workers \ {w} : RequestOf(v)'
  BY <1>3, OtherRequests
<1>5. NewIdsDistinct'
  BY DistinctKept
<1>6. QED
  BY <1>1, <1>2, <1>4, <1>5 DEF IInv, RequestsOK

\* The last step of a request that inserts nothing.
LEMMA AnswerStep ==
    ASSUME IInv, SessionsAssumption, failed' \in BOOLEAN,
           NEW w \in Workers,
           NEW a \in Answers, NEW t \in SessionIds \cup {None}, Answer(w, a, t),
           table' \in [SessionIds -> Row], RowsKept, NoNewRows,
           pw' = pw, audit' \in SUBSET AuditActions
    PROVE  IInv'
<1> DEFINE r == [IdleRequest EXCEPT !.answer = a, !.tok = t]
<1>1. r \in Request /\ r.new = None /\ r.at = "idle"
  BY IdleRequests DEF IdleRequest
<1>2. req' = [req EXCEPT ![w] = r]
  BY DEF Answer
<1>3. req'[w] = r
  BY <1>2 DEF IInv, TypeOK
<1>4. RequestOf(w)'
  BY <1>1, <1>3 DEF RequestOf
<1> HIDE DEF r
<1>5. QED
  BY <1>1, <1>2, <1>4, QuietStep DEF IInv, TypeOK

LEMMA UnchangedTable ==
    ASSUME TypeOK, UNCHANGED table
    PROVE  table' \in [SessionIds -> Row] /\ RowsKept /\ NoNewRows
BY DEF TypeOK, RowsKept, NoNewRows

LEMMA AuditType ==
    ASSUME TypeOK, NEW a \in AuditActions, WriteAudit(a)
    PROVE  audit' \in SUBSET AuditActions
BY DEF TypeOK, WriteAudit
-----------------------------------------------------------------------------
\* Every step keeps the invariant and the rows.

LEMMA LookupStep ==
    ASSUME IInv, SessionsAssumption, failed' \in BOOLEAN,
           NEW w \in Workers,
           NEW t \in SessionIds \cup {None}, RotateLookup(w, t)
    PROVE  IInv' /\ RowsKept
<1>1. /\ table' \in [SessionIds -> Row] /\ RowsKept /\ NoNewRows
      /\ pw' = pw /\ audit' = audit /\ table' = table
      /\ pw' \in [Users -> Nat] /\ audit' \in SUBSET AuditActions
  BY UnchangedTable DEF RotateLookup, IInv, TypeOK
<1>2. CASE Answer(w, "invalid", t)
  BY <1>1, <1>2, AnswerStep DEF Answers
<1>3. ASSUME NEW s \in {"children", "expire"}, t \in SessionIds, Present(t),
             Begin(w, [IdleRequest EXCEPT !.at = s, !.tok = t])
      PROVE  IInv'
  <2> DEFINE r == [IdleRequest EXCEPT !.at = s, !.tok = t]
  <2>1. r \in Request /\ r.new = None /\ r.at = s /\ r.tok = t
    BY <1>3 DEF IdleRequest, Request, Steps, Answers
  <2>2. req' = [req EXCEPT ![w] = r] /\ req'[w] = r
    BY <1>3 DEF Begin, IInv, TypeOK
  <2>3. RequestOf(w)'
    BY <1>1, <1>3, <2>1, <2>2 DEF RequestOf
  <2> HIDE DEF r
  <2>4. QED
    BY <1>1, <2>1, <2>2, <2>3, QuietStep
<1>4. ASSUME t \in SessionIds, Live(t), NEW i \in Fresh,
             Begin(w, [IdleRequest EXCEPT !.at = "insert", !.tok = t, !.new = i])
      PROVE  IInv'
  <2> DEFINE r == [IdleRequest EXCEPT !.at = "insert", !.tok = t, !.new = i]
  <2>1. i \in SessionIds /\ ~Present(i)
    BY DEF Fresh
  <2>2. r \in Request /\ r.new = i /\ r.at = "insert" /\ r.tok = t
    BY <1>4, <2>1 DEF IdleRequest, Request, Steps, Answers
  <2>3. req' = [req EXCEPT ![w] = r] /\ req'[w] = r
    BY <1>4 DEF Begin, IInv, TypeOK
  <2>4. RequestOf(w)'
    BY <1>1, <1>4, <2>1, <2>2, <2>3 DEF RequestOf
  <2> HIDE DEF r
  <2>5. QED
    BY <1>1, <2>2, <2>3, <2>4, QuietStep
<1>5. QED
  BY <1>1, <1>2, <1>3, <1>4 DEF RotateLookup, Sent

LEMMA LoginLookupStep ==
    ASSUME IInv, SessionsAssumption, failed' \in BOOLEAN,
           NEW w \in Workers, NEW u \in Users,
           LoginLookup(w, u)
    PROVE  IInv' /\ RowsKept
<1>1. /\ table' \in [SessionIds -> Row] /\ RowsKept /\ NoNewRows
      /\ table' = table
      /\ pw' \in [Users -> Nat] /\ audit' \in SUBSET AuditActions
  BY UnchangedTable DEF LoginLookup, IInv, TypeOK
<1>2. PICK i \in Fresh :
         Begin(w, [IdleRequest EXCEPT !.at = "issue", !.user = u,
                                      !.cred = pw[u], !.new = i])
  BY DEF LoginLookup
<1> DEFINE r == [IdleRequest EXCEPT !.at = "issue", !.user = u,
                                    !.cred = pw[u], !.new = i]
<1>3. i \in SessionIds /\ ~Present(i) /\ pw[u] \in Nat
  BY DEF Fresh, IInv, TypeOK
<1>4. r \in Request /\ r.new = i /\ r.at = "issue" /\ r.user = u
  BY <1>3 DEF IdleRequest, Request, Steps, Answers
<1>5. req' = [req EXCEPT ![w] = r] /\ req'[w] = r
  BY <1>2 DEF Begin, IInv, TypeOK
<1>6. RequestOf(w)'
  BY <1>1, <1>3, <1>4, <1>5 DEF RequestOf
<1> HIDE DEF r
<1>7. QED
  BY <1>1, <1>4, <1>5, <1>6, QuietStep

LEMMA HasChildrenStep ==
    ASSUME IInv, SessionsAssumption, failed' \in BOOLEAN,
           NEW w \in Workers, RotateHasChildren(w)
    PROVE  IInv' /\ RowsKept
<1>1. /\ table' \in [SessionIds -> Row] /\ RowsKept /\ NoNewRows
      /\ table' = table /\ pw' = pw
      /\ pw' \in [Users -> Nat] /\ audit' \in SUBSET AuditActions
  BY UnchangedTable DEF RotateHasChildren, IInv, TypeOK
<1>2. req[w].at = "children" /\ req[w] \in Request /\ RequestOf(w)
  BY DEF RotateHasChildren, IInv, TypeOK, RequestsOK
<1>3. CASE Advance(w, "burn")
  <2> DEFINE r == [req[w] EXCEPT !.at = "burn"]
  <2>1. r \in Request /\ r.at = "burn" /\ r.new = req[w].new /\ r.tok = req[w].tok
    BY <1>2 DEF Request, Steps
  <2>2. req' = [req EXCEPT ![w] = r] /\ req'[w] = r
    BY <1>3 DEF Advance, IInv, TypeOK
  <2> HIDE DEF r
  <2>3. RequestOf(w)'
    BY <1>1, <1>2, <2>1, <2>2 DEF RequestOf
  <2>4. QED
    BY <1>1, <2>1, <2>2, <2>3, QuietStep
<1>4. CASE Answer(w, "invalid", req[w].tok)
  BY <1>1, <1>2, <1>4, AnswerStep DEF Answers, RequestOf
<1>5. QED
  BY <1>1, <1>3, <1>4 DEF RotateHasChildren

LEMMA RevokingStep ==
    ASSUME IInv, SessionsAssumption, failed' \in BOOLEAN,
           NEW w \in Workers,
           \/ RotateBurn(w) \/ RotateExpire(w) \/ RotateRevokeParent(w)
    PROVE  IInv' /\ RowsKept
<1>1. PICK S : BestEffort(RevokeRows(S))
  BY DEF RotateBurn, RotateExpire, RotateRevokeParent, RevokeSession, RevokeFamily
<1>2. /\ table' \in [SessionIds -> Row] /\ RowsKept /\ NoNewRows
  BY <1>1, BestEffortRevoke DEF IInv, NoNewRows
<1>3. pw' = pw /\ audit' \in SUBSET AuditActions
  BY AuditType
     DEF RotateBurn, RotateExpire, RotateRevokeParent, IInv, TypeOK, AuditActions
<1>4. req[w].tok \in SessionIds \cup {None}
  BY DEF IInv, TypeOK, Request
<1>5. PICK a \in Answers : Answer(w, a, req[w].tok)
  BY DEF RotateBurn, RotateExpire, RotateRevokeParent, Answers
<1>6. QED
  BY <1>2, <1>3, <1>4, <1>5, AnswerStep

LEMMA InsertStep ==
    ASSUME IInv, SessionsAssumption, failed' \in BOOLEAN,
           NEW w \in Workers, RotateInsert(w)
    PROVE  IInv' /\ RowsKept
<1> DEFINE t == req[w].tok
           n == req[w].new
<1>1. /\ req[w].at = "insert" /\ req[w] \in Request /\ RequestOf(w)
      /\ pw' = pw /\ audit' = audit
      /\ pw' \in [Users -> Nat] /\ audit' \in SUBSET AuditActions
  BY DEF RotateInsert, IInv, TypeOK, RequestsOK
<1>2. n \in SessionIds /\ ~Present(n) /\ t \in SessionIds /\ Present(t) /\ t # None
  BY <1>1 DEF RequestOf, SessionsAssumption
<1>3. /\ table[t].user \in Users /\ table[t].family \in SessionIds
      /\ table[t].cred \in Nat
  BY <1>2 DEF IInv, Lineage, LineageOf, TypeOK, Row
<1>4. ASSUME CreateSession(n, table[t].user, table[t].family, t, table[t].cred),
             Advance(w, "revoke")
      PROVE  IInv' /\ RowsKept
  <2>1. /\ table' \in [SessionIds -> Row] /\ RowsKept
        /\ table'[n].status = "live" /\ table'[n].parent = t
        /\ \A j \in SessionIds \ {n} : table'[j] = table[j]
    BY <1>2, <1>3, <1>4, CreateSessionEffect DEF IInv
  <2>2. Lineage'
    BY <1>2, <1>3, <1>4, LineageOfNewRow DEF IInv
  <2> DEFINE r == [req[w] EXCEPT !.at = "revoke"]
  <2>3. r \in Request /\ r.at = "revoke" /\ r.new = n /\ r.tok = t
    BY <1>1 DEF Request, Steps
  <2>4. req' = [req EXCEPT ![w] = r] /\ req'[w] = r
    BY <1>4 DEF Advance, IInv, TypeOK
  <2> HIDE DEF r
  <2>5. RequestOf(w)'
    BY <1>2, <2>1, <2>3, <2>4 DEF RequestOf, RowsKept
  <2>6. \A v \in Workers \ {w} : RequestOf(v)'
    BY <2>1, <2>3, <2>4, OtherRequests
  <2>7. NewIdsDistinct'
    BY <2>3, <2>4, DistinctKept
  <2>8. TypeOK'
    BY <1>1, <2>1, <2>3, <2>4 DEF IInv, TypeOK
  <2>9. QED
    BY <2>1, <2>2, <2>5, <2>6, <2>7, <2>8 DEF IInv, RequestsOK
<1>5. ASSUME NEW a \in {"invalid", "error"}, Answer(w, a, t), UNCHANGED table
      PROVE  IInv' /\ RowsKept
  <2>1. table' \in [SessionIds -> Row] /\ RowsKept /\ NoNewRows
    BY <1>5, UnchangedTable DEF IInv
  <2>2. QED
    BY <1>1, <1>2, <1>5, <2>1, AnswerStep DEF Answers
<1>6. QED
  BY <1>4, <1>5 DEF RotateInsert

LEMMA LoginIssueStep ==
    ASSUME IInv, SessionsAssumption, failed' \in BOOLEAN,
           NEW w \in Workers, LoginIssue(w)
    PROVE  IInv' /\ RowsKept
<1> DEFINE n == req[w].new
<1>1. /\ req[w].at = "issue" /\ req[w] \in Request /\ RequestOf(w)
      /\ pw' = pw /\ pw' \in [Users -> Nat]
  BY DEF LoginIssue, IInv, TypeOK, RequestsOK
<1>2. /\ n \in SessionIds /\ ~Present(n)
      /\ req[w].user \in Users /\ req[w].cred \in Nat
  BY <1>1 DEF RequestOf, Request
<1>3. ASSUME CreateSession(n, req[w].user, n, None, req[w].cred),
             WriteAudit("auth.login"), Answer(w, "loggedIn", n)
      PROVE  IInv' /\ RowsKept
  <2>1. /\ table' \in [SessionIds -> Row] /\ RowsKept
        /\ \A j \in SessionIds \ {n} : table'[j] = table[j]
    BY <1>2, <1>3, CreateSessionEffect DEF IInv
  <2>2. Lineage'
    BY <1>2, <1>3, LineageOfNewRow DEF IInv
  <2> DEFINE r == [IdleRequest EXCEPT !.answer = "loggedIn", !.tok = n]
  <2>3. r \in Request /\ r.at = "idle" /\ r.new = None
    BY <1>2, IdleRequests DEF IdleRequest, Answers
  <2>4. req' = [req EXCEPT ![w] = r] /\ req'[w] = r
    BY <1>3 DEF Answer, IInv, TypeOK
  <2>5. RequestOf(w)'
    BY <2>3, <2>4 DEF RequestOf
  <2> HIDE DEF r
  <2>6. \A v \in Workers \ {w} : RequestOf(v)'
    BY <2>1, <2>3, <2>4, OtherRequests
  <2>7. NewIdsDistinct'
    BY <2>3, <2>4, DistinctKept
  <2>8. audit' \in SUBSET AuditActions
    BY <1>3, AuditType DEF IInv, AuditActions
  <2>9. TypeOK'
    BY <1>1, <2>1, <2>3, <2>4, <2>8 DEF IInv, TypeOK
  <2>10. QED
    BY <2>1, <2>2, <2>5, <2>6, <2>7, <2>9 DEF IInv, RequestsOK
<1>4. ASSUME Answer(w, "error", None), UNCHANGED <<table, audit>>
      PROVE  IInv' /\ RowsKept
  <2>1. table' \in [SessionIds -> Row] /\ RowsKept /\ NoNewRows
    BY <1>4, UnchangedTable DEF IInv
  <2>2. QED
    BY <1>1, <1>4, <2>1, AnswerStep DEF Answers, IInv, TypeOK
<1>5. QED
  BY <1>3, <1>4 DEF LoginIssue

LEMMA LogoutStep ==
    ASSUME IInv, SessionsAssumption, failed' \in BOOLEAN,
           NEW w \in Workers, NEW t \in SessionIds,
           Logout(w, t)
    PROVE  IInv' /\ RowsKept
<1>1. BestEffort(RevokeRows({t}))
  BY DEF Logout, RevokeSession
<1>2. /\ table' \in [SessionIds -> Row] /\ RowsKept /\ NoNewRows
  BY <1>1, BestEffortRevoke DEF IInv, NoNewRows
<1>3. pw' = pw /\ audit' \in SUBSET AuditActions
  BY AuditType DEF Logout, IInv, AuditActions
<1>4. QED
  BY <1>2, <1>3, AnswerStep DEF Logout, Answers

LEMMA ChangeAuthStep ==
    ASSUME IInv, SessionsAssumption, failed' \in BOOLEAN,
           NEW w \in Workers, NEW t \in SessionIds,
           ChangeAuth(w, t)
    PROVE  IInv' /\ RowsKept
<1> DEFINE r == [IdleRequest EXCEPT !.at = "loadUser", !.tok = t,
                                    !.user = table[t].user]
<1>1. /\ table' \in [SessionIds -> Row] /\ RowsKept /\ NoNewRows
      /\ table' = table
      /\ pw' \in [Users -> Nat] /\ audit' \in SUBSET AuditActions
  BY UnchangedTable DEF ChangeAuth, IInv, TypeOK
<1>2. Present(t) /\ table[t].user \in Users
  BY DEF ChangeAuth, IInv, Lineage, LineageOf
<1>3. /\ r \in Request /\ r.new = None /\ r.at = "loadUser"
      /\ r.tok = t /\ r.user \in Users
  BY <1>2 DEF IdleRequest, Request, Steps, Answers
<1>4. req' = [req EXCEPT ![w] = r] /\ req'[w] = r
  BY DEF ChangeAuth, Begin, IInv, TypeOK
<1> HIDE DEF r
<1>5. RequestOf(w)'
  BY <1>1, <1>2, <1>3, <1>4 DEF RequestOf
<1>6. QED
  BY <1>1, <1>3, <1>4, <1>5, QuietStep

LEMMA ChangeLoadUserStep ==
    ASSUME IInv, SessionsAssumption, failed' \in BOOLEAN,
           NEW w \in Workers, ChangeLoadUser(w)
    PROVE  IInv' /\ RowsKept
<1>1. /\ table' \in [SessionIds -> Row] /\ RowsKept /\ NoNewRows
      /\ table' = table /\ pw' = pw /\ pw' \in [Users -> Nat]
  BY UnchangedTable DEF ChangeLoadUser, IInv, TypeOK
<1>2. /\ req[w].at = "loadUser" /\ req[w] \in Request /\ RequestOf(w)
      /\ req[w].user \in Users /\ pw[req[w].user] \in Nat
      /\ req[w].tok \in SessionIds
  BY DEF ChangeLoadUser, IInv, TypeOK, RequestsOK, RequestOf
<1>3. CASE /\ req' = [req EXCEPT ![w].at = "update", ![w].cred = pw[req[w].user]]
           /\ UNCHANGED audit
  <2> DEFINE r == [req[w] EXCEPT !.at = "update", !.cred = pw[req[w].user]]
  <2>1. /\ r \in Request /\ r.at = "update" /\ r.new = req[w].new
        /\ r.tok = req[w].tok /\ r.user = req[w].user
    BY <1>2 DEF Request, Steps
  <2>2. req' = [req EXCEPT ![w] = r] /\ req'[w] = r
    BY <1>3 DEF IInv, TypeOK
  <2> HIDE DEF r
  <2>3. RequestOf(w)'
    BY <1>1, <1>2, <2>1, <2>2 DEF RequestOf
  <2>4. audit' \in SUBSET AuditActions
    BY <1>3 DEF IInv, TypeOK
  <2>5. QED
    BY <1>1, <2>1, <2>2, <2>3, <2>4, QuietStep
<1>4. CASE /\ Answer(w, "refused", req[w].tok)
           /\ WriteAudit("settings.change_password")
  <2>1. audit' \in SUBSET AuditActions
    BY <1>4, AuditType DEF IInv, AuditActions
  <2>2. QED
    BY <1>1, <1>2, <1>4, <2>1, AnswerStep DEF Answers
<1>5. QED
  BY <1>3, <1>4 DEF ChangeLoadUser

LEMMA ChangeUpdateStep ==
    ASSUME IInv, SessionsAssumption, failed' \in BOOLEAN,
           NEW w \in Workers, ChangeUpdate(w)
    PROVE  IInv' /\ RowsKept
<1>1. /\ table' \in [SessionIds -> Row] /\ RowsKept /\ NoNewRows
      /\ table' = table /\ audit' \in SUBSET AuditActions
  BY UnchangedTable DEF ChangeUpdate, IInv, TypeOK
<1>2. /\ req[w].at = "update" /\ req[w] \in Request /\ RequestOf(w)
      /\ req[w].user \in Users /\ req[w].tok \in SessionIds
  BY DEF ChangeUpdate, IInv, TypeOK, RequestsOK, RequestOf
<1>3. CASE /\ pw' = [pw EXCEPT ![req[w].user] = @ + 1]
           /\ Advance(w, "revokeAll")
  <2> DEFINE r == [req[w] EXCEPT !.at = "revokeAll"]
  <2>1. /\ r \in Request /\ r.at = "revokeAll" /\ r.new = req[w].new
        /\ r.tok = req[w].tok /\ r.user = req[w].user
    BY <1>2 DEF Request, Steps
  <2>2. req' = [req EXCEPT ![w] = r] /\ req'[w] = r
    BY <1>3 DEF Advance, IInv, TypeOK
  <2> HIDE DEF r
  <2>3. RequestOf(w)'
    BY <1>1, <1>2, <2>1, <2>2 DEF RequestOf
  <2>4. pw' \in [Users -> Nat]
    BY <1>2, <1>3 DEF IInv, TypeOK
  <2>5. QED
    BY <1>1, <2>1, <2>2, <2>3, <2>4, QuietStep
<1>4. CASE Answer(w, "error", req[w].tok) /\ UNCHANGED pw
  BY <1>1, <1>2, <1>4, AnswerStep DEF Answers
<1>5. QED
  BY <1>3, <1>4 DEF ChangeUpdate

LEMMA ChangeRevokeAllStep ==
    ASSUME IInv, SessionsAssumption, failed' \in BOOLEAN,
           NEW w \in Workers, ChangeRevokeAll(w)
    PROVE  IInv' /\ RowsKept
<1>1. PICK S : BestEffort(RevokeRows(S))
  BY DEF ChangeRevokeAll, RevokeAllForUser
<1>2. /\ table' \in [SessionIds -> Row] /\ RowsKept /\ NoNewRows
  BY <1>1, BestEffortRevoke DEF IInv, NoNewRows
<1>3. pw' \in [Users -> Nat] /\ audit' \in SUBSET AuditActions
  BY AuditType DEF ChangeRevokeAll, IInv, TypeOK, AuditActions
<1>4. req[w].at = "revokeAll" /\ req[w] \in Request /\ RequestOf(w)
  BY DEF ChangeRevokeAll, IInv, TypeOK, RequestsOK
<1> DEFINE r == [req[w] EXCEPT !.at = "idle", !.answer = "changed"]
<1>5. r \in Request /\ r.at = "idle" /\ r.new = req[w].new
  BY <1>4 DEF Request, Steps, Answers
<1>6. req' = [req EXCEPT ![w] = r] /\ req'[w] = r
  BY DEF ChangeRevokeAll, IInv, TypeOK
<1> HIDE DEF r
<1>7. RequestOf(w)'
  BY <1>4, <1>5, <1>6 DEF RequestOf
<1>8. QED
  BY <1>2, <1>3, <1>5, <1>6, <1>7, QuietStep

LEMMA ExpireStep ==
    ASSUME IInv, SessionsAssumption, failed' \in BOOLEAN,
           NEW i \in SessionIds, Expire(i)
    PROVE  IInv' /\ RowsKept
<1>1. /\ table' \in [SessionIds -> Row] /\ RowsKept /\ NoNewRows
      /\ \A j \in SessionIds : /\ table'[j].status = table[j].status
                               /\ table'[j].parent = table[j].parent
  <2> DEFINE r == [table[i] EXCEPT !.expired = TRUE]
  <2>1. table \in [SessionIds -> Row] /\ table[i] \in Row /\ table[i].status # "absent"
        /\ table' = [table EXCEPT ![i] = r]
    BY DEF Expire, Present, IInv, TypeOK
  <2>2. /\ r \in Row /\ r.status = table[i].status /\ r.parent = table[i].parent
        /\ r.user = table[i].user /\ r.family = table[i].family /\ r.cred = table[i].cred
    BY <2>1 DEF Row
  <2> HIDE DEF r
  <2> QED
    BY <2>1, <2>2 DEF RowsKept, NoNewRows
<1>2. Lineage'
  BY <1>1, LineageOfOldRows DEF IInv
<1>3. RequestsOK'
  BY <1>1 DEF Expire, RequestsOK, RequestOf, NewIdsDistinct, IInv
<1>4. QED
  BY <1>1, <1>2, <1>3 DEF Expire, IInv, TypeOK

LEMMA FailedType ==
    ASSUME IInv, [Next]_vars
    PROVE  failed' \in BOOLEAN
<1> USE DEF IInv, TypeOK, Succeeds, Fails, BestEffort
<1>1. ASSUME NEW w \in Workers, Continue(w)
      PROVE  failed' \in BOOLEAN
  BY <1>1, Zenon
     DEF Continue, RotateHasChildren, RotateBurn, RotateExpire, RotateInsert,
         RotateRevokeParent, LoginIssue, ChangeLoadUser, ChangeUpdate, ChangeRevokeAll
<1>2. QED
  BY <1>1, Zenon DEF Next, RotateLookup, LoginLookup, Logout, ChangeAuth, Expire, vars

LEMMA FailedStays ==
    ASSUME IInv, [Next]_vars, failed
    PROVE  failed'
<1> USE DEF Succeeds, Fails, BestEffort
<1>1. ASSUME NEW w \in Workers, Continue(w)
      PROVE  failed'
  BY <1>1
     DEF Continue, RotateHasChildren, RotateBurn, RotateExpire, RotateInsert,
         RotateRevokeParent, LoginIssue, ChangeLoadUser, ChangeUpdate, ChangeRevokeAll
<1>2. QED
  BY <1>1 DEF Next, RotateLookup, LoginLookup, Logout, ChangeAuth, Expire, vars

LEMMA StepLemma ==
    ASSUME IInv, SessionsAssumption, [Next]_vars
    PROVE  IInv' /\ RowsKept
<1>0. failed' \in BOOLEAN
  BY FailedType
<1>1. ASSUME NEW w \in Workers, Continue(w)
      PROVE  IInv' /\ RowsKept
  BY <1>0, <1>1, HasChildrenStep, RevokingStep, InsertStep, LoginIssueStep,
     ChangeLoadUserStep, ChangeUpdateStep, ChangeRevokeAllStep, Zenon DEF Continue
<1>2. CASE UNCHANGED vars
  BY <1>2 DEF vars, IInv, TypeOK, Lineage, LineageOf, RequestsOK, RequestOf,
              NewIdsDistinct, RowsKept
<1>3. QED
  BY <1>0, <1>1, <1>2, LookupStep, LoginLookupStep, LogoutStep, ChangeAuthStep,
     ExpireStep, Zenon DEF Next

-----------------------------------------------------------------------------
(***************************************************************************)
(* Theorems                                                                *)
(***************************************************************************)
\* The invariant holds in every reachable state, however requests interleave
\* and whichever statements fail: the rows of a family form a tree under its
\* login, and no request acts on a row that is not there or inserts an id that
\* is (sessions.go:80-146).
THEOREM Invariance == Spec => []IInv
<1>1. Init => IInv
  <2> SUFFICES ASSUME Init PROVE IInv
    OBVIOUS
  <2>1. TypeOK
    BY DEF Init, TypeOK, AbsentRow, IdleRequest, Row, Request, Steps, Answers
  <2>2. Lineage /\ RequestsOK
    BY SessionsAssumption
       DEF Init, Lineage, RequestsOK, RequestOf, NewIdsDistinct, AbsentRow, IdleRequest
  <2>3. QED
    BY <2>1, <2>2 DEF IInv
<1>2. IInv /\ [Next]_vars => IInv'
  BY StepLemma, SessionsAssumption
<1>3. QED
  BY <1>1, <1>2, PTL DEF Spec

\* Every variable keeps its type.
THEOREM TypeCorrect == Spec => []TypeOK
BY Invariance, PTL DEF IInv

\* RevokeFamily reaches every descendant of a login, because every descendant
\* carries the login's family (sessions.go:117-126, store/sessions.go:78-84).
THEOREM LineageHolds == Spec => []Lineage
BY Invariance, PTL DEF IInv

\* A request never inserts an id that is in the table or in another request's
\* hands (sessions.go:111-128).
THEOREM RequestsSound == Spec => []RequestsOK
BY Invariance, PTL DEF IInv

-----------------------------------------------------------------------------
\* Where insertions come from.

\* A worker that is about to insert was already about to, or has just read a
\* live row, or the current password.
LEMMA NewPending ==
    ASSUME IInv, [Next]_vars, NEW w \in Workers,
           req'[w].at \in {"insert", "issue"}
    PROVE  \/ req'[w] = req[w]
           \/ /\ req'[w].at = "insert"
              /\ req'[w].tok \in SessionIds /\ Live(req'[w].tok)
           \/ /\ req'[w].at = "issue"
              /\ req'[w].user \in Users /\ req'[w].cred = pw[req'[w].user]
<1> USE DEF IInv, TypeOK
<1> DEFINE Same == req'[w] = req[w]
           Looked(t) == req'[w].at = "insert" => (req'[w].tok = t /\ t \in SessionIds /\ Live(t))
<1>1. ASSUME NEW v \in Workers, NEW t \in SessionIds \cup {None}, RotateLookup(v, t)
      PROVE  Same \/ (Looked(t) /\ req'[w].at # "issue")
  <2>1. CASE v # w
    BY <1>1, <2>1 DEF RotateLookup, Answer, Begin
  <2>2. CASE v = w /\ Answer(v, "invalid", t)
    BY <2>2 DEF Answer, IdleRequest
  <2>3. ASSUME v = w, NEW n \in SessionIds \cup {None}, t \in Sent, Live(t),
               Begin(v, [IdleRequest EXCEPT !.at = "insert", !.tok = t, !.new = n])
        PROVE  Looked(t) /\ req'[w].at # "issue"
    BY <2>3 DEF Begin, IdleRequest, Sent
  <2>4. ASSUME v = w, NEW s \in {"children", "expire"},
               Begin(v, [IdleRequest EXCEPT !.at = s, !.tok = t])
        PROVE  req'[w].at = s
    BY <2>4 DEF Begin, IdleRequest
  <2>5. QED
    BY <1>1, <2>1, <2>2, <2>3, <2>4 DEF RotateLookup, Fresh
<1>2. ASSUME NEW v \in Workers, NEW u \in Users, LoginLookup(v, u)
      PROVE  Same \/ (req'[w].at = "issue" /\ req'[w].user = u /\ req'[w].cred = pw[u])
  BY <1>2 DEF LoginLookup, Begin, IdleRequest
<1>3. ASSUME NEW v \in Workers, NEW t \in SessionIds, Logout(v, t)
      PROVE  req'[w] = req[w] \/ req'[w].at = "idle"
  BY <1>3 DEF Logout, Answer, IdleRequest
<1>4. ASSUME NEW v \in Workers, NEW t \in SessionIds, ChangeAuth(v, t)
      PROVE  req'[w] = req[w] \/ req'[w].at = "loadUser"
  BY <1>4 DEF ChangeAuth, Begin, IdleRequest
<1>5. ASSUME NEW v \in Workers, Continue(v)
      PROVE  req'[w] = req[w] \/ req'[w].at \in {"idle", "burn", "revoke", "update", "revokeAll"}
  <2>1. CASE v # w
    BY <1>5, <2>1
       DEF Continue, RotateHasChildren, RotateBurn, RotateExpire, RotateInsert,
           RotateRevokeParent, LoginIssue, ChangeLoadUser, ChangeUpdate,
           ChangeRevokeAll, Advance, Answer
  <2>2. CASE v = w /\ \E a \in Answers, t \in SessionIds \cup {None} : Answer(v, a, t)
    BY <2>2 DEF Answer, IdleRequest
  <2>3. ASSUME v = w, NEW s \in {"burn", "revoke", "revokeAll"}, Advance(v, s)
        PROVE  req'[w].at = s
    BY <2>3 DEF Advance, Request
  <2>4. CASE v = w /\ ChangeLoadUser(v)
    <3>1. CASE Answer(v, "refused", req[v].tok)
      BY <2>4, <3>1 DEF Answer, IdleRequest
    <3>2. CASE req' = [req EXCEPT ![v].at = "update", ![v].cred = pw[req[v].user]]
      BY <2>4, <3>2 DEF Request
    <3>3. QED
      BY <2>4, <3>1, <3>2 DEF ChangeLoadUser
  <2>5. CASE v = w /\ ChangeRevokeAll(v)
    BY <2>5 DEF ChangeRevokeAll, Request
  <2>6. req[v].new \in SessionIds \cup {None} /\ req[v].tok \in SessionIds \cup {None}
    BY DEF Request
  <2>7. CASE v = w /\ (RotateHasChildren(v) \/ RotateBurn(v) \/ RotateExpire(v))
    BY <2>2, <2>3, <2>6, <2>7 DEF RotateHasChildren, RotateBurn, RotateExpire, Answers
  <2>8. CASE v = w /\ (RotateInsert(v) \/ RotateRevokeParent(v))
    BY <2>2, <2>3, <2>6, <2>8 DEF RotateInsert, RotateRevokeParent, Answers
  <2>9. CASE v = w /\ (LoginIssue(v) \/ ChangeUpdate(v))
    BY <2>2, <2>3, <2>6, <2>9 DEF LoginIssue, ChangeUpdate, Answers
  <2>10. QED
    BY <1>5, <2>1, <2>4, <2>5, <2>7, <2>8, <2>9 DEF Continue
<1>6. ASSUME NEW i \in SessionIds, Expire(i)
      PROVE  req'[w] = req[w]
  BY <1>6 DEF Expire
<1>7. CASE UNCHANGED vars
  BY <1>7 DEF vars
<1>8. QED
  BY <1>1, <1>2, <1>3, <1>4, <1>5, <1>6, <1>7 DEF Next

\* A row that appears was inserted by a rotation of its parent or by a login.
LEMMA NewRow ==
    ASSUME IInv, SessionsAssumption, [Next]_vars,
           NEW i \in SessionIds, ~Present(i), Present(i)'
    PROVE  \E w \in Workers :
              \/ /\ req[w].at = "insert"
                 /\ req'[w].at = "revoke" /\ req'[w].tok = req[w].tok
                 /\ table'[i].parent = req[w].tok
                 /\ table'[i].user = table[req[w].tok].user
                 /\ table'[i].cred = table[req[w].tok].cred
              \/ /\ req[w].at = "issue"
                 /\ table'[i].parent = None
                 /\ table'[i].user = req[w].user
                 /\ table'[i].cred = req[w].cred
<1>1. ASSUME UNCHANGED table PROVE FALSE
  BY <1>1
<1>2. ASSUME NEW S, BestEffort(RevokeRows(S)) PROVE FALSE
  BY <1>1, <1>2 DEF BestEffort, RevokeRows
<1>3. ASSUME NEW j \in SessionIds, Expire(j) PROVE FALSE
  BY <1>3 DEF Expire, IInv, TypeOK
<1>4. ASSUME NEW v \in Workers, Continue(v)
      PROVE  RotateInsert(v) \/ LoginIssue(v)
  BY <1>1, <1>2, <1>4, Zenon
     DEF Continue, RotateHasChildren, RotateBurn, RotateExpire, RotateRevokeParent,
         ChangeLoadUser, ChangeUpdate, ChangeRevokeAll,
         RevokeSession, RevokeFamily, RevokeAllForUser
<1>5. PICK w \in Workers : RotateInsert(w) \/ LoginIssue(w)
  BY <1>1, <1>2, <1>3, <1>4, Zenon
     DEF Next, RotateLookup, LoginLookup, Logout, ChangeAuth, RevokeSession, vars
<1>6. CASE RotateInsert(w)
  <2>1. /\ req[w].at = "insert"
        /\ CreateSession(req[w].new, table[req[w].tok].user, table[req[w].tok].family,
                         req[w].tok, table[req[w].tok].cred)
        /\ Advance(w, "revoke")
    BY <1>1, <1>6 DEF RotateInsert
  <2>2. i = req[w].new
    BY <2>1 DEF CreateSession, IInv, TypeOK
  <2>3. QED
    BY <2>1, <2>2 DEF CreateSession, Advance, IInv, TypeOK, Request
<1>7. CASE LoginIssue(w)
  <2>1. /\ req[w].at = "issue"
        /\ CreateSession(req[w].new, req[w].user, req[w].new, None, req[w].cred)
    BY <1>1, <1>7 DEF LoginIssue
  <2>2. i = req[w].new
    BY <2>1 DEF CreateSession, IInv, TypeOK
  <2>3. QED
    BY <2>1, <2>2 DEF CreateSession, IInv, TypeOK
<1>8. QED
  BY <1>5, <1>6, <1>7

\* A token that is revoked, and that no rotation still acts on, is dead for
\* good: no step brings it back or gives it another successor.  This is what
\* makes revocation final for the families and accounts it is applied to
\* (sessions.go:81-126).
THEOREM RetiredForever == Spec => RetiredTokenIsSterile
<1>1. ASSUME IInv, [Next]_vars, NEW t \in SessionIds, Retired(t)
      PROVE  Retired(t)' /\ Children(t)' = Children(t)
  <2>1. RowsKept /\ t # None
    BY <1>1, StepLemma, SessionsAssumption DEF SessionsAssumption
  <2>2. Revoked(t)'
    BY <1>1, <2>1 DEF Retired, RowsKept
  <2>3. ASSUME NEW w \in Workers, req'[w].at = "insert", req'[w].tok = t
        PROVE  FALSE
    BY <1>1, <2>3, NewPending DEF Retired
  <2>4. ASSUME NEW i \in SessionIds, ~Present(i), Present(i)', table'[i].parent = t
        PROVE  FALSE
    BY <1>1, <2>1, <2>4, NewRow, SessionsAssumption DEF Retired
  <2>5. Children(t)' = Children(t)
    BY <2>1, <2>4 DEF Children, RowsKept
  <2>6. QED
    BY <2>2, <2>3, <2>5 DEF Retired
<1>2. IInv /\ [Next]_vars
        => \A t \in SessionIds :
              Retired(t) => Retired(t)' /\ Children(t)' = Children(t)
  BY <1>1
<1>3. QED
  BY <1>2, Invariance, PTL DEF Spec, RetiredTokenIsSterile

\* After a password change, once the sessions founded on the old password and
\* the requests that carried it are gone, no session founded on it reappears
\* until the next change (settings.go:101-105).
THEOREM StaleCredentials == Spec => StaleCredentialDiesOut
<1>1. ASSUME IInv, [Next]_vars, NEW u \in Users,
             NoStaleCredential(u), pw'[u] = pw[u]
      PROVE  NoStaleCredential(u)'
  <2>1. RowsKept /\ IInv'
    BY <1>1, StepLemma, SessionsAssumption
  <2>2. ASSUME NEW i \in SessionIds, Live(i)', table'[i].user = u
        PROVE  table'[i].cred = pw'[u]
    <3>1. CASE Present(i)
      BY <1>1, <2>1, <2>2, <3>1 DEF RowsKept, NoStaleCredential, IInv, TypeOK, Row
    <3>2. CASE ~Present(i)
      BY <1>1, <2>2, <3>2, NewRow, SessionsAssumption DEF NoStaleCredential
    <3>3. QED
      BY <3>1, <3>2
  <2>3. ASSUME NEW w \in Workers, req'[w].at = "issue", req'[w].user = u
        PROVE  req'[w].cred = pw'[u]
    BY <1>1, <2>3, NewPending DEF NoStaleCredential
  <2>4. ASSUME NEW w \in Workers, req'[w].at = "insert",
               table'[req'[w].tok].user = u
        PROVE  table'[req'[w].tok].cred = pw'[u]
    <3>1. CASE req'[w] = req[w]
      <4>1. req[w].tok \in SessionIds /\ Present(req[w].tok)
        BY <1>1, <2>4, <3>1 DEF IInv, RequestsOK, RequestOf
      <4>2. QED
        BY <1>1, <2>1, <2>4, <3>1, <4>1 DEF NoStaleCredential, RowsKept
    <3>2. CASE req'[w].tok \in SessionIds /\ Live(req'[w].tok)
      BY <1>1, <2>1, <2>4, <3>2 DEF NoStaleCredential, RowsKept
    <3>3. QED
      BY <1>1, <2>4, <3>1, <3>2, NewPending
  <2>5. QED
    BY <2>2, <2>3, <2>4 DEF NoStaleCredential
<1>2. IInv /\ [Next]_vars
        => \A u \in Users :
              (NoStaleCredential(u) /\ pw'[u] = pw[u]) => NoStaleCredential(u)'
  BY <1>1
<1>3. QED
  BY <1>2, Invariance, PTL DEF Spec, StaleCredentialDiesOut

\* While no statement has failed, a token that has a successor and is not revoked
\* belongs to a rotation that is about to revoke it (sessions.go:117-130).
THEOREM LiveParents == Spec => []LiveParentInFlight
<1>1. Init => LiveParentInFlight
  BY DEF Init, LiveParentInFlight, AbsentRow
<1>2. ASSUME IInv, LiveParentInFlight, [Next]_vars
      PROVE  LiveParentInFlight'
  <2>1. RowsKept
    BY <1>2, StepLemma, SessionsAssumption
  <2>0. failed => failed'
    BY <1>2, FailedStays
  <2> SUFFICES ASSUME ~failed', ~failed,
                      NEW i \in SessionIds, Present(i)', table'[i].parent # None,
                      table'[table'[i].parent].status = "live"
               PROVE  \E w \in Workers : /\ req'[w].at = "revoke"
                                         /\ req'[w].tok = table'[i].parent
    BY <2>0 DEF LiveParentInFlight
  <2>2. CASE ~Present(i)
    BY <1>2, <2>2, NewRow, SessionsAssumption
  <2>3. CASE Present(i)
    <3> DEFINE p == table[i].parent
    <3>1. p = table'[i].parent /\ p # None /\ p \in SessionIds /\ Present(p)
      BY <1>2, <2>1, <2>3 DEF RowsKept, IInv, Lineage, LineageOf, TypeOK, Row
    <3>2. table'[p].status = "live" /\ Live(p)
      BY <1>2, <2>1, <3>1 DEF RowsKept, IInv, TypeOK, Row, Present, Live, Revoked
    <3>3. PICK w \in Workers : req[w].at = "revoke" /\ req[w].tok = p
      BY <1>2, <2>3, <3>1, <3>2 DEF LiveParentInFlight
    <3> HIDE DEF p
    <3>4. CASE req'[w] = req[w]
      BY <3>1, <3>3, <3>4
    <3>5. CASE RotateRevokeParent(w)
      <4>1. RevokeRows({p})
        BY <3>3, <3>5 DEF RotateRevokeParent, BestEffort, RevokeSession, Fails
      <4>2. table'[p].status = "revoked"
        BY <1>2, <3>1, <4>1, RevokeRowsEffect DEF IInv
      <4>3. QED
        BY <3>2, <4>2
    <3>6. CASE req'[w] # req[w]
      <4> USE <3>3, <3>6 DEF IInv, TypeOK
      <4>1. ASSUME NEW v \in Workers, Continue(v) PROVE v = w /\ RotateRevokeParent(w)
        BY <1>2, <4>1 DEF Continue, RotateHasChildren, RotateBurn, RotateExpire, RotateInsert,
              RotateRevokeParent, LoginIssue, ChangeLoadUser, ChangeUpdate,
              ChangeRevokeAll, Advance, Answer
      <4>2. ASSUME NEW v \in Workers, NEW t \in SessionIds \cup {None},
                   RotateLookup(v, t) PROVE FALSE
        BY <1>2, <4>2 DEF RotateLookup, Idle, Answer, Begin
      <4>3. ASSUME NEW v \in Workers, NEW u \in Users, LoginLookup(v, u) PROVE FALSE
        BY <1>2, <4>3 DEF LoginLookup, Idle, Begin
      <4>4. ASSUME NEW v \in Workers, NEW t \in SessionIds,
                   Logout(v, t) \/ ChangeAuth(v, t) PROVE FALSE
        BY <1>2, <4>4 DEF Logout, ChangeAuth, Idle, Answer, Begin
      <4>5. RotateRevokeParent(w)
        BY <1>2, <4>1, <4>2, <4>3, <4>4 DEF Next, Expire, vars
      <4>6. QED
        BY <3>5, <4>5
    <3>7. QED
      BY <3>4, <3>6
  <2>4. QED
    BY <2>2, <2>3
<1>3. IInv /\ LiveParentInFlight /\ [Next]_vars => LiveParentInFlight'
  BY <1>2
<1>4. QED
  BY <1>1, <1>3, Invariance, PTL DEF Spec

-----------------------------------------------------------------------------
\* A request that is on the reuse path, or was answered "session invalid",
\* holds a revoked token.
DeadEnd(w) ==
    /\ req[w].at \in {"children", "burn"} => Revoked(req[w].tok)
    /\ (req[w].answer = "invalid" /\ req[w].tok # None) => Revoked(req[w].tok)

LEMMA DeadEndSame ==
    ASSUME IInv, RowsKept, NEW w \in Workers, DeadEnd(w), req'[w] = req[w]
    PROVE  DeadEnd(w)'
BY DEF DeadEnd, RowsKept, IInv, TypeOK, Request, RequestsOK, RequestOf

LEMMA DeadEndAnswer ==
    ASSUME IInv, NEW w \in Workers, NEW a, NEW t, Answer(w, a, t),
           (a = "invalid" /\ t # None) => table'[t].status = "revoked"
    PROVE  DeadEnd(w)'
<1> DEFINE r == [IdleRequest EXCEPT !.answer = a, !.tok = t]
<1>1. r.at = "idle" /\ r.answer = a /\ r.tok = t
  BY DEF IdleRequest
<1>2. req'[w] = r
  BY DEF Answer, IInv, TypeOK
<1> HIDE DEF r
<1>3. QED
  BY <1>1, <1>2 DEF DeadEnd

LEMMA DeadEndStep ==
    ASSUME IInv, SessionsAssumption, [Next]_vars, ~failed', NEW w \in Workers, DeadEnd(w)
    PROVE  DeadEnd(w)'
<1>1. RowsKept
  BY StepLemma
<1> DEFINE Same == req'[w] = req[w]
<1> USE DEF Fails
<1>2. ASSUME NEW t \in SessionIds \cup {None}, RotateLookup(w, t)
      PROVE  DeadEnd(w)'
  <2>1. CASE t = None /\ Answer(w, "invalid", t)
    BY <2>1, DeadEndAnswer
  <2>2. ASSUME Revoked(t), UNCHANGED table,
               Begin(w, [IdleRequest EXCEPT !.at = "children", !.tok = t])
        PROVE  DeadEnd(w)'
    <3>1. req'[w].at = "children" /\ req'[w].tok = t /\ req'[w].answer = "none"
      BY <2>2 DEF Begin, IdleRequest, IInv, TypeOK
    <3>2. QED
      BY <2>2, <3>1 DEF DeadEnd
  <2>3. ASSUME Begin(w, [IdleRequest EXCEPT !.at = "expire", !.tok = t])
        PROVE  DeadEnd(w)'
    BY <2>3 DEF DeadEnd, Begin, IdleRequest, IInv, TypeOK
  <2>4. ASSUME NEW i,
               Begin(w, [IdleRequest EXCEPT !.at = "insert", !.tok = t, !.new = i])
        PROVE  DeadEnd(w)'
    BY <2>4 DEF DeadEnd, Begin, IdleRequest, IInv, TypeOK
  <2>5. QED
    BY <1>2, <2>1, <2>2, <2>3, <2>4 DEF RotateLookup
<1>3. ASSUME NEW u \in Users, LoginLookup(w, u)
      PROVE  DeadEnd(w)'
  BY <1>3 DEF LoginLookup, DeadEnd, Begin, IdleRequest, IInv, TypeOK
<1>4. ASSUME NEW t \in SessionIds, Logout(w, t)
      PROVE  DeadEnd(w)'
  BY <1>4, DeadEndAnswer DEF Logout
<1>5. ASSUME NEW t \in SessionIds, ChangeAuth(w, t)
      PROVE  DeadEnd(w)'
  BY <1>5 DEF ChangeAuth, DeadEnd, Begin, IdleRequest, IInv, TypeOK
<1>6. CASE RotateHasChildren(w)
  <2>1. req[w].at = "children" /\ Revoked(req[w].tok) /\ UNCHANGED table
    BY <1>6 DEF RotateHasChildren, DeadEnd
  <2>2. CASE Advance(w, "burn")
    <3>1. req'[w] = [req[w] EXCEPT !.at = "burn"]
      BY <2>2 DEF Advance, IInv, TypeOK
    <3>2. req'[w].tok = req[w].tok /\ req'[w].answer = req[w].answer
      BY <3>1 DEF IInv, TypeOK, Request
    <3>3. QED
      BY <2>1, <3>2 DEF DeadEnd
  <2>3. CASE Answer(w, "invalid", req[w].tok)
    BY <2>1, <2>3, DeadEndAnswer
  <2>4. QED
    BY <1>6, <2>2, <2>3 DEF RotateHasChildren
<1>7. CASE RotateExpire(w)
  <2>1. RevokeRows({req[w].tok})
    BY <1>7 DEF RotateExpire, BestEffort, RevokeSession
  <2>2. req[w].tok \in SessionIds /\ Present(req[w].tok)
    BY <1>7 DEF RotateExpire, IInv, RequestsOK, RequestOf
  <2>3. table'[req[w].tok].status = "revoked"
    BY <2>1, <2>2, RevokeRowsEffect DEF IInv
  <2>4. QED
    BY <1>7, <2>3, DeadEndAnswer DEF RotateExpire
<1>8. CASE RotateInsert(w)
  <2>1. Advance(w, "revoke") /\ req[w].at = "insert" /\ RowsKept
    BY <1>1, <1>8 DEF RotateInsert
  <2>2. req'[w] = [req[w] EXCEPT !.at = "revoke"]
    BY <2>1 DEF Advance, IInv, TypeOK
  <2>3. /\ req'[w].tok = req[w].tok /\ req'[w].answer = req[w].answer
        /\ req'[w].at = "revoke"
    BY <2>2 DEF IInv, TypeOK, Request
  <2>4. QED
    BY <2>1, <2>3 DEF DeadEnd, RowsKept, IInv, RequestsOK, RequestOf
<1>9. CASE RotateBurn(w) \/ RotateRevokeParent(w) \/ LoginIssue(w)
  BY <1>9, DeadEndAnswer DEF RotateBurn, RotateRevokeParent, LoginIssue
<1>10. CASE ChangeLoadUser(w) \/ ChangeUpdate(w) \/ ChangeRevokeAll(w)
  <2>1. /\ req[w].at \in {"loadUser", "update", "revokeAll"}
        /\ req[w].tok \in SessionIds /\ Present(req[w].tok) /\ req[w] \in Request
    BY <1>10
       DEF ChangeLoadUser, ChangeUpdate, ChangeRevokeAll, IInv, RequestsOK, RequestOf, TypeOK
  <2>2. CASE \E a \in {"refused", "error"} : Answer(w, a, req[w].tok)
    BY <2>2, DeadEndAnswer
  <2>3. CASE /\ req'[w].tok = req[w].tok
             /\ req'[w].at \notin {"children", "burn"}
             /\ req'[w].answer = req[w].answer \/ req'[w].answer # "invalid"
    BY <1>1, <2>1, <2>3 DEF DeadEnd, RowsKept
  <2>4. CASE Advance(w, "revokeAll")
    BY <2>1, <2>3, <2>4 DEF Advance, IInv, TypeOK, Request
  <2>5. CASE req' = [req EXCEPT ![w].at = "update", ![w].cred = pw[req[w].user]]
    BY <2>1, <2>3, <2>5 DEF IInv, TypeOK, Request
  <2>6. CASE ChangeRevokeAll(w)
    BY <2>1, <2>3, <2>6 DEF ChangeRevokeAll, IInv, TypeOK, Request
  <2>7. QED
    BY <1>10, <2>2, <2>4, <2>5, <2>6 DEF ChangeLoadUser, ChangeUpdate
<1>11. ASSUME NEW v \in Workers \ {w}, Continue(v) PROVE Same
  BY <1>11
     DEF Continue, RotateHasChildren, RotateBurn, RotateExpire, RotateInsert,
         RotateRevokeParent, LoginIssue, ChangeLoadUser, ChangeUpdate,
         ChangeRevokeAll, Advance, Answer, IInv, TypeOK
<1>12. ASSUME NEW v \in Workers \ {w}, NEW t \in SessionIds \cup {None},
              RotateLookup(v, t) PROVE Same
  BY <1>12 DEF RotateLookup, Answer, Begin, IInv, TypeOK
<1>13. ASSUME NEW v \in Workers \ {w}, NEW u \in Users, LoginLookup(v, u) PROVE Same
  BY <1>13 DEF LoginLookup, Begin, IInv, TypeOK
<1>14. ASSUME NEW v \in Workers \ {w}, NEW t \in SessionIds,
              Logout(v, t) \/ ChangeAuth(v, t) PROVE Same
  BY <1>14 DEF Logout, ChangeAuth, Answer, Begin, IInv, TypeOK
<1>15. ASSUME Same PROVE DeadEnd(w)'
  BY <1>1, <1>15, DeadEndSame
<1>16. CASE Continue(w)
  BY <1>6, <1>7, <1>8, <1>9, <1>10, <1>16, Zenon DEF Continue
<1>17. CASE (\E i \in SessionIds : Expire(i)) \/ UNCHANGED vars
  BY <1>15, <1>17 DEF Expire, vars
<1>18. CASE \E v \in Workers : Continue(v)
  BY <1>11, <1>15, <1>16, <1>18
<1>19. CASE \E v \in Workers, t \in SessionIds \cup {None} : RotateLookup(v, t)
  BY <1>2, <1>12, <1>15, <1>19
<1>20. CASE \E v \in Workers, u \in Users : LoginLookup(v, u)
  BY <1>3, <1>13, <1>15, <1>20
<1>21. CASE \E v \in Workers, t \in SessionIds : Logout(v, t) \/ ChangeAuth(v, t)
  BY <1>4, <1>5, <1>14, <1>15, <1>21
<1>22. QED
  BY <1>17, <1>18, <1>19, <1>20, <1>21, Zenon DEF Next

\* While no statement has failed, "session invalid" is final: the token it is
\* said of is revoked, so clearing the browser's cookies loses no session that
\* works (auth.go:158-160, sessions.go:81-104).
THEOREM InvalidIsFinal == Spec => []InvalidMeansDead
<1> DEFINE Inv == ~failed => \A w \in Workers : DeadEnd(w)
<1>1. Init => Inv
  BY DEF Init, DeadEnd, IdleRequest
<1>2. IInv /\ Inv /\ [Next]_vars => Inv'
  <2> SUFFICES ASSUME IInv, Inv, [Next]_vars, ~failed', NEW w \in Workers
               PROVE  DeadEnd(w)'
    OBVIOUS
  <2>1. ~failed
    BY FailedStays
  <2>2. QED
    BY <2>1, DeadEndStep, SessionsAssumption
<1>3. Inv => InvalidMeansDead
  BY DEF DeadEnd, InvalidMeansDead
<1> HIDE DEF Inv
<1>4. QED
  BY <1>1, <1>2, <1>3, Invariance, PTL DEF Spec
-----------------------------------------------------------------------------
(***************************************************************************)
(* One request at a time: Sessions implements TokenFamilies                *)
(***************************************************************************)
\* The tokens of a family that may be presented and accepted.
Usable(i) == Live(i) /\ ~Pending(i)
Held(f)   == {i \in SessionIds : Usable(i) /\ table[i].family = f}

\* The state of TokenFamilies that a state of Sessions stands for.
Minted    == {i \in SessionIds : Present(i) /\ ~Pending(i)}
UsableNow == [f \in SessionIds |-> UsableToken(f)]

OneUsable ==
    \A i, j \in SessionIds :
        (Usable(i) /\ Usable(j) /\ table[i].family = table[j].family) => i = j

\* The token a rotation replaces is still live, and so is the one it has
\* inserted: nobody else has had a turn since the lookup.
Undisturbed(w) ==
    /\ req[w].at \in {"insert", "revoke"} => Live(req[w].tok)
    /\ req[w].at = "revoke" => Live(req[w].new) /\ req[w].new # req[w].tok

SerialInv == OneUsable /\ \A w \in Workers : Undisturbed(w)

\* Together with what one worker's step does to a request, an answer or an
\* early step leaves nothing undisturbed to show.
LEMMA UndisturbedStep ==
    ASSUME NEW w, Workers = {w}, req'[w].at \notin {"insert", "revoke"}
    PROVE  /\ \A v \in Workers : Undisturbed(v)'
           /\ \A i \in SessionIds : ~Pending(i)'
BY DEF Undisturbed, Pending

\* The token of a family, when it holds just one.
LEMMA UsableTokenIs ==
    ASSUME OneUsable, NEW f \in SessionIds, NEW i \in Held(f)
    PROVE  UsableToken(f) = i
<1>1. Held(f) = {i}
  BY DEF OneUsable, Held
<1>2. UsableToken(f) = CHOOSE j \in Held(f) : TRUE
  BY <1>1 DEF UsableToken, Held, Usable
<1>3. QED
  BY <1>1, <1>2

LEMMA NoUsableToken ==
    ASSUME NEW f \in SessionIds, Held(f) = {}
    PROVE  UsableToken(f) = None
BY DEF UsableToken, Held, Usable

\* A step that changes neither who holds a usable token nor what is handed out
\* is a stutter of TokenFamilies.
LEMMA StutterStep ==
    ASSUME OneUsable,
           \A i \in SessionIds : /\ Usable(i)' <=> Usable(i)
                                 /\ Usable(i) => table'[i].family = table[i].family
                                 /\ i \in Minted' <=> i \in Minted
    PROVE  OneUsable' /\ Minted' = Minted /\ UsableNow' = UsableNow
<1>1. Minted' = Minted
  BY DEF Minted
<1>2. ASSUME NEW f \in SessionIds PROVE UsableToken(f)' = UsableToken(f)
  <2>1. Held(f)' = Held(f)
    BY DEF Held
  <2>2. UsableToken(f) = IF Held(f) = {} THEN None ELSE CHOOSE i \in Held(f) : TRUE
    BY DEF UsableToken, Held, Usable
  <2>3. UsableToken(f)'
          = IF Held(f)' = {} THEN None ELSE CHOOSE i \in Held(f)' : TRUE
    BY DEF UsableToken, Held, Usable
  <2>4. QED
    BY <2>1, <2>2, <2>3
<1>3. QED
  BY <1>1, <1>2 DEF OneUsable, UsableNow
\* A step of TokenFamilies, or a stutter, seen from Sessions.
FamilyStep == [TF!Next]_<<Minted, UsableNow>>

LEMMA StutterIsFamilyStep ==
    ASSUME Minted' = Minted, UsableNow' = UsableNow
    PROVE  FamilyStep
BY DEF FamilyStep

\* Revoking rows while no rotation is half done closes the families that lose
\* their token by it.
LEMMA RevokeRowsCloses ==
    ASSUME IInv, OneUsable, NEW S, RevokeRows(S),
           \A i \in SessionIds : ~Pending(i) /\ ~Pending(i)'
    PROVE  OneUsable' /\ FamilyStep
<1> DEFINE F == {f \in SessionIds : Held(f)' = {}}
<1>1. \A i \in SessionIds : /\ Usable(i)' => Usable(i)
                            /\ Present(i)' <=> Present(i)
                            /\ table'[i].family = table[i].family
  BY DEF RevokeRows, Usable, IInv, TypeOK, Row
<1>2. OneUsable'
  BY <1>1 DEF OneUsable
<1>3. Minted' = Minted
  BY <1>1 DEF Minted
<1>4. ASSUME NEW f \in F PROVE UsableToken(f)' = None
  BY NoUsableToken, Zenon DEF UsableToken, Held, Usable
<1>5. ASSUME NEW f \in SessionIds \ F PROVE UsableToken(f)' = UsableToken(f)
  <2>1. PICK i \in SessionIds : Usable(i)' /\ table'[i].family = f
    BY <1>5 DEF Held
  <2>2. i \in Held(f) /\ i \in Held(f)'
    BY <1>1, <2>1 DEF Held
  <2>3. UsableToken(f) = i
    BY <2>2, UsableTokenIs
  <2>4. Held(f)' = {i}
    BY <1>2, <2>2 DEF OneUsable, Held
  <2>5. UsableToken(f)' = CHOOSE j \in Held(f)' : TRUE
    BY <2>4 DEF UsableToken, Held, Usable
  <2>6. QED
    BY <2>3, <2>4, <2>5
<1>6. F \in SUBSET SessionIds
  OBVIOUS
<1> HIDE DEF F
<1>7. UsableNow' = [f \in SessionIds |-> IF f \in F THEN None ELSE UsableNow[f]]
  BY <1>4, <1>5, <1>6 DEF UsableNow
<1>8. TF!Close(F)
  BY <1>3, <1>7 DEF TF!Close, Minted, UsableNow
<1>9. QED
  BY <1>2, <1>6, <1>8 DEF FamilyStep, TF!Next

\* One row changes hands: i comes to be the usable token of its family, which
\* has had no other left, and everything else stays.
LEMMA TokenTakesOver ==
    ASSUME OneUsable', NEW i \in SessionIds, NEW f \in SessionIds,
           i \in Held(f)', \A g \in SessionIds \ {f} : Held(g)' = Held(g)
    PROVE  UsableNow' = [UsableNow EXCEPT ![f] = i]
<1>1. Held(f)' = {i}
  BY DEF OneUsable, Held
<1>2. UsableToken(f)' = CHOOSE j \in Held(f)' : TRUE
  BY <1>1 DEF UsableToken, Held, Usable
<1>3. UsableToken(f)' = i
  BY <1>1, <1>2
<1>4. ASSUME NEW g \in SessionIds \ {f} PROVE UsableToken(g)' = UsableToken(g)
  <2>1. UsableToken(g) = IF Held(g) = {} THEN None ELSE CHOOSE j \in Held(g) : TRUE
    BY DEF UsableToken, Held, Usable
  <2>2. UsableToken(g)'
          = IF Held(g)' = {} THEN None ELSE CHOOSE j \in Held(g)' : TRUE
    BY DEF UsableToken, Held, Usable
  <2>3. Held(g)' = Held(g)
    OBVIOUS
  <2>4. QED
    BY <2>1, <2>2, <2>3
<1>5. QED
  BY <1>3, <1>4 DEF UsableNow

\* The login's session founds a family of its own.
LEMMA IssueOpens ==
    ASSUME IInv, SerialInv, SessionsAssumption, NEW w, Workers = {w}, LoginIssue(w),
           ~DBFaults
    PROVE  SerialInv' /\ FamilyStep
<1>0. PICK n : n = req[w].new
  OBVIOUS
<1>1. /\ req[w].at = "issue" /\ n \in SessionIds /\ ~Present(n)
      /\ req[w].user \in Users /\ req[w].cred \in Nat
  BY <1>0 DEF LoginIssue, IInv, TypeOK, RequestsOK, RequestOf, Request
<1>2. CreateSession(n, req[w].user, n, None, req[w].cred) /\ Answer(w, "loggedIn", n)
  BY <1>0 DEF LoginIssue, Fails
<1>3. /\ Live(n)' /\ table'[n].family = n
      /\ \A j \in SessionIds \ {n} : table'[j] = table[j]
  BY <1>1, <1>2, CreateSessionEffect DEF IInv
<1>4. req'[w].at = "idle"
  BY <1>2 DEF Answer, IdleRequest, IInv, TypeOK
<1>5. \A i \in SessionIds : ~Pending(i) /\ ~Pending(i)'
  BY <1>1, <1>4 DEF Pending
<1>6. \A j \in SessionIds \ {n} : /\ Usable(j)' <=> Usable(j)
                                  /\ Present(j) => table[j].family # n
  BY <1>1, <1>3, <1>5 DEF Usable, IInv, Lineage, LineageOf
<1>7. OneUsable'
  BY <1>3, <1>6 DEF OneUsable, SerialInv, Usable
<1>8. Minted' = Minted \cup {n} /\ n \notin Minted
  BY <1>1, <1>3, <1>5 DEF Minted
<1>9. n \in Held(n)' /\ \A g \in SessionIds \ {n} : Held(g)' = Held(g)
  BY <1>1, <1>3, <1>5, <1>6 DEF Held, Usable
<1>10. UsableNow' = [UsableNow EXCEPT ![n] = n]
  BY <1>1, <1>7, <1>9, TokenTakesOver
<1>11. TF!Open(n)
  BY <1>8, <1>10 DEF TF!Open, Minted, UsableNow
<1>12. QED
  BY <1>1, <1>4, <1>7, <1>11, UndisturbedStep DEF SerialInv, FamilyStep, TF!Next

\* The end of a rotation: the child takes the place of its parent.
LEMMA RevokeParentReplaces ==
    ASSUME IInv, SerialInv, SessionsAssumption, NEW w, Workers = {w},
           RotateRevokeParent(w), ~DBFaults
    PROVE  SerialInv' /\ FamilyStep
<1>0. PICK t, n, f : t = req[w].tok /\ n = req[w].new /\ f = table[t].family
  OBVIOUS
<1>1. /\ req[w].at = "revoke" /\ t \in SessionIds /\ Live(t)
      /\ n \in SessionIds /\ Live(n) /\ table[n].parent = t /\ n # t
  BY <1>0 DEF RotateRevokeParent, IInv, RequestsOK, RequestOf, SerialInv, Undisturbed
<1>2. f \in SessionIds /\ table[n].family = f
  <2>1. LineageOf(n) /\ LineageOf(t) /\ t # None
    BY <1>1, SessionsAssumption DEF IInv, Lineage, SessionsAssumption
  <2>2. QED
    BY <1>0, <1>1, <2>1 DEF LineageOf
<1>3. RevokeRows({t}) /\ Answer(w, "rotated", t)
  BY <1>0 DEF RotateRevokeParent, BestEffort, RevokeSession, Fails
<1>4. req'[w].at = "idle"
  BY <1>3 DEF Answer, IdleRequest, IInv, TypeOK
<1>5. \A i \in SessionIds : (Pending(i) <=> i = n) /\ ~Pending(i)'
  BY <1>0, <1>1, <1>4 DEF Pending
<1>6. /\ table'[t].status = "revoked"
      /\ \A i \in SessionIds \ {t} : table'[i] = table[i]
  BY <1>1, <1>3, RevokeRowsEffect DEF IInv
<1>7. /\ t \in Held(f)
      /\ ~Usable(t)'
      /\ n \in Held(f)'
      /\ \A i \in SessionIds \ {t, n} : Usable(i)' <=> Usable(i)
  <2>1. t \in Held(f) /\ ~Usable(t)'
    BY <1>0, <1>1, <1>5, <1>6 DEF Held, Usable
  <2>2. table'[n] = table[n] /\ Usable(n)'
    BY <1>1, <1>5, <1>6 DEF Usable
  <2>3. n \in Held(f)'
    BY <1>1, <1>2, <2>2 DEF Held
  <2>4. \A i \in SessionIds \ {t, n} : Usable(i)' <=> Usable(i)
    BY <1>5, <1>6 DEF Usable
  <2>5. QED
    BY <2>1, <2>2, <2>3, <2>4
<1>8. ASSUME NEW i \in SessionIds \ {t}, Usable(i), table[i].family = f
      PROVE  FALSE
  BY <1>1, <1>7, <1>8 DEF SerialInv, OneUsable, Held
<1>9. OneUsable'
  BY <1>2, <1>6, <1>7, <1>8 DEF OneUsable, SerialInv
<1>10. \A g \in SessionIds \ {f} : Held(g)' = Held(g)
  BY <1>1, <1>2, <1>6, <1>7 DEF Held
<1>11. UsableToken(f) = t /\ t # None
  BY <1>1, <1>2, <1>7, UsableTokenIs DEF SerialInv, SessionsAssumption
<1>12. UsableNow' = [UsableNow EXCEPT ![f] = n]
  BY <1>1, <1>2, <1>7, <1>9, <1>10, TokenTakesOver
<1>13. Minted' = Minted \cup {n} /\ n \notin Minted
  BY <1>1, <1>5, <1>6 DEF Minted
<1>14. TF!Replace(f, n)
  BY <1>2, <1>11, <1>12, <1>13 DEF TF!Replace, Minted, UsableNow
<1>15. QED
  BY <1>1, <1>2, <1>4, <1>9, <1>14, UndisturbedStep DEF SerialInv, FamilyStep, TF!Next
\* The child is inserted, but nobody has been told of it.
LEMMA InsertStutters ==
    ASSUME IInv, SerialInv, SessionsAssumption, NEW w, Workers = {w},
           RotateInsert(w), ~DBFaults
    PROVE  SerialInv' /\ FamilyStep
<1>0. PICK t, n : t = req[w].tok /\ n = req[w].new
  OBVIOUS
<1>1. /\ req[w].at = "insert" /\ req[w] \in Request
      /\ n \in SessionIds /\ ~Present(n) /\ t \in SessionIds /\ Live(t) /\ t # n
  BY <1>0 DEF RotateInsert, IInv, TypeOK, RequestsOK, RequestOf, SerialInv, Undisturbed
<1>2. /\ CreateSession(n, table[t].user, table[t].family, t, table[t].cred)
      /\ Advance(w, "revoke")
  BY <1>0 DEF RotateInsert, Fails
<1>3. req'[w].at = "revoke" /\ req'[w].tok = t /\ req'[w].new = n
  <2>1. req'[w] = [req[w] EXCEPT !.at = "revoke"]
    BY <1>2 DEF Advance, IInv, TypeOK
  <2>2. QED
    BY <1>0, <1>1, <2>1 DEF Request
<1>4. Live(n)' /\ \A j \in SessionIds \ {n} : table'[j] = table[j]
  <2>1. /\ table[t].user \in Users /\ table[t].family \in SessionIds
        /\ table[t].cred \in Nat
    BY <1>1 DEF IInv, Lineage, LineageOf, TypeOK, Row
  <2>2. QED
    BY <1>1, <1>2, <2>1, CreateSessionEffect DEF IInv
<1>5. \A i \in SessionIds : ~Pending(i) /\ (Pending(i)' <=> i = n)
  BY <1>1, <1>3 DEF Pending
<1>6. \A i \in SessionIds : /\ Usable(i)' <=> Usable(i)
                            /\ Usable(i) => table'[i].family = table[i].family
                            /\ i \in Minted' <=> i \in Minted
  BY <1>1, <1>4, <1>5 DEF Usable, Minted
<1>7. OneUsable' /\ FamilyStep
  BY <1>6, StutterStep, StutterIsFamilyStep DEF SerialInv
<1>8. Undisturbed(w)'
  BY <1>1, <1>3, <1>4 DEF Undisturbed
<1>9. QED
  BY <1>7, <1>8 DEF SerialInv

\* Statements that only read.
LEMMA ReadStutters ==
    ASSUME SerialInv, NEW w, Workers = {w}, table' = table,
           req[w].at # "revoke", req'[w].at # "revoke",
           req'[w].at = "insert" => Live(req'[w].tok)
    PROVE  SerialInv' /\ FamilyStep
<1>1. \A i \in SessionIds : ~Pending(i) /\ ~Pending(i)'
  BY DEF Pending
<1>2. \A i \in SessionIds : /\ Usable(i)' <=> Usable(i)
                            /\ Usable(i) => table'[i].family = table[i].family
                            /\ i \in Minted' <=> i \in Minted
  BY <1>1 DEF Usable, Minted
<1>3. OneUsable' /\ FamilyStep
  BY <1>2, StutterStep, StutterIsFamilyStep DEF SerialInv
<1>4. QED
  BY <1>3 DEF SerialInv, Undisturbed

\* Statements that revoke, and end the request they belong to.
LEMMA RevokingCloses ==
    ASSUME IInv, SerialInv, NEW w, Workers = {w}, NEW S, RevokeRows(S),
           req[w].at # "revoke", req'[w].at = "idle"
    PROVE  SerialInv' /\ FamilyStep
<1>1. /\ \A v \in Workers : Undisturbed(v)'
      /\ \A i \in SessionIds : ~Pending(i) /\ ~Pending(i)'
  BY UndisturbedStep DEF Pending
<1>2. QED
  BY <1>1, RevokeRowsCloses DEF SerialInv

LEMMA BeginIsRead ==
    ASSUME IInv, NEW w \in Workers,
           \/ \E t \in SessionIds \cup {None} : RotateLookup(w, t)
           \/ \E u \in Users : LoginLookup(w, u)
           \/ \E t \in SessionIds : ChangeAuth(w, t)
    PROVE  /\ table' = table
           /\ req[w].at # "revoke" /\ req'[w].at # "revoke"
           /\ req'[w].at = "insert" => Live(req'[w].tok)
<1> USE DEF IInv, TypeOK, Idle, Begin, Answer, IdleRequest
<1>1. ASSUME NEW t \in SessionIds \cup {None}, RotateLookup(w, t)
      PROVE  /\ table' = table
             /\ req[w].at # "revoke" /\ req'[w].at # "revoke"
             /\ req'[w].at = "insert" => Live(req'[w].tok)
  BY <1>1 DEF RotateLookup
<1>2. ASSUME NEW u \in Users, LoginLookup(w, u)
      PROVE  table' = table /\ req[w].at = "idle" /\ req'[w].at = "issue"
  BY <1>2 DEF LoginLookup
<1>3. ASSUME NEW t \in SessionIds, ChangeAuth(w, t)
      PROVE  table' = table /\ req[w].at = "idle" /\ req'[w].at = "loadUser"
  BY <1>3 DEF ChangeAuth
<1>4. QED
  BY <1>1, <1>2, <1>3

LEMMA ContinueIsRead ==
    ASSUME IInv, NEW w \in Workers,
           RotateHasChildren(w) \/ ChangeLoadUser(w) \/ ChangeUpdate(w)
    PROVE  /\ table' = table
           /\ req[w].at # "revoke" /\ req'[w].at \notin {"insert", "revoke"}
<1>0. req \in [Workers -> Request] /\ req[w] \in Request
  BY DEF IInv, TypeOK
<1>1. ASSUME NEW a, NEW t, Answer(w, a, t) PROVE req'[w].at = "idle"
  BY <1>0, <1>1 DEF Answer, IdleRequest
<1>2. ASSUME NEW s, Advance(w, s) PROVE req'[w].at = s
  BY <1>0, <1>2 DEF Advance, Request
<1>3. CASE RotateHasChildren(w)
  BY <1>1, <1>2, <1>3 DEF RotateHasChildren
<1>4. CASE ChangeLoadUser(w)
  <2>1. ASSUME req' = [req EXCEPT ![w].at = "update", ![w].cred = pw[req[w].user]]
        PROVE  req'[w].at = "update"
    BY <1>0, <2>1 DEF Request
  <2>2. QED
    BY <1>1, <1>4, <2>1 DEF ChangeLoadUser
<1>5. CASE ChangeUpdate(w)
  BY <1>1, <1>2, <1>5 DEF ChangeUpdate
<1>6. QED
  BY <1>3, <1>4, <1>5

LEMMA RevokingEnds ==
    ASSUME IInv, ~DBFaults, NEW w \in Workers,
           \/ RotateBurn(w) \/ RotateExpire(w) \/ ChangeRevokeAll(w)
           \/ \E t \in SessionIds : Logout(w, t)
    PROVE  /\ \E S : RevokeRows(S)
           /\ req[w].at # "revoke" /\ req'[w].at = "idle"
<1>0. req \in [Workers -> Request] /\ req[w] \in Request
  BY DEF IInv, TypeOK
<1>1. ASSUME NEW a, NEW t, Answer(w, a, t) PROVE req'[w].at = "idle"
  BY <1>0, <1>1 DEF Answer, IdleRequest
<1> USE DEF BestEffort, Fails, RevokeSession, RevokeFamily, RevokeAllForUser
<1>2. CASE RotateBurn(w)
  BY <1>1, <1>2, Zenon DEF RotateBurn
<1>3. CASE RotateExpire(w)
  BY <1>1, <1>3, Zenon DEF RotateExpire
<1>4. CASE ChangeRevokeAll(w)
  <2>1. req'[w].at = "idle"
    BY <1>0, <1>4 DEF ChangeRevokeAll, Request
  <2>2. QED
    BY <1>4, <2>1, Zenon DEF ChangeRevokeAll
<1>5. ASSUME NEW t \in SessionIds, Logout(w, t)
      PROVE  (\E S : RevokeRows(S)) /\ req[w].at # "revoke" /\ req'[w].at = "idle"
  BY <1>1, <1>5, Zenon DEF Logout, Idle
<1>6. QED
  BY <1>2, <1>3, <1>4, <1>5

\* Time that passes, or nothing at all.
LEMMA ExpireStutters ==
    ASSUME IInv, SerialInv, req' = req,
           (\E i \in SessionIds : Expire(i)) \/ table' = table
    PROVE  SerialInv' /\ FamilyStep
<1>1. \A i \in SessionIds : /\ table'[i].status = table[i].status
                            /\ table'[i].family = table[i].family
  BY DEF Expire, IInv, TypeOK, Row
<1>2. \A i \in SessionIds : Pending(i)' <=> Pending(i)
  BY DEF Pending
<1>3. \A i \in SessionIds : /\ Usable(i)' <=> Usable(i)
                            /\ Usable(i) => table'[i].family = table[i].family
                            /\ i \in Minted' <=> i \in Minted
  BY <1>1, <1>2 DEF Usable, Minted
<1>4. OneUsable' /\ FamilyStep
  BY <1>3, StutterStep, StutterIsFamilyStep DEF SerialInv
<1>5. ASSUME NEW v \in Workers PROVE Undisturbed(v)'
  BY <1>1 DEF SerialInv, Undisturbed, IInv, RequestsOK, RequestOf
<1>6. QED
  BY <1>4, <1>5 DEF SerialInv

LEMMA SerialStep ==
    ASSUME IInv, SerialInv, SessionsAssumption, NEW w, Workers = {w}, ~DBFaults,
           [Next]_vars
    PROVE  SerialInv' /\ FamilyStep
<1>1. CASE Continue(w)
  <2>1. CASE RotateHasChildren(w) \/ ChangeLoadUser(w) \/ ChangeUpdate(w)
    BY <2>1, ContinueIsRead, ReadStutters
  <2>2. CASE RotateBurn(w) \/ RotateExpire(w) \/ ChangeRevokeAll(w)
    BY <2>2, RevokingEnds, RevokingCloses
  <2>3. QED
    BY <1>1, <2>1, <2>2, InsertStutters, RevokeParentReplaces, IssueOpens, Zenon
       DEF Continue
<1>2. CASE \/ \E t \in SessionIds \cup {None} : RotateLookup(w, t)
           \/ \E u \in Users : LoginLookup(w, u)
           \/ \E t \in SessionIds : ChangeAuth(w, t)
  BY <1>2, BeginIsRead, ReadStutters
<1>3. CASE \E t \in SessionIds : Logout(w, t)
  BY <1>3, RevokingEnds, RevokingCloses
<1>4. CASE (\E i \in SessionIds : Expire(i)) \/ UNCHANGED vars
  BY <1>4, ExpireStutters DEF Expire, vars
<1>5. QED
  BY <1>1, <1>2, <1>3, <1>4, Zenon DEF Next

\* With one request at a time and no failing statement the four handlers do to
\* the sessions table what TokenFamilies does in one step each: a rotation
\* replaces the one usable token of a family when it revokes the parent, a
\* login opens a family, and logout, expiry, reuse and a password change close
\* families, for good (sessions.go:53-146, docs/SECURITY.md:36-37).
THEOREM RotationRefines ==
    ASSUME NEW w, Workers = {w}, ~DBFaults
    PROVE  Spec => FamilyContract
<1>1. Init => SerialInv
  BY DEF Init, SerialInv, OneUsable, Usable, Undisturbed, AbsentRow, IdleRequest
<1>2. Init => TF!Init
  BY DEF Init, TF!Init, UsableToken, AbsentRow
<1>3. IInv /\ SerialInv /\ [Next]_vars => SerialInv' /\ FamilyStep
  BY SerialStep, SessionsAssumption
<1>4. FamilyStep <=> [TF!Next]_<<Minted, UsableNow>>
  BY DEF FamilyStep
<1>5. QED
  BY <1>1, <1>2, <1>3, <1>4, Invariance, PTL
     DEF Spec, FamilyContract, TF!Spec, Minted, UsableNow
=============================================================================
