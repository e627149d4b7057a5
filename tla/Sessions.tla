------------------------------ MODULE Sessions ------------------------------
(***************************************************************************)
(* Refresh-token rotation: internal/auth/sessions.go over the sessions     *)
(* table of internal/store/sessions.go, as the login, refresh, logout and  *)
(* change-password handlers drive it.                                      *)
(*                                                                         *)
(* No handler opens a transaction, so the unit of atomicity is one SQL     *)
(* statement: every action below is one statement of one request, and      *)
(* requests of different workers interleave between statements.  With      *)
(* DBFaults a statement may also fail without effect (a full disk, a lock  *)
(* held for longer than busy_timeout), and each handler does what the code *)
(* does with the error, which is often to ignore it.                       *)
(*                                                                         *)
(* Abstractions: a session id stands for the refresh token whose id it is  *)
(* (a token with a wrong secret behaves as an unknown one, None); a family *)
(* is named by the id of its first session; a password is its version      *)
(* number; bcrypt, TOTP and the CSRF and access tokens are left out.       *)
(***************************************************************************)
EXTENDS Naturals

CONSTANTS
    Users,        \* accounts
    SessionIds,   \* the ids MintRefreshToken can return; finite for TLC
    Workers,      \* requests the server handles at the same time
    None,         \* no session, no user, an unknown token
    MaxPassword,  \* bound: password changes per account
    DBFaults      \* whether a statement may fail

ASSUME SessionsAssumption ==
    /\ None \notin SessionIds
    /\ None \notin Users
    /\ MaxPassword \in Nat
    /\ DBFaults \in BOOLEAN

VARIABLES
    table,  \* the sessions table, by id
    req,    \* what each worker is doing, and the answer it gave last
    pw,     \* users.password_hash, as a version
    audit,  \* the actions audit_log has an entry for
    failed  \* whether a statement has failed so far (history)

vars == <<table, req, pw, audit, failed>>

-----------------------------------------------------------------------------
\* cred is a history field: the password version the login that founded the
\* family was checked against.  No action reads it.
Row == [status  : {"absent", "live", "revoked"},
        expired : BOOLEAN,
        user    : Users \cup {None},
        family  : SessionIds \cup {None},
        parent  : SessionIds \cup {None},
        cred    : Nat]

AbsentRow == [status |-> "absent", expired |-> FALSE, user |-> None,
              family |-> None, parent |-> None, cred |-> 0]

Steps == {"idle",                                     \* between requests
          "insert", "revoke",                         \* Rotate, accepting
          "children", "burn", "expire",               \* Rotate, refusing
          "issue",                                    \* login
          "loadUser", "update", "revokeAll"}          \* change password

Answers == {"none", "rotated", "reuse", "invalid", "error",
            "loggedIn", "loggedOut", "changed", "refused"}

Request == [at    : Steps,
            tok   : SessionIds \cup {None},   \* the token presented
            new   : SessionIds \cup {None},   \* the id minted
            user  : Users \cup {None},
            cred  : Nat,                      \* the password hash read
            answer: Answers]

IdleRequest == [at |-> "idle", tok |-> None, new |-> None, user |-> None,
                cred |-> 0, answer |-> "none"]

AuditActions == {"auth.login", "auth.logout", "auth.refresh",
                 "settings.change_password"}

TypeOK ==
    /\ table \in [SessionIds -> Row]
    /\ req \in [Workers -> Request]
    /\ pw \in [Users -> Nat]
    /\ audit \in SUBSET AuditActions
    /\ failed \in BOOLEAN

Init ==
    /\ table = [i \in SessionIds |-> AbsentRow]
    /\ req = [w \in Workers |-> IdleRequest]
    /\ pw = [u \in Users |-> 0]
    /\ audit = {}
    /\ failed = FALSE

-----------------------------------------------------------------------------
\* The statements of internal/store/sessions.go.

Present(i) == table[i].status # "absent"
Live(i)    == table[i].status = "live"
Revoked(i) == table[i].status = "revoked"

Children(t) == {i \in SessionIds : Present(i) /\ table[i].parent = t}
Family(f)   == {i \in SessionIds : Present(i) /\ table[i].family = f}

CreateSession(i, u, f, p, c) ==
    table' = [table EXCEPT ![i] =
                [status |-> "live", expired |-> FALSE, user |-> u,
                 family |-> f, parent |-> p, cred |-> c]]

\* UPDATE ... SET revoked_at WHERE <S> AND revoked_at IS NULL
RevokeRows(S) ==
    table' = [i \in SessionIds |->
                IF i \in S /\ Live(i)
                THEN [table[i] EXCEPT !.status = "revoked"] ELSE table[i]]

RevokeSession(t)    == RevokeRows({t})
RevokeFamily(f)     == RevokeRows(Family(f))
RevokeAllForUser(u) == RevokeRows({i \in SessionIds : table[i].user = u})

Succeeds == UNCHANGED failed
Fails    == DBFaults /\ failed' = TRUE

\* A statement whose error the caller drops: it ran, or it changed nothing.
BestEffort(statement) ==
    \/ statement /\ Succeeds
    \/ Fails /\ UNCHANGED table

WriteAudit(a) ==
    \/ audit' = audit \cup {a}
    \/ DBFaults /\ UNCHANGED audit

-----------------------------------------------------------------------------
\* Requests.

Idle(w) == req[w].at = "idle"

Advance(w, step) == req' = [req EXCEPT ![w].at = step]

Begin(w, r) == Idle(w) /\ req' = [req EXCEPT ![w] = r]

Answer(w, a, t) ==
    req' = [req EXCEPT ![w] = [IdleRequest EXCEPT !.answer = a, !.tok = t]]

\* Ids nobody has used: absent from the table and not minted by a request
\* that is still to insert them.
Fresh == {i \in SessionIds : ~Present(i) /\ \A w \in Workers : req[w].new # i}

\* Tokens a browser can hold: those whose answer has been sent.  The child of
\* a rotation is in the table before that.
Sent == {i \in SessionIds : Present(i) /\ \A w \in Workers : req[w].new # i}

-----------------------------------------------------------------------------
\* Mutants of the handlers: each is the action it is named after with one
\* plausible mistake.

\* A revoked row is accepted.
RotateLookupUnchecked(w, t) ==
    /\ Idle(w)
    /\ t \in Sent
    /\ \E i \in Fresh :
          Begin(w, [IdleRequest EXCEPT !.at = "insert", !.tok = t, !.new = i])
    /\ UNCHANGED <<table, pw, audit, failed>>

\* HasSessionChildren asks for the row's own parent.
RotateHasParent(w) ==
    /\ req[w].at = "children"
    /\ UNCHANGED <<table, pw, audit, failed>>
    /\ IF table[req[w].tok].parent # None
       THEN Advance(w, "burn")
       ELSE Answer(w, "invalid", req[w].tok)

\* An expired session is refused but not revoked.
RotateExpireOnly(w) ==
    /\ req[w].at = "expire"
    /\ Answer(w, "invalid", req[w].tok)
    /\ UNCHANGED <<table, pw, audit, failed>>

\* The child is revoked instead of the parent.
RotateRevokeChild(w) ==
    /\ req[w].at = "revoke"
    /\ BestEffort(RevokeSession(req[w].new))
    /\ Answer(w, "rotated", req[w].tok)
    /\ UNCHANGED <<pw, audit>>

-----------------------------------------------------------------------------
(***************************************************************************)
(* POST /api/auth/refresh: Manager.Rotate                                  *)
(***************************************************************************)
\* SessionByID and the checks on the row it returned.  The row is not read
\* again: what follows acts on this snapshot.  A failed query is answered
\* like an unknown session.
RotateLookup(w, t) ==
    /\ Idle(w)
    /\ UNCHANGED <<table, pw, audit>>
    /\ \/ /\ t = None
          /\ Answer(w, "invalid", t)
          /\ Succeeds
       \/ /\ t \in Sent
          /\ Answer(w, "invalid", t)
          /\ Fails
       \/ /\ t \in Sent /\ Revoked(t)
          /\ Begin(w, [IdleRequest EXCEPT !.at = "children", !.tok = t])
          /\ Succeeds
       \/ /\ t \in Sent /\ Live(t) /\ table[t].expired
          /\ Begin(w, [IdleRequest EXCEPT !.at = "expire", !.tok = t])
          /\ Succeeds
       \/ /\ t \in Sent /\ Live(t) /\ ~table[t].expired
          /\ \E i \in Fresh :
                Begin(w, [IdleRequest EXCEPT !.at = "insert", !.tok = t, !.new = i])
          /\ Succeeds

\* HasSessionChildren; its error counts as "no children".
RotateHasChildren(w) ==
    /\ req[w].at = "children"
    /\ UNCHANGED <<table, pw, audit>>
    /\ \/ /\ Children(req[w].tok) # {}
          /\ Advance(w, "burn")
          /\ Succeeds
       \/ /\ (Children(req[w].tok) = {} /\ Succeeds) \/ Fails
          /\ Answer(w, "invalid", req[w].tok)

\* Replay of a rotated token: RevokeFamily, then the audit entry.
RotateBurn(w) ==
    /\ req[w].at = "burn"
    /\ BestEffort(RevokeFamily(table[req[w].tok].family))
    /\ WriteAudit("auth.refresh")
    /\ Answer(w, "reuse", req[w].tok)
    /\ UNCHANGED pw

RotateExpire(w) ==
    /\ req[w].at = "expire"
    /\ BestEffort(RevokeSession(req[w].tok))
    /\ Answer(w, "invalid", req[w].tok)
    /\ UNCHANGED <<pw, audit>>

\* UserByID (a failure is "invalid") and the INSERT of the child (a failure
\* is an internal error).
RotateInsert(w) ==
    /\ req[w].at = "insert"
    /\ LET t == req[w].tok
           s == table[t]
       IN  \/ /\ CreateSession(req[w].new, s.user, s.family, t, s.cred)
              /\ Advance(w, "revoke")
              /\ Succeeds
           \/ /\ Fails
              /\ \E a \in {"invalid", "error"} : Answer(w, a, t)
              /\ UNCHANGED table
    /\ UNCHANGED <<pw, audit>>

\* RevokeSession of the parent; its error is dropped.  A successful rotation
\* writes no audit entry.
RotateRevokeParent(w) ==
    /\ req[w].at = "revoke"
    /\ BestEffort(RevokeSession(req[w].tok))
    /\ Answer(w, "rotated", req[w].tok)
    /\ UNCHANGED <<pw, audit>>

(***************************************************************************)
(* POST /api/auth/login, from the read of the user row on                  *)
(***************************************************************************)
\* UserByUsername; the password given is checked against this row.
LoginLookup(w, u) ==
    /\ \E i \in Fresh :
          Begin(w, [IdleRequest EXCEPT !.at = "issue", !.user = u,
                                       !.cred = pw[u], !.new = i])
    /\ UNCHANGED <<table, pw, audit, failed>>

\* Manager.Issue: a session with no parent, the first of its family.
LoginIssue(w) ==
    /\ req[w].at = "issue"
    /\ \/ /\ CreateSession(req[w].new, req[w].user, req[w].new, None, req[w].cred)
          /\ WriteAudit("auth.login")
          /\ Answer(w, "loggedIn", req[w].new)
          /\ Succeeds
       \/ /\ Fails
          /\ Answer(w, "error", None)
          /\ UNCHANGED <<table, audit>>
    /\ UNCHANGED pw

(***************************************************************************)
(* POST /api/auth/logout: one statement, whatever state the session is in  *)
(***************************************************************************)
Logout(w, t) ==
    /\ Idle(w)
    /\ t \in Sent
    /\ BestEffort(RevokeSession(t))
    /\ WriteAudit("auth.logout")
    /\ Answer(w, "loggedOut", t)
    /\ UNCHANGED pw

(***************************************************************************)
(* POST /api/settings/password                                             *)
(***************************************************************************)
\* RequireAuth: the session the access token names is not revoked.  Its
\* expiry is not looked at.
ChangeAuth(w, t) ==
    /\ t \in Sent
    /\ Live(t)
    /\ Begin(w, [IdleRequest EXCEPT !.at = "loadUser", !.tok = t,
                                    !.user = table[t].user])
    /\ UNCHANGED <<table, pw, audit, failed>>

\* RequireAuth's UserByID, and the handler's check of the current password
\* against that row.
ChangeLoadUser(w) ==
    /\ req[w].at = "loadUser"
    /\ \/ /\ req' = [req EXCEPT ![w].at = "update", ![w].cred = pw[req[w].user]]
          /\ UNCHANGED audit
       \/ /\ Answer(w, "refused", req[w].tok)
          /\ WriteAudit("settings.change_password")
    /\ UNCHANGED <<table, pw, failed>>

\* UpdatePassword.  At the bound it is refused as if it had failed.
ChangeUpdate(w) ==
    /\ req[w].at = "update"
    /\ \/ /\ pw[req[w].user] < MaxPassword
          /\ pw' = [pw EXCEPT ![req[w].user] = @ + 1]
          /\ Advance(w, "revokeAll")
          /\ Succeeds
       \/ /\ Fails \/ (pw[req[w].user] >= MaxPassword /\ Succeeds)
          /\ Answer(w, "error", req[w].tok)
          /\ UNCHANGED pw
    /\ UNCHANGED <<table, audit>>

\* RevokeAllForUser, its error dropped, and the audit entry.
ChangeRevokeAll(w) ==
    /\ req[w].at = "revokeAll"
    /\ BestEffort(RevokeAllForUser(req[w].user))
    /\ WriteAudit("settings.change_password")
    /\ req' = [req EXCEPT ![w].at = "idle", ![w].answer = "changed"]
    /\ UNCHANGED pw

-----------------------------------------------------------------------------
\* Seven days pass for a session that was not rotated.
Expire(i) ==
    /\ Present(i)
    /\ ~table[i].expired
    /\ table' = [table EXCEPT ![i].expired = TRUE]
    /\ UNCHANGED <<req, pw, audit, failed>>

\* The statements of a request that has begun.
Continue(w) ==
    \/ RotateHasChildren(w)
    \/ RotateBurn(w)
    \/ RotateExpire(w)
    \/ RotateInsert(w)
    \/ RotateRevokeParent(w)
    \/ LoginIssue(w)
    \/ ChangeLoadUser(w)
    \/ ChangeUpdate(w)
    \/ ChangeRevokeAll(w)

Next ==
    \/ \E w \in Workers, t \in SessionIds \cup {None} : RotateLookup(w, t)
    \/ \E w \in Workers, u \in Users : LoginLookup(w, u)
    \/ \E w \in Workers, t \in SessionIds : Logout(w, t)
    \/ \E w \in Workers, t \in SessionIds : ChangeAuth(w, t)
    \/ \E w \in Workers : Continue(w)
    \/ \E i \in SessionIds : Expire(i)

\* A request that has begun runs to its answer: fasthttp runs each handler on
\* its own goroutine and no handler blocks on another.  Nobody is obliged to
\* send a request.
Spec == Init /\ [][Next]_vars /\ \A w \in Workers : WF_vars(Continue(w))

-----------------------------------------------------------------------------
(***************************************************************************)
(* Properties                                                              *)
(***************************************************************************)
\* The parent, the family and the account of a row fit together.
LineageOf(i) ==
    /\ table[i].user \in Users
    /\ table[i].family \in SessionIds
    /\ Present(table[i].family)
    /\ table[table[i].family].parent = None
    /\ table[i].parent = None => table[i].family = i
    /\ table[i].parent # None =>
         /\ Present(table[i].parent)
         /\ table[table[i].parent].family = table[i].family
         /\ table[table[i].parent].user = table[i].user
         /\ table[table[i].parent].cred = table[i].cred

\* A session has the family, the account and the credential of its parent,
\* and a family is named by a session that has no parent: what RevokeFamily
\* needs to reach every descendant of a login (sessions.go:117-126), whatever
\* requests interleave.
Lineage == \A i \in SessionIds : Present(i) => LineageOf(i)

RequestOf(w) ==
    /\ req[w].at \in {"insert", "issue"} =>
         req[w].new \in SessionIds /\ ~Present(req[w].new)
    /\ req[w].at = "revoke" =>
         /\ req[w].new \in SessionIds
         /\ Present(req[w].new)
         /\ table[req[w].new].parent = req[w].tok
    /\ req[w].at \notin {"insert", "issue", "revoke"} => req[w].new = None
    /\ req[w].at \notin {"idle", "issue"} =>
         req[w].tok \in SessionIds /\ Present(req[w].tok)
    /\ req[w].at \in {"issue", "loadUser", "update", "revokeAll"} =>
         req[w].user \in Users

NewIdsDistinct ==
    \A v, w \in Workers :
        (v # w /\ req[w].new # None) => req[v].new # req[w].new

\* What a request in progress may rely on: an id that is to be inserted is in
\* nobody's hands and not in the table (the INSERT cannot hit the primary key),
\* and the row a request read is still there (sessions.go:81-130).
RequestsOK == (\A w \in Workers : RequestOf(w)) /\ NewIdsDistinct

\* The inductive invariant (SessionsProofs).
IInv == TypeOK /\ Lineage /\ RequestsOK

\* A token that has a successor and still works belongs to a rotation that has
\* not reached its RevokeSession (sessions.go:117-130).  Only while no
\* statement has failed: the error of that RevokeSession is dropped.
LiveParentInFlight ==
    ~failed =>
        \A i \in SessionIds :
            (Present(i) /\ table[i].parent # None /\ Live(table[i].parent)) =>
                \E w \in Workers : /\ req[w].at = "revoke"
                                   /\ req[w].tok = table[i].parent

\* "session invalid" clears the browser's cookies (auth.go:158-160), so it
\* must only be said of a token that can never work again.  Only while no
\* statement has failed: a failed lookup is answered "session invalid" too.
InvalidMeansDead ==
    ~failed =>
        \A w \in Workers :
            (req[w].answer = "invalid" /\ req[w].tok # None) => Revoked(req[w].tok)

\* Retired: revoked, and no rotation that read the row earlier is still to
\* insert its child.
Retired(t) ==
    /\ Revoked(t)
    /\ \A w \in Workers : ~(req[w].at = "insert" /\ req[w].tok = t)

\* A retired token is retired for good and gets no further successor: whatever
\* revoked it (rotation, logout, reuse, password change), only a rotation that
\* looked it up before can slip through (sessions.go:81-126).
RetiredTokenIsSterile ==
    [][\A t \in SessionIds :
          Retired(t) => Retired(t)' /\ Children(t)' = Children(t)]_vars

\* No session, and no request about to insert one, rests on a password of u
\* that has been replaced.
NoStaleCredential(u) ==
    /\ \A i \in SessionIds :
          (Live(i) /\ table[i].user = u) => table[i].cred = pw[u]
    /\ \A w \in Workers :
          /\ (req[w].at = "issue" /\ req[w].user = u) => req[w].cred = pw[u]
          /\ (req[w].at = "insert" /\ table[req[w].tok].user = u) =>
                table[req[w].tok].cred = pw[u]

\* Once the sessions of the old password are gone, and the requests that were
\* in flight with them, none comes back until the password changes again
\* (settings.go:101-105).
StaleCredentialDiesOut ==
    [][\A u \in Users :
          (NoStaleCredential(u) /\ pw'[u] = pw[u]) => NoStaleCredential(u)']_vars

FamilyDead(f) == \A i \in Family(f) : Revoked(i)

\* Presenting a token that has been rotated ends with its whole family revoked
\* (sessions.go:88-98, MILESTONES.md:89), if no statement fails.
ReuseIsPunished ==
    \A w \in Workers, t \in SessionIds :
        (req[w].at = "children" /\ req[w].tok = t /\ Children(t) # {})
            ~> FamilyDead(table[t].family)

\* The child of a rotation that has not revoked the parent yet.
Pending(i) == \E w \in Workers : req[w].at = "revoke" /\ req[w].new = i

\* One request at a time and no failing statement: rotation is the atomic
\* step TokenFamilies promises.  It takes effect when the parent is revoked.
UsableToken(f) ==
    LET T == {i \in SessionIds : Live(i) /\ ~Pending(i) /\ table[i].family = f}
    IN  IF T = {} THEN None ELSE CHOOSE i \in T : TRUE

TF == INSTANCE TokenFamilies
        WITH Tokens <- SessionIds,
             minted <- {i \in SessionIds : Present(i) /\ ~Pending(i)},
             usable <- [f \in SessionIds |-> UsableToken(f)]

FamilyContract == TF!Spec
=============================================================================
