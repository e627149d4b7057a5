--------------------------- MODULE FirstRunProofs ---------------------------
(***************************************************************************)
(* Setup and boot are sound for every number of starts, browsers, names    *)
(* and migrations, wherever the process is killed.  BootProgress says what *)
(* each step of a boot may rely on, TokenFresh what the wizard leaves of   *)
(* it.                                                                     *)
(***************************************************************************)
EXTENDS FirstRun, TLAPS

USE FirstRunAssumption

-----------------------------------------------------------------------------
\* The empty disk satisfies the invariant.
LEMMA InitIInv == Init => IInv
<1> SUFFICES ASSUME Init PROVE IInv
  OBVIOUS
<1>1. TypeOK
  BY DEF Init, TypeOK, Contents, NoFile, Boots, BootSteps, Client, IdleClient
<1>2. BootProgress /\ TokenFresh /\ ServingSound
  BY DEF Init, BootProgress, TokenFresh, ServingSound, IdleClient
<1> QED
  BY <1>1, <1>2 DEF IInv

\* The files and tables change in the boot sequence only.
LEMMA BootStepTypeOK ==
  ASSUME IInv, BootStep PROVE TypeOK'
<1>1. TypeOK /\ BootProgress
  BY DEF IInv
<1>2. CASE Start
  BY <1>1, <1>2 DEF Start, TypeOK, Boots, BootSteps, Goto
<1>3. CASE Migrate
  BY <1>1, <1>3 DEF Migrate, TypeOK, BootSteps, Goto
<1>4. CASE BootToken
  <2>1. tokenRow' \in [tok : {0} \cup Boots, used : BOOLEAN]
    <3>1. boot \in Boots /\ tokenRow \in [tok : {0} \cup Boots, used : BOOLEAN]
      BY <1>1, <1>4 DEF BootToken, TypeOK, BootProgress
    <3>2. \/ tokenRow' = [tok |-> 0, used |-> FALSE]
          \/ tokenRow' = tokenRow
          \/ tokenRow' = [tok |-> boot, used |-> FALSE]
      BY <1>4 DEF BootToken, PutSetupToken, DeleteSetupToken
    <3>3. \A t \in {0} \cup Boots :
             [tok |-> t, used |-> FALSE] \in [tok : {0} \cup Boots, used : BOOLEAN]
      OBVIOUS
    <3>4. boot \in {0} \cup Boots /\ 0 \in {0} \cup Boots
      BY <3>1
    <3>5. /\ [tok |-> boot, used |-> FALSE] \in [tok : {0} \cup Boots, used : BOOLEAN]
          /\ [tok |-> 0, used |-> FALSE] \in [tok : {0} \cup Boots, used : BOOLEAN]
      BY <3>3, <3>4
    <3> QED
      BY <3>1, <3>2, <3>5, Zenon
  <2>2. proc' \in BootSteps
    BY <1>4 DEF BootToken, BootSteps, Goto
  <2> QED
    BY <1>1, <1>4, <2>1, <2>2 DEF BootToken, TypeOK
<1>5. CASE PrintToken
  BY <1>1, <1>5 DEF PrintToken, TypeOK, BootProgress, BootSteps, Goto, disk
<1>6. CASE LoadOrCreateSigner
  BY <1>1, <1>6 DEF LoadOrCreateSigner, TypeOK, BootProgress, BootSteps, Goto, Contents
<1>7. CASE LoadOrGenerate
  BY <1>1, <1>7 DEF LoadOrGenerate, TypeOK, BootProgress, BootSteps, Goto, Contents
<1>8. CASE WriteTLSKey
  BY <1>1, <1>8 DEF WriteTLSKey, TypeOK, BootProgress, BootSteps, Goto, Contents
<1> QED
  BY <1>2, <1>3, <1>4, <1>5, <1>6, <1>7, <1>8 DEF BootStep

LEMMA BootStepIInv ==
  ASSUME IInv, BootStep PROVE IInv'
<1>1. TypeOK /\ BootProgress /\ TokenFresh /\ ServingSound
  BY DEF IInv
<1>2. TypeOK'
  BY BootStepTypeOK
<1>3. CASE Start
  BY <1>1, <1>2, <1>3 DEF Start, Goto, IInv, TypeOK, BootProgress, TokenFresh,
                          ServingSound, Boots
<1>4. CASE Migrate
  <2>1. /\ schema' = applied'
        /\ proc' \notin {"down", "migrate"} => proc' = "token" /\ applied' = NumMigrations
    BY <1>1, <1>4 DEF Migrate, Goto, BootProgress, TypeOK
  <2> QED
    BY <1>1, <1>2, <1>4, <2>1 DEF Migrate, Goto, IInv, BootProgress, TokenFresh,
                                  ServingSound
<1>5. CASE BootToken
  BY <1>1, <1>2, <1>5 DEF BootToken, Goto, PutSetupToken, DeleteSetupToken, IInv,
                          BootProgress, TokenFresh, ServingSound
<1>6. CASE PrintToken
  BY <1>1, <1>2, <1>6 DEF PrintToken, Goto, disk, IInv, BootProgress, TokenFresh,
                          ServingSound
<1>7. CASE LoadOrCreateSigner
  BY <1>1, <1>2, <1>7 DEF LoadOrCreateSigner, Goto, IInv, BootProgress, TokenFresh,
                          ServingSound
<1>8. CASE LoadOrGenerate
  BY <1>1, <1>2, <1>8 DEF LoadOrGenerate, Goto, IInv, BootProgress, TokenFresh,
                          ServingSound
<1>9. CASE WriteTLSKey
  BY <1>1, <1>2, <1>9 DEF WriteTLSKey, Goto, IInv, BootProgress, TokenFresh,
                          ServingSound
<1> QED
  BY <1>3, <1>4, <1>5, <1>6, <1>7, <1>8, <1>9 DEF BootStep

\* A kill loses requests and memory, and may tear the file that was being
\* written; nothing is claimed of a process that is down.
LEMMA CrashIInv ==
  ASSUME IInv, Crash PROVE IInv'
<1>1. TypeOK /\ BootProgress /\ TokenFresh
  BY DEF IInv
<1>2. client' \in [Clients -> Client]
  <2>1. ASSUME NEW c \in Clients
        PROVE  [client[c] EXCEPT !.at = "idle", !.tok = 0, !.name = "none"] \in Client
    <3>1. client[c] \in Client
      BY <1>1 DEF TypeOK
    <3> QED
      BY <3>1 DEF Client
  <2>2. client' = [c \in Clients |->
                     [client[c] EXCEPT !.at = "idle", !.tok = 0, !.name = "none"]]
    BY DEF Crash
  <2> QED
    BY <2>1, <2>2
<1>3. Torn \in Contents
  BY DEF Contents
<1>4. jwtKey' \in Contents /\ tlsCert' \in Contents /\ tlsKey' \in Contents
  BY <1>1, <1>3 DEF Crash, TypeOK
<1>5. TypeOK'
  BY <1>1, <1>2, <1>4 DEF Crash, TypeOK, Goto
<1>6. \A c \in Clients : client'[c].at = "idle"
  BY <1>1 DEF Crash, TypeOK, Client
<1> QED
  BY <1>1, <1>5, <1>6 DEF Crash, Goto, IInv, BootProgress, TokenFresh, ServingSound

-----------------------------------------------------------------------------
\* A browser that is answered is idle, and a request that goes on is a record
\* at its next step; the other browsers are left alone.
LEMMA AnswerClient ==
  ASSUME TypeOK, NEW c \in Clients,
         NEW a \in {"none", "gone", "unauthorized", "granted", "error", "loggedIn"},
         Answer(c, a)
  PROVE  /\ client' \in [Clients -> Client]
         /\ client'[c].at = "idle"
         /\ \A d \in Clients : d # c => client'[d] = client[d]
<1>1. client[c] \in Client /\ client \in [Clients -> Client]
  BY DEF TypeOK
<1> DEFINE r == [client[c] EXCEPT !.at = "idle", !.tok = 0, !.name = "none", !.answer = a]
<1>2. r \in Client /\ r.at = "idle"
  BY <1>1 DEF Client
<1>3. client' = [client EXCEPT ![c] = r]
  BY <1>1 DEF Answer
<1> HIDE DEF r
<1> QED
  BY <1>1, <1>2, <1>3

LEMMA ProceedClient ==
  ASSUME TypeOK, NEW c \in Clients,
         NEW at \in {"idle", "verify", "create", "mark", "issue"}, Proceed(c, at)
  PROVE  /\ client' \in [Clients -> Client]
         /\ client'[c].at = at
         /\ \A d \in Clients : d # c => client'[d] = client[d]
BY DEF Proceed, TypeOK, Client

\* What a passed or a failed count leaves of the request r.
LEMMA SetupRequiredClient ==
  ASSUME TypeOK, NEW c \in Clients, NEW next \in {"verify", "create"},
         NEW r \in Client, SetupRequired(c, next, r)
  PROVE  /\ client' \in [Clients -> Client]
         /\ \/ client'[c].at = "idle"
            \/ users = {} /\ client'[c].at = next /\ client'[c].name = r.name
         /\ \A d \in Clients : d # c => client'[d] = client[d]
<1>1. CASE users = {} /\ client' = [client EXCEPT ![c] = [r EXCEPT !.at = next]]
  BY <1>1 DEF TypeOK, Client
<1>2. CASE Answer(c, "gone")
  BY <1>2, AnswerClient
<1>3. CASE Answer(c, "error")
  BY <1>3, AnswerClient
<1> QED
  BY <1>1, <1>2, <1>3 DEF SetupRequired

\* The wizard changes browsers, accounts and the token row, and nothing else.
\* A step that changes only one browser, which does not come to "mark", is safe.
LEMMA ClientIInv ==
  ASSUME IInv, NEW c \in Clients,
         client' \in [Clients -> Client],
         UNCHANGED <<users, tokenRow, Others>>,
         \A d \in Clients : d # c => client'[d] = client[d],
         client'[c].at # "mark",
         client'[c].at = "create" => client'[c].name \in Names
  PROVE  IInv'
<1>1. TypeOK /\ BootProgress /\ TokenFresh /\ ServingSound
  BY DEF IInv
<1>2. TypeOK' /\ BootProgress' /\ ServingSound'
  BY <1>1 DEF Others, TypeOK, BootProgress, ServingSound
<1>3. TokenFresh'
  BY <1>1 DEF Others, TokenFresh
<1> QED
  BY <1>2, <1>3 DEF IInv

\* CompleteCreate adds an account, and the token of the boot does not matter any
\* more.
LEMMA CompleteCreateIInv ==
  ASSUME IInv, NEW c \in Clients, CompleteCreate(c) PROVE IInv'
<1>1. TypeOK /\ BootProgress /\ TokenFresh /\ ServingSound
  BY DEF IInv
<1>2. client[c].at = "create" /\ client[c].name \in Names
  BY <1>1 DEF CompleteCreate, Serving, TokenFresh
<1>3. CASE users' = users /\ Answer(c, "error")
  BY <1>1, <1>3, AnswerClient, ClientIInv DEF CompleteCreate
<1>4. CASE /\ users' = users \cup {client[c].name}
           /\ Proceed(c, "mark") \/ Answer(c, "error")
  <2>1. /\ client' \in [Clients -> Client]
        /\ client'[c].at \in {"mark", "idle"}
        /\ \A d \in Clients : d # c => client'[d] = client[d]
    BY <1>1, <1>4, ProceedClient, AnswerClient
  <2>2. users' # {} /\ users' \in SUBSET Names
    BY <1>1, <1>2, <1>4 DEF TypeOK
  <2>3. UNCHANGED <<tokenRow, schema, applied, jwtKey, tlsCert, tlsKey, boot, proc, printed>>
    BY DEF CompleteCreate, Others
  <2>4. TypeOK' /\ BootProgress' /\ ServingSound'
    BY <1>1, <2>1, <2>2, <2>3 DEF TypeOK, BootProgress, ServingSound
  <2>5. TokenFresh'
    BY <1>1, <2>1, <2>2, <2>3 DEF TokenFresh
  <2> QED
    BY <2>4, <2>5 DEF IInv
<1> QED
  BY <1>3, <1>4 DEF CompleteCreate

\* CompleteMark uses up the token: there is an account by then.
LEMMA CompleteMarkIInv ==
  ASSUME IInv, NEW c \in Clients, CompleteMark(c) PROVE IInv'
<1>1. TypeOK /\ BootProgress /\ TokenFresh /\ ServingSound
  BY DEF IInv
<1>2. users # {}
  BY <1>1 DEF CompleteMark, Serving, TokenFresh
<1>3. /\ client' \in [Clients -> Client]
      /\ client'[c].at = "issue"
      /\ \A d \in Clients : d # c => client'[d] = client[d]
  BY <1>1, ProceedClient DEF CompleteMark
<1>4. tokenRow' \in [tok : {0} \cup Boots, used : BOOLEAN]
  BY <1>1 DEF CompleteMark, TypeOK
<1>5. UNCHANGED <<users, schema, applied, jwtKey, tlsCert, tlsKey, boot, proc, printed>>
  BY DEF CompleteMark, Others
<1>6. TypeOK' /\ BootProgress' /\ ServingSound'
  BY <1>1, <1>3, <1>4, <1>5 DEF TypeOK, BootProgress, ServingSound
<1>7. TokenFresh'
  BY <1>1, <1>2, <1>3, <1>5 DEF TokenFresh
<1> QED
  BY <1>6, <1>7 DEF IInv

LEMMA WizardIInv ==
  ASSUME IInv, NEW c \in Clients, Wizard(c) PROVE IInv'
<1>1. TypeOK /\ ServingSound
  BY DEF IInv
<1>2. ASSUME NEW t \in {0} \cup Boots, VerifyCount(c, t) PROVE IInv'
  <2>1. [client[c] EXCEPT !.tok = t] \in Client
    BY <1>1, <1>2 DEF TypeOK, Client
  <2> QED
    BY <1>1, <1>2, <2>1, SetupRequiredClient, ClientIInv DEF VerifyCount
<1>3. CASE VerifyToken(c)
  <2>1. CASE Answer(c, "unauthorized") \/ Answer(c, "gone")
    BY <1>1, <1>3, <2>1, AnswerClient, ClientIInv DEF VerifyToken
  <2>2. CASE client' = [client EXCEPT ![c].at = "idle", ![c].tok = 0,
                                      ![c].jwt = jwtKey, ![c].answer = "granted"]
    <3>1. jwtKey \in Boots
      BY <1>1, <1>3 DEF VerifyToken, Serving, ServingSound
    <3>2. /\ client' \in [Clients -> Client]
          /\ client'[c].at = "idle"
          /\ \A d \in Clients : d # c => client'[d] = client[d]
      <4>1. client[c] \in Client /\ client \in [Clients -> Client]
        BY <1>1 DEF TypeOK
      <4> DEFINE r == [client[c] EXCEPT !.at = "idle", !.tok = 0, !.jwt = jwtKey,
                                        !.answer = "granted"]
      <4>2. r \in Client /\ r.at = "idle"
        BY <4>1, <3>1 DEF Client
      <4>3. client' = [client EXCEPT ![c] = r]
        BY <4>1, <2>2
      <4> HIDE DEF r
      <4> QED
        BY <4>1, <4>2, <4>3
    <3> QED
      BY <1>3, <3>2, ClientIInv DEF VerifyToken
  <2> QED
    BY <1>3, <2>1, <2>2 DEF VerifyToken
<1>4. ASSUME NEW n \in Names, CompleteCount(c, n) PROVE IInv'
  <2> DEFINE r == [client[c] EXCEPT !.name = n]
  <2>1. r \in Client /\ r.name = n
    BY <1>1, <1>4 DEF TypeOK, Client
  <2>2. CASE Answer(c, "unauthorized")
    BY <1>1, <1>4, <2>2, AnswerClient, ClientIInv DEF CompleteCount
  <2>3. CASE SetupRequired(c, "create", r)
    <3> HIDE DEF r
    <3> QED
      BY <1>1, <1>4, <2>1, <2>3, SetupRequiredClient, ClientIInv DEF CompleteCount
  <2> QED
    BY <1>4, <2>2, <2>3 DEF CompleteCount
<1>5. CASE CompleteIssue(c)
  <2>1. CASE client' = [client EXCEPT ![c] = [IdleClient EXCEPT !.answer = "loggedIn"]]
    <3>1. /\ client' \in [Clients -> Client]
          /\ client'[c].at = "idle"
          /\ \A d \in Clients : d # c => client'[d] = client[d]
      BY <1>1, <2>1 DEF TypeOK, Client, IdleClient
    <3> QED
      BY <1>5, <3>1, ClientIInv DEF CompleteIssue
  <2>2. CASE Answer(c, "error")
    BY <1>1, <1>5, <2>2, AnswerClient, ClientIInv DEF CompleteIssue
  <2> QED
    BY <1>5, <2>1, <2>2 DEF CompleteIssue
<1>6. CASE JwtExpires(c)
  <2>1. /\ client' \in [Clients -> Client]
        /\ client'[c].at = "idle"
        /\ \A d \in Clients : d # c => client'[d] = client[d]
    BY <1>1, <1>6 DEF JwtExpires, TypeOK, Client
  <2> QED
    BY <1>6, <2>1, ClientIInv DEF JwtExpires
<1> QED
  BY <1>2, <1>3, <1>4, <1>5, <1>6, CompleteCreateIInv, CompleteMarkIInv DEF Wizard

-----------------------------------------------------------------------------
LEMMA InvariantHolds == Spec => []IInv
<1>1. IInv /\ [Next]_vars => IInv'
  <2> SUFFICES ASSUME IInv, [Next]_vars PROVE IInv'
    OBVIOUS
  <2>1. CASE UNCHANGED vars
    BY <2>1 DEF vars, IInv, TypeOK, BootProgress, TokenFresh, ServingSound
  <2> QED
    BY <2>1, BootStepIInv, CrashIInv, WizardIInv DEF Next
<1> QED
  BY InitIInv, <1>1, PTL DEF Spec

\* Disk, process and browsers are always of their types (main.go, setup.go).
THEOREM TypeCorrect == Spec => []TypeOK
<1>1. IInv => TypeOK
  BY DEF IInv
<1> QED
  BY <1>1, InvariantHolds, PTL

\* A process that serves has all its tables, a signing key and a pair of TLS
\* files, whatever earlier boots were killed in the middle of.
THEOREM ServesSoundly == Spec => []ServingSound
<1>1. IInv => ServingSound
  BY DEF IInv
<1> QED
  BY <1>1, InvariantHolds, PTL

\* The wizard of a process that serves can be run until there is an account: the
\* token in the row is the one this boot has printed.
THEOREM SetupStaysPossible == Spec => []SetupPossible
<1>1. IInv => SetupPossible
  BY DEF IInv, TokenFresh, SetupPossible
<1> QED
  BY <1>1, InvariantHolds, PTL

\* Setup that is closed stays closed, through restarts, and adds no account.
THEOREM SetupStaysClosed == Spec => SetupCloses
<1>1. IInv /\ [Next]_vars => [Closed => Closed' /\ users' = users]_vars
  <2> SUFFICES ASSUME TypeOK, Next, Closed PROVE Closed' /\ users' = users
    BY DEF IInv
  <2>1. CASE BootStep
    BY <2>1 DEF BootStep, Start, Migrate, BootToken, PrintToken, LoadOrCreateSigner,
                LoadOrGenerate, WriteTLSKey, disk, Closed
  <2>2. CASE Crash
    BY <2>2 DEF Crash, Closed, TypeOK, Client
  <2>3. ASSUME NEW c \in Clients, Wizard(c) PROVE Closed' /\ users' = users
    <3>1. ~CompleteCreate(c)
      BY DEF CompleteCreate, Serving, Closed
    <3>2. users' = users
      BY <2>3, <3>1 DEF Wizard, VerifyCount, VerifyToken, CompleteCount, CompleteMark,
                        CompleteIssue, JwtExpires
    <3>3. client \in [Clients -> Client] /\ \A d \in Clients : client[d].at # "create"
      BY DEF TypeOK, Closed
    <3>4. \A d \in Clients : d # c => client'[d] = client[d]
      BY <2>3, <3>1, <3>3, AnswerClient, ProceedClient
         DEF Wizard, VerifyCount, VerifyToken, CompleteCount, CompleteMark,
             CompleteIssue, JwtExpires, SetupRequired
    <3>5. client'[c].at # "create"
      <4>1. CASE \/ VerifyToken(c) \/ CompleteIssue(c) \/ JwtExpires(c)
                 \/ \E n \in Names : CompleteCount(c, n)
                 \/ \E t \in {0} \cup Boots : VerifyCount(c, t)
        <5>1. \/ \E a \in {"none", "gone", "unauthorized", "granted", "error", "loggedIn"} :
                   Answer(c, a)
              \/ client' = [client EXCEPT ![c].at = "idle", ![c].tok = 0,
                                          ![c].jwt = jwtKey, ![c].answer = "granted"]
              \/ client' = [client EXCEPT ![c] = [IdleClient EXCEPT !.answer = "loggedIn"]]
              \/ client[c].at = "idle" /\ client' = [client EXCEPT ![c].jwt = 0]
          BY <4>1 DEF VerifyCount, VerifyToken, CompleteCount, CompleteIssue, JwtExpires,
                      SetupRequired, Closed
        <5> QED
          BY <3>3, <5>1, AnswerClient DEF IdleClient, Client
      <4>2. CASE CompleteMark(c)
        BY <4>2, ProceedClient DEF CompleteMark
      <4> QED
        BY <2>3, <3>1, <4>1, <4>2 DEF Wizard
    <3> QED
      BY <3>2, <3>3, <3>4, <3>5 DEF Closed
  <2> QED
    BY <2>1, <2>2, <2>3 DEF Next
<1> QED
  BY <1>1, InvariantHolds, PTL DEF Spec, SetupCloses
=============================================================================
