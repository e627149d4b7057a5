------------------------------ MODULE FirstRun ------------------------------
(***************************************************************************)
(* Boot and first-run setup: cmd/controlroom/main.go (the boot sequence),  *)
(* store.Open's migrations, LoadOrCreateSigner (internal/auth/jwt.go), the *)
(* self-signed material of internal/cert/cert.go, and the setup wizard of  *)
(* internal/api/setup/setup.go over the users and setup_token tables.      *)
(*                                                                         *)
(* The process may be killed between any two steps, and systemd or Docker  *)
(* starts it again.  A statement or transaction of SQLite is atomic; a     *)
(* file is not: a kill (or a power cut) during its write leaves it torn.   *)
(* Everything in memory is lost, what the browser holds is not.            *)
(*                                                                         *)
(* Abstractions: a boot is a number, and what a boot generates (setup      *)
(* token, signing key, TLS key pair) is named by it.  Only the modes of    *)
(* installation that the installers use are modelled: self-signed TLS.     *)
(* TOTP enrolment during setup, the session that complete issues (see      *)
(* Sessions) and the audit log are left out.                               *)
(***************************************************************************)
EXTENDS Naturals

CONSTANTS
    Clients,        \* browsers that run the wizard
    Names,          \* usernames
    MaxBoots,       \* bound: starts of the process
    NumMigrations,  \* files in internal/store/migrations
    DBFaults        \* whether a statement of the wizard may fail

ASSUME FirstRunAssumption ==
    /\ MaxBoots \in Nat \ {0}
    /\ NumMigrations \in Nat
    /\ DBFaults \in BOOLEAN

VARIABLES
    \* the disk
    schema,    \* migrations whose tables exist
    applied,   \* migrations recorded in schema_migrations
    users,     \* the users table
    tokenRow,  \* the one row of setup_token
    jwtKey,    \* jwt.key
    tlsCert,   \* tls/controlroom.crt
    tlsKey,    \* tls/controlroom.key
    \* the process
    boot,      \* how often it was started
    proc,      \* where it is in its boot sequence
    \* outside
    printed,   \* the setup tokens the log shows
    client     \* the browsers, with their requests

disk == <<schema, applied, users, tokenRow, jwtKey, tlsCert, tlsKey>>
vars == <<schema, applied, users, tokenRow, jwtKey, tlsCert, tlsKey,
          boot, proc, printed, client>>

-----------------------------------------------------------------------------
Boots    == 1..MaxBoots
NoFile   == 0               \* also: no row, no token, no cookie
Torn     == MaxBoots + 1
Contents == {NoFile, Torn} \cup Boots

\* The program counter of run: the step it does next.
BootSteps == {"migrate", "token", "print", "signer", "tls", "tlsKey"}

\* A browser and its one request: the statement the handler does next, the token
\* or username it sent, the key that signed its setup cookie, its last answer.
Client == [at    : {"idle", "verify", "create", "mark", "issue"},
           tok   : {0} \cup Boots,
           name  : Names \cup {"none"},
           jwt   : {0} \cup Boots,
           answer: {"none", "gone", "unauthorized", "granted", "error", "loggedIn"}]

IdleClient == [at |-> "idle", tok |-> 0, name |-> "none", jwt |-> 0, answer |-> "none"]

TypeOK ==
    /\ schema \in 0..NumMigrations
    /\ applied \in 0..NumMigrations
    /\ users \in SUBSET Names
    /\ tokenRow \in [tok : {0} \cup Boots, used : BOOLEAN]
    /\ jwtKey \in Contents /\ tlsCert \in Contents /\ tlsKey \in Contents
    /\ boot \in {0} \cup Boots
    /\ proc \in {"down", "serving"} \cup BootSteps
    /\ printed \in SUBSET Boots
    /\ client \in [Clients -> Client]

Init ==
    /\ schema = 0 /\ applied = 0
    /\ users = {}
    /\ tokenRow = [tok |-> 0, used |-> FALSE]
    /\ jwtKey = NoFile /\ tlsCert = NoFile /\ tlsKey = NoFile
    /\ boot = 0
    /\ proc = "down"
    /\ printed = {}
    /\ client = [c \in Clients |-> IdleClient]

-----------------------------------------------------------------------------
\* The boot sequence: run, in main.go.

Goto(step) == proc' = step

Start ==
    /\ proc = "down"
    /\ boot < MaxBoots
    /\ boot' = boot + 1
    /\ Goto("migrate")
    /\ UNCHANGED <<schema, applied, users, tokenRow, jwtKey, tlsCert, tlsKey, printed, client>>

\* Mutant: the record and the tables are not one transaction, and only the first may
\* be left.
MigrateRecordFirst ==
    /\ proc = "migrate"
    /\ IF applied < NumMigrations
       THEN /\ applied' = applied + 1
            /\ schema' \in {schema, applied + 1}
            /\ UNCHANGED proc
       ELSE Goto("token") /\ UNCHANGED <<schema, applied>>
    /\ UNCHANGED <<users, tokenRow, jwtKey, tlsCert, tlsKey, boot, printed, client>>

\* store.Open: each migration that is not recorded is applied and recorded in
\* one transaction.
Migrate ==
    /\ proc = "migrate"
    /\ IF applied < NumMigrations
       THEN /\ applied' = applied + 1
            /\ schema' = applied + 1
            /\ UNCHANGED proc
       ELSE Goto("token") /\ UNCHANGED <<schema, applied>>
    /\ UNCHANGED <<users, tokenRow, jwtKey, tlsCert, tlsKey, boot, printed, client>>

\* Mutant: a row that is there is kept.
PutSetupTokenOnce(t) ==
    tokenRow' = IF tokenRow.tok = 0 THEN [tok |-> t, used |-> FALSE] ELSE tokenRow

\* PutSetupToken replaces the row.
PutSetupToken(t) == tokenRow' = [tok |-> t, used |-> FALSE]

DeleteSetupToken == tokenRow' = [tok |-> 0, used |-> FALSE]

\* bootstrapSetupToken: an admin exists and the row is deleted (an error is
\* dropped), or this boot's token is stored and then logged.
BootToken ==
    /\ proc = "token"
    /\ \/ /\ users # {}
          /\ DeleteSetupToken \/ (DBFaults /\ UNCHANGED tokenRow)
          /\ Goto("signer")
       \/ /\ users = {}
          /\ PutSetupToken(boot)
          /\ Goto("print")
    /\ UNCHANGED <<schema, applied, users, jwtKey, tlsCert, tlsKey, boot, printed, client>>

PrintToken ==
    /\ proc = "print"
    /\ printed' = printed \cup {boot}
    /\ Goto("signer")
    /\ UNCHANGED <<disk, boot, client>>

\* LoadOrCreateSigner.  A torn file is shorter than 32 bytes: the process exits.
\* (A longer prefix is a key like any other, as if the write had ended.)
LoadOrCreateSigner ==
    /\ proc = "signer"
    /\ \/ jwtKey \in Boots /\ Goto("tls") /\ UNCHANGED jwtKey
       \/ jwtKey = NoFile /\ Goto("tls") /\ jwtKey' = boot
       \/ jwtKey = Torn /\ Goto("down") /\ UNCHANGED jwtKey
    /\ UNCHANGED <<schema, applied, users, tokenRow, tlsCert, tlsKey, boot, printed, client>>

\* Mutant: only the certificate is looked for.
LoadOrGenerateByCert ==
    /\ proc = "tls"
    /\ IF tlsCert # NoFile
       THEN /\ Goto(IF tlsCert \in Boots /\ tlsKey = tlsCert THEN "serving" ELSE "down")
            /\ UNCHANGED tlsCert
       ELSE tlsCert' = boot /\ Goto("tlsKey")
    /\ UNCHANGED <<schema, applied, users, tokenRow, jwtKey, tlsKey, boot, printed, client>>

\* loadOrGenerateSelfSigned: both files exist and are loaded, which fails unless
\* they are a pair; or a new pair is written, the certificate first.
LoadOrGenerate ==
    /\ proc = "tls"
    /\ IF tlsCert # NoFile /\ tlsKey # NoFile
       THEN /\ Goto(IF tlsCert \in Boots /\ tlsKey = tlsCert THEN "serving" ELSE "down")
            /\ UNCHANGED tlsCert
       ELSE tlsCert' = boot /\ Goto("tlsKey")
    /\ UNCHANGED <<schema, applied, users, tokenRow, jwtKey, tlsKey, boot, printed, client>>

WriteTLSKey ==
    /\ proc = "tlsKey"
    /\ tlsKey' = boot
    /\ Goto("serving")
    /\ UNCHANGED <<schema, applied, users, tokenRow, jwtKey, tlsCert, boot, printed, client>>

BootStep ==
    \/ Start
    \/ Migrate
    \/ BootToken
    \/ PrintToken
    \/ LoadOrCreateSigner
    \/ LoadOrGenerate
    \/ WriteTLSKey

-----------------------------------------------------------------------------
\* The process is killed.  The file it was writing is torn or, if the kill came
\* before the file was created, as it was; a tear needs the file to be absent, or
\* the pair to be written again.  Requests in progress are lost; the browser
\* keeps its cookie.  A step of a start that the database or the file system
\* refuses ends in the same state.  The last start is left alone, so that what
\* the disk leads to can be seen.
WritesCert == proc = "tls" /\ (tlsCert = NoFile \/ tlsKey = NoFile)

Crash ==
    /\ proc # "down"
    /\ boot < MaxBoots
    /\ Goto("down")
    /\ jwtKey'  \in {jwtKey}  \cup IF proc = "signer" /\ jwtKey = NoFile THEN {Torn} ELSE {}
    /\ tlsCert' \in {tlsCert} \cup IF WritesCert THEN {Torn} ELSE {}
    /\ tlsKey'  \in {tlsKey}  \cup IF proc = "tlsKey" THEN {Torn} ELSE {}
    /\ client' = [c \in Clients |->
                    [client[c] EXCEPT !.at = "idle", !.tok = 0, !.name = "none"]]
    /\ UNCHANGED <<schema, applied, users, tokenRow, boot, printed>>

-----------------------------------------------------------------------------
\* The wizard.  A handler is one step per statement on the database.

Serving(c, at) == proc = "serving" /\ client[c].at = at

Proceed(c, at) == client' = [client EXCEPT ![c].at = at]

Answer(c, a) ==
    client' = [client EXCEPT ![c].at = "idle", ![c].tok = 0, ![c].name = "none",
                             ![c].answer = a]

Others == <<schema, applied, jwtKey, tlsCert, tlsKey, boot, proc, printed>>

\* requireSetupRequired: 410 once there is an account, 500 when the count fails.
SetupRequired(c, next, req) ==
    \/ users = {} /\ client' = [client EXCEPT ![c] = [req EXCEPT !.at = next]]
    \/ users # {} /\ Answer(c, "gone")
    \/ DBFaults /\ Answer(c, "error")

\* POST verify-token, with a token the log has shown or with any other (0).
VerifyCount(c, t) ==
    /\ Serving(c, "idle")
    /\ t \in printed \cup {0}
    /\ SetupRequired(c, "verify", [client[c] EXCEPT !.tok = t])
    /\ UNCHANGED <<users, tokenRow, Others>>

VerifyToken(c) ==
    /\ Serving(c, "verify")
    /\ \/ /\ tokenRow.tok = 0 \/ DBFaults \/ (~tokenRow.used /\ tokenRow.tok # client[c].tok)
          /\ Answer(c, "unauthorized")
       \/ /\ tokenRow.used
          /\ Answer(c, "gone")
       \/ /\ tokenRow.tok # 0 /\ ~tokenRow.used /\ tokenRow.tok = client[c].tok
          /\ client' = [client EXCEPT ![c].at = "idle", ![c].tok = 0,
                                      ![c].jwt = jwtKey, ![c].answer = "granted"]
    /\ UNCHANGED <<users, tokenRow, Others>>

\* Mutant: complete trusts the cookie alone.
CompleteCountUnchecked(c, n) ==
    /\ Serving(c, "idle")
    /\ client[c].jwt = jwtKey
    /\ client' = [client EXCEPT ![c].at = "create", ![c].name = n]
    /\ UNCHANGED <<users, tokenRow, Others>>

\* POST complete: requireSetup on the cookie, then the count.  The password is
\* hashed between this step and the next, which takes its time.
CompleteCount(c, n) ==
    /\ Serving(c, "idle")
    /\ \/ client[c].jwt # jwtKey /\ Answer(c, "unauthorized")
       \/ /\ client[c].jwt = jwtKey
          /\ SetupRequired(c, "create", [client[c] EXCEPT !.name = n])
    /\ UNCHANGED <<users, tokenRow, Others>>

\* CreateUser: the insert fails on a name that is taken (UNIQUE), and the row is
\* read back by a second statement, whose failure is answered as the first's.
CompleteCreate(c) ==
    /\ Serving(c, "create")
    /\ \/ /\ client[c].name \in users \/ DBFaults
          /\ Answer(c, "error")
          /\ UNCHANGED users
       \/ /\ client[c].name \notin users
          /\ users' = users \cup {client[c].name}
          /\ Proceed(c, "mark") \/ (DBFaults /\ Answer(c, "error"))
    /\ UNCHANGED <<tokenRow, Others>>

\* MarkSetupTokenUsed; its error is dropped.
CompleteMark(c) ==
    /\ Serving(c, "mark")
    /\ \/ tokenRow' = [tokenRow EXCEPT !.used = tokenRow.tok # 0]
       \/ DBFaults /\ UNCHANGED tokenRow
    /\ Proceed(c, "issue")
    /\ UNCHANGED <<users, Others>>

\* Sessions.Issue and the cookies; ClearSetup only when all went well.
CompleteIssue(c) ==
    /\ Serving(c, "issue")
    /\ \/ client' = [client EXCEPT ![c] = [IdleClient EXCEPT !.answer = "loggedIn"]]
       \/ DBFaults /\ Answer(c, "error")
    /\ UNCHANGED <<users, tokenRow, Others>>

\* The setup cookie runs out, SetupTokenTTL after it was set.
JwtExpires(c) ==
    /\ client[c].at = "idle" /\ client[c].jwt # 0
    /\ client' = [client EXCEPT ![c].jwt = 0]
    /\ UNCHANGED <<users, tokenRow, Others>>

Wizard(c) ==
    \/ \E t \in {0} \cup Boots : VerifyCount(c, t)
    \/ VerifyToken(c)
    \/ \E n \in Names : CompleteCount(c, n)
    \/ CompleteCreate(c)
    \/ CompleteMark(c)
    \/ CompleteIssue(c)
    \/ JwtExpires(c)

Next ==
    \/ BootStep
    \/ Crash
    \/ \E c \in Clients : Wizard(c)

\* The program runs on, and the service manager starts it again.
Spec == Init /\ [][Next]_vars /\ WF_vars(BootStep)

-----------------------------------------------------------------------------
\* As long as there is no account, a process that serves can be set up: the token
\* of this very start is in the row, unused, and has been printed, whatever was
\* killed where before (bootstrapSetupToken, PutSetupToken).
SetupPossible ==
    proc = "serving" /\ users = {} =>
        /\ tokenRow = [tok |-> boot, used |-> FALSE]
        /\ boot \in printed

\* Setup is closed when there is an account and no complete is left that counted
\* the users before there was.  From then on it stays closed and no account is
\* added: cookies and tokens that live on, through restarts too, do not open the
\* wizard again (requireSetupRequired in both handlers).
Closed == users # {} /\ \A c \in Clients : client[c].at # "create"

SetupCloses == [][ Closed => Closed' /\ users' = users ]_vars

\* What serves has every table, a key to sign with and a certificate that goes
\* with its key: a boot never goes on over a half-done step of an earlier one
\* (applyMigration, LoadOrCreateSigner, loadOrGenerateSelfSigned).
ServingSound ==
    proc = "serving" =>
        /\ schema = NumMigrations /\ applied = NumMigrations
        /\ jwtKey \in Boots
        /\ tlsCert \in Boots /\ tlsKey = tlsCert

\* If no key file is torn, restarts lead to a server that stays up: a certificate
\* torn, or left without its key, is generated anew.
EventuallyServes ==
    [](jwtKey # Torn /\ tlsKey # Torn) => <>[](proc = "serving")

-----------------------------------------------------------------------------
\* The strengthening of SetupPossible and ServingSound (FirstRunProofs).

\* What the steps of this boot have put on the disk so far is still there.
BootProgress ==
    /\ proc # "down" => boot \in Boots
    /\ schema = applied
    /\ proc \notin {"down", "migrate"} => applied = NumMigrations
    /\ proc \in {"tls", "tlsKey", "serving"} => jwtKey \in Boots
    /\ proc = "tlsKey" => tlsCert = boot

\* Without an account, nobody has used the token of this boot, which is a
\* complete's last step but one; what it creates has a name.
TokenFresh ==
    /\ users = {} =>
        /\ proc \in {"print", "signer", "tls", "tlsKey", "serving"} =>
              tokenRow = [tok |-> boot, used |-> FALSE]
        /\ proc \in {"signer", "tls", "tlsKey", "serving"} => boot \in printed
    /\ \A c \in Clients :
        /\ client[c].at = "create" => client[c].name \in Names
        /\ client[c].at = "mark" => users # {}

IInv == TypeOK /\ BootProgress /\ TokenFresh /\ ServingSound
=============================================================================
