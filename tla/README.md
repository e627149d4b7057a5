# ControlRoom: TLA+ specifications and proofs

ControlRoom is a web dashboard for one Linux host: a Go server (Fiber, SQLite,
D-Bus, Docker and Kubernetes clients) and a React single-page application. This
directory models the parts of it that keep state and have more than one thing
going on at a time, checks them with TLC on small instances, and proves the most
important properties for every instance with TLAPS.

    tlc -config SessionsRace.cfg MCSessions      # one run; the list is below
    tlapm SessionsProofs.tla                     # one proof module

## Inventory

| Component | Where | State | Operations | What is hard |
|---|---|---|---|---|
| Sessions, refresh rotation | `internal/auth/sessions.go`, `internal/store/sessions.go`, `internal/api/auth`, `internal/api/settings`, `middleware/auth.go` | `sessions`, `users.password_hash` | login, refresh, logout, authenticated request, change password, 2FA | no transactions: every handler is several statements, errors are dropped |
| Login limits | `internal/auth/ratelimit.go` | buckets per address, failures per username (memory) | Allow, CanAttempt, Failure, Success | clock read before the mutex; check and record apart; pruning |
| Job runner | `internal/jobs/jobs.go` | registry, ring buffer, listeners, done channel per job | Run, Write, Subscribe, unsubscribe, ActiveByAction | three parties close the same channel; slow listeners |
| Updates API and page | `internal/api/updates`, `web/src/lib/updates.ts` | one stream per tab; the hook's output and state | apply, check, reboot, status, stream | select over ready cases; status answer races the socket |
| Boot, first run | `cmd/controlroom/main.go`, `internal/store/store.go`, `jwt.go`, `internal/cert`, `internal/api/setup` | database file, `jwt.key`, certificate and key, `setup_token` | boot sequence, verify-token, complete | kills between and inside writes; count and insert apart |
| Terminal | `internal/pty`, `internal/api/terminal`, `Terminal.tsx` | child, pty, one socket | open, input, output, resize, idle timeout, close | two writers on a socket, three ways to end |
| Kubernetes | `internal/k8s`, `internal/api/k8s`, SPA | none but the cluster's | list, scale, restart, cordon, delete, edit config map and manifest, exec, logs | optimistic concurrency, two-way streams |
| Host metrics | `internal/collectors`, `internal/api/system`, `system.ts` | cached overview and previous samples | Snapshot, overview socket | shared deltas, failed samples, reconnect |
| Services, containers, journal | `internal/systemd`, `internal/docker`, `internal/logs` and their handlers | none of their own | start, stop, enable, logs | timeouts of what goes on, streams |
| Network, firewall | `internal/network` | none of its own | rules, toggle | rules named by position |
| API client, gates | `web/src/lib/api.ts`, `auth.ts`, `Gates.tsx`, `Login.tsx` | `refreshInFlight`, cached account and setup status, cookies of the browser | fetch, refresh, retry, redirect, login, logout | single-flight per tab, not per browser; gates that judge the same account by different flags |
| Settings and wizard pages | `Settings.tsx`, `Setup.tsx`, `settings.ts` | step of the wizard, pending forms | change password, switch 2FA on and off, complete | answers of older requests after a change |
| Config map form, YAML editor | `ConfigMapDetail.tsx`, `ManifestEditor.tsx`, `k8s.ts`, `internal/k8s/manifest.go`, `configmaps.go` | text, original, resourceVersion | load, edit, reload, dry run, save | refetches under edits, which version a text belongs to |
| Pages with sockets | `Terminal.tsx`, `PodExecModal.tsx`, `PodLogStream.tsx`, `Logs.tsx`, `LogStream.tsx` (two), `ContainerCard.tsx`, `system.ts` | socket, status, lines | open, switch, reset, reconnect | events of sockets that were replaced |
| Pages with rows | `Network.tsx`, `Containers.tsx`, `Services.tsx` and their hooks | cached list, pending changes | poll, act on a row | rows that are out of date when clicked |
| Audit log | `internal/store/audit.go` | `audit_log` | write, list | best effort |
| Configuration, router, pages, packaging | the rest | none | | no protocol of their own |

Components meet in few places. Handlers call the stores (SQL statements), the job
runner and the limiters (mutexes in memory). The updates handlers start jobs, whose
goroutines feed the listeners of stream handlers, which feed browser tabs. Setup
and login both end in `Manager.Issue`. Every authenticated handler passes
`RequireAuth`, which reads the session and the user once, before the handler runs. The
pages of the SPA reach the server through `apiFetch`, whose 401s lead to `refreshHandler`,
and share with each other the cache of one query library and the cookies of one browser.

What makes each component correct, and the hazards that could break it, are in
`PROJECT.json` (`hazards`), each at its line with the properties that cover it.

## Modules

| Module | Models | Extends / uses |
|---|---|---|
| `Sessions` | rotation, login, logout, change password, one action per SQL statement | `TokenFamilies` by `INSTANCE` |
| `TokenFamilies` | what rotation promises, one indivisible step per request | |
| `SessionsProofs` | theorems about `Sessions` | |
| `RateLimit` | `IPLimiter`, `UserBackoff` and the order in which login asks them | |
| `RateLimitProofs` | theorems about `RateLimit` | |
| `Jobs` | the job runner and the handlers that start jobs | |
| `JobStream` | status and stream handlers, the hook of the page | `Jobs` |
| `JobStreamProofs` | theorems about `JobStream`, and so about `Jobs` | |
| `FirstRun` | boot sequence with kills, wizard | |
| `FirstRunProofs` | theorems about `FirstRun` | |
| `Shell` | terminal session and pod exec: socket, process and three goroutines | |
| `Editors` | the form of a config map and the YAML editor, with the server functions behind them | |
| `EditorsProofs` | theorems about `Editors` | |
| `Sockets` | the eight views that hold a WebSocket, and the poll beside one of them | |
| `SocketsProofs` | theorems about `Sockets` and `Shell`, the two ends of a terminal | |
| `Client` | tabs, cookies, fetch wrapper, gates and forms of signing in | |
| `ClientProofs` | theorems about `Client` | |
| `Panels` | firewall, containers and services: lists, rows, buttons and the host | |
| `PanelsProofs` | theorems about `Panels` | |
| `MC...` | symmetry sets and views for TLC | |

### Sessions

`table` is the `sessions` table, `pw` the password column as a version number, `req`
what each concurrent request is doing. `req[w].at` names the statement that comes
next, so `RotateLookup`, `RotateInsert`, `RotateRevokeParent` are the three
statements of a successful `Manager.Rotate` and other requests run between them. What
a request read earlier is kept in `req` and not read again, as in the code. With
`DBFaults` a statement may fail; `BestEffort` is a statement whose error the code
drops. `failed` remembers that one did, because two properties are only true
until then.

A token is the id of its session: whoever presents a wrong secret for an id is
answered like one with an unknown id. Ids are 128 random bits and so never repeat
(`Fresh`). A browser presents only tokens an answer has carried (`Sent`). bcrypt,
TOTP, CSRF and access tokens are left out, except that `RequireAuth` looks at the
session. Switching 2FA on and off is in `Client`, in one step per request.

`TokenFamilies` is the abstract view: a family has one usable token or none, rotation
replaces it by a new one, a closed family stays closed. `Sessions` implements it for
one request at a time (`FamilyContract`, with `TF` as the refinement mapping). It does
not with two: between `RotateInsert` and `RotateRevokeParent` two tokens work, and
two rotations of one token both succeed. What remains true then is stated
separately: `Lineage` (a theorem), `LiveParentInFlight`, `RetiredTokenIsSterile`.

### RateLimit

Tokens are counted in ticks of the time that refills them, which makes the refill rate
1 and the bound linear: 5 per minute is `Cost` 12 s and `Capacity` 60 s. A request reads
the clock (`Begin`), waits for the mutex at most `MaxStall`, and then refills with a
reading that may be older than the last one. `watch` counts the grants of one address
from an arbitrary moment on. `float64` rounding is not modelled.

### Jobs and JobStream

Output is numbered in chunks; the ring buffer then holds an interval, a listener's
channel a sequence of numbers and a closed flag. Each critical section of `Job.mu` and
`Runner.mu` is one action. `StreamLoop` is the `select` of `jobStreamWS`: any ready case
may be taken. `wire` is what is in the socket; `Room` makes a handler wait when nobody
reads, which is how listeners become slow. `tab` is the state of `useJobStream`, `rest`
the status request that races the socket. Pings, their write errors and the read
goroutine are one action, `StreamStop`.

### FirstRun

`proc` is the program counter of `run` in `main.go`. SQLite statements and transactions
are atomic, files are not: `Crash` may leave the file that is being written `Torn`. What a
boot generates is named by the number of that boot, so that "certificate and key
belong together" is an equation. The wizard's handlers are one action per statement.

### Shell

`handler` of the terminal and `podExecWS` have the same shape and are one module over
`shellKind`; where they differ (who counts output when, what closing means, what main waits
for) the actions say so. `main`, `output` and `ticker` are the places of the three
goroutines, `closing` is `Session.Close` inside its `Once` or the cancelled context, and
`child`, `stream` and `peer` are what may end at any moment: the shell, the call of
`PodExec`, the browser. `wsDead` is the socket after its first failed write. Output,
pings and the idle notice are written without a lock; `crashed` is the library's panic.
Input that reaches main ends up in `input` until the shell takes it, which it may never
do. The end of the shell alone ends nothing: the page is not told, and the session lasts
until the browser sends something or leaves, or the idle limit passes.

### Editors

`kind` chooses the form of `ConfigMapDetail` or the sheet of `ManifestEditor`. `hist` has, for
each object, all versions there have been: the data, the fields no form shows (`rest`), who
wrote it and from which version its text was made (`base`, history). `page` is what the
component keeps: the text, the original it compares with, the `resourceVersion` it will
send; `fetch` is the query, `request` what was sent and not yet answered. The two saves
differ as in the code: `ApplyManifest` sends the version of the page and is refused when it
is no longer the current one; `UpdateConfigMap` reads a version first (`GetForUpdate`) and
sends that. Requests outlive the sheet, their callbacks do not all.

### Sockets

`page` is the state of one view, `socks` the sockets of the browser, those included whose
view has called `close` and whose last event is still to come (`closing`, `failing`).
`Commit` is the effect of React: cleanup of the old socket, cleared state, new socket, all
in the step that changes the key. What an event handler does depends on whether the
component that set it is still mounted (`alive`), and not on whether the socket is still
the one of the page: the code does not ask either. Which views keep their lines, which
reconnect and which say nothing when their stream ends is different in each and modelled
as it is. `NoElement` is the shell of a pod whose effect finds no element to put the terminal
in and returns without a socket. `poll` is the query of the overview, which frames and answers both replace.

### Client

Each tab has four requests at most: the account, the setup status, a form or button, and
any other query. The cookies are one for all tabs; a request carries those of the moment it
was sent (`Asked`). The server answers in one step, since `Sessions` and `FirstRun` have the
steps in between. `Unauthorized`, `TryRefresh`, `RefreshArrives` and `Resumed` are `apiFetch`;
`AuthGate`, `SetupGate` and `LoginGate` are the three gates as functions of what is
cached, and `Navigate` follows a redirect. `Fail` and `FailRefresh` let a request fail before
or after the server has acted. Of the query library, only what these pages rely on is
there, and marked external: what a mount fetches (of a status that is known, only when it has
grown old), that an invalidation replaces a request
unless it is the first, that clearing the cache leaves the mounted components what they have.

### Panels

`request` has the mutations of the page; one that was sent before the page was left (`visit`)
goes on, but the page that is mounted anew does not wait for it (`Pending`). A rule may be
added for IPv4 and IPv6 at once (`Insertions`). `hist` is the sequence of states the host has been in, `shown` the one on the screen, so
that a stale row is a row of an older state. A rule is deleted by its position, a
container or unit is named. A change may be done and still be reported as an error
(`HostDoes`): its answer is lost, the unit's job outlasts 30 s, or the reload after
enabling fails. `ver`, `clean` and `told` of a request are history: what the page knew
when the button was clicked.

## Runs

| Run | Instance | Shows |
|---|---|---|
| `SessionsRace` | 2 requests, 3 sessions, 1 account, 1 password change, failing statements | safety of rotation under interleaving |
| `SessionsSerial` | 1 request, 4 sessions, 1 account, 1 password change, no faults, fair | `Sessions` implements `TokenFamilies`; a replay ends in a revoked family |
| `JobsStream` | 1 job of up to 3 chunks, ring of 2, channel of 1, socket of 2, 1 tab | channels, order, ends |
| `FirstRun` | 3 starts, 2 browsers, 2 usernames, 2 migrations, failing statements | boot and wizard across kills |
| `RateLimit` | 2 addresses, 2 requests, bucket of 2, time up to 5, stall of 1 | limits under stalls and pruning |
| `Shell` | 1 session of either kind, 2 chunks of output | it ends, completely, whatever stops first |
| `Editors` | 1 object, 2 texts, 3 versions, 2 saves, either editor | which version a text is saved over; what a save leaves alone; the form catches up |
| `Sockets` | 8 kinds of view, 2 keys, 2 commands, 2 sockets, 2 lines, 3 frames, 2 samples | one socket, of what is shown; whole logs; it comes back |
| `Client` | 2 tabs, 2 sessions, 2 actions of users or polls, 1 failing request | no family burnt without a cause; 2FA as it is; no endless splash; nobody signed in is kept out |
| `Panels` | 2 rules or 1 unit, 3 states of the host, 2 changes, 1 leave | which rule goes; nothing running is removed unseen; the page shows the host |
| `EditorsOverwrite` | the form, 2 objects, 2 requests, 3 versions | finding: edits of others are overwritten without a conflict |
| `ClientRedirects` | 1 tab, 2 moves of the user, no failing request | finding: the two gates redirect to each other |

The last two are expected to end with a counterexample: each checks one sentence of the
documentation or of a comment against the code (`findings` in `PROJECT.json`).

### Where the code disagrees with its texts

The two findings are checked by runs of their own. Others came up while modelling; the
models contain them (dropping the exception named below gives TLC's counterexample):

- `sessions.go:67` says that a family "has already been revoked" when reuse is reported, and
  `Settings.tsx:109` that all other sessions "have been signed out" after a change of the
  password: a rotation or login in flight inserts its session afterwards. Hence
  `RetiredTokenIsSterile` and `StaleCredentialDiesOut` begin when nothing is in flight.
- `MILESTONES.md:245` promises "full output to-date": the `select` may prefer the end of the
  job to buffered chunks. Hence `StreamInOrder` speaks of holes, not of the tail.
- `updates.ts:80` promises the "accumulated output": the status answer replaces it.
- `SPEC.md:173` says that exactly one administrator exists: two completes may both count
  none. Hence `SetupCloses` excepts what is past its count.
- `PodExecModal.tsx:278` says that exec exits when the shell does: nothing tells the browser.
- `PodExecModal.tsx:258` disables Reset while the shell is connecting. If the effect finds no
  element (`:80`) it has opened no socket and is not run again, so that the button stays
  disabled until another container or command is picked or the dialog is closed. Hence
  `ResetComesBack` excepts `NeverConnected`.
- `auth.ts:50` writes the account the wizard's last request has made into the cache whenever
  its answer comes. A status that is fetched again meanwhile may lead out of the wizard, and
  to a login and a change of 2FA, before that. Hence `TwoFactorShown` excepts it
  (`CompleteArrives` forgets whose change it was).

### Why the bounds are enough

Two concurrent requests are enough for every race here: each hazard is one request
acting on what another has changed since. Three sessions allow a parent, its child and
a second child of the parent, or a grandchild; the serial run has four so that a family
is rotated twice, replayed, and exists beside another. Three chunks with a ring of two and a channel of one
make the ring wrap and a listener overflow; one tab is enough because listeners do
not affect each other except through the job, and `Tab` state is per tab. Three starts
are a first one that is killed, a second that finds what it left and is killed as
well, and a last one. The clock of `RateLimit` reaches the deletion of an idle
bucket (`ExpireDur` 4, `MaxTime` 5); longer times are covered by the theorem.
`MaxPassword`, `MaxBoots`, `MaxTime`, `MaxChunks` and the finite id sets are bounds of the
models, not of the program. Two chunks of output are one before and one during the end of
a session; the counters are only compared, never used in a guard of the code.

In `Editors` three versions are the one a text was made from, somebody else's, and the one
that is saved over it; a second save is a retry or a second editor's. In `Sockets` two
sockets are the one in use and one that was replaced and still has an event to come (a third
would need a slot, and waits for one); with one line less than frames the ring drops a line.
In `Client` two sessions are one and its successor, or those of before and after a logout; a
status that is fetched again because it has grown old counts as an action of the user, which
bounds how often a mount does so (in the code after 30 s at the earliest);
two tabs are needed for shared cookies, and every liveness property speaks of what happens
when users have stopped. In `Panels` a third state of the host is one that neither the list
nor the request knows of; two requests are a change and its repetition.

Symmetry is used only in runs without liveness properties. `ButAudit` hides the audit log,
which no action reads, in runs whose properties do not speak of it. Deadlock checking is
off in `JobsStream` (job ids run out and tabs are gone for good), in `FirstRun`
(starts run out), in `Shell` (a handler ends) and in the `Client` runs (users stop, and
nothing is asked for); the other systems never stop.

### Fairness

- `Sessions`: weak fairness of the statements of a request that has begun. Handlers run
  on goroutines of their own and wait for nothing but SQLite.
- `JobStream`: weak fairness of the job's goroutine, nothing else. `JobEnds` therefore
  holds with tabs that never read. `StreamEnds` assumes fair stream handlers in its
  antecedent.
- `Shell`: weak fairness of the goroutines, of timers and of the write deadline, and of
  what must follow from outside: a killed process exits, a cancelled `PodExec` returns.
  Strong fairness of two cases of the ticker's `select`, because Go picks among ready
  cases at random. Nothing says that a shell reads its input, produces output or ends.
- `FirstRun`: weak fairness of the boot steps, including the start itself, which is
  systemd's `Restart=on-failure` or Docker's restart policy. Kills stop at the last
  start.

- `Editors`: the form's poll goes on, and is answered at some time.
- `Sockets`: the browser opens a socket or gives up; a server that is asked again and again
  is reached at some time (strong fairness of `Opens`, `ServerAnswers`, `PollArrives`); timers
  fire. Nobody has to send anything, close anything or look at the page.
- `Client`: redirects are followed, which React does, and some request of a tab is answered
  or fails as long as it has any (`Network`), which one is left open. Users do nothing they
  do not want to.
- `Panels`: the poll goes on, and is answered at some time; changes need not be.

## Proofs

`tlapm` checks them for every value of the constants that satisfies the named
assumptions of the modules.

**SessionsProofs.** The inductive invariant is `IInv == TypeOK /\ Lineage /\ RequestsOK`.
`Lineage` alone is not inductive: an insert must not overwrite a row that others have as
parent, which needs that the id of a request in progress is in nobody else's hands and
not in the table, and that the row the request read is still there (`RequestsOK`).
From it follow the action properties `RetiredTokenIsSterile` (theorem `RetiredForever`) and
`StaleCredentialDiesOut` (`StaleCredentials`), step by step over `Next`.
`LiveParentInFlight` and `InvalidMeansDead` are inductive relative to it. The theorems hold
with failing statements and any number of requests, accounts and sessions.

`RotationRefines` is the refinement `FamilyContract`, for one worker and no failing statement,
where the code keeps it: every step of `Sessions` is a step of `TokenFamilies` under the
mapping `TF`, or a stutter. It needs that a family has at most one usable session
(`OneUsable`), so that the `CHOOSE` of the mapping has one choice, and that the rows a rotation
has read and written are still live (`Undisturbed`), which another worker would undo. An insert is a stutter, revoking the parent is the abstract rotation.

**RateLimitProofs.** `WindowBound` (theorem `GrantsBounded`) needs `Conserved`: what is
left in the bucket, less the time of its last refill, plus what has been granted since
the watch began, never exceeds `Capacity` less that moment. A refill with any reading,
old or new, leaves the sum alone or lowers it at the brim, and a grant moves tokens from
one term to the other. For a bucket that is deleted the sum says nothing, so the second
half of `Conserved` keeps track of how much was granted by when; the deletion is harmless
because `ExpireDur >= Capacity + 2 * MaxStall` (`RateLimitAssumption`; 10 minutes against
60 s plus two waits for a mutex).

`LockoutBounded` (theorem `LockoutHolds`) counts more than the guesses: while a username is
locked, guesses and requests that have passed `CanAttempt` and not yet reported are together
at most the workers (`LockoutOf`), since a report turns one into the other and a lock lets
nobody in. The theorem assumes a finite set of requests.

**FirstRunProofs.** `ServingSound` and `SetupPossible` need to know how far the boot sequence
has come at each place (`BootProgress`: what is in memory and on disk once a step has
passed) and that a token row that exists without an account is that of this start
(`TokenFresh`). `SetupCloses` needs neither: it is the observation that once there is a
user, only a `complete` past its count can add one, and that none can get past it.

**JobStreamProofs.** The invariant speaks of one tab at a time (`TabInv`). A listener is
registered only while its handler follows a running job (`Following`), and what waits in
its channel continues, chunk by chunk, what has been sent, up to everything the job has
written as long as the listener has not been dropped (`ChannelOK`). Frames in the socket,
the answer of the status request and the tab carry an outcome only if the job has it
(`FramesOK`, `AnswerOK`, `TabOK`). The theorems hold for any number of jobs, tabs and
requests, and any sizes.

**EditorsProofs.** The invariant relates four things that each step moves apart: the versions
(`HistOK`: a version's base is an earlier one), what is on its way to the page (`FetchOK`),
what the page has (`PageOK`: its text, original and version are of one fetched version,
unless the user has typed) and what was sent (`RequestsOK`: a save carries the version of
its text). `ManifestKeepsOthers` alone is not inductive, because an apply that is under way
must be known to carry the version its text was made from before the server decides.
`FormKeepsRest` needs the invariant only for types: the server sends back what it has read,
or the write is refused.

**SocketsProofs.** `SocketWanted`, `LinesOfKey` and `LiveIsLive` are parts of the invariant
themselves. They hold together or not at all: a line may be appended because the socket it
comes from is the one of what is shown, and a socket in use must be known to have its
component mounted (`SocketsOK`) before its close can be trusted to change the page. `PageOK`
says that a view has no lines while its socket is connecting, so that the first line of a
stream is the first one shown. The ring needs no arithmetic beyond `Len(lines) <= MaxLines`.

The theorems about `Shell` are in the same module, which extends both (for this the names of
`Shell` that others have as well begin with "shell"). `ShellInv` says of each place in `main`
what the waits before it have established (closed, output over, ticker over), and that a
chunk in hand still fits the bound. The places and the flags are proved apart
(`ShellPlaces`, `ShellFlags`).

**ClientProofs.** `PunishedWithCause` follows from `Causes`: as long as no answer to a refresh
was lost and no two tabs have refreshed at once, there is one refresh at a time
(`OneRefresh`), of a session that has no successor; the session of the cookies has one only
while the answer that sets it is on its way (`CookieFresh`); and cookies that are on their
way are of a session nobody has refreshed, in one answer alone (`SetsFresh`). The last part is what makes a login, a
wizard or a refresh that is answered late harmless. `References` says that what is referred
to has been created, so that a new session is in nobody's hands. `SlotsOK` keeps the queries
of the gates from setting cookies.

`TwoFactorShown` follows from `ShownInv`, which relates the account, a tab and its requests
(`Fits`). Its core is `Agrees`: of the tab whose change was the last, an answer that is there
and not yet delivered tells the new state, and once nothing is asked the tab has it. The other
parts exclude the ways around: before the first account nobody has been told of one and there
are no sessions (`Unset`, `NoSessions`), so that the wizard is not overtaken; only one answer
of the wizard counts, it finds the tab in the wizard or the wizard left for good, since a
status says so (`Completes`, `MayLeave`); a request that waits
for a refresh carries a 401, never data (`SlotsFit`). A step is followed part by part: what a
slot may hold next (`SlotFits`), what a tab may learn (`FitsKnown`, `FitsStatus`), what
invalidation, an emptied cache and a mount do (`FitsInvalidated`, `FitsForgotten`,
`FitsMount`); the other tabs only see the account change (`ServerKept`).

**PanelsProofs.** Both action properties compare the state a row was chosen from with the state
the host acts on, so `RequestOK` keeps for every change under way what its row was: the rule at
that position in that state, or a container of that name that ran. `WrongRuleHasCause` also
needs that a list that counts as settled has every change the page was told of (`ListOK`). A
success asks for the list anew, the answer of a request that was joined after an absence is
`old`, and a state the host adds is of a change the page cannot have been told of yet. So if
the list was the host's last state, the position is right, and otherwise that last state is the
cause (`DeleteStep`). For `RunningRemovedKnowingly`, a removal of a running container was forced,
hence its card showed the container running (`RemoveStep`). `TakenAway` says that what disappears
is what `RemoveAt` takes; the lemmas on `RemoveAt`, `InsertAt` and `SetToSeq` are in the module.
`PanelsAssumption` has finitely many rules and units, since the host starts with a sequence of
them.

Only model-checked: liveness, which the prover does not reach. Every other property of a
passing run is a theorem.
The proofs assume of the constants only what the `ASSUME`s of the modules say, which TLC
evaluates in each run, and what the theorem itself names: one worker and no faults, or finitely many
requests. Other invariants of these modules are theorems and in no run.

## Not modelled

Parsing (`/proc`, `ufw`, `apt`, journal entries), configuration, rendering and styling,
packaging. CSRF and security headers keep no state. ACME and dev mode, because the
installers do not use them. Reads that keep nothing on either side: lists and details of
Kubernetes objects, secrets, interfaces, the package list, the audit log. Scaling,
restarting, cordoning and deleting pass one call on to the cluster and invalidate a list.
The deltas of the collectors between two samples are arithmetic on values of `/proc`. The
environment and size of a terminal. Two requests that enrol 2FA at the same time
(`auth.go:231`) both succeed; `Client` has the handler as one step and does not show it.
