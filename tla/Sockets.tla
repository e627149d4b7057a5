------------------------------- MODULE Sockets -------------------------------
(***************************************************************************)
(* The views of the browser that hold a WebSocket, each opened by an       *)
(* effect of React that is run again when its key changes:                 *)
(*   "terminal"  routes/Terminal.tsx                                       *)
(*   "exec"      components/k8s/PodExecModal.tsx                           *)
(*   "pod"       components/k8s/PodLogStream.tsx in PodDetail.tsx          *)
(*   "journal"   JournalView and LiveStream of routes/Logs.tsx             *)
(*   "docker"    ContainersView and DockerLogStream of routes/Logs.tsx     *)
(*   "sheet"     LogStream.tsx of containers and services in their sheets  *)
(*   "stats"     useContainerLiveStats of ContainerCard.tsx                *)
(*   "overview"  useSystemStatsWS and useSystemOverview of lib/system.ts   *)
(*                                                                         *)
(* Abstractions: a key is a container, a unit, a query or the id of a      *)
(* container; a line is its socket's key and its number.  Scrolling, the   *)
(* substring filter of lines already received and the drawing of a         *)
(* terminal are left out.  Time is left out: a timer that runs may fire.   *)
(***************************************************************************)
EXTENDS Naturals, Sequences

CONSTANTS
    Kinds,       \* the views under consideration
    Keys, NoKey,
    Commands, NoCommand,
    Shell,       \* /bin/sh
    MaxSockets,  \* bound: sockets that are not closed at the same time
    MaxLines,    \* MAX_LINES, MAX_LIVE_ENTRIES
    MaxFrames,   \* bound: frames of one socket
    MaxSamples   \* bound: changes of the host's state

AllKinds == {"terminal", "exec", "pod", "journal", "docker", "sheet", "stats", "overview"}

ASSUME SocketsAssumption ==
    /\ Kinds \subseteq AllKinds
    /\ NoKey \notin Keys /\ Keys # {}
    /\ NoCommand \notin Commands /\ Shell \in Commands
    /\ MaxSockets \in Nat \ {0} /\ MaxLines \in Nat \ {0}
    /\ MaxFrames \in Nat /\ MaxSamples \in Nat \ {0}

VARIABLES
    kind,
    socks,   \* the sockets of the browser
    page,    \* the state of the view
    list,    \* the last answer of the query the view depends on
    host,    \* the state of the host, as the number of its last change
    poll     \* the query of the overview

vars == <<kind, socks, page, list, host, poll>>

-----------------------------------------------------------------------------
Slots == 1..MaxSockets

\* closing, failing: the view has called close, on an open socket or on one that was
\* still connecting; the events are to come.  alive: the component that set the
\* handlers is still mounted.
Socket == [at: {"free", "connecting", "open", "closing", "failing"},
           key: Keys \cup {NoKey}, command: Commands \cup {NoCommand},
           alive: BOOLEAN, n: Nat]

NoSocket == [at |-> "free", key |-> NoKey, command |-> NoCommand, alive |-> FALSE, n |-> 0]

LogLine == [key: Keys, n: Nat]

\* tail: Live tail is on (journal), docker is available (docker).
Page == [on: BOOLEAN, key: Keys \cup {NoKey}, tail: BOOLEAN, ws: 0..MaxSockets,
         status: {"connecting", "open", "closed"}, error: BOOLEAN, lines: Seq(LogLine),
         command: Commands, custom: Commands \cup {NoCommand}, useCustom: BOOLEAN,
         attempts: 0..6, timer: BOOLEAN, shown: Nat]

NewPage == [on |-> FALSE, key |-> NoKey, tail |-> FALSE, ws |-> 0,
            status |-> "connecting", error |-> FALSE, lines |-> <<>>,
            command |-> Shell, custom |-> NoCommand, useCustom |-> FALSE,
            attempts |-> 0, timer |-> FALSE, shown |-> 0]

\* quiet: the cached overview has not changed for refetchInterval.
Poll == [at: {"none", "sent", "answered"}, sample: Nat, quiet: BOOLEAN]

TypeOK ==
    /\ kind \in Kinds
    /\ socks \in [Slots -> Socket]
    /\ page \in Page
    /\ list \subseteq Keys
    /\ host \in 1..MaxSamples
    /\ poll \in Poll

Init ==
    /\ kind \in Kinds
    /\ socks = [s \in Slots |-> NoSocket]
    /\ page = NewPage
    /\ list = {}
    /\ host = 1
    /\ poll = [at |-> "none", sample |-> 0, quiet |-> TRUE]

-----------------------------------------------------------------------------
\* The effect.  list holds the containers docker has, the ids whose details are
\* known (sheet), those that run (stats), the queries journald has refused (journal).

\* What the effect, given its dependencies, is connected to.
Wanted(p, l) ==
    IF \/ ~p.on
       \/ kind \in {"journal", "docker"} /\ ~p.tail
       \/ kind \in {"sheet", "stats"} /\ p.key \notin l
    THEN NoKey ELSE p.key

\* Never empty.
Resolved(p) ==
    IF ~p.useCustom THEN p.command
    ELSE IF p.custom = NoCommand THEN Shell ELSE p.custom

Opened(p) == [at |-> "connecting", key |-> p.key, command |-> Resolved(p), alive |-> TRUE, n |-> 0]

\* What ws.close() makes of a socket.
Left(s) ==
    CASE s.at = "open" -> [s EXCEPT !.at = "closing"]
      [] s.at = "connecting" -> [s EXCEPT !.at = "failing"]
      [] OTHER -> s

\* Mutant: the status of the session before stays.
ClearedNotStatus(p) ==
    [p EXCEPT !.lines = <<>>, !.error = FALSE, !.attempts = 0, !.timer = FALSE]

Cleared(p) ==
    [p EXCEPT !.lines = <<>>, !.error = FALSE, !.status = "connecting",
              !.attempts = 0, !.timer = FALSE]

\* Streams in sheets and the statistics keep what they have when only the key changes.
KeepsLines == kind \in {"sheet", "stats"}

Connected == page.ws # 0 /\ socks[page.ws].at = "open"

Free == {s \in Slots : socks[s].at = "free"}

\* The element in a portal may not be there when the effect runs first: it returns.
NoElement(old) == IF kind = "exec" /\ old = NoKey THEN {0} ELSE {}

\* Mutant: the effect returns no cleanup.
CommitNoCleanup(p, l, again) ==
    LET old == Wanted(page, list)
        new == Wanted(p, l)
    IN /\ list' = l
       /\ IF old = new /\ ~again THEN page' = p /\ UNCHANGED socks
          ELSE \E s \in IF new = NoKey THEN {0} ELSE Free \cup NoElement(old) :
                  /\ socks' = [t \in Slots |->
                        IF t = s THEN Opened(p)
                        ELSE [socks[t] EXCEPT !.alive = @ /\ new # NoKey]]
                  /\ page' = [IF KeepsLines /\ old # NoKey /\ new # NoKey THEN p ELSE Cleared(p)
                              EXCEPT !.ws = s]
       /\ UNCHANGED <<kind, host, poll>>

\* One commit of React: the view is rendered with page p and answers l; if the
\* dependencies of the effect have changed, or its generation, its cleanup is run and
\* then the effect.  Without a key the component is unmounted.
Commit(p, l, again) ==
    LET old == Wanted(page, list)
        new == Wanted(p, l)
    IN /\ list' = l
       /\ IF old = new /\ ~again THEN page' = p /\ UNCHANGED socks
          ELSE \E s \in IF new = NoKey THEN {0} ELSE Free \cup NoElement(old) :
                  /\ socks' = [t \in Slots |->
                        IF t = s THEN Opened(p)
                        ELSE [IF t = page.ws THEN Left(socks[t]) ELSE socks[t]
                              EXCEPT !.alive = @ /\ new # NoKey]]
                  /\ page' = [IF KeepsLines /\ old # NoKey /\ new # NoKey THEN p ELSE Cleared(p)
                              EXCEPT !.ws = s]
       /\ UNCHANGED <<kind, host, poll>>

Show(p) == Commit(p, list, FALSE)

-----------------------------------------------------------------------------
\* The user.

\* Docker's key is chosen later.  The detail of what a sheet shows may be known already.
Open(k) ==
    /\ ~page.on
    /\ kind = "docker" <=> k = NoKey
    /\ \E l \in SUBSET list :
          /\ kind # "sheet" => l = list
          /\ Commit([NewPage EXCEPT !.on = TRUE, !.key = k, !.tail = (kind = "docker"),
                                    !.shown = page.shown], l, FALSE)

Leave ==
    /\ page.on
    /\ Show([page EXCEPT !.on = FALSE])

\* Reset and Reconnect of both terminals.
Reset ==
    /\ kind \in {"terminal", "exec"}
    /\ page.on /\ page.status # "connecting"
    /\ Commit(page, list, TRUE)

PickContainer(k) ==
    /\ kind = "exec" /\ page.on /\ k # page.key
    /\ Commit([page EXCEPT !.key = k], list, TRUE)

PickCommand(c) ==
    /\ kind = "exec" /\ page.on
    /\ c # page.command \/ page.useCustom
    /\ Commit([page EXCEPT !.command = c, !.useCustom = FALSE], list, TRUE)

\* The session goes on with the command it has.
PickCustom ==
    /\ kind = "exec" /\ page.on /\ ~page.useCustom
    /\ Show([page EXCEPT !.useCustom = TRUE])

TypeCommand(c) ==
    /\ kind = "exec" /\ page.on /\ page.useCustom /\ c # page.custom
    /\ Show([page EXCEPT !.custom = c])

CommitCommand ==
    /\ kind = "exec" /\ page.on /\ page.useCustom /\ page.custom # NoCommand
    /\ Commit(page, list, TRUE)

\* Another container of the pod, by click or because the one shown has disappeared.
PodContainer(k) ==
    /\ kind = "pod" /\ page.on /\ k # page.key
    /\ Show([page EXCEPT !.key = k])

\* Each change of a filter, and in the text fields each character.
Filter(k) ==
    /\ kind = "journal" /\ page.on /\ k # page.key
    /\ Show([page EXCEPT !.key = k])

\* Both directions are disabled while the answer to the query is that journald is
\* unavailable.
ToggleLive ==
    /\ kind = "journal" /\ page.on /\ page.key \notin list
    /\ Show([page EXCEPT !.tail = ~@])

\* No container is a choice, too, until the effect makes another.
SelectContainer(k) ==
    /\ kind = "docker" /\ page.on /\ page.tail
    /\ k # page.key /\ k \in list \cup {NoKey}
    /\ Show([page EXCEPT !.key = k])

Clear ==
    /\ kind \in {"pod", "docker", "sheet"} /\ page.ws # 0
    /\ Show([page EXCEPT !.lines = <<>>])

-----------------------------------------------------------------------------
\* What the views are told by their queries.

\* The containers there are; or docker is unavailable.
DockerAnswers ==
    /\ kind = "docker" /\ page.on
    /\ \/ \E l \in SUBSET Keys : Commit([page EXCEPT !.tail = TRUE], l, FALSE)
       \/ Show([page EXCEPT !.tail = FALSE])

\* The first that runs, or the first.
AutoPick ==
    /\ kind = "docker" /\ page.on /\ page.key = NoKey
    /\ \E k \in list : Show([page EXCEPT !.key = k])

\* The detail of what the sheet shows.
DetailAnswers ==
    /\ kind = "sheet" /\ page.on /\ page.key \notin list
    /\ Commit(page, list \cup {page.key}, FALSE)

\* The container runs; it does not.
StateAnswers ==
    /\ kind = "stats" /\ page.on
    /\ \E l \in {list \cup {page.key}, list \ {page.key}} : Commit(page, l, FALSE)

\* A query that was sent before Live tail was switched on is answered after it.  One
\* that is sent again may forget that journald was unavailable.
JournalAnswers ==
    /\ kind = "journal" /\ page.on
    /\ \E l \in {list \cup {page.key}, list \ {page.key}} : Commit(page, l, FALSE)

-----------------------------------------------------------------------------
\* The sockets' events.

Opens(s) ==
    /\ socks[s].at = "connecting"
    /\ socks' = [socks EXCEPT ![s].at = "open"]
    /\ page' = [page EXCEPT !.status = "open", !.attempts = 0]
    /\ UNCHANGED <<kind, list, host, poll>>

\* Mutant: the oldest lines are kept.
RingHead(lines, x) ==
    LET all == Append(lines, x)
        room == IF kind = "stats" THEN 1 ELSE MaxLines
    IN IF Len(all) > room THEN SubSeq(all, 1, room) ELSE all

\* The newest lines; of the statistics, the last sample.
Ring(lines, x) ==
    LET all == Append(lines, x)
        room == IF kind = "stats" THEN 1 ELSE MaxLines
    IN IF Len(all) > room THEN SubSeq(all, Len(all) - room + 1, Len(all)) ELSE all

\* onmessage of the log streams and the statistics.
Line(s) ==
    /\ kind \in {"pod", "journal", "docker", "sheet", "stats"}
    /\ socks[s].at = "open" /\ socks[s].n < MaxFrames
    /\ socks' = [socks EXCEPT ![s].n = @ + 1]
    /\ page' = [page EXCEPT !.lines = Ring(@, [key |-> socks[s].key, n |-> socks[s].n + 1])]
    /\ UNCHANGED <<kind, list, host, poll>>

\* The server says that something is wrong; the statistics take it for a sample.
ErrorFrame(s) ==
    /\ kind \notin {"stats", "overview"}
    /\ socks[s].at = "open" /\ ~page.error
    /\ page' = [page EXCEPT !.error = TRUE]
    /\ UNCHANGED <<kind, socks, list, host, poll>>

\* Mutant: without onclose.
EndedSilently(p, failed) == [p EXCEPT !.error = @ \/ failed]

\* onerror and onclose.
Ended(p, failed) ==
    CASE kind \in {"terminal", "exec"} -> [p EXCEPT !.status = "closed", !.error = @ \/ failed]
      [] kind = "overview" -> [p EXCEPT !.timer = TRUE,
                                         !.attempts = IF @ < 6 THEN @ + 1 ELSE 6]
      [] kind = "stats" -> p
      [] OTHER -> [p EXCEPT !.error = @ \/ failed]

\* It could not be opened, the connection is lost, or the server has closed it; or it
\* is the end of a socket the view has left.
Ends(s) ==
    /\ socks[s].at # "free"
    /\ \E failed \in BOOLEAN :
          /\ socks[s].at \in {"connecting", "failing"} => failed
          /\ socks[s].at = "closing" => ~failed
          /\ page' = IF socks[s].alive THEN Ended(page, failed) ELSE page
    /\ socks' = [socks EXCEPT ![s] = NoSocket]
    /\ UNCHANGED <<kind, list, host, poll>>

-----------------------------------------------------------------------------
\* The overview.

\* connect, after the delay.
Reconnect ==
    /\ page.timer
    /\ \E s \in Free :
          /\ socks' = [socks EXCEPT ![s] = Opened(page)]
          /\ page' = [page EXCEPT !.timer = FALSE, !.ws = s]
    /\ UNCHANGED <<kind, list, host, poll>>

HostChanges ==
    /\ kind = "overview" /\ host < MaxSamples
    /\ host' = host + 1
    /\ UNCHANGED <<kind, socks, page, list, poll>>

\* The server's ticker.
ServerPushes(s) ==
    /\ kind = "overview" /\ socks[s].at = "open" /\ socks[s].n = 0
    /\ socks' = [socks EXCEPT ![s].n = host]
    /\ UNCHANGED <<kind, page, list, host, poll>>

\* onmessage: setQueryData, which starts the interval of the query anew.
Sample(s) ==
    /\ kind = "overview" /\ socks[s].at = "open" /\ socks[s].n # 0
    /\ socks' = [socks EXCEPT ![s].n = 0]
    /\ page' = [page EXCEPT !.shown = socks[s].n]
    /\ poll' = [poll EXCEPT !.quiet = FALSE]
    /\ UNCHANGED <<kind, list, host>>

Interval ==
    /\ kind = "overview" /\ ~poll.quiet
    /\ poll' = [poll EXCEPT !.quiet = TRUE]
    /\ UNCHANGED <<kind, socks, page, list, host>>

\* Mutant: only until there is something to show.
PollOnce ==
    /\ kind = "overview" /\ poll.at = "none" /\ poll.quiet /\ page.shown = 0
    /\ poll' = [poll EXCEPT !.at = "sent"]
    /\ UNCHANGED <<kind, socks, page, list, host>>

\* The bar above all pages uses the query, too: it goes on whatever page is shown.
PollOverview ==
    /\ kind = "overview" /\ poll.at = "none" /\ poll.quiet
    /\ poll' = [poll EXCEPT !.at = "sent"]
    /\ UNCHANGED <<kind, socks, page, list, host>>

ServerAnswers ==
    /\ poll.at = "sent"
    /\ poll' = [poll EXCEPT !.at = "answered", !.sample = host]
    /\ UNCHANGED <<kind, socks, page, list, host>>

\* The answer replaces what frames have brought since it was sent.
PollArrives ==
    /\ poll.at = "answered"
    /\ page' = [page EXCEPT !.shown = poll.sample]
    /\ poll' = [at |-> "none", sample |-> 0, quiet |-> FALSE]
    /\ UNCHANGED <<kind, socks, list, host>>

PollFails ==
    /\ poll.at # "none"
    /\ poll' = [at |-> "none", sample |-> 0, quiet |-> FALSE]
    /\ UNCHANGED <<kind, socks, page, list, host>>

-----------------------------------------------------------------------------
User ==
    \/ \E k \in Keys \cup {NoKey} : Open(k) \/ SelectContainer(k)
    \/ \E k \in Keys : PickContainer(k) \/ PodContainer(k) \/ Filter(k)
    \/ \E c \in Commands : PickCommand(c) \/ TypeCommand(c)
    \/ TypeCommand(NoCommand)
    \/ Leave \/ Reset \/ PickCustom \/ CommitCommand \/ ToggleLive \/ Clear

Next ==
    \/ User
    \/ DockerAnswers \/ AutoPick \/ DetailAnswers \/ StateAnswers \/ JournalAnswers
    \/ \E s \in Slots :
          \/ Opens(s) \/ Line(s) \/ ErrorFrame(s) \/ Ends(s)
          \/ ServerPushes(s) \/ Sample(s)
    \/ Reconnect \/ HostChanges \/ Interval
    \/ PollOverview \/ ServerAnswers \/ PollArrives \/ PollFails

\* A browser opens a socket or gives up, a server that is asked again and again is
\* reached at some time, timers fire; nobody has to do or send anything.
Spec ==
    /\ Init /\ [][Next]_vars
    /\ \A s \in Slots :
          WF_vars(Ends(s) /\ socks[s].at # "open") /\ SF_vars(Opens(s))
    /\ WF_vars(Reconnect) /\ WF_vars(Interval) /\ WF_vars(PollOverview)
    /\ SF_vars(ServerAnswers) /\ SF_vars(PollArrives)

-----------------------------------------------------------------------------
\* Of all sockets a view has opened only one is in use, that of what it shows now,
\* and none after it is left: not while another is to be opened later, and a shell
\* runs in the container and with the command that are picked (PodExecModal.tsx:175).
SocketWanted ==
    \A s \in Slots : socks[s].at \in {"connecting", "open"} =>
        /\ s = page.ws /\ ~page.timer
        /\ socks[s].key = Wanted(page, list) /\ page.on
        /\ kind = "exec" /\ ~page.useCustom => socks[s].command = page.command

\* What is shown as a log is one stream's: the last lines it has delivered, each once
\* and in order, whatever was shown before.
LinesOfKey ==
    LET lines == page.lines IN
    /\ \A i \in DOMAIN lines :
          lines[i].key = Wanted(page, list) /\ lines[i].n = lines[1].n + i - 1
    /\ lines # <<>> /\ Connected => lines[Len(lines)].n = socks[page.ws].n
    /\ Len(lines) <= MaxLines

\* A terminal that says "Live" is: no event of a session before makes it say so.
LiveIsLive ==
    kind \in {"terminal", "exec"} /\ page.on /\ page.status = "open" =>
        Connected

\* A shell in a pod whose effect has returned before it had an element to draw in
\* (PodExecModal.tsx:80): nothing runs the effect again, the status stays "connecting" and
\* the button disabled (line 258) until another container or command is picked.
NeverConnected == kind = "exec" /\ page.on /\ page.ws = 0

\* The button that resets a terminal is disabled while it connects, but not for ever,
\* except in the shell of a pod that has never begun to connect: there it is disabled for
\* as long as the user does nothing else (Terminal.tsx, PodExecModal.tsx:258).
ResetComesBack ==
    kind \in {"terminal", "exec"} /\ page.on /\ page.status = "connecting"
        ~> ~page.on \/ page.status # "connecting" \/ NeverConnected

\* "Reconnects with exponential backoff" (system.ts:104): for as long as the page is
\* there.
Reconnects ==
    kind = "overview" /\ page.on ~> ~page.on \/ Connected

\* "The REST polling keeps tiles alive" (system.ts:105): what is shown comes to what
\* the host is, without any socket and in spite of late answers.
OverviewCatchesUp == kind = "overview" => <>[](page.shown = host)
=============================================================================
