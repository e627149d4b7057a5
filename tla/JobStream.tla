------------------------------ MODULE JobStream ------------------------------
(***************************************************************************)
(* A job followed in the browser: the status handler and the WebSocket     *)
(* handler of internal/api/updates/updates.go on one side, the hook        *)
(* useJobStream of web/src/lib/updates.ts on the other, over Jobs.         *)
(*                                                                         *)
(* The hook sends GET /api/updates/jobs/:id and opens the WebSocket at the *)
(* same time; nothing orders the two answers.  A WebSocket delivers frames *)
(* in order, at the pace the tab reads them: a handler whose socket is     *)
(* full waits, which is how a listener becomes slow.                       *)
(***************************************************************************)
EXTENDS Jobs

CONSTANT WireFrames   \* frames in the sockets between handler and tab

Tabs == Listeners     \* each tab that follows a job subscribes once

VARIABLES
    conn,  \* jobStreamWS, per tab
    wire,  \* frames sent and not received
    rest,  \* the status request, per tab
    tab    \* the state of the hook

vars == <<job, listener, call, conn, wire, rest, tab>>

-----------------------------------------------------------------------------
\* hi is the last chunk handed to the socket (or in the snapshot about to be).
Conn == [at  : {"none", "subscribe", "snapshot", "state", "loop", "ended"},
         job : JobIds \cup {NoJob},
         lo  : 0..(MaxChunks + 1),
         hi  : 0..MaxChunks,
         end : {"none", "notFound", "final", "gone"}]

NoConn == [at |-> "none", job |-> NoJob, lo |-> 1, hi |-> 0, end |-> "none"]

Frame == [type : {"snapshot", "chunk", "state"},
          lo   : 0..(MaxChunks + 1),
          hi   : 0..MaxChunks,
          state: JobStates \cup {"not_found", "none"}]

StateFrame(st)        == [type |-> "state", lo |-> 1, hi |-> 0, state |-> st]
ChunkFrame(n)         == [type |-> "chunk", lo |-> n, hi |-> n, state |-> "none"]
SnapshotFrame(lo, hi) == [type |-> "snapshot", lo |-> lo, hi |-> hi, state |-> "none"]

Rest == [at : {"none", "sent", "read", "answered", "settled"},
         state : JobStates,
         lo : 0..(MaxChunks + 1), hi : 0..MaxChunks]

NoRest == [at |-> "none", state |-> "absent", lo |-> 1, hi |-> 0]

TabRecord == [at    : {"idle", "mounted", "gone"},
              job   : JobIds \cup {NoJob},
              state : {"running", "not_found"} \cup Finals,
              output: Seq(1..MaxChunks)]

NoTab == [at |-> "idle", job |-> NoJob, state |-> "running", output |-> <<>>]

TypeOK ==
    /\ JobsTypeOK
    /\ conn \in [Tabs -> Conn]
    /\ wire \in [Tabs -> Seq(Frame)]
    /\ rest \in [Tabs -> Rest]
    /\ tab \in [Tabs -> TabRecord]

Init ==
    /\ JobsInit
    /\ conn = [s \in Tabs |-> NoConn]
    /\ wire = [s \in Tabs |-> <<>>]
    /\ rest = [s \in Tabs |-> NoRest]
    /\ tab = [s \in Tabs |-> NoTab]

-----------------------------------------------------------------------------
\* GET /api/updates/jobs/:id: jobStatusToResp reads the state, then (under
\* the lock) the output.

StatusState(s, next) ==
    rest' = [rest EXCEPT ![s].at = next, ![s].state = job[tab[s].job].state]

StatusOutput(s, next) ==
    rest' = [rest EXCEPT ![s].at = next, ![s].lo = FirstKept(tab[s].job),
                                         ![s].hi = LastKept(tab[s].job)]

\* Mutant: the output is read first.
StatusSwapped(s) ==
    /\ \/ rest[s].at = "sent" /\ StatusOutput(s, "read")
       \/ rest[s].at = "read" /\ StatusState(s, "answered")
    /\ UNCHANGED <<job, listener, call, conn, wire, tab>>

Status(s) ==
    /\ \/ /\ rest[s].at = "sent"
          /\ StatusState(s, IF job[tab[s].job].state = "absent" THEN "settled" ELSE "read")
       \/ rest[s].at = "read" /\ StatusOutput(s, "answered")
    /\ UNCHANGED <<job, listener, call, conn, wire, tab>>

-----------------------------------------------------------------------------
\* WS /ws/updates/jobs/:id: jobStreamWS.

Room(s) == Len(wire[s]) < WireFrames

\* A frame for a tab that is gone goes nowhere.
Push(s, f) ==
    wire' = IF tab[s].at = "gone" THEN wire ELSE [wire EXCEPT ![s] = Append(@, f)]

\* Runner.Get, and Subscribe on the job it returned.
StreamSubscribe(s) ==
    LET j == tab[s].job
    IN  /\ conn[s].at = "subscribe"
        /\ \/ /\ job[j].state = "absent"
              /\ Push(s, StateFrame("not_found"))
              /\ conn' = [conn EXCEPT ![s].at = "ended", ![s].end = "notFound"]
              /\ UNCHANGED listener
           \/ /\ job[j].state # "absent"
              /\ Subscribe(s, j)
              /\ conn' = [conn EXCEPT ![s] = [at |-> "snapshot", job |-> j,
                             lo |-> FirstKept(j), hi |-> LastKept(j), end |-> "none"]]
              /\ UNCHANGED wire
        /\ UNCHANGED <<job, call, rest, tab>>

\* The snapshot frame, unless there is no output yet.
StreamSnapshot(s) ==
    /\ conn[s].at = "snapshot"
    /\ \/ conn[s].hi = 0 /\ UNCHANGED wire
       \/ conn[s].hi > 0 /\ Room(s) /\ Push(s, SnapshotFrame(conn[s].lo, conn[s].hi))
    /\ conn' = [conn EXCEPT ![s].at = "state"]
    /\ UNCHANGED <<job, listener, call, rest, tab>>

StreamState(s) ==
    /\ conn[s].at = "state"
    /\ Room(s)
    /\ Push(s, StateFrame(job[conn[s].job].state))
    /\ conn' = [conn EXCEPT ![s].at = "loop"]
    /\ UNCHANGED <<job, listener, call, rest, tab>>

\* The handler returns; the deferred unsubscribe runs.
StreamEnd(s, why) ==
    /\ conn' = [conn EXCEPT ![s].at = "ended", ![s].end = why]
    /\ Unsubscribe(s)

\* case chunk, ok := <-ch with ok
StreamChunk(s) ==
    /\ listener[s].buf # <<>>
    /\ Push(s, ChunkFrame(Head(listener[s].buf)))
    /\ conn' = [conn EXCEPT ![s].hi = Head(listener[s].buf)]
    /\ listener' = [listener EXCEPT ![s].buf = Tail(@)]

\* case chunk, ok := <-ch without ok, and case <-job.Done()
StreamFinal(s) ==
    /\ \/ listener[s].closed /\ listener[s].buf = <<>>
       \/ job[conn[s].job].done
    /\ Push(s, StateFrame(job[conn[s].job].state))
    /\ StreamEnd(s, "final")

\* Mutant: a closed channel is taken for an empty chunk, and job.Done() is not watched.
StreamLoopForever(s) ==
    /\ conn[s].at = "loop"
    /\ Room(s)
    /\ StreamChunk(s)
    /\ UNCHANGED <<job, call, rest, tab>>

\* The select of the handler's loop: any ready case may be taken.
StreamLoop(s) ==
    /\ conn[s].at = "loop"
    /\ Room(s)
    /\ StreamChunk(s) \/ StreamFinal(s)
    /\ UNCHANGED <<job, call, rest, tab>>

\* The handler notices that nobody reads: the tab closed the socket (the read
\* goroutine), or a write met its deadline on a full socket.
StreamStop(s) ==
    /\ conn[s].at \in {"snapshot", "state", "loop"}
    /\ tab[s].at = "gone" \/ ~Room(s)
    /\ StreamEnd(s, "gone")
    /\ UNCHANGED <<job, call, wire, rest, tab>>

\* The connection breaks, at any time; the tab does not reconnect.
StreamLost(s) ==
    /\ conn[s].at \in {"snapshot", "state", "loop"}
    /\ StreamEnd(s, "gone")
    /\ UNCHANGED <<job, call, wire, rest, tab>>

-----------------------------------------------------------------------------
\* The hook.

Interval(lo, hi) == [i \in 1..(hi - lo + 1) |-> lo + i - 1]

\* The effect for a new jobId.
Mount(s, j) ==
    /\ tab[s].at = "idle"
    /\ tab' = [tab EXCEPT ![s] = [NoTab EXCEPT !.at = "mounted", !.job = j]]
    /\ rest' = [rest EXCEPT ![s].at = "sent"]
    /\ conn' = [conn EXCEPT ![s].at = "subscribe"]
    /\ UNCHANGED <<job, listener, call, wire>>

\* The answer to the status request: it replaces output and state, whatever the
\* socket has delivered by then.
RestAnswer(s) ==
    /\ rest[s].at = "answered"
    /\ tab[s].at = "mounted"
    /\ tab' = [tab EXCEPT ![s].output = Interval(rest[s].lo, rest[s].hi),
                          ![s].state = rest[s].state]
    /\ rest' = [rest EXCEPT ![s].at = "settled"]
    /\ UNCHANGED <<job, listener, call, conn, wire>>

\* ws.onmessage
Receive(s) ==
    /\ tab[s].at = "mounted"
    /\ wire[s] # <<>>
    /\ LET f == Head(wire[s])
           t == tab[s]
       IN  tab' = [tab EXCEPT ![s] =
                     CASE f.type = "snapshot" -> [t EXCEPT !.output = Interval(f.lo, f.hi)]
                       [] f.type = "chunk"    -> [t EXCEPT !.output = Append(t.output, f.lo)]
                       [] f.type = "state"    -> [t EXCEPT !.state = f.state]]
    /\ wire' = [wire EXCEPT ![s] = Tail(@)]
    /\ UNCHANGED <<job, listener, call, conn, rest>>

\* The cleanup of the effect: no answer is applied any more, and a closed
\* WebSocket delivers nothing.
Unmount(s) ==
    /\ tab[s].at = "mounted"
    /\ tab' = [tab EXCEPT ![s] = [NoTab EXCEPT !.at = "gone", !.job = tab[s].job]]
    /\ wire' = [wire EXCEPT ![s] = <<>>]
    /\ UNCHANGED <<job, listener, call, conn, rest>>

-----------------------------------------------------------------------------
JobStep(j) == Write(j) \/ Finish(j) \/ CloseDone(j)

StreamStep(s) ==
    \/ StreamSubscribe(s)
    \/ StreamSnapshot(s)
    \/ StreamState(s)
    \/ StreamLoop(s)
    \/ StreamStop(s)

JobsNext ==
    /\ \/ \E w \in Workers :
             \/ \E a \in Actions : StartJob(w, a)
             \/ ApplyLookup(w)
             \/ ApplyRun(w)
       \/ \E j \in JobIds : JobStep(j)
    /\ UNCHANGED <<conn, wire, rest, tab>>

Next ==
    \/ JobsNext
    \/ \E s \in Tabs :
          \/ StreamStep(s)
          \/ StreamLost(s)
          \/ Status(s)
          \/ \E j \in JobIds : Mount(s, j)
          \/ RestAnswer(s)
          \/ Receive(s)
          \/ Unmount(s)

\* apt writes what it writes and exits, and the job's goroutine is scheduled.
Spec == Init /\ [][Next]_vars /\ \A j \in JobIds : WF_vars(JobStep(j) /\ UNCHANGED <<conn, wire, rest, tab>>)

-----------------------------------------------------------------------------
(***************************************************************************)
(* Properties                                                              *)
(***************************************************************************)
\* The channel of a registered listener is open: Write sends on it and Finish,
\* Write and unsubscribe close it, and either panics on a closed channel
\* (jobs.go:103-136, 186-189).  Once the job has ended nobody is registered,
\* so nothing is left to wait for a close that has been done.
ListenersOpen ==
    \A s \in Tabs :
        listener[s].registered => /\ ~listener[s].closed
                                  /\ Running(listener[s].job)

\* What a stream has sent, followed by what waits in its channel, is the
\* output without a gap or a repetition, up to the last chunk written for as
\* long as the listener is registered (jobs.go:86-111, 122-139).
StreamInOrder ==
    \A s \in Tabs :
        conn[s].at \in {"snapshot", "state", "loop"} =>
            LET b == listener[s].buf
            IN  /\ \A i \in 1..Len(b) : b[i] = conn[s].hi + i
                /\ listener[s].registered =>
                     conn[s].hi + Len(b) = job[conn[s].job].written

\* A stream that is over leaves no listener behind (jobs.go:80-82).
NoListenerLeft ==
    \A s \in Tabs : conn[s].at = "ended" => ~listener[s].registered

\* A status answer that says the job has ended carries the whole output
\* (updates.go:110-126: the state is read first).
FinalStatusIsComplete ==
    \A s \in Tabs :
        (rest[s].at = "answered" /\ rest[s].state \in Finals) =>
            rest[s].hi = job[tab[s].job].written

\* The page never shows a job as ended, or with an outcome, that it has not.
TabNeverPremature ==
    \A s \in Tabs : tab[s].state \in Finals => job[tab[s].job].state = tab[s].state

\* A job ends whatever its listeners do: no fairness of any stream is assumed
\* (jobs.go:132, "drop it rather than block the runner").
JobEnds == \A j \in JobIds : Running(j) ~> job[j].done

\* Every stream of a job that has ended, or of a tab that has gone, is over at
\* some time, if its handler is scheduled: no goroutine is left behind.
StreamFairness == \A s \in Tabs : WF_vars(StreamStep(s))

StreamEnds ==
    StreamFairness =>
        \A s \in Tabs :
            ( /\ conn[s].at \in {"snapshot", "state", "loop"}
              /\ Finished(conn[s].job) \/ tab[s].at = "gone" )
                ~> conn[s].at = "ended"

-----------------------------------------------------------------------------
-----------------------------------------------------------------------------
\* The strengthening of the invariants above (JobStreamProofs), tab by tab.

Following(s) == conn[s].at \in {"snapshot", "state", "loop"}

\* A listener is registered for as long as its handler follows a running job, at
\* most, and what it holds is what comes next.
ChannelOK(s) ==
    LET l == listener[s]
        j == tab[s].job
    IN  /\ l.registered => Following(s) /\ ~l.closed /\ Running(j)
        /\ Following(s) =>
            /\ conn[s].job = j /\ l.job = j
            /\ job[j].state # "absent"
            /\ \A i \in 1..Len(l.buf) : l.buf[i] = conn[s].hi + i
            /\ l.registered => conn[s].hi + Len(l.buf) = job[j].written
        /\ Following(s) => conn[s].lo >= 1

\* An outcome that has been read is the job's, and an output read after it is all.
AnswerOK(s) ==
    rest[s].at \in {"read", "answered"} =>
        /\ rest[s].state # "absent"
        /\ rest[s].at = "answered" => rest[s].lo >= 1
        /\ rest[s].state \in Finals =>
            /\ job[tab[s].job].state = rest[s].state
            /\ rest[s].at = "answered" => rest[s].hi = job[tab[s].job].written

\* So is an outcome on its way to the tab, and chunks are chunks.
FrameOK(s, f) ==
    /\ f.type = "chunk" => f.lo \in 1..MaxChunks
    /\ f.type = "snapshot" => f.lo >= 1
    /\ f.type = "state" => f.state \in {"running", "not_found"} \cup Finals
    /\ f.state \in Finals => job[tab[s].job].state = f.state

FramesOK(s) == \A i \in 1..Len(wire[s]) : FrameOK(s, wire[s][i])

TabOK(s) ==
    /\ tab[s].at = "idle" => conn[s].at = "none" /\ rest[s].at = "none" /\ wire[s] = <<>>
    /\ tab[s].at # "idle" => tab[s].job \in JobIds
    /\ tab[s].state \in Finals =>
        tab[s].job \in JobIds /\ job[tab[s].job].state = tab[s].state

TabInv(s) == ChannelOK(s) /\ AnswerOK(s) /\ FramesOK(s) /\ TabOK(s)

IInv == TypeOK /\ \A s \in Tabs : TabInv(s)
=============================================================================
