-------------------------------- MODULE Jobs --------------------------------
(***************************************************************************)
(* The job runner of internal/jobs/jobs.go, with the handlers of           *)
(* internal/api/updates/updates.go that start jobs.                        *)
(*                                                                         *)
(* Job.mu and Runner.mu guard what they guard in the code, so a critical   *)
(* section is one action; the lookup of a running upgrade and the start of *)
(* a new one are two, because nothing is held between them.                *)
(*                                                                         *)
(* Abstractions: output is counted in chunks, one per Write, numbered from *)
(* 1, so that the ring buffer holds an interval of numbers; a listener's   *)
(* channel is a sequence of chunk numbers with a closed flag.  Nothing     *)
(* calls Cancel and the parent context is never cancelled, so a job ends   *)
(* "succeeded" or "failed".                                                *)
(***************************************************************************)
EXTENDS Naturals, Sequences

CONSTANTS
    JobIds,          \* the ids mintJobID can return; finite for TLC
    Listeners,       \* calls of Subscribe
    Workers,         \* requests that start jobs
    NoJob,
    MaxChunks,       \* bound: Writes per job
    RingChunks,      \* defaultBufferSize, in chunks
    ListenerBuffer   \* listenerBuffer

ASSUME JobsAssumption ==
    /\ NoJob \notin JobIds
    /\ MaxChunks \in Nat
    /\ RingChunks \in Nat \ {0}
    /\ ListenerBuffer \in Nat \ {0}

VARIABLES
    job,       \* Runner.jobs and the fields of each Job
    listener,  \* Job.listeners, with the channels handed out
    call       \* what each request that starts a job is doing

jobVars == <<job, listener, call>>

Actions   == {"updates.check", "updates.apply", "system.reboot"}
Finals    == {"succeeded", "failed"}
JobStates == {"absent", "running"} \cup Finals

\* done is close(j.done), the last thing the job's goroutine does.
JobRecord == [state  : JobStates,
              action : Actions \cup {"none"},
              size   : 0..MaxChunks,   \* the Writes its function makes
              written: 0..MaxChunks,
              done   : BOOLEAN]

AbsentJob == [state |-> "absent", action |-> "none", size |-> 0,
              written |-> 0, done |-> FALSE]

Channel == [job        : JobIds \cup {NoJob},
            registered : BOOLEAN,               \* in j.listeners
            closed     : BOOLEAN,
            buf        : Seq(1..MaxChunks)]

NoChannel == [job |-> NoJob, registered |-> FALSE, closed |-> FALSE, buf |-> <<>>]

JobsTypeOK ==
    /\ job \in [JobIds -> JobRecord]
    /\ listener \in [Listeners -> Channel]
    /\ call \in [Workers -> {"idle", "run"}]

JobsInit ==
    /\ job = [j \in JobIds |-> AbsentJob]
    /\ listener = [l \in Listeners |-> NoChannel]
    /\ call = [w \in Workers |-> "idle"]

-----------------------------------------------------------------------------
Running(j)  == job[j].state = "running"
Finished(j) == job[j].state \in Finals

\* The chunks the ring buffer holds: the last RingChunks written.
FirstKept(j) == IF job[j].written > RingChunks THEN job[j].written - RingChunks + 1 ELSE 1
LastKept(j)  == job[j].written

Registered(l, j) == listener[l].registered /\ listener[l].job = j

Closed(c) == [c EXCEPT !.registered = FALSE, !.closed = TRUE]

-----------------------------------------------------------------------------
\* Runner.Run: the job is registered and its goroutine started.
Run(a) ==
    \E j \in JobIds, n \in 0..MaxChunks :
        /\ job[j].state = "absent"
        /\ job' = [job EXCEPT ![j] = [AbsentJob EXCEPT !.state = "running",
                                                       !.action = a, !.size = n]]

\* POST /api/updates/check and POST /api/system/reboot start a job outright.
StartJob(w, a) ==
    /\ call[w] = "idle"
    /\ a \in {"updates.check", "system.reboot"}
    /\ Run(a)
    /\ UNCHANGED <<listener, call>>

\* ActiveByAction
Active(a) == {j \in JobIds : job[j].action = a /\ Running(j)}

\* POST /api/updates/apply: 409 if an upgrade is running.
ApplyLookup(w) ==
    /\ call[w] = "idle"
    /\ call' = [call EXCEPT ![w] = IF Active("updates.apply") # {} THEN "idle" ELSE "run"]
    /\ UNCHANGED <<job, listener>>

ApplyRun(w) ==
    /\ call[w] = "run"
    /\ Run("updates.apply")
    /\ call' = [call EXCEPT ![w] = "idle"]
    /\ UNCHANGED listener

-----------------------------------------------------------------------------
\* Mutants of Offer: the slow listener loses the chunk but stays; it is closed
\* but stays in the map.
OfferSkips(c, n) ==
    IF Len(c.buf) < ListenerBuffer THEN [c EXCEPT !.buf = Append(@, n)] ELSE c

OfferKeepsClosed(c, n) ==
    IF Len(c.buf) < ListenerBuffer
    THEN [c EXCEPT !.buf = Append(@, n)]
    ELSE [c EXCEPT !.closed = TRUE]

\* What the fan-out of Write does to the channel of a registered listener.
Offer(c, n) ==
    IF Len(c.buf) < ListenerBuffer
    THEN [c EXCEPT !.buf = Append(@, n)]
    ELSE Closed(c)

\* Mutant: the runner waits for the slow listener.
WriteBlocks(j) ==
    /\ Running(j)
    /\ job[j].written < job[j].size
    /\ \A l \in Listeners : Registered(l, j) => Len(listener[l].buf) < ListenerBuffer
    /\ job' = [job EXCEPT ![j].written = @ + 1]
    /\ listener' = [l \in Listeners |->
                      IF Registered(l, j) THEN Offer(listener[l], job[j].written + 1)
                      ELSE listener[l]]
    /\ UNCHANGED call

\* Job.Write
Write(j) ==
    /\ Running(j)
    /\ job[j].written < job[j].size
    /\ job' = [job EXCEPT ![j].written = @ + 1]
    /\ listener' = [l \in Listeners |->
                      IF Registered(l, j) THEN Offer(listener[l], job[j].written + 1)
                      ELSE listener[l]]
    /\ UNCHANGED call

\* The critical section after fn returned: the final state, and every listener
\* closed.
Finish(j) ==
    /\ Running(j)
    /\ job[j].written = job[j].size
    /\ \E r \in Finals : job' = [job EXCEPT ![j].state = r]
    /\ listener' = [l \in Listeners |->
                      IF Registered(l, j) THEN Closed(listener[l]) ELSE listener[l]]
    /\ UNCHANGED call

CloseDone(j) ==
    /\ Finished(j)
    /\ ~job[j].done
    /\ job' = [job EXCEPT ![j].done = TRUE]
    /\ UNCHANGED <<listener, call>>

-----------------------------------------------------------------------------
\* Job.Subscribe; the snapshot it returns is FirstKept(j)..LastKept(j).
Subscribe(l, j) ==
    listener' = [listener EXCEPT ![l] =
                    [job |-> j, registered |-> Running(j),
                     closed |-> ~Running(j), buf |-> <<>>]]

\* Mutant: nothing is unsubscribed.
UnsubscribeNothing(l) == UNCHANGED listener

\* The unsubscribe func: a listener that Write dropped, or Finish closed, is
\* not closed again.
Unsubscribe(l) ==
    listener' = [listener EXCEPT ![l] = IF @.registered THEN Closed(@) ELSE @]
=============================================================================
