--------------------------- MODULE JobStreamProofs --------------------------
(***************************************************************************)
(* What a stream sends and what a tab shows is right for every number of   *)
(* jobs, tabs and chunks, every size of ring, channel and socket.  TabInv  *)
(* follows the output of one job from the ring buffer through the channel, *)
(* the handler, the socket and the status request into one tab.            *)
(***************************************************************************)
EXTENDS JobStream, TLAPS

USE JobsAssumption DEF Tabs

-----------------------------------------------------------------------------
\* The ring buffer holds an interval of the chunks written.
LEMMA KeptBounds ==
  ASSUME JobsTypeOK, NEW j \in JobIds
  PROVE  /\ FirstKept(j) \in 1..(MaxChunks + 1)
         /\ LastKept(j) \in 0..MaxChunks
         /\ LastKept(j) = job[j].written
         /\ job[j].state \in JobStates
BY DEF JobsTypeOK, JobRecord, FirstKept, LastKept

\* An interval is a sequence of chunks.
LEMMA IntervalType ==
  ASSUME NEW lo \in 1..(MaxChunks + 1), NEW hi \in 0..MaxChunks
  PROVE  Interval(lo, hi) \in Seq(1..MaxChunks)
<1>1. CASE hi - lo + 1 \in Nat
  <2>1. \A i \in 1..(hi - lo + 1) : lo + i - 1 \in 1..MaxChunks
    BY <1>1
  <2>2. Interval(lo, hi) \in [1..(hi - lo + 1) -> 1..MaxChunks]
    BY <2>1 DEF Interval
  <2> QED
    BY <1>1, <2>2
<1>2. CASE hi - lo + 1 \notin Nat
  <2>1. 1..(hi - lo + 1) = 1..0
    BY <1>2
  <2>2. Interval(lo, hi) \in [1..0 -> 1..MaxChunks]
    BY <2>1 DEF Interval
  <2> QED
    BY <2>2
<1> QED
  BY <1>1, <1>2

-----------------------------------------------------------------------------
\* Nothing has begun: the invariant holds.
LEMMA InitIInv == Init => IInv
<1> SUFFICES ASSUME Init PROVE IInv
  OBVIOUS
<1>1. JobsTypeOK
  BY DEF Init, JobsInit, JobsTypeOK, JobRecord, AbsentJob, JobStates, Channel, NoChannel
<1>2. TypeOK
  BY <1>1 DEF Init, TypeOK, Conn, NoConn, Rest, NoRest, JobStates, TabRecord, NoTab, Finals
<1>3. ASSUME NEW s \in Tabs PROVE TabInv(s)
  BY DEF Init, JobsInit, TabInv, ChannelOK, AnswerOK, FramesOK, TabOK, Following,
         NoChannel, NoConn, NoRest, NoTab, Finals
<1> QED
  BY <1>2, <1>3 DEF IInv

-----------------------------------------------------------------------------
\* A job that has ended keeps its outcome and its output, one that exists goes on
\* existing, and one that somebody listens to has not moved.
JobKept(j, listened) ==
    /\ Finished(j) => job'[j].state = job[j].state /\ job'[j].written = job[j].written
    /\ job[j].state # "absent" => job'[j].state # "absent"
    /\ listened => job'[j].state = job[j].state /\ job'[j].written = job[j].written

\* A tab that a step does not concern keeps its invariant.
LEMMA OtherTab ==
  ASSUME IInv, NEW s \in Tabs,
         UNCHANGED <<listener[s], conn[s], wire[s], rest[s], tab[s]>>,
         \A j \in JobIds : JobKept(j, listener[s].registered /\ j = tab[s].job)
  PROVE  TabInv(s)'
<1>1. TypeOK /\ ChannelOK(s) /\ AnswerOK(s) /\ FramesOK(s) /\ TabOK(s)
  BY DEF IInv, TabInv
<1>2. /\ tab[s].at # "idle" => tab[s].job \in JobIds
      /\ Following(s) \/ rest[s].at # "none" => tab[s].at # "idle"
  BY <1>1 DEF TabOK, Following
<1>3. ChannelOK(s)'
  BY <1>1, <1>2 DEF ChannelOK, Following, Running, JobKept
<1>4. AnswerOK(s)'
  BY <1>1, <1>2 DEF AnswerOK, Finished, Finals, JobKept
<1>5. TabOK(s)'
  BY <1>1, <1>2 DEF TabOK, Finished, Finals, JobKept
<1>6. FramesOK(s)'
  <2> SUFFICES ASSUME NEW i \in 1..Len(wire[s]) PROVE FrameOK(s, wire[s][i])'
    BY DEF FramesOK
  <2>1. FrameOK(s, wire[s][i])
    BY <1>1 DEF FramesOK
  <2>2. tab[s].job \in JobIds
    BY <1>1, <1>2 DEF TabOK
  <2> QED
    BY <2>1, <2>2 DEF FrameOK, Finished, Finals, JobKept
<1> QED
  BY <1>3, <1>4, <1>5, <1>6 DEF TabInv

-----------------------------------------------------------------------------
\* The steps of the runner.

\* A new job takes an id that nobody follows yet.
LEMMA RunIInv ==
  ASSUME IInv, NEW a \in Actions, Run(a), call' \in [Workers -> {"idle", "run"}],
         UNCHANGED <<listener, conn, wire, rest, tab>>
  PROVE  IInv'
<1>1. TypeOK
  BY DEF IInv
<1>2. PICK j \in JobIds, n \in 0..MaxChunks :
        /\ job[j].state = "absent"
        /\ job' = [job EXCEPT ![j] = [AbsentJob EXCEPT !.state = "running",
                                                       !.action = a, !.size = n]]
  BY DEF Run
<1> DEFINE new == [AbsentJob EXCEPT !.state = "running", !.action = a, !.size = n]
<1>3. new \in JobRecord /\ new.state = "running"
  <2>1. AbsentJob \in JobRecord
    BY DEF AbsentJob, JobRecord, JobStates
  <2>2. "running" \in JobStates /\ a \in Actions \cup {"none"}
    BY DEF JobStates
  <2> QED
    BY <2>1, <2>2 DEF JobRecord
<1> HIDE DEF new
<1>4. /\ job' \in [JobIds -> JobRecord] /\ job'[j] = new
      /\ \A i \in JobIds : i # j => job'[i] = job[i]
  BY <1>1, <1>2, <1>3 DEF TypeOK, JobsTypeOK, new
<1>5. TypeOK'
  BY <1>1, <1>4 DEF TypeOK, JobsTypeOK
<1>6. ASSUME NEW s \in Tabs PROVE TabInv(s)'
  <2>1. ChannelOK(s)
    BY DEF IInv, TabInv
  <2>2. \A i \in JobIds : JobKept(i, listener[s].registered /\ i = tab[s].job)
    BY <1>2, <1>3, <1>4, <2>1 DEF JobKept, Finished, Finals, ChannelOK, Running
  <2> QED
    BY <2>2, OtherTab
<1> QED
  BY <1>5, <1>6 DEF IInv

\* The fan-out of a chunk to one tab.
LEMMA WriteTab ==
  ASSUME IInv, NEW j \in JobIds, Write(j), UNCHANGED <<conn, wire, rest, tab>>,
         NEW s \in Tabs
  PROVE  TabInv(s)' /\ listener'[s] \in Channel
<1>1. /\ TypeOK /\ ChannelOK(s) /\ AnswerOK(s) /\ FramesOK(s) /\ TabOK(s)
      /\ listener[s] \in Channel /\ conn[s] \in Conn
      /\ job[j] \in JobRecord
  BY DEF IInv, TabInv, TypeOK, JobsTypeOK
<1> DEFINE l == listener[s]
           n == job[j].written + 1
<1>2. /\ job[j].state = "running"
      /\ n \in 1..MaxChunks
      /\ job'[j] = [job[j] EXCEPT !.written = n]
      /\ \A i \in JobIds : i # j => job'[i] = job[i]
      /\ listener'[s] = IF Registered(s, j) THEN Offer(l, n) ELSE l
  BY <1>1 DEF Write, Running, TypeOK, JobsTypeOK, JobRecord
<1>3. job'[j].state = "running" /\ job'[j].written = n
  BY <1>1, <1>2 DEF JobRecord
<1>4. l.registered => l.job = tab[s].job
  BY <1>1 DEF ChannelOK
<1>5. CASE ~Registered(s, j)
  <2>1. \A i \in JobIds : JobKept(i, l.registered /\ i = tab[s].job)
    BY <1>2, <1>3, <1>4, <1>5 DEF JobKept, Finished, Finals, Registered
  <2> QED
    BY <1>1, <1>2, <1>5, <2>1, OtherTab
<1>6. CASE Registered(s, j)
  <2>1. /\ l.registered /\ l.job = j /\ tab[s].job = j /\ Following(s) /\ conn[s].job = j
        /\ \A i \in 1..Len(l.buf) : l.buf[i] = conn[s].hi + i
        /\ conn[s].hi + Len(l.buf) + 1 = n
        /\ ~l.closed
    BY <1>1, <1>4, <1>6 DEF Registered, ChannelOK, Conn, Channel, JobRecord
  <2>2. l.buf \in Seq(1..MaxChunks)
    BY <1>1 DEF Channel
  <2>3. CASE Len(l.buf) < ListenerBuffer
    <3>1. listener'[s] = [l EXCEPT !.buf = Append(l.buf, n)]
      BY <1>2, <1>6, <2>3 DEF Offer
    <3>2. /\ Append(l.buf, n) \in Seq(1..MaxChunks)
          /\ Len(Append(l.buf, n)) = Len(l.buf) + 1
          /\ \A i \in 1..Len(l.buf) : Append(l.buf, n)[i] = l.buf[i]
          /\ Append(l.buf, n)[Len(l.buf) + 1] = n
      BY <1>2, <2>2
    <3>3. /\ listener'[s] \in Channel
          /\ listener'[s].buf = Append(l.buf, n) /\ listener'[s].job = j
          /\ listener'[s].registered /\ ~listener'[s].closed
      BY <1>1, <2>1, <3>1, <3>2 DEF Channel
    <3>4. Len(l.buf) \in Nat /\ conn[s].hi \in Nat
      BY <1>1, <2>2 DEF Conn
    <3>5. \A i \in 1..(Len(l.buf) + 1) : Append(l.buf, n)[i] = conn[s].hi + i
      <4> TAKE i \in 1..(Len(l.buf) + 1)
      <4>1. CASE i \in 1..Len(l.buf)
        BY <2>1, <3>2, <4>1
      <4>2. CASE i = Len(l.buf) + 1
        <5>1. conn[s].hi + i = n
          <6>1. conn[s].hi + Len(l.buf) + 1 = n
            BY <2>1
          <6> HIDE DEF l
          <6> QED
            BY ONLY <3>4, <4>2, <6>1
        <5> QED
          BY <3>2, <4>2, <5>1
      <4> QED
        BY <3>4, <4>1, <4>2
    <3>6. conn'[s].hi + Len(listener'[s].buf) = n
      <4>1. conn'[s].hi = conn[s].hi /\ Len(listener'[s].buf) = Len(l.buf) + 1
        BY <3>2, <3>3
      <4>2. conn[s].hi + (Len(l.buf) + 1) = n
        BY <2>1, <3>4
      <4> QED
        BY <4>1, <4>2
    <3>7. \A i \in 1..Len(listener'[s].buf) : listener'[s].buf[i] = conn'[s].hi + i
      BY <3>2, <3>3, <3>5
    <3>8. ChannelOK(s)'
      BY <1>1, <1>3, <2>1, <3>3, <3>6, <3>7 DEF ChannelOK, Following, Running
    <3>9. AnswerOK(s)' /\ TabOK(s)'
      BY <1>1, <1>2, <1>3, <2>1 DEF AnswerOK, TabOK, Finals
    <3>10. FramesOK(s)'
      BY <1>1, <1>2, <1>3, <2>1 DEF FramesOK, FrameOK, Finals
    <3> QED
      BY <3>3, <3>8, <3>9, <3>10 DEF TabInv
  <2>4. CASE ~(Len(l.buf) < ListenerBuffer)
    <3>1. listener'[s] = [l EXCEPT !.registered = FALSE, !.closed = TRUE]
      BY <1>2, <1>6, <2>4 DEF Offer, Closed
    <3>2. /\ listener'[s] \in Channel
          /\ listener'[s].buf = l.buf /\ listener'[s].job = j
          /\ ~listener'[s].registered
      BY <1>1, <2>1, <3>1 DEF Channel
    <3>3. ChannelOK(s)'
      BY <1>1, <1>3, <2>1, <3>2 DEF ChannelOK, Following, Running, Conn
    <3> QED
      BY <3>2, <3>3, <1>1, <1>2, <1>3, <2>1 DEF TabInv, AnswerOK, FramesOK, FrameOK, TabOK, Finals
  <2> QED
    BY <2>3, <2>4
<1> QED
  BY <1>5, <1>6

LEMMA WriteIInv ==
  ASSUME IInv, NEW j \in JobIds, Write(j), UNCHANGED <<conn, wire, rest, tab>>
  PROVE  IInv'
<1>1. TypeOK
  BY DEF IInv
<1> DEFINE r == [job[j] EXCEPT !.written = job[j].written + 1]
<1>2. job' \in [JobIds -> JobRecord]
  <2>1. job \in [JobIds -> JobRecord] /\ job[j] \in JobRecord
    BY <1>1 DEF TypeOK, JobsTypeOK
  <2>2. r \in JobRecord
    BY <2>1 DEF Write, JobRecord
  <2>3. job' = [job EXCEPT ![j] = r]
    BY <2>1 DEF Write
  <2> HIDE DEF r
  <2> QED
    BY <2>1, <2>2, <2>3
<1>3. listener' \in [Listeners -> Channel]
  BY WriteTab DEF Write
<1>4. TypeOK'
  BY <1>1, <1>2, <1>3 DEF Write, TypeOK, JobsTypeOK
<1> QED
  BY <1>4, WriteTab DEF IInv

\* The end of a job: whoever listened is told, and what is in the channel stays.
LEMMA FinishIInv ==
  ASSUME IInv, NEW j \in JobIds, Finish(j), UNCHANGED <<conn, wire, rest, tab>>
  PROVE  IInv'
<1>1. TypeOK
  BY DEF IInv
<1>2. PICK r \in Finals : job' = [job EXCEPT ![j].state = r]
  BY DEF Finish
<1>3. /\ job' \in [JobIds -> JobRecord]
      /\ job[j].state = "running" /\ job'[j].state = r /\ job'[j].written = job[j].written
      /\ \A i \in JobIds : i # j => job'[i] = job[i]
  <2>1. job \in [JobIds -> JobRecord] /\ job[j] \in JobRecord /\ r \in JobStates
    BY <1>1 DEF TypeOK, JobsTypeOK, JobStates
  <2> DEFINE ended == [job[j] EXCEPT !.state = r]
  <2>2. ended \in JobRecord /\ ended.state = r /\ ended.written = job[j].written
    BY <2>1 DEF JobRecord
  <2>3. job' = [job EXCEPT ![j] = ended]
    BY <1>2, <2>1
  <2> HIDE DEF ended
  <2> QED
    BY <2>1, <2>2, <2>3 DEF Finish, Running
<1>4. ASSUME NEW s \in Tabs PROVE TabInv(s)' /\ listener'[s] \in Channel
  <2>1. /\ ChannelOK(s) /\ AnswerOK(s) /\ FramesOK(s) /\ TabOK(s)
        /\ listener[s] \in Channel
    BY <1>1 DEF IInv, TabInv, TypeOK, JobsTypeOK
  <2>2. CASE ~Registered(s, j)
    <3>1. listener'[s] = listener[s]
      BY <2>2 DEF Finish
    <3>2. \A i \in JobIds : JobKept(i, listener[s].registered /\ i = tab[s].job)
      BY <1>3, <2>1, <2>2 DEF JobKept, Finished, Finals, Registered, ChannelOK
    <3> QED
      BY <2>1, <3>1, <3>2, OtherTab
  <2>3. CASE Registered(s, j)
    <3>1. listener'[s] = [listener[s] EXCEPT !.registered = FALSE, !.closed = TRUE]
      BY <2>3 DEF Finish, Closed
    <3>2. /\ listener'[s] \in Channel
          /\ listener'[s].buf = listener[s].buf /\ listener'[s].job = listener[s].job
          /\ ~listener'[s].registered
      BY <2>1, <3>1 DEF Channel
    <3>3. tab[s].job = j /\ r # "absent" /\ r \in Finals
      BY <2>1, <2>3 DEF Registered, ChannelOK, Finals
    <3>4. ChannelOK(s)'
      BY <1>3, <2>1, <3>2, <3>3 DEF ChannelOK, Following
    <3> QED
      BY <1>3, <2>1, <3>2, <3>3, <3>4 DEF TabInv, AnswerOK, FramesOK, FrameOK, TabOK, Finals
  <2> QED
    BY <2>2, <2>3
<1>5. TypeOK'
  <2>1. listener' \in [Listeners -> Channel]
    BY <1>4 DEF Finish
  <2> QED
    BY <1>1, <1>3, <2>1 DEF Finish, TypeOK, JobsTypeOK
<1> QED
  BY <1>4, <1>5 DEF IInv

LEMMA JobsNextIInv ==
  ASSUME IInv, JobsNext PROVE IInv'
<1>1. TypeOK
  BY DEF IInv
<1>2. ASSUME NEW w \in Workers, NEW a \in Actions, StartJob(w, a) PROVE IInv'
  BY <1>1, <1>2, RunIInv DEF StartJob, JobsNext, TypeOK, JobsTypeOK
<1>3. ASSUME NEW w \in Workers, ApplyLookup(w) PROVE IInv'
  <2>1. TypeOK'
    BY <1>1, <1>3 DEF ApplyLookup, JobsNext, TypeOK, JobsTypeOK
  <2>2. ASSUME NEW s \in Tabs PROVE TabInv(s)'
    BY <1>3, OtherTab DEF ApplyLookup, JobsNext, JobKept
  <2> QED
    BY <2>1, <2>2 DEF IInv
<1>4. ASSUME NEW w \in Workers, ApplyRun(w) PROVE IInv'
  <2>1. call' \in [Workers -> {"idle", "run"}]
    BY <1>1, <1>4 DEF ApplyRun, TypeOK, JobsTypeOK
  <2>2. "updates.apply" \in Actions
    BY DEF Actions
  <2> QED
    BY <1>4, <2>1, <2>2, RunIInv DEF ApplyRun, JobsNext
<1>5. ASSUME NEW j \in JobIds, CloseDone(j) PROVE IInv'
  <2>1. /\ job' \in [JobIds -> JobRecord]
        /\ \A i \in JobIds : job'[i].state = job[i].state /\ job'[i].written = job[i].written
    <3>1. job \in [JobIds -> JobRecord] /\ job[j] \in JobRecord /\ TRUE \in BOOLEAN
      BY <1>1 DEF TypeOK, JobsTypeOK
    <3> DEFINE closed == [job[j] EXCEPT !.done = TRUE]
    <3>2. closed \in JobRecord /\ closed.state = job[j].state
          /\ closed.written = job[j].written
      BY <3>1 DEF JobRecord
    <3>3. job' = [job EXCEPT ![j] = closed]
      BY <1>5, <3>1 DEF CloseDone
    <3> HIDE DEF closed
    <3> QED
      BY <3>1, <3>2, <3>3
  <2>2. TypeOK'
    BY <1>1, <1>5, <2>1 DEF CloseDone, JobsNext, TypeOK, JobsTypeOK
  <2>3. ASSUME NEW s \in Tabs PROVE TabInv(s)'
    BY <1>5, <2>1, OtherTab DEF CloseDone, JobsNext, JobKept
  <2> QED
    BY <2>2, <2>3 DEF IInv
<1> QED
  BY <1>2, <1>3, <1>4, <1>5, WriteIInv, FinishIInv DEF JobsNext, JobStep

-----------------------------------------------------------------------------
\* The steps of a stream handler.  They concern one tab, and of that tab the
\* listener, the connection and the socket.
LEMMA StreamTab ==
  ASSUME IInv, NEW s \in Tabs, conn[s].at # "none",
         UNCHANGED <<job, call, rest, tab>>,
         listener' \in [Listeners -> Channel],
         conn' \in [Tabs -> Conn],
         wire' \in [Tabs -> Seq(Frame)],
         \A t \in Tabs : t # s => UNCHANGED <<listener[t], conn[t], wire[t]>>,
         \A i \in 1..Len(wire'[s]) : FrameOK(s, wire'[s][i]),
         ChannelOK(s)'
  PROVE  IInv'
<1>1. TypeOK'
  BY DEF IInv, TypeOK, JobsTypeOK
<1>2. ASSUME NEW t \in Tabs, t # s PROVE TabInv(t)'
  BY <1>2, OtherTab DEF JobKept
<1>3. AnswerOK(s) /\ TabOK(s)
  BY DEF IInv, TabInv
<1>4. AnswerOK(s)' /\ TabOK(s)'
  BY <1>3 DEF AnswerOK, TabOK
<1>5. FramesOK(s)'
  BY DEF FramesOK, FrameOK
<1> QED
  BY <1>1, <1>2, <1>4, <1>5 DEF IInv, TabInv

\* A frame that is in order joins a socket that is.
LEMMA PushFrame ==
  ASSUME IInv, NEW s \in Tabs, NEW f \in Frame, FrameOK(s, f), Push(s, f)
  PROVE  /\ wire' \in [Tabs -> Seq(Frame)]
         /\ \A t \in Tabs : t # s => wire'[t] = wire[t]
         /\ \A i \in 1..Len(wire'[s]) : FrameOK(s, wire'[s][i])
<1>1. /\ wire \in [Tabs -> Seq(Frame)] /\ wire[s] \in Seq(Frame)
      /\ \A i \in 1..Len(wire[s]) : FrameOK(s, wire[s][i])
  BY DEF IInv, TypeOK, TabInv, FramesOK
<1>2. CASE wire' = wire
  BY <1>1, <1>2
<1>3. CASE wire' = [wire EXCEPT ![s] = Append(@, f)]
  <2>1. /\ Append(wire[s], f) \in Seq(Frame)
        /\ Len(Append(wire[s], f)) = Len(wire[s]) + 1
        /\ \A i \in 1..Len(wire[s]) : Append(wire[s], f)[i] = wire[s][i]
        /\ Append(wire[s], f)[Len(wire[s]) + 1] = f
    BY <1>1
  <2>2. wire'[s] = Append(wire[s], f)
    BY <1>1, <1>3
  <2>3. ASSUME NEW i \in 1..(Len(wire[s]) + 1) PROVE FrameOK(s, Append(wire[s], f)[i])
    <3>1. CASE i \in 1..Len(wire[s])
      BY <1>1, <2>1, <3>1
    <3>2. CASE i = Len(wire[s]) + 1
      BY <2>1, <3>2
    <3> QED
      BY <1>1, <3>1, <3>2
  <2> QED
    BY <1>1, <1>3, <2>1, <2>2, <2>3
<1> QED
  BY <1>2, <1>3 DEF Push

\* The state of a job that exists, sent as it is.
LEMMA StateFrameOK ==
  ASSUME IInv, NEW s \in Tabs, tab[s].job \in JobIds, job[tab[s].job].state # "absent"
  PROVE  /\ StateFrame(job[tab[s].job].state) \in Frame
         /\ FrameOK(s, StateFrame(job[tab[s].job].state))
<1>1. job[tab[s].job].state \in JobStates
  BY DEF IInv, TypeOK, JobsTypeOK, JobRecord
<1> QED
  BY <1>1 DEF StateFrame, Frame, FrameOK, JobStates, Finals

\* The handler returns: the stream has no listener any more.
LEMMA EndTab ==
  ASSUME IInv, NEW s \in Tabs, NEW why \in {"final", "gone"}, StreamEnd(s, why)
  PROVE  /\ listener' \in [Listeners -> Channel]
         /\ conn' \in [Tabs -> Conn]
         /\ \A t \in Tabs : t # s => UNCHANGED <<listener[t], conn[t]>>
         /\ ChannelOK(s)'
<1>1. /\ listener \in [Listeners -> Channel] /\ listener[s] \in Channel
      /\ conn \in [Tabs -> Conn] /\ conn[s] \in Conn
  BY DEF IInv, TypeOK, JobsTypeOK
<1> DEFINE c == [conn[s] EXCEPT !.at = "ended", !.end = why]
<1>2. c \in Conn /\ c.at = "ended"
  BY <1>1 DEF Conn
<1>3. conn' = [conn EXCEPT ![s] = c]
  BY <1>1 DEF StreamEnd
<1> HIDE DEF c
<1> DEFINE l == IF listener[s].registered THEN Closed(listener[s]) ELSE listener[s]
<1>4. l \in Channel /\ ~l.registered
  BY <1>1 DEF Closed, Channel
<1>5. listener' = [listener EXCEPT ![s] = l]
  BY DEF StreamEnd, Unsubscribe
<1> HIDE DEF l
<1> QED
  BY <1>1, <1>2, <1>3, <1>4, <1>5 DEF ChannelOK, Following

\* A stream has begun only in a tab that follows a job.
LEMMA StreamOfTab ==
  ASSUME IInv, NEW s \in Tabs, conn[s].at # "none"
  PROVE  /\ tab[s].job \in JobIds
         /\ listener \in [Listeners -> Channel] /\ listener[s] \in Channel
         /\ conn \in [Tabs -> Conn] /\ conn[s] \in Conn
         /\ wire \in [Tabs -> Seq(Frame)]
         /\ \A i \in 1..Len(wire[s]) : FrameOK(s, wire[s][i])
         /\ ChannelOK(s) /\ TabOK(s)
         /\ JobsTypeOK
BY DEF IInv, TypeOK, JobsTypeOK, TabInv, FramesOK, TabOK

LEMMA SubscribeIInv ==
  ASSUME IInv, NEW s \in Tabs, StreamSubscribe(s) PROVE IInv'
<1> DEFINE j == tab[s].job
<1>1. /\ conn[s].at = "subscribe"
      /\ UNCHANGED <<job, call, rest, tab>>
  BY DEF StreamSubscribe
<1>2. /\ j \in JobIds
      /\ listener \in [Listeners -> Channel] /\ listener[s] \in Channel
      /\ conn \in [Tabs -> Conn] /\ conn[s] \in Conn
      /\ wire \in [Tabs -> Seq(Frame)]
      /\ \A i \in 1..Len(wire[s]) : FrameOK(s, wire[s][i])
      /\ ChannelOK(s) /\ JobsTypeOK
  BY <1>1, StreamOfTab
<1>3. CASE /\ Push(s, StateFrame("not_found"))
           /\ conn' = [conn EXCEPT ![s].at = "ended", ![s].end = "notFound"]
           /\ UNCHANGED listener
  <2>1. StateFrame("not_found") \in Frame /\ FrameOK(s, StateFrame("not_found"))
    BY DEF StateFrame, Frame, FrameOK, Finals
  <2> DEFINE c == [conn[s] EXCEPT !.at = "ended", !.end = "notFound"]
  <2>2. c \in Conn /\ c.at = "ended"
    BY <1>2 DEF Conn
  <2>3. conn' = [conn EXCEPT ![s] = c]
    BY <1>2, <1>3
  <2> HIDE DEF c
  <2>4. conn' \in [Tabs -> Conn] /\ \A t \in Tabs : t # s => conn'[t] = conn[t]
    BY <1>2, <2>2, <2>3
  <2>5. ~listener[s].registered
    BY <1>1, <1>2 DEF ChannelOK, Following
  <2>6. ChannelOK(s)'
    BY <1>2, <1>3, <2>2, <2>3, <2>5 DEF ChannelOK, Following
  <2> QED
    BY <1>1, <1>2, <1>3, <2>1, <2>4, <2>6, PushFrame, StreamTab
<1>4. CASE /\ job[j].state # "absent"
           /\ Subscribe(s, j)
           /\ conn' = [conn EXCEPT ![s] = [at |-> "snapshot", job |-> j,
                             lo |-> FirstKept(j), hi |-> LastKept(j), end |-> "none"]]
           /\ UNCHANGED wire
  <2> DEFINE c == [at |-> "snapshot", job |-> j,
                   lo |-> FirstKept(j), hi |-> LastKept(j), end |-> "none"]
             l == [job |-> j, registered |-> Running(j), closed |-> ~Running(j),
                   buf |-> <<>>]
  <2>1. /\ c \in Conn /\ c.at = "snapshot" /\ c.job = j /\ c.lo >= 1
        /\ c.hi = job[j].written
    BY <1>2, KeptBounds DEF Conn
  <2>2. /\ l \in Channel /\ l.job = j /\ l.buf = <<>>
        /\ l.registered <=> Running(j)
        /\ l.registered => ~l.closed
    <3>1. Running(j) \in BOOLEAN /\ (~Running(j)) \in BOOLEAN
      BY DEF Running
    <3>2. j \in JobIds \cup {NoJob} /\ <<>> \in Seq(1..MaxChunks)
      BY <1>2
    <3>3. l \in Channel
      BY <3>1, <3>2, Zenon DEF Channel
    <3> QED
      BY <3>3
  <2>3. conn' = [conn EXCEPT ![s] = c] /\ listener' = [listener EXCEPT ![s] = l]
    BY <1>4 DEF Subscribe
  <2> HIDE DEF c, l
  <2>4. /\ conn' \in [Tabs -> Conn] /\ conn'[s] = c
        /\ listener' \in [Listeners -> Channel] /\ listener'[s] = l
        /\ \A t \in Tabs : t # s => UNCHANGED <<listener[t], conn[t]>>
    BY <1>2, <2>1, <2>2, <2>3
  <2>5. job[j].written \in Nat
    BY <1>2 DEF JobsTypeOK, JobRecord
  <2>6. Len(l.buf) = 0 /\ c.hi + 0 = job[j].written
    BY <2>1, <2>2, <2>5
  <2>7. ChannelOK(s)'
    BY <1>1, <1>4, <2>1, <2>2, <2>4, <2>6 DEF ChannelOK, Following, Running
  <2> QED
    BY <1>1, <1>2, <1>4, <2>4, <2>7, StreamTab
<1> QED
  BY <1>3, <1>4 DEF StreamSubscribe

\* The handler moves on without touching its channel.
LEMMA MovesOn ==
  ASSUME IInv, NEW s \in Tabs, Following(s), NEW at \in {"state", "loop"},
         conn' = [conn EXCEPT ![s].at = at],
         UNCHANGED <<job, listener, call, rest, tab>>,
         wire' \in [Tabs -> Seq(Frame)],
         \A t \in Tabs : t # s => wire'[t] = wire[t],
         \A i \in 1..Len(wire'[s]) : FrameOK(s, wire'[s][i])
  PROVE  IInv'
<1>1. /\ conn[s].at # "none"
      /\ listener \in [Listeners -> Channel]
      /\ conn \in [Tabs -> Conn] /\ conn[s] \in Conn
      /\ ChannelOK(s)
  BY StreamOfTab DEF Following
<1> DEFINE c == [conn[s] EXCEPT !.at = at]
<1>2. /\ c \in Conn /\ c.at = at
      /\ c.job = conn[s].job /\ c.lo = conn[s].lo /\ c.hi = conn[s].hi
  BY <1>1 DEF Conn
<1>3. conn' = [conn EXCEPT ![s] = c]
  BY <1>1
<1> HIDE DEF c
<1>4. /\ conn' \in [Tabs -> Conn] /\ conn'[s] = c
      /\ \A t \in Tabs : t # s => conn'[t] = conn[t]
  BY <1>1, <1>2, <1>3
<1>5. ChannelOK(s)'
  BY <1>1, <1>2, <1>4 DEF ChannelOK, Following, Running
<1> QED
  BY <1>1, <1>4, <1>5, StreamTab

LEMMA SnapshotIInv ==
  ASSUME IInv, NEW s \in Tabs, StreamSnapshot(s) PROVE IInv'
<1>1. Following(s) /\ conn[s].at # "none"
  BY DEF StreamSnapshot, Following
<1>2. /\ wire \in [Tabs -> Seq(Frame)]
      /\ \A i \in 1..Len(wire[s]) : FrameOK(s, wire[s][i])
      /\ conn[s] \in Conn /\ conn[s].lo >= 1
  BY <1>1, StreamOfTab DEF ChannelOK
<1>3. CASE UNCHANGED wire
  BY <1>1, <1>2, <1>3, MovesOn DEF StreamSnapshot
<1>4. CASE Push(s, SnapshotFrame(conn[s].lo, conn[s].hi))
  <2>1. /\ SnapshotFrame(conn[s].lo, conn[s].hi) \in Frame
        /\ FrameOK(s, SnapshotFrame(conn[s].lo, conn[s].hi))
    BY <1>2 DEF SnapshotFrame, Frame, FrameOK, Conn, Finals
  <2> QED
    BY <1>1, <1>4, <2>1, PushFrame, MovesOn DEF StreamSnapshot
<1> QED
  BY <1>3, <1>4 DEF StreamSnapshot

LEMMA StateIInv ==
  ASSUME IInv, NEW s \in Tabs, StreamState(s) PROVE IInv'
<1>1. Following(s) /\ conn[s].at # "none"
  BY DEF StreamState, Following
<1>2. tab[s].job \in JobIds /\ conn[s].job = tab[s].job /\ job[tab[s].job].state # "absent"
  BY <1>1, StreamOfTab DEF ChannelOK
<1>3. Push(s, StateFrame(job[tab[s].job].state))
  BY <1>2 DEF StreamState
<1> QED
  BY <1>1, <1>2, <1>3, StateFrameOK, PushFrame, MovesOn DEF StreamState

\* The first element of a sequence, and what is left.
LEMMA HeadTail ==
  ASSUME NEW S, NEW b \in Seq(S), b # <<>>
  PROVE  /\ Head(b) \in S /\ Head(b) = b[1] /\ Len(b) \in Nat \ {0}
         /\ Tail(b) \in Seq(S) /\ Len(Tail(b)) = Len(b) - 1
         /\ \A i \in 1..Len(Tail(b)) : Tail(b)[i] = b[i + 1]
<1>1. Len(b) \in Nat /\ Len(b) # 0
  OBVIOUS
<1>2. 1 \in 1..Len(b)
  BY <1>1
<1>3. Head(b) = b[1] /\ b[1] \in S
  BY <1>2
<1>4. Tail(b) \in Seq(S) /\ Len(Tail(b)) = Len(b) - 1
  BY <1>1
<1>5. \A i \in 1..Len(Tail(b)) : Tail(b)[i] = b[i + 1]
  BY <1>1, <1>4
<1> QED
  BY <1>1, <1>3, <1>4, <1>5

\* A chunk goes from the channel to the socket: the channel still holds what comes
\* next.
LEMMA ChunkIInv ==
  ASSUME IInv, NEW s \in Tabs, conn[s].at = "loop", StreamChunk(s),
         UNCHANGED <<job, call, rest, tab>>
  PROVE  IInv'
<1> DEFINE b == listener[s].buf
           n == Head(b)
<1>1. /\ tab[s].job \in JobIds /\ JobsTypeOK
      /\ listener \in [Listeners -> Channel] /\ listener[s] \in Channel
      /\ conn \in [Tabs -> Conn] /\ conn[s] \in Conn
      /\ ChannelOK(s) /\ Following(s)
  BY StreamOfTab DEF Following
<1>2. b \in Seq(1..MaxChunks) /\ b # <<>>
  BY <1>1 DEF Channel, StreamChunk
<1>3. /\ n \in 1..MaxChunks /\ n = b[1] /\ Len(b) \in Nat \ {0}
      /\ Tail(b) \in Seq(1..MaxChunks) /\ Len(Tail(b)) = Len(b) - 1
      /\ \A i \in 1..Len(Tail(b)) : Tail(b)[i] = b[i + 1]
  <2> HIDE DEF b
  <2> QED
    BY <1>2, HeadTail
<1>4. n = conn[s].hi + 1 /\ conn[s].hi \in Nat
  BY <1>1, <1>3 DEF ChannelOK, Conn
<1>5. ChunkFrame(n) \in Frame /\ FrameOK(s, ChunkFrame(n))
  BY <1>3 DEF ChunkFrame, Frame, FrameOK, Finals
<1> DEFINE c == [conn[s] EXCEPT !.hi = n]
           l == [listener[s] EXCEPT !.buf = Tail(b)]
<1>6. /\ c \in Conn /\ c.at = "loop" /\ c.hi = n
      /\ c.job = conn[s].job /\ c.lo = conn[s].lo
  <2>1. n \in 0..MaxChunks /\ conn[s].at = "loop"
    BY <1>3
  <2> HIDE DEF n
  <2> QED
    BY <1>1, <2>1 DEF Conn
<1>7. /\ l \in Channel /\ l.buf = Tail(b) /\ l.job = listener[s].job
      /\ l.registered = listener[s].registered /\ l.closed = listener[s].closed
  BY <1>1, <1>3 DEF Channel
<1>8. conn' = [conn EXCEPT ![s] = c] /\ listener' = [listener EXCEPT ![s] = l]
  BY <1>1 DEF StreamChunk
<1> HIDE DEF c, l
<1>9. /\ conn' \in [Tabs -> Conn] /\ conn'[s] = c
      /\ listener' \in [Listeners -> Channel] /\ listener'[s] = l
      /\ \A t \in Tabs : t # s => UNCHANGED <<listener[t], conn[t]>>
  BY <1>1, <1>6, <1>7, <1>8
<1>10. \A i \in 1..Len(l.buf) : l.buf[i] = c.hi + i
  <2> TAKE i \in 1..Len(l.buf)
  <2>1. i \in Nat /\ i + 1 \in 1..Len(b) /\ l.buf[i] = b[i + 1]
    BY <1>3, <1>7
  <2>2. b[i + 1] = conn[s].hi + (i + 1)
    BY <1>1, <2>1 DEF ChannelOK
  <2>3. c.hi = conn[s].hi + 1
    BY <1>4, <1>6
  <2>4. \A h, m \in Nat : h + (m + 1) = (h + 1) + m
    OBVIOUS
  <2>5. conn[s].hi + (i + 1) = (conn[s].hi + 1) + i
    BY <1>4, <2>1, <2>4
  <2> QED
    BY <2>1, <2>2, <2>3, <2>5
<1>11. c.hi + Len(l.buf) = conn[s].hi + Len(b)
  <2>1. c.hi = conn[s].hi + 1 /\ Len(l.buf) = Len(b) - 1
    BY <1>3, <1>4, <1>6, <1>7
  <2>2. \A h, m \in Nat : (h + 1) + (m - 1) = h + m
    OBVIOUS
  <2>3. (conn[s].hi + 1) + (Len(b) - 1) = conn[s].hi + Len(b)
    BY <1>3, <1>4, <2>2
  <2> QED
    BY <2>1, <2>3
<1>12. ChannelOK(s)'
  BY <1>1, <1>6, <1>7, <1>9, <1>10, <1>11 DEF ChannelOK, Following, Running
<1> QED
  BY <1>1, <1>5, <1>9, <1>12, PushFrame, StreamTab DEF StreamChunk

LEMMA StreamIInv ==
  ASSUME IInv, NEW s \in Tabs, StreamStep(s) \/ StreamLost(s) PROVE IInv'
<1>1. CASE StreamLoop(s)
  <2>1. CASE StreamChunk(s)
    BY <1>1, <2>1, ChunkIInv DEF StreamLoop
  <2>2. CASE StreamFinal(s)
    <3>1. Following(s) /\ conn[s].at # "none"
      BY <1>1 DEF StreamLoop, Following
    <3>2. /\ tab[s].job \in JobIds /\ conn[s].job = tab[s].job
          /\ job[tab[s].job].state # "absent"
      BY <3>1, StreamOfTab DEF ChannelOK
    <3>3. Push(s, StateFrame(job[tab[s].job].state)) /\ StreamEnd(s, "final")
      BY <2>2, <3>2 DEF StreamFinal
    <3> QED
      BY <1>1, <3>1, <3>2, <3>3, StateFrameOK, PushFrame, EndTab, StreamTab DEF StreamLoop
  <2> QED
    BY <1>1, <2>1, <2>2 DEF StreamLoop
<1>2. CASE StreamStop(s) \/ StreamLost(s)
  <2>1. conn[s].at # "none" /\ StreamEnd(s, "gone") /\ UNCHANGED <<job, call, wire, rest, tab>>
    BY <1>2 DEF StreamStop, StreamLost
  <2> QED
    BY <2>1, EndTab, StreamOfTab, StreamTab
<1> QED
  BY <1>1, <1>2, SubscribeIInv, SnapshotIInv, StateIInv DEF StreamStep

-----------------------------------------------------------------------------
\* The steps of the hook and of the status request.  They concern one tab.
LEMMA PageTab ==
  ASSUME IInv, NEW s \in Tabs, TypeOK', TabInv(s)', UNCHANGED job,
         \A t \in Tabs : t # s =>
            UNCHANGED <<listener[t], conn[t], wire[t], rest[t], tab[t]>>
  PROVE  IInv'
<1>1. ASSUME NEW t \in Tabs, t # s PROVE TabInv(t)'
  BY <1>1, OtherTab DEF JobKept
<1> QED
  BY <1>1 DEF IInv

\* The state is read first, and what is final by then has written its last chunk.
LEMMA StatusIInv ==
  ASSUME IInv, NEW s \in Tabs, Status(s) PROVE IInv'
<1> DEFINE j == tab[s].job
<1>1. TypeOK /\ ChannelOK(s) /\ AnswerOK(s) /\ FramesOK(s) /\ TabOK(s)
  BY DEF IInv, TabInv
<1>2. /\ rest \in [Tabs -> Rest] /\ rest[s] \in Rest /\ JobsTypeOK
      /\ j \in JobIds /\ tab[s].at # "idle"
  BY <1>1 DEF TypeOK, Status, TabOK
<1>3. UNCHANGED <<job, listener, call, conn, wire, tab>>
  BY DEF Status
<1>4. ASSUME NEW r \in Rest, rest' = [rest EXCEPT ![s] = r],
             r.at \in {"read", "answered"} =>
                /\ r.state # "absent"
                /\ r.at = "answered" => r.lo >= 1
                /\ r.state \in Finals =>
                    /\ job[j].state = r.state
                    /\ r.at = "answered" => r.hi = job[j].written
      PROVE  IInv'
  <2>1. rest' \in [Tabs -> Rest] /\ rest'[s] = r /\ \A t \in Tabs : t # s => rest'[t] = rest[t]
    BY <1>2, <1>4
  <2>2. TypeOK'
    BY <1>1, <1>3, <2>1 DEF TypeOK, JobsTypeOK
  <2>3. AnswerOK(s)'
    BY <1>3, <1>4, <2>1 DEF AnswerOK
  <2>4. ChannelOK(s)' /\ TabOK(s)' /\ FramesOK(s)'
    BY <1>1, <1>2, <1>3 DEF ChannelOK, Following, Running, TabOK, FramesOK, FrameOK
  <2> QED
    BY <1>3, <2>1, <2>2, <2>3, <2>4, PageTab DEF TabInv
<1>5. ASSUME NEW next \in {"settled", "read"}, rest[s].at = "sent", StatusState(s, next),
             job[j].state = "absent" => next = "settled"
      PROVE  IInv'
  <2> DEFINE r == [rest[s] EXCEPT !.at = next, !.state = job[j].state]
  <2>1. r \in Rest /\ r.at = next /\ r.state = job[j].state
    BY <1>2 DEF Rest, JobsTypeOK, JobRecord
  <2>2. rest' = [rest EXCEPT ![s] = r]
    BY <1>2, <1>5 DEF StatusState
  <2> HIDE DEF r
  <2> QED
    BY <1>4, <1>5, <2>1, <2>2
<1>6. ASSUME rest[s].at = "read", StatusOutput(s, "answered") PROVE IInv'
  <2> DEFINE r == [rest[s] EXCEPT !.at = "answered", !.lo = FirstKept(j), !.hi = LastKept(j)]
  <2>1. FirstKept(j) \in 1..(MaxChunks + 1) /\ LastKept(j) \in 0..MaxChunks
        /\ LastKept(j) = job[j].written
    BY <1>2, KeptBounds
  <2>2. /\ r \in Rest /\ r.at = "answered" /\ r.state = rest[s].state
        /\ r.lo = FirstKept(j) /\ r.hi = LastKept(j)
    <3>1. ASSUME NEW lo \in 0..(MaxChunks + 1), NEW hi \in 0..MaxChunks
          PROVE  LET a == [rest[s] EXCEPT !.at = "answered", !.lo = lo, !.hi = hi]
                 IN  /\ a \in Rest /\ a.at = "answered" /\ a.state = rest[s].state
                     /\ a.lo = lo /\ a.hi = hi
      BY <1>2 DEF Rest
    <3>2. FirstKept(j) \in 0..(MaxChunks + 1)
      BY <2>1
    <3>3. LastKept(j) \in 0..MaxChunks
      BY <2>1
    <3> QED
      BY ONLY <3>1, <3>2, <3>3
  <2>3. rest' = [rest EXCEPT ![s] = r]
    BY <1>2, <1>6 DEF StatusOutput
  <2>4. /\ rest[s].state # "absent"
        /\ rest[s].state \in Finals => job[j].state = rest[s].state
    BY <1>1, <1>6 DEF AnswerOK
  <2> HIDE DEF r
  <2>5. r.lo >= 1
    BY <2>1, <2>2
  <2>6. r.state \in Finals => job[j].state = r.state /\ r.hi = job[j].written
    BY <2>1, <2>2, <2>4
  <2>7. r \in Rest /\ r.state # "absent"
    BY <2>2, <2>4
  <2> QED
    BY <1>4, <2>3, <2>5, <2>6, <2>7
<1> QED
  BY <1>5, <1>6 DEF Status

\* A tab begins to follow a job.
LEMMA MountIInv ==
  ASSUME IInv, NEW s \in Tabs, NEW j \in JobIds, Mount(s, j) PROVE IInv'
<1>1. TypeOK /\ ChannelOK(s) /\ AnswerOK(s) /\ FramesOK(s) /\ TabOK(s)
  BY DEF IInv, TabInv
<1>2. /\ tab \in [Tabs -> TabRecord] /\ rest \in [Tabs -> Rest] /\ conn \in [Tabs -> Conn]
      /\ rest[s] \in Rest /\ conn[s] \in Conn /\ wire \in [Tabs -> Seq(Frame)]
      /\ wire[s] = <<>>
  BY <1>1 DEF TypeOK, Mount, TabOK
<1> DEFINE v == [NoTab EXCEPT !.at = "mounted", !.job = j]
           r == [rest[s] EXCEPT !.at = "sent"]
           c == [conn[s] EXCEPT !.at = "subscribe"]
<1>3. v \in TabRecord /\ v.at = "mounted" /\ v.job = j /\ v.state = "running"
  <2>1. NoTab \in TabRecord /\ NoTab.state = "running"
    BY DEF NoTab, TabRecord
  <2> QED
    BY <2>1 DEF TabRecord
<1>4. r \in Rest /\ r.at = "sent"
  BY <1>2 DEF Rest
<1>5. c \in Conn /\ c.at = "subscribe"
  BY <1>2 DEF Conn
<1>6. /\ tab' = [tab EXCEPT ![s] = v]
      /\ rest' = [rest EXCEPT ![s] = r]
      /\ conn' = [conn EXCEPT ![s] = c]
      /\ UNCHANGED <<job, listener, call, wire>>
  BY <1>2 DEF Mount
<1> HIDE DEF v, r, c
<1>7. /\ tab' \in [Tabs -> TabRecord] /\ tab'[s] = v
      /\ rest' \in [Tabs -> Rest] /\ rest'[s] = r
      /\ conn' \in [Tabs -> Conn] /\ conn'[s] = c
      /\ \A t \in Tabs : t # s => UNCHANGED <<rest[t], conn[t], tab[t]>>
  BY <1>2, <1>3, <1>4, <1>5, <1>6
<1>8. TypeOK'
  BY <1>1, <1>6, <1>7 DEF TypeOK, JobsTypeOK
<1>9. ~listener[s].registered
  BY <1>1 DEF ChannelOK, TabOK, Following, Mount
<1>10. ChannelOK(s)' /\ AnswerOK(s)' /\ TabOK(s)'
  BY <1>3, <1>4, <1>5, <1>6, <1>7, <1>9 DEF ChannelOK, Following, AnswerOK, TabOK, Finals
<1>11. FramesOK(s)'
  BY <1>2, <1>6 DEF FramesOK
<1> QED
  BY <1>6, <1>7, <1>8, <1>10, <1>11, PageTab DEF TabInv

\* Whatever a tab is told, it is told of its own job, and no outcome before the
\* job has it.
LEMMA ToldIInv ==
  ASSUME IInv, NEW s \in Tabs, tab[s].at = "mounted",
         NEW v \in TabRecord, tab' = [tab EXCEPT ![s] = v],
         v.at = "mounted", v.job = tab[s].job,
         v.state \in Finals => job[tab[s].job].state = v.state,
         rest' \in [Tabs -> Rest], rest'[s].at \in {rest[s].at, "settled"},
         rest'[s].at # "settled" => rest'[s] = rest[s],
         wire' \in [Tabs -> Seq(Frame)],
         \A i \in 1..Len(wire'[s]) : FrameOK(s, wire'[s][i]),
         \A t \in Tabs : t # s => UNCHANGED <<wire[t], rest[t]>>,
         UNCHANGED <<job, listener, call, conn>>
  PROVE  IInv'
<1>1. TypeOK /\ ChannelOK(s) /\ AnswerOK(s) /\ TabOK(s)
  BY DEF IInv, TabInv
<1>2. /\ tab' \in [Tabs -> TabRecord] /\ tab'[s] = v
      /\ \A t \in Tabs : t # s => tab'[t] = tab[t]
  BY <1>1 DEF TypeOK
<1>3. TypeOK'
  BY <1>1, <1>2 DEF TypeOK, JobsTypeOK
<1>4. ChannelOK(s)' /\ AnswerOK(s)' /\ TabOK(s)'
  BY <1>1, <1>2 DEF ChannelOK, Following, Running, AnswerOK, TabOK
<1>5. FramesOK(s)'
  BY <1>2 DEF FramesOK, FrameOK
<1> QED
  BY <1>2, <1>3, <1>4, <1>5, PageTab DEF TabInv

LEMMA RestAnswerIInv ==
  ASSUME IInv, NEW s \in Tabs, RestAnswer(s) PROVE IInv'
<1>1. TypeOK /\ AnswerOK(s) /\ FramesOK(s)
  BY DEF IInv, TabInv
<1>2. /\ tab \in [Tabs -> TabRecord] /\ tab[s] \in TabRecord
      /\ rest \in [Tabs -> Rest] /\ rest[s] \in Rest
      /\ wire \in [Tabs -> Seq(Frame)]
  BY <1>1 DEF TypeOK
<1>3. /\ rest[s].lo \in 1..(MaxChunks + 1) /\ rest[s].hi \in 0..MaxChunks
      /\ rest[s].state \in {"running"} \cup Finals
      /\ rest[s].state \in Finals => job[tab[s].job].state = rest[s].state
  BY <1>1, <1>2 DEF RestAnswer, AnswerOK, Rest, JobStates
<1>4. Interval(rest[s].lo, rest[s].hi) \in Seq(1..MaxChunks)
  BY <1>3, IntervalType
<1> DEFINE v == [tab[s] EXCEPT !.output = Interval(rest[s].lo, rest[s].hi),
                               !.state = rest[s].state]
           r == [rest[s] EXCEPT !.at = "settled"]
<1>5. /\ v \in TabRecord /\ v.at = tab[s].at /\ v.job = tab[s].job
      /\ v.state = rest[s].state
  BY <1>2, <1>3, <1>4 DEF TabRecord
<1>6. r \in Rest /\ r.at = "settled"
  BY <1>2 DEF Rest
<1>7. tab' = [tab EXCEPT ![s] = v] /\ rest' = [rest EXCEPT ![s] = r]
  BY <1>2 DEF RestAnswer
<1> HIDE DEF v, r
<1>8. /\ rest' \in [Tabs -> Rest] /\ rest'[s] = r
      /\ \A t \in Tabs : t # s => rest'[t] = rest[t]
  BY <1>2, <1>6, <1>7
<1>9. /\ tab[s].at = "mounted" /\ v.at = "mounted"
      /\ UNCHANGED <<job, listener, call, conn, wire>>
  BY <1>5 DEF RestAnswer
<1>10. \A i \in 1..Len(wire'[s]) : FrameOK(s, wire'[s][i])
  BY <1>1, <1>9 DEF FramesOK
<1>11. v.state \in Finals => job[tab[s].job].state = v.state
  BY <1>3, <1>5
<1> QED
  BY <1>2, <1>5, <1>6, <1>7, <1>8, <1>9, <1>10, <1>11, ToldIInv

LEMMA ReceiveIInv ==
  ASSUME IInv, NEW s \in Tabs, Receive(s) PROVE IInv'
<1> DEFINE f == Head(wire[s])
<1>1. TypeOK /\ FramesOK(s) /\ TabOK(s)
  BY DEF IInv, TabInv
<1>2. /\ tab \in [Tabs -> TabRecord] /\ tab[s] \in TabRecord
      /\ rest \in [Tabs -> Rest]
      /\ wire \in [Tabs -> Seq(Frame)] /\ wire[s] \in Seq(Frame) /\ wire[s] # <<>>
  BY <1>1 DEF TypeOK, Receive
<1>3. /\ f \in Frame /\ f = wire[s][1] /\ Len(wire[s]) \in Nat \ {0}
      /\ Tail(wire[s]) \in Seq(Frame) /\ Len(Tail(wire[s])) = Len(wire[s]) - 1
      /\ \A i \in 1..Len(Tail(wire[s])) : Tail(wire[s])[i] = wire[s][i + 1]
  BY <1>2, HeadTail
<1>4. FrameOK(s, f)
  BY <1>1, <1>3 DEF FramesOK
<1>5. \A i \in 1..Len(Tail(wire[s])) : FrameOK(s, Tail(wire[s])[i])
  <2> TAKE i \in 1..Len(Tail(wire[s]))
  <2>1. i + 1 \in 1..Len(wire[s])
    BY <1>3
  <2> QED
    BY <1>1, <1>3, <2>1 DEF FramesOK
<1>6. /\ wire' \in [Tabs -> Seq(Frame)] /\ wire'[s] = Tail(wire[s])
      /\ \A t \in Tabs : t # s => wire'[t] = wire[t]
  BY <1>2, <1>3 DEF Receive
<1>7. PICK v \in TabRecord :
        /\ tab' = [tab EXCEPT ![s] = v]
        /\ v.at = tab[s].at /\ v.job = tab[s].job
        /\ v.state \in {tab[s].state, f.state}
        /\ v.state \in Finals => v.state = tab[s].state \/ f.state \in Finals
  <2> HIDE DEF f
  <2>1. CASE f.type = "snapshot"
    <3> DEFINE v == [tab[s] EXCEPT !.output = Interval(f.lo, f.hi)]
    <3>1. f.lo \in 1..(MaxChunks + 1) /\ f.hi \in 0..MaxChunks
      BY <1>3, <1>4, <2>1 DEF Frame, FrameOK
    <3>2. /\ v \in TabRecord /\ v.at = tab[s].at /\ v.job = tab[s].job
          /\ v.state = tab[s].state
      BY <1>2, <3>1, IntervalType DEF TabRecord
    <3>3. tab' = [tab EXCEPT ![s] = v]
      BY <1>2, <2>1 DEF Receive, f
    <3> HIDE DEF v
    <3> QED
      BY <3>2, <3>3
  <2>2. CASE f.type = "chunk"
    <3> DEFINE v == [tab[s] EXCEPT !.output = Append(tab[s].output, f.lo)]
    <3>1. Append(tab[s].output, f.lo) \in Seq(1..MaxChunks)
      BY <1>2, <1>4, <2>2 DEF TabRecord, FrameOK
    <3>2. /\ v \in TabRecord /\ v.at = tab[s].at /\ v.job = tab[s].job
          /\ v.state = tab[s].state
      BY <1>2, <3>1 DEF TabRecord
    <3>3. tab' = [tab EXCEPT ![s] = v]
      BY <1>2, <2>2 DEF Receive, f
    <3> HIDE DEF v
    <3> QED
      BY <3>2, <3>3
  <2>3. CASE f.type = "state"
    <3> DEFINE v == [tab[s] EXCEPT !.state = f.state]
    <3>1. f.state \in {"running", "not_found"} \cup Finals
      BY <1>4, <2>3 DEF FrameOK
    <3>2. /\ v \in TabRecord /\ v.at = tab[s].at /\ v.job = tab[s].job
          /\ v.state = f.state
      BY <1>2, <3>1 DEF TabRecord
    <3>3. tab' = [tab EXCEPT ![s] = v]
      BY <1>2, <2>3 DEF Receive, f
    <3> HIDE DEF v
    <3> QED
      BY <3>2, <3>3
  <2> QED
    BY <1>3, <2>1, <2>2, <2>3 DEF Frame
<1>8. v.state \in Finals => job[tab[s].job].state = v.state
  BY <1>1, <1>4, <1>7 DEF TabOK, FrameOK
<1>9. /\ tab[s].at = "mounted" /\ v.at = "mounted"
      /\ UNCHANGED <<job, listener, call, conn, rest>>
  BY <1>7 DEF Receive
<1>10. \A i \in 1..Len(wire'[s]) : FrameOK(s, wire'[s][i])
  BY <1>5, <1>6
<1> QED
  BY <1>2, <1>6, <1>7, <1>8, <1>9, <1>10, ToldIInv

\* A tab that is gone shows nothing, and nothing is on its way to it.
LEMMA UnmountIInv ==
  ASSUME IInv, NEW s \in Tabs, Unmount(s) PROVE IInv'
<1>1. TypeOK /\ ChannelOK(s) /\ AnswerOK(s) /\ TabOK(s)
  BY DEF IInv, TabInv
<1>2. /\ tab \in [Tabs -> TabRecord] /\ tab[s] \in TabRecord
      /\ wire \in [Tabs -> Seq(Frame)] /\ tab[s].job \in JobIds
  BY <1>1 DEF TypeOK, Unmount, TabOK
<1> DEFINE v == [NoTab EXCEPT !.at = "gone", !.job = tab[s].job]
<1>3. v \in TabRecord /\ v.at = "gone" /\ v.job = tab[s].job /\ v.state = "running"
  <2>1. NoTab \in TabRecord /\ NoTab.state = "running"
    BY DEF NoTab, TabRecord
  <2> QED
    BY <1>2, <2>1 DEF TabRecord
<1>4. tab' = [tab EXCEPT ![s] = v] /\ wire' = [wire EXCEPT ![s] = <<>>]
      /\ UNCHANGED <<job, listener, call, conn, rest>>
  BY DEF Unmount
<1> HIDE DEF v
<1>5. /\ tab' \in [Tabs -> TabRecord] /\ tab'[s] = v
      /\ wire' \in [Tabs -> Seq(Frame)] /\ wire'[s] = <<>>
      /\ \A t \in Tabs : t # s => UNCHANGED <<tab[t], wire[t]>>
  BY <1>2, <1>3, <1>4
<1>6. TypeOK'
  BY <1>1, <1>4, <1>5 DEF TypeOK, JobsTypeOK
<1>7. ChannelOK(s)' /\ AnswerOK(s)' /\ TabOK(s)'
  BY <1>1, <1>2, <1>3, <1>4, <1>5 DEF ChannelOK, Following, Running, AnswerOK, TabOK, Finals
<1>8. FramesOK(s)'
  BY <1>5 DEF FramesOK
<1> QED
  BY <1>4, <1>5, <1>6, <1>7, <1>8, PageTab DEF TabInv

-----------------------------------------------------------------------------
LEMMA InvariantHolds == Spec => []IInv
<1>1. IInv /\ [Next]_vars => IInv'
  <2> SUFFICES ASSUME IInv, [Next]_vars PROVE IInv'
    OBVIOUS
  <2>1. CASE UNCHANGED vars
    <3>1. TypeOK'
      BY <2>1 DEF vars, IInv, TypeOK, JobsTypeOK
    <3>2. ASSUME NEW s \in Tabs PROVE TabInv(s)'
      BY <2>1, OtherTab DEF vars, JobKept
    <3> QED
      BY <3>1, <3>2 DEF IInv
  <2> QED
    BY <2>1, JobsNextIInv, StreamIInv, StatusIInv, MountIInv, RestAnswerIInv,
       ReceiveIInv, UnmountIInv DEF Next
<1> QED
  BY InitIInv, <1>1, PTL DEF Spec

\* Jobs, channels, sockets and tabs are always of their types.
THEOREM TypeCorrect == Spec => []TypeOK
<1>1. IInv => TypeOK
  BY DEF IInv
<1> QED
  BY <1>1, InvariantHolds, PTL

\* Nobody sends on a closed channel or closes one twice, and nobody listens to a
\* job that has ended (jobs.go:98-139, 186-189).
THEOREM ListenersAreOpen == Spec => []ListenersOpen
<1>1. IInv => ListenersOpen
  BY DEF IInv, TabInv, ChannelOK, ListenersOpen
<1> QED
  BY <1>1, InvariantHolds, PTL

\* A stream sends the output in order and without a gap, whatever the sizes of
\* ring, channel and socket (jobs.go:80-139, updates.go:158-194).
THEOREM StreamsInOrder == Spec => []StreamInOrder
<1>1. IInv => StreamInOrder
  BY DEF IInv, TabInv, ChannelOK, StreamInOrder, Following
<1> QED
  BY <1>1, InvariantHolds, PTL

\* A stream that is over has unsubscribed.
THEOREM StreamsCleanUp == Spec => []NoListenerLeft
<1>1. IInv => NoListenerLeft
  BY DEF IInv, TabInv, ChannelOK, NoListenerLeft, Following
<1> QED
  BY <1>1, InvariantHolds, PTL

\* A status answer with an outcome has all the output (updates.go:102-126).
THEOREM FinalStatusHasAll == Spec => []FinalStatusIsComplete
<1>1. IInv => FinalStatusIsComplete
  BY DEF IInv, TabInv, AnswerOK, FinalStatusIsComplete
<1> QED
  BY <1>1, InvariantHolds, PTL

\* A page never shows an outcome the job does not have.
THEOREM OutcomesAreReal == Spec => []TabNeverPremature
<1>1. IInv => TabNeverPremature
  BY DEF IInv, TabInv, TabOK, TabNeverPremature
<1> QED
  BY <1>1, InvariantHolds, PTL
=============================================================================
