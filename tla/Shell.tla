-------------------------------- MODULE Shell --------------------------------
(***************************************************************************)
(* A shell in the browser: the terminal (internal/api/terminal over        *)
(* internal/pty, "pty") and the exec into a pod (podExecWS of              *)
(* internal/api/k8s over internal/k8s/exec.go, "exec").  Both handlers     *)
(* bridge one WebSocket and one process with three goroutines: main reads  *)
(* the socket, output copies to it, ticker pings and watches for idleness. *)
(* Any of them, the process and the browser may be the first to stop.      *)
(*                                                                         *)
(* Abstractions: output is counted in chunks; input and window sizes are   *)
(* not told apart.  Time is left out: a deadline, a timer or the grace     *)
(* period may pass whenever it is running.  lastActivity, which three      *)
(* goroutines use without a lock, is the flag idle; activityCh wakes the   *)
(* ticker for nothing and is left out.                                     *)
(*                                                                         *)
(* Some names begin with "shell" because SocketsProofs extends this module *)
(* together with Sockets, the pages at the other end of the socket.        *)
(***************************************************************************)
EXTENDS Naturals

CONSTANTS
    ShellKinds,   \* the kinds of shell under consideration
    MaxOut        \* bound: chunks of output

ASSUME ShellAssumption ==
    /\ ShellKinds \subseteq {"pty", "exec"}
    /\ MaxOut \in Nat

VARIABLES
    shellKind,
    main, output, ticker,   \* the goroutines
    closing,    \* sess.Close in its Once ("pty"); the cancelled context ("exec")
    child,      \* the shell
    stream,     \* the call of PodExec ("exec")
    peer,       \* the browser
    wsDead,     \* a write failed, and so do all later ones
    hungUp,     \* the read loop ended with an error of the socket
    idle,       \* no activity for longer than the limit
    out,        \* bytesOut
    recorded,   \* bytes_out of the session_end row
    crashed     \* the socket's library panicked, and the server with it

shellVars == <<shellKind, main, output, ticker, closing, child, stream, peer, wsDead, hungUp,
          idle, out, recorded, crashed>>

-----------------------------------------------------------------------------
NoRow == MaxOut + 1   \* there is no session_end row

PlacesOK ==
    /\ shellKind \in ShellKinds
    /\ main \in {"init", "read", "input", "close", "wait", "waitTicker", "error",
                 "errorWrite", "audit", "done"}
    /\ output \in {"none", "read", "count", "write", "done"}
    /\ ticker \in {"none", "select", "ping", "idle", "close", "done"}
    /\ closing \in {"no", "hup", "killed", "done"}
    /\ child \in {"none", "running", "exited", "reaped"}
    /\ stream \in {"none", "open", "returned"}
    /\ peer \in {"open", "gone"}
    /\ out \in 0..MaxOut
    /\ recorded \in 0..NoRow

FlagsOK == {wsDead, hungUp, idle, crashed} \subseteq BOOLEAN

ShellTypeOK == PlacesOK /\ FlagsOK

ShellInit ==
    /\ shellKind \in ShellKinds
    /\ main = "init"
    /\ output = "none" /\ ticker = "none"
    /\ closing = "no"
    /\ child = "none" /\ stream = "none"
    /\ peer = "open"
    /\ wsDead = FALSE /\ hungUp = FALSE /\ idle = FALSE /\ crashed = FALSE
    /\ out = 0
    /\ recorded = NoRow

-----------------------------------------------------------------------------
Launched == child # "none"

\* The goroutines that are in a write on the socket.  The library has no lock: a
\* writer that finds another one panics, if it notices.
Writing ==
    \/ output = "write"
    \/ ticker \in {"ping", "idle"}
    \/ main = "errorWrite"

BeginWrite == crashed' \in IF Writing THEN BOOLEAN ELSE {FALSE}

\* A write ends well only if the browser is there and none has failed before; it
\* may always miss its deadline.  (What the kernel still takes for a browser that is
\* gone is left out: nobody sees it.)
Written   == peer = "open" /\ ~wsDead /\ UNCHANGED wsDead
WriteFails == wsDead' = TRUE

\* Input reaches the pty until it is closed, and the exec until it has returned.
Writable == IF shellKind = "pty" THEN closing = "no" ELSE stream = "open"

\* Session.Close: the first caller closes the pty and sends SIGHUP; every caller
\* waits for the end (see Closed).  cancel does not wait.
StartClose ==
    /\ closing = "no"
    /\ closing' = IF shellKind = "pty" THEN "hup" ELSE "done"

Closed == closing = "done"

-----------------------------------------------------------------------------
\* main, up to the read loop.

\* The browser sends no init frame or one that is refused, or pty.New fails.
Reject ==
    /\ main = "init"
    /\ main' = "done"
    /\ UNCHANGED <<shellKind, output, ticker, closing, child, stream, peer, wsDead, hungUp,
                   idle, out, recorded, crashed>>

Launch ==
    /\ main = "init"
    /\ peer = "open"
    /\ main' = "read"
    /\ output' = "read" /\ ticker' = "select"
    /\ child' = "running"
    /\ stream' = IF shellKind = "exec" THEN "open" ELSE "none"
    /\ UNCHANGED <<shellKind, closing, peer, wsDead, hungUp, idle, out, recorded, crashed>>

\* A frame of input, to be written to the shell, or of another type.
ReadMessage ==
    /\ main = "read"
    /\ peer = "open"
    /\ main' \in {"input", "read"}
    /\ idle' = FALSE
    /\ UNCHANGED <<shellKind, output, ticker, closing, child, stream, peer, wsDead, hungUp,
                   out, recorded, crashed>>

\* The browser is gone, or the read deadline passes, which only pongs extend: it
\* does when nobody sends pings any more.
ReadError ==
    /\ main = "read"
    /\ peer = "gone" \/ ticker \notin {"select", "ping"}
    /\ main' = "close"
    /\ hungUp' = TRUE
    /\ UNCHANGED <<shellKind, output, ticker, closing, child, stream, peer, wsDead, idle,
                   out, recorded, crashed>>

\* A shell that does not read its input lets the write wait, so nothing says that
\* this step is ever taken.
InputWritten ==
    /\ main = "input"
    /\ Writable
    /\ main' = "read"
    /\ UNCHANGED <<shellKind, output, ticker, closing, child, stream, peer, wsDead, hungUp,
                   idle, out, recorded, crashed>>

InputFails ==
    /\ main = "input"
    /\ ~Writable \/ child = "exited"
    /\ main' = "close"
    /\ UNCHANGED <<shellKind, output, ticker, closing, child, stream, peer, wsDead, hungUp,
                   idle, out, recorded, crashed>>

\* sess.Close, or cancel with the ends of stdin and of the size queue.
MainClose ==
    /\ main = "close"
    /\ \/ StartClose /\ UNCHANGED main
       \/ Closed /\ main' = "wait" /\ UNCHANGED closing
    /\ UNCHANGED <<shellKind, output, ticker, child, stream, peer, wsDead, hungUp, idle, out,
                   recorded, crashed>>

\* Mutant: main does not wait for the output goroutine.
WaitOutputNot ==
    /\ main = "wait"
    /\ main' = "waitTicker"
    /\ UNCHANGED <<shellKind, output, ticker, closing, child, stream, peer, wsDead, hungUp,
                   idle, out, recorded, crashed>>

\* <-stopReader, <-execDone
WaitOutput ==
    /\ main = "wait"
    /\ IF shellKind = "pty" THEN output = "done" ELSE stream = "returned"
    /\ main' = "waitTicker"
    /\ UNCHANGED <<shellKind, output, ticker, closing, child, stream, peer, wsDead, hungUp,
                   idle, out, recorded, crashed>>

\* <-stopIdle.  An exec that failed is reported to a browser that is still there.
WaitTicker ==
    /\ main = "waitTicker"
    /\ ticker = "done"
    /\ main' \in {"audit"} \cup IF shellKind = "exec" /\ ~hungUp THEN {"error"} ELSE {}
    /\ UNCHANGED <<shellKind, output, ticker, closing, child, stream, peer, wsDead, hungUp,
                   idle, out, recorded, crashed>>

ErrorReport ==
    /\ \/ main = "error" /\ main' = "errorWrite" /\ BeginWrite /\ UNCHANGED wsDead
       \/ main = "errorWrite" /\ main' = "audit" /\ (Written \/ WriteFails) /\ UNCHANGED crashed
    /\ UNCHANGED <<shellKind, output, ticker, closing, child, stream, peer, hungUp, idle, out,
                   recorded>>

\* The session_end row; the deferred Close ends the socket.
AuditEnd ==
    /\ main = "audit"
    /\ main' = "done"
    /\ recorded' = out
    /\ wsDead' = TRUE
    /\ UNCHANGED <<shellKind, output, ticker, closing, child, stream, peer, hungUp, idle, out,
                   crashed>>

MainStep ==
    \/ ReadError \/ InputFails \/ MainClose \/ WaitOutput \/ WaitTicker \/ ErrorReport
    \/ AuditEnd

-----------------------------------------------------------------------------
\* output: CopyToWebSocket, and the copier of PodExec.

\* The pty counts what it reads, the exec what it has written.
Count(k) == out' = IF shellKind = k THEN out + 1 ELSE out

OutputRead ==
    /\ output = "read"
    /\ child # "reaped" /\ Writable
    /\ out < MaxOut
    /\ output' = "count"
    /\ UNCHANGED <<shellKind, main, ticker, closing, child, stream, peer, wsDead, hungUp, idle,
                   out, recorded, crashed>>

\* The data is in the buffer, whatever happens to the shell now.
OutputCount ==
    /\ output = "count"
    /\ output' = "write"
    /\ Count("pty")
    /\ idle' = (shellKind = "exec" /\ idle)
    /\ BeginWrite
    /\ UNCHANGED <<shellKind, main, ticker, closing, child, stream, peer, wsDead, hungUp,
                   recorded>>

OutputWrite ==
    /\ output = "write"
    /\ \/ Written /\ output' = "read" /\ Count("exec")
       \/ WriteFails /\ output' = "done" /\ UNCHANGED out
    /\ UNCHANGED <<shellKind, main, ticker, closing, child, stream, peer, hungUp, idle,
                   recorded, crashed>>

\* The read fails: the pty is closed or its other side is, the exec is over.
OutputEnds ==
    /\ output = "read"
    /\ ~Writable \/ child = "exited"
    /\ output' = "done"
    /\ UNCHANGED <<shellKind, main, ticker, closing, child, stream, peer, wsDead, hungUp,
                   idle, out, recorded, crashed>>

OutputStep == OutputCount \/ OutputWrite \/ OutputEnds

\* PodExec returns when the context is cancelled, whatever its copier is doing, when
\* the command has ended and its output is copied, or with any other error.
StreamReturns ==
    /\ stream = "open"
    /\ stream' = "returned"
    /\ UNCHANGED <<shellKind, main, output, ticker, closing, child, peer, wsDead, hungUp,
                   idle, out, recorded, crashed>>

-----------------------------------------------------------------------------
\* ticker: the select of goroutine 2.

TickerStops ==
    /\ ticker = "select"
    /\ Closed
    /\ ticker' = "done"
    /\ UNCHANGED <<shellKind, main, output, closing, child, stream, peer, wsDead, hungUp,
                   idle, out, recorded, crashed>>

TickerPing ==
    /\ ticker = "select"
    /\ ticker' = "ping"
    /\ BeginWrite
    /\ UNCHANGED <<shellKind, main, output, closing, child, stream, peer, wsDead, hungUp,
                   idle, out, recorded>>

\* Mutant: a ping that fails ends the goroutine, and not the session.
TickerPingedOnly ==
    /\ ticker = "ping"
    /\ \/ Written /\ ticker' = "select"
       \/ WriteFails /\ ticker' = "done"
    /\ UNCHANGED <<shellKind, main, output, closing, child, stream, peer, hungUp, idle, out,
                   recorded, crashed>>

TickerPinged ==
    /\ ticker = "ping"
    /\ \/ Written /\ ticker' = "select"
       \/ WriteFails /\ ticker' = "close"
    /\ UNCHANGED <<shellKind, main, output, closing, child, stream, peer, hungUp, idle, out,
                   recorded, crashed>>

TickerIdle ==
    /\ ticker = "select"
    /\ idle
    /\ ticker' = "idle"
    /\ BeginWrite
    /\ UNCHANGED <<shellKind, main, output, closing, child, stream, peer, wsDead, hungUp,
                   idle, out, recorded>>

\* Mutant: the page is told, and the session goes on.
TickerIdleOnly ==
    /\ ticker = "idle"
    /\ Written \/ WriteFails
    /\ ticker' = "select"
    /\ UNCHANGED <<shellKind, main, output, closing, child, stream, peer, hungUp, idle, out,
                   recorded, crashed>>

TickerIdled ==
    /\ ticker = "idle"
    /\ Written \/ WriteFails
    /\ ticker' = "close"
    /\ UNCHANGED <<shellKind, main, output, closing, child, stream, peer, hungUp, idle, out,
                   recorded, crashed>>

TickerClose ==
    /\ ticker = "close"
    /\ \/ StartClose /\ UNCHANGED ticker
       \/ Closed /\ ticker' = "done" /\ UNCHANGED closing
    /\ UNCHANGED <<shellKind, main, output, child, stream, peer, wsDead, hungUp, idle, out,
                   recorded, crashed>>

TickerStep == TickerPing \/ TickerPinged \/ TickerIdled \/ TickerClose

-----------------------------------------------------------------------------
\* Inside Close: SIGHUP, the grace period, SIGKILL, Wait.

CloseGrace ==
    /\ closing = "hup"
    /\ closing' = "killed"
    /\ UNCHANGED <<shellKind, main, output, ticker, child, stream, peer, wsDead, hungUp, idle,
                   out, recorded, crashed>>

CloseReap ==
    /\ closing \in {"hup", "killed"}
    /\ child = "exited"
    /\ child' = "reaped"
    /\ closing' = "done"
    /\ UNCHANGED <<shellKind, main, output, ticker, stream, peer, wsDead, hungUp, idle, out,
                   recorded, crashed>>

CloseStep == CloseGrace \/ CloseReap

\* The shell ends, of its own accord or because of a signal.
ChildExits ==
    /\ child = "running"
    /\ child' = "exited"
    /\ UNCHANGED <<shellKind, main, output, ticker, closing, stream, peer, wsDead, hungUp,
                   idle, out, recorded, crashed>>

\* The tab is closed or reloaded, or the connection is lost.
PeerLeaves ==
    /\ peer = "open"
    /\ peer' = "gone"
    /\ UNCHANGED <<shellKind, main, output, ticker, closing, child, stream, wsDead, hungUp,
                   idle, out, recorded, crashed>>

\* The idle limit passes.
Quiet ==
    /\ Launched
    /\ idle' = TRUE
    /\ UNCHANGED <<shellKind, main, output, ticker, closing, child, stream, peer, wsDead,
                   hungUp, out, recorded, crashed>>

ShellNext ==
    /\ ~crashed
    /\ \/ Reject \/ Launch \/ ReadMessage \/ InputWritten \/ MainStep
       \/ OutputRead \/ OutputStep \/ StreamReturns
       \/ TickerStops \/ TickerIdle \/ TickerStep
       \/ CloseStep \/ ChildExits
       \/ PeerLeaves \/ Quiet

\* The goroutines run, timers fire, a killed process exits and a cancelled PodExec
\* returns.  The select picks among its ready cases at random.
ShellSpec ==
    /\ ShellInit /\ [][ShellNext]_shellVars
    /\ WF_shellVars(~crashed /\ main # "init" /\ MainStep)
    /\ WF_shellVars(~crashed /\ OutputStep)
    /\ WF_shellVars(~crashed /\ TickerStep)
    /\ SF_shellVars(~crashed /\ TickerStops)
    /\ SF_shellVars(~crashed /\ TickerIdle)
    /\ WF_shellVars(~crashed /\ CloseStep)
    /\ WF_shellVars(~crashed /\ closing = "killed" /\ ChildExits)
    /\ WF_shellVars(~crashed /\ shellKind = "exec" /\ Closed /\ StreamReturns)

-----------------------------------------------------------------------------
\* When the handler is over, its goroutines and the shell are: nothing writes to the
\* socket or holds the process any more (terminal.go:207-209).  The copier of an
\* exec is not waited for, only the call of PodExec.
NothingLeft ==
    main = "done" /\ Launched =>
        /\ ticker = "done"
        /\ shellKind = "pty" => output = "done" /\ child = "reaped"
        /\ shellKind = "exec" => stream = "returned"

\* Whoever is back from Close finds the shell reaped, whoever did the work: the exit
\* code of the audit row is read from it (pty.go:181-209, terminal.go:207-221).
CloseReaps ==
    shellKind = "pty" /\ main \in {"wait", "waitTicker", "audit"} => child = "reaped"

\* The session_end row of a terminal has all its output: a chunk that was read as the
\* session ended is counted before the row is written (MILESTONES.md:219,
\* terminal.go:207-220).
AuditComplete == shellKind = "pty" /\ recorded # NoRow => recorded = out

\* A tab that is closed ends its session (MILESTONES.md:217), even if the handler is
\* stuck in a write to a shell that does not read.
GoneEnds == peer = "gone" /\ Launched ~> main = "done" \/ crashed

\* So does the idle limit, unless there is activity again.
IdleEnds == idle ~> main = "done" \/ ~idle \/ crashed
-----------------------------------------------------------------------------
\* The inductive invariant: what the places that main has passed guarantee.
Unlaunched ==
    /\ main \in {"init", "done"}
    /\ output = "none" /\ ticker = "none" /\ stream = "none" /\ closing = "no"
    /\ recorded = NoRow

AfterTicker == {"error", "errorWrite", "audit", "done"}
AfterOutput == {"waitTicker"} \cup AfterTicker
AfterClose  == {"wait"} \cup AfterOutput

ShellInv ==
    /\ Launched => main # "init" /\ ~Unlaunched
    /\ ~Launched => Unlaunched
    /\ Closed /\ shellKind = "pty" => child = "reaped"
    /\ Launched /\ main \in AfterClose => Closed
    /\ Launched /\ main \in AfterOutput =>
          IF shellKind = "pty" THEN output = "done" ELSE stream = "returned"
    /\ Launched /\ main \in AfterTicker => ticker = "done"
    /\ recorded # NoRow => main = "done" /\ (shellKind = "pty" => recorded = out)
    /\ output = "count" \/ (shellKind = "exec" /\ output = "write") => out < MaxOut

ShellIInv == ShellTypeOK /\ ShellInv
=============================================================================
