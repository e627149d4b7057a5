---------------------------- MODULE SocketsProofs ----------------------------
(***************************************************************************)
(* The views with a WebSocket, for all views and every number of keys,     *)
(* sockets, lines and frames: only the socket that is wanted is in use,    *)
(* what is shown is one stream's, and a terminal that says it is live is.  *)
(* At the end, the other end of two of these sockets: what is proved of    *)
(* Shell, the handlers of a terminal and of an exec, for every amount of   *)
(* output.                                                                 *)
(***************************************************************************)
EXTENDS Sockets, Shell, TLAPS

-----------------------------------------------------------------------------
InUse(s) == socks[s].at \in {"connecting", "open"}

\* A socket that is not free has a key.  One in use is alive, and nothing is alive when
\* the view wants no socket.  The overview leaves no socket behind.
SocketsOK ==
    \A s \in Slots :
        /\ socks[s].at # "free" => socks[s].key \in Keys
        /\ InUse(s) => socks[s].alive
        /\ socks[s].alive => Wanted(page, list) # NoKey
        /\ kind = "overview" /\ socks[s].alive => s = page.ws /\ InUse(s) /\ ~page.timer

PageOK ==
    /\ page.on /\ kind # "docker" => page.key \in Keys
    /\ page.timer => kind = "overview" /\ Wanted(page, list) # NoKey
    /\ page.ws # 0 /\ socks[page.ws].at = "connecting" => page.lines = <<>>
    /\ kind \in {"terminal", "exec", "overview"} => page.lines = <<>>

IInv == TypeOK /\ SocketsOK /\ PageOK /\ SocketWanted /\ LinesOfKey /\ LiveIsLive

-----------------------------------------------------------------------------
\* The operators.

LEMMA Constants == NewPage \in Page /\ NoSocket \in Socket /\ 0 \in 0..MaxSockets
<1>1. 0 \in 0..MaxSockets
    BY SocketsAssumption
<1>2. <<>> \in Seq(LogLine)
    OBVIOUS
<1>3. NewPage \in Page
    BY <1>1, <1>2, SocketsAssumption DEF NewPage, Page
<1> QED
    BY <1>1, <1>3, SocketsAssumption DEF NoSocket, Socket

LEMMA WantedKey ==
    ASSUME NEW p \in Page, NEW l \in SUBSET Keys
    PROVE  /\ Wanted(p, l) \in Keys \cup {NoKey}
           /\ Wanted(p, l) # NoKey => p.on /\ Wanted(p, l) = p.key
BY DEF Wanted, Page

\* Cleared keeps the other fields.
LEMMA ClearedPage ==
    ASSUME NEW p \in Page
    PROVE  /\ Cleared(p) \in Page
           /\ Cleared(p).lines = <<>> /\ Cleared(p).status = "connecting" /\ ~Cleared(p).timer
           /\ Cleared(p).on = p.on /\ Cleared(p).key = p.key /\ Cleared(p).tail = p.tail
           /\ Cleared(p).command = p.command /\ Cleared(p).useCustom = p.useCustom
<1> DEFINE q == Cleared(p)
<1>1. <<>> \in Seq(LogLine) /\ 0 \in 0..6
    OBVIOUS
<1>2. q \in Page
    BY <1>1 DEF Cleared, Page
<1>3. q.lines = <<>> /\ q.status = "connecting" /\ ~q.timer
    BY DEF Cleared, Page
<1>4. q.on = p.on /\ q.key = p.key /\ q.tail = p.tail
    BY DEF Cleared, Page
<1>5. q.command = p.command /\ q.useCustom = p.useCustom
    BY DEF Cleared, Page
<1> QED
    BY <1>2, <1>3, <1>4, <1>5

LEMMA LeftSocket ==
    ASSUME NEW x \in Socket
    PROVE  /\ Left(x) \in Socket /\ Left(x).key = x.key
           /\ Left(x).at \notin {"connecting", "open"}
           /\ x.at = "free" <=> Left(x).at = "free"
BY DEF Left, Socket

LEMMA OpenedSocket ==
    ASSUME NEW p \in Page, p.key \in Keys
    PROVE  /\ Opened(p) \in Socket
           /\ Opened(p).at = "connecting" /\ Opened(p).key = p.key /\ Opened(p).alive
           /\ ~p.useCustom => Opened(p).command = p.command
<1>1. Resolved(p) \in Commands /\ (~p.useCustom => Resolved(p) = p.command)
    BY SocketsAssumption DEF Resolved, Page
<1> QED
    BY <1>1 DEF Opened, Socket

\* Lines that follow each other, all of key k.
InOrder(lines, k) ==
    \A i \in 1..Len(lines) : lines[i].key = k /\ lines[i].n = lines[1].n + i - 1

\* A line that follows the last one is shown with the last ones before it.
LEMMA RingInOrder ==
    ASSUME NEW k \in Keys, NEW n \in Nat, NEW lines \in Seq(LogLine), InOrder(lines, k),
           lines # <<>> => lines[Len(lines)].n = n
    PROVE  LET new == Ring(lines, [key |-> k, n |-> n + 1])
           IN /\ new \in Seq(LogLine) /\ InOrder(new, k) /\ Len(new) <= MaxLines
              /\ new # <<>> /\ new[Len(new)].n = n + 1
<1> DEFINE x    == [key |-> k, n |-> n + 1]
           all  == Append(lines, x)
           room == IF kind = "stats" THEN 1 ELSE MaxLines
           new  == Ring(lines, x)
           good == /\ new \in Seq(LogLine) /\ InOrder(new, k) /\ Len(new) <= MaxLines
                   /\ new # <<>> /\ new[Len(new)].n = n + 1
<1>1. room \in Nat \ {0} /\ room <= MaxLines
    BY SocketsAssumption
<1>2. x \in LogLine /\ x.key = k /\ x.n = n + 1
    BY DEF LogLine
<1> HIDE DEF x
<1>3. /\ all \in Seq(LogLine) /\ Len(all) = Len(lines) + 1 /\ all[Len(all)] = x
      /\ \A i \in 1..Len(lines) : all[i] = lines[i]
    BY <1>2
<1>4. \A i \in 1..Len(all) : all[i].key = k /\ all[i].n \in Nat
  <2>1. \A i \in 1..Len(lines) : lines[i].key = k /\ lines[i].n \in Nat
    <3>1. \A i \in 1..Len(lines) : lines[i] \in LogLine
        OBVIOUS
    <3>2. \A i \in 1..Len(lines) : lines[i].n \in Nat
        BY <3>1 DEF LogLine
    <3>3. \A i \in 1..Len(lines) : lines[i].key = k
        BY DEF InOrder
    <3> QED
        BY <3>2, <3>3
  <2>2. \A i \in 1..Len(all) : i = Len(all) \/ i \in 1..Len(lines)
      BY <1>3
  <2> QED
      BY <1>2, <1>3, <2>1, <2>2
<1>5. \A i \in 1..Len(all) : all[i].n = all[1].n + i - 1
  <2>1. CASE lines = <<>>
      BY <1>2, <1>3, <1>4, <2>1
  <2>2. CASE lines # <<>>
    <3>1. Len(lines) \in Nat \ {0} /\ lines[1] \in LogLine
        BY <2>2
    <3>2. n = lines[1].n + Len(lines) - 1
        BY <2>2, <3>1 DEF InOrder
    <3>7. lines[1].n \in Nat
        BY <3>1 DEF LogLine
    <3>3. all[1] = lines[1]
        BY <1>3, <3>1
    <3>4. \A i \in 1..Len(lines) : all[i].n = all[1].n + i - 1
        BY <1>3, <3>3 DEF InOrder
    <3>5. all[Len(all)].n = all[1].n + Len(all) - 1
        BY <1>2, <1>3, <3>1, <3>2, <3>3, <3>7
    <3>6. \A i \in 1..Len(all) : i = Len(all) \/ i \in 1..Len(lines)
        BY <1>3
    <3> QED
        BY <3>4, <3>5, <3>6
  <2> QED
      BY <2>1, <2>2
<1> HIDE DEF all, room
<1>a. all \in Seq(LogLine) /\ Len(all) \in Nat
    BY <1>3
<1>6. new = IF Len(all) > room THEN SubSeq(all, Len(all) - room + 1, Len(all)) ELSE all
    BY DEF Ring, all, room, new
<1> HIDE DEF new
<1>7. all[Len(all)].n = n + 1 /\ Len(all) \in Nat \ {0}
    BY <1>2, <1>3
<1>8. ASSUME Len(all) > room PROVE good
  <2> DEFINE d == Len(all) - room
  <2>1. /\ new \in Seq(LogLine) /\ Len(new) = room
        /\ \A i \in 1..room : new[i] = all[d + i]
      BY <1>1, <1>3, <1>6, <1>7, <1>8
  <2>2. d \in Nat /\ d + room = Len(all) /\ \A i \in 1..room : d + i \in 1..Len(all)
      BY <1>1, <1>7, <1>8
  <2>3. \A i \in 1..room : new[i].key = k /\ new[i].n = all[1].n + (d + i) - 1
      BY <1>4, <1>5, <2>1, <2>2
  <2>4. all[1].n \in Nat
      BY <1>4, <1>7
  <2>6. new[Len(new)].n = n + 1
      BY <1>1, <1>7, <2>1, <2>2
  <2> HIDE DEF d
  <2>7. new[1].n = all[1].n + (d + 1) - 1
      BY <1>1, <2>3
  <2>8. \A i \in 1..room : new[i].n = new[1].n + i - 1
      BY <1>1, <2>2, <2>3, <2>4, <2>7
  <2>5. InOrder(new, k)
      BY <2>1, <2>3, <2>8 DEF InOrder
  <2> QED
      BY <1>1, <2>1, <2>5, <2>6
<1>9. ASSUME ~(Len(all) > room) PROVE good
  <2>1. new = all
      BY <1>6, <1>9
  <2>2. InOrder(new, k)
      BY <1>4, <1>5, <2>1 DEF InOrder
  <2>3. Len(new) <= MaxLines
      BY <1>1, <1>7, <1>9, <2>1, SocketsAssumption
  <2> QED
      BY <1>7, <1>a, <2>1, <2>2, <2>3
<1>10. good
    BY <1>8, <1>9
<1> QED
    BY <1>10, Zenon DEF x, new

\* What the cleanup of the effect leaves of a socket.
LEMMA Abandoned ==
    ASSUME NEW x \in Socket, NEW b \in BOOLEAN
    PROVE  LET y == [x EXCEPT !.alive = @ /\ b]
           IN /\ y \in Socket /\ y.at = x.at /\ y.key = x.key
              /\ y.alive => x.alive /\ b
<1>1. (x.alive /\ b) \in BOOLEAN
    OBVIOUS
<1> QED
    BY <1>1 DEF Socket

\* The key that is wanted depends on four fields, and on what the queries have answered.
LEMMA SameWanted ==
    ASSUME NEW p, NEW q, NEW l, q.on = p.on, q.key = p.key, q.tail = p.tail
    PROVE  Wanted(q, l) = Wanted(p, l)
BY DEF Wanted

LEMMA WantedStays ==
    ASSUME UNCHANGED <<kind, list>>,
           page'.on = page.on, page'.key = page.key, page'.tail = page.tail
    PROVE  Wanted(page, list)' = Wanted(page, list)
BY DEF Wanted

\* Without a key that is wanted there is no socket in use, and nothing is shown.
LEMMA NothingWanted ==
    ASSUME IInv, Wanted(page, list) = NoKey
    PROVE  /\ \A s \in Slots : ~InUse(s) /\ ~socks[s].alive
           /\ page.lines = <<>> /\ ~page.timer
<1>1. \A s \in Slots : ~InUse(s) /\ ~socks[s].alive
    BY DEF IInv, SocketsOK
<1>2. ~page.timer
    BY DEF IInv, PageOK
<1>3. page.lines \in Seq(LogLine)
    BY DEF IInv, TypeOK, Page
<1>4. ASSUME page.lines # <<>> PROVE FALSE
  <2>1. 1 \in DOMAIN page.lines /\ page.lines[1] \in LogLine
      BY <1>3, <1>4
  <2>2. page.lines[1].key \in Keys
      BY <2>1 DEF LogLine
  <2> QED
      BY <2>1, <2>2, SocketsAssumption DEF IInv, LinesOfKey
<1> QED
    BY <1>1, <1>2, <1>4

LEMMA InitInv == Init => IInv
<1> SUFFICES ASSUME Init PROVE IInv
    OBVIOUS
<1>1. /\ kind \in Kinds /\ page = NewPage /\ list = {} /\ socks = [s \in Slots |-> NoSocket]
      /\ \A s \in Slots : socks[s] = NoSocket
    BY DEF Init
<1>2. TypeOK
  <2>1. socks \in [Slots -> Socket]
      BY <1>1, Constants
  <2>2. host \in 1..MaxSamples /\ poll \in Poll
      BY SocketsAssumption DEF Init, Poll
  <2> QED
      BY <1>1, <2>1, <2>2, Constants DEF TypeOK
<1>3. \A s \in Slots : socks[s].at = "free" /\ ~socks[s].alive
    BY <1>1 DEF NoSocket
<1>4. ~page.on /\ ~page.timer /\ page.lines = <<>> /\ page.ws = 0
    BY <1>1 DEF NewPage
<1>5. SocketsOK /\ PageOK /\ SocketWanted /\ LiveIsLive
    BY <1>3, <1>4 DEF SocketsOK, PageOK, SocketWanted, LiveIsLive, InUse
<1>6. LinesOfKey
  <2>1. Len(page.lines) <= MaxLines /\ DOMAIN page.lines = {}
      BY <1>4, SocketsAssumption
  <2> QED
      BY <1>4, <2>1 DEF LinesOfKey
<1> QED
    BY <1>2, <1>5, <1>6 DEF IInv

-----------------------------------------------------------------------------
\* A commit of React.

\* What the actions change of the page before it is rendered.
Rendered(p, again) ==
    /\ p.on /\ kind # "docker" => p.key \in Keys
    /\ p.lines \in {page.lines, <<>>}
    /\ p.status \in {page.status, "connecting"}
    /\ page.on => p.ws = page.ws /\ p.timer = page.timer
    /\ ~page.on => ~p.timer
    /\ kind \in {"sheet", "stats", "overview"} => ~again /\ (page.on => p.key = page.key)
    /\ kind = "exec" /\ page.on /\ ~again /\ ~p.useCustom =>
          ~page.useCustom /\ p.command = page.command

\* The dependencies of the effect have not changed.
LEMMA CommitSame ==
    ASSUME IInv, NEW p \in Page, NEW l \in SUBSET Keys, Rendered(p, FALSE),
           Wanted(p, l) = Wanted(page, list),
           page' = p, list' = l, UNCHANGED <<kind, socks, host, poll>>
    PROVE  IInv'
<1> DEFINE w == Wanted(page, list)
<1>1. w = Wanted(page, list)'
    BY DEF Wanted
<1>2. TypeOK'
    BY DEF IInv, TypeOK
<1>3. page \in Page
    BY DEF IInv, TypeOK
<1> HIDE DEF w
<1>4. CASE w = NoKey
  <2>1. /\ \A s \in Slots : ~InUse(s) /\ ~socks[s].alive
        /\ page.lines = <<>> /\ ~page.timer
      BY <1>4, NothingWanted DEF w
  <2>2. \A s \in Slots : ~InUse(s)' /\ ~socks'[s].alive
      BY <2>1 DEF InUse
  <2>3. page'.lines = <<>> /\ ~page'.timer
      BY <2>1 DEF Rendered
  <2>4. SocketsOK' /\ SocketWanted'
      BY <2>2 DEF SocketsOK, SocketWanted, InUse, IInv
  <2>5. PageOK'
      BY <2>3 DEF PageOK, Rendered
  <2>6. LinesOfKey'
      BY <2>3, SocketsAssumption DEF LinesOfKey
  <2>7. kind \in {"terminal", "exec"} => ~p.on
      BY <1>1, <1>4, SocketsAssumption DEF w, Wanted, Rendered
  <2> QED
      BY <1>2, <2>4, <2>5, <2>6, <2>7 DEF IInv, LiveIsLive
<1>5. CASE w # NoKey
  <2>1. page.on /\ p.on /\ w = page.key /\ w = p.key
      BY <1>3, <1>5, WantedKey DEF w, IInv, TypeOK
  <2>2. page'.ws = page.ws /\ page'.timer = page.timer
      BY <2>1 DEF Rendered
  <2>3. SocketsOK'
      BY <1>1, <1>5, <2>2 DEF IInv, SocketsOK, InUse
  <2>4. SocketWanted'
    <3> SUFFICES ASSUME NEW s \in Slots, InUse(s)
                 PROVE  (/\ s = page.ws /\ ~page.timer
                         /\ socks[s].key = Wanted(page, list) /\ page.on
                         /\ kind = "exec" /\ ~page.useCustom => socks[s].command = page.command)'
        BY DEF SocketWanted, InUse
    <3>1. /\ s = page.ws /\ ~page.timer /\ socks[s].key = w
          /\ kind = "exec" /\ ~page.useCustom => socks[s].command = page.command
        BY DEF IInv, SocketWanted, InUse, w
    <3>2. kind = "exec" /\ ~p.useCustom => ~page.useCustom /\ p.command = page.command
        BY <2>1 DEF Rendered
    <3> QED
        BY <1>1, <2>1, <2>2, <3>1, <3>2
  <2>5. PageOK'
      BY <1>1, <1>5, <2>1, <2>2 DEF IInv, PageOK, Rendered
  <2>6. LinesOfKey'
    <3>1. CASE p.lines = <<>>
        BY <3>1, SocketsAssumption DEF LinesOfKey
    <3>2. CASE p.lines = page.lines
        BY <1>1, <2>2, <3>2 DEF IInv, LinesOfKey, Connected, w
    <3> QED
        BY <3>1, <3>2 DEF Rendered
  <2>7. LiveIsLive'
      BY <2>1, <2>2 DEF IInv, LiveIsLive, Connected, Rendered
  <2> QED
      BY <1>2, <2>3, <2>4, <2>5, <2>6, <2>7 DEF IInv
<1> QED
    BY <1>4, <1>5

\* The cleanup and the effect.
LEMMA CommitAnew ==
    ASSUME IInv, NEW p \in Page, NEW l \in SUBSET Keys, NEW again \in BOOLEAN,
           Rendered(p, again), again \/ Wanted(p, l) # Wanted(page, list),
           Commit(p, l, again)
    PROVE  IInv'
<1> DEFINE old == Wanted(page, list)
           new == Wanted(p, l)
           q   == Cleared(p)
<1>1. PICK s \in IF new = NoKey THEN {0} ELSE Free \cup NoElement(old) :
        /\ socks' = [t \in Slots |->
              IF t = s THEN Opened(p)
              ELSE [IF t = page.ws THEN Left(socks[t]) ELSE socks[t]
                    EXCEPT !.alive = @ /\ new # NoKey]]
        /\ page' = [IF KeepsLines /\ old # NoKey /\ new # NoKey THEN p ELSE Cleared(p)
                    EXCEPT !.ws = s]
    BY DEF Commit
<1>2. list' = l /\ UNCHANGED <<kind, host, poll>>
    BY DEF Commit
<1>3. page \in Page /\ list \in SUBSET Keys /\ socks \in [Slots -> Socket]
    BY DEF IInv, TypeOK
<1>4. /\ new \in Keys \cup {NoKey} /\ (new # NoKey => p.on /\ new = p.key)
      /\ old # NoKey => page.on /\ old = page.key
    BY <1>3, WantedKey
<1>5. ~(KeepsLines /\ old # NoKey /\ new # NoKey)
    BY <1>4 DEF KeepsLines, Rendered
<1>6. s \in 0..MaxSockets /\ (s \in Slots => new # NoKey)
    BY SocketsAssumption DEF Free, NoElement, Slots
<1>7. page' = [q EXCEPT !.ws = s]
    BY <1>1, <1>5
<1>8. /\ q \in Page /\ q.lines = <<>> /\ q.status = "connecting" /\ ~q.timer
      /\ q.on = p.on /\ q.key = p.key /\ q.tail = p.tail
      /\ q.command = p.command /\ q.useCustom = p.useCustom
    BY ClearedPage
<1> HIDE DEF q
<1>9. /\ page' \in Page /\ page'.ws = s /\ page'.lines = <<>>
      /\ page'.status = "connecting" /\ ~page'.timer
    BY <1>6, <1>7, <1>8 DEF Page
<1>10. /\ page'.on = p.on /\ page'.key = p.key /\ page'.tail = p.tail
       /\ page'.command = p.command /\ page'.useCustom = p.useCustom
    BY <1>7, <1>8 DEF Page
<1>11. Wanted(page, list)' = new
    BY <1>2, <1>10 DEF Wanted
<1> HIDE DEF old, new
<1>12. ASSUME NEW t \in Slots, t # s
       PROVE  /\ socks'[t] \in Socket /\ socks'[t].key = socks[t].key
              /\ socks'[t].at \notin {"connecting", "open"}
              /\ socks'[t].at = "free" <=> socks[t].at = "free"
              /\ socks'[t].alive => new # NoKey /\ kind # "overview"
  <2> DEFINE x == IF t = page.ws THEN Left(socks[t]) ELSE socks[t]
             b == new # NoKey
  <2>1. /\ x \in Socket /\ x.key = socks[t].key
        /\ x.at \notin {"connecting", "open"} /\ (x.at = "free" <=> socks[t].at = "free")
    <3>1. CASE t = page.ws
        BY <1>3, <3>1, LeftSocket
    <3>2. CASE t # page.ws
        BY <1>3, <3>2 DEF IInv, SocketWanted
    <3> QED
        BY <3>1, <3>2
  <2>2. socks'[t] = [x EXCEPT !.alive = @ /\ b]
      BY <1>1, <1>12
  <2>3. x.alive = socks[t].alive
      BY <1>3 DEF Left, Socket
  <2>4. kind = "overview" /\ socks[t].alive => ~b
    <3> SUFFICES ASSUME kind = "overview", socks[t].alive, b PROVE FALSE
        OBVIOUS
    <3>1. old # NoKey
        BY DEF IInv, SocketsOK, old
    <3>2. old = new
        BY <1>4, <3>1 DEF Rendered, old, new
    <3> QED
        BY <3>2 DEF Rendered, old, new
  <2>6. b \in BOOLEAN
      OBVIOUS
  <2> HIDE DEF x, b
  <2>5. socks'[t] \in Socket /\ socks'[t].at = x.at /\ socks'[t].key = x.key
        /\ (socks'[t].alive => x.alive /\ b)
      BY <2>1, <2>2, <2>6, Abandoned
  <2> QED
      BY <2>1, <2>3, <2>4, <2>5 DEF b
<1>13. ASSUME s \in Slots
       PROVE  /\ socks'[s] \in Socket /\ socks'[s].at = "connecting"
              /\ socks'[s].key = new /\ new \in Keys /\ p.on /\ socks'[s].alive
              /\ ~p.useCustom => socks'[s].command = p.command
  <2>1. p.on /\ p.key = new /\ new \in Keys
      BY <1>4, <1>6, <1>13 DEF new
  <2>2. socks'[s] = Opened(p)
      BY <1>1, <1>13
  <2> QED
      BY <2>1, <2>2, OpenedSocket
<1>14. TypeOK'
  <2>1. \A t \in Slots : socks'[t] \in Socket
      BY <1>12, <1>13
  <2>2. socks' \in [Slots -> Socket]
      BY <1>1, <2>1
  <2> QED
      BY <1>2, <1>9, <2>2 DEF IInv, TypeOK
<1>15. SocketsOK'
  <2> SUFFICES ASSUME NEW t \in Slots
               PROVE  (/\ socks[t].at # "free" => socks[t].key \in Keys
                       /\ InUse(t) => socks[t].alive
                       /\ socks[t].alive => Wanted(page, list) # NoKey
                       /\ kind = "overview" /\ socks[t].alive =>
                             t = page.ws /\ InUse(t) /\ ~page.timer)'
      BY DEF SocketsOK
  <2>1. CASE t = s
      BY <1>6, <1>9, <1>11, <1>13, <2>1 DEF InUse
  <2>2. CASE t # s
    <3>1. socks'[t].at # "free" => socks'[t].key \in Keys
        BY <1>12, <2>2 DEF IInv, SocketsOK
    <3> QED
        BY <1>2, <1>11, <1>12, <2>2, <3>1 DEF InUse
  <2> QED
      BY <2>1, <2>2
<1>16. PageOK'
  <2>1. page'.on /\ kind # "docker" => page'.key \in Keys
      BY <1>10 DEF Rendered
  <2> QED
      BY <1>2, <1>9, <2>1 DEF PageOK
<1>17. SocketWanted'
  <2> SUFFICES ASSUME NEW t \in Slots, socks'[t].at \in {"connecting", "open"}
               PROVE  (/\ t = page.ws /\ ~page.timer
                       /\ socks[t].key = Wanted(page, list) /\ page.on
                       /\ kind = "exec" /\ ~page.useCustom => socks[t].command = page.command)'
      BY DEF SocketWanted
  <2>1. t = s
      BY <1>12
  <2> QED
      BY <1>9, <1>10, <1>11, <1>13, <2>1
<1>18. LinesOfKey'
    BY <1>9, SocketsAssumption DEF LinesOfKey
<1>19. LiveIsLive'
    BY <1>9 DEF LiveIsLive
<1> QED
    BY <1>14, <1>15, <1>16, <1>17, <1>18, <1>19 DEF IInv

LEMMA CommitStep ==
    ASSUME IInv, NEW p \in Page, NEW l \in SUBSET Keys, NEW again \in BOOLEAN,
           Rendered(p, again), Commit(p, l, again)
    PROVE  IInv'
<1>1. CASE again \/ Wanted(p, l) # Wanted(page, list)
    BY <1>1, CommitAnew
<1>2. CASE ~again /\ Wanted(p, l) = Wanted(page, list)
  <2>1. page' = p /\ list' = l /\ UNCHANGED <<kind, socks, host, poll>>
      BY <1>2 DEF Commit
  <2>2. again = FALSE
      BY <1>2
  <2>3. Rendered(p, FALSE)
      BY <2>2
  <2> QED
      BY <1>2, <2>1, <2>3, CommitSame
<1> QED
    BY <1>1, <1>2

LEMMA Rendering ==
    ASSUME IInv
    PROVE  /\ page \in Page /\ list \in SUBSET Keys
           /\ page.on /\ kind # "docker" => page.key \in Keys
           /\ page.timer => page.on
<1>1. page \in Page /\ list \in SUBSET Keys
    BY DEF IInv, TypeOK
<1> QED
    BY <1>1, WantedKey DEF IInv, PageOK

\* The actions that render the page anew keep to what Rendered demands.
LEMMA OpenStep ==
    ASSUME IInv, NEW k \in Keys \cup {NoKey}, Open(k)
    PROVE  IInv'
<1> DEFINE p == [NewPage EXCEPT !.on = TRUE, !.key = k, !.tail = (kind = "docker"),
                                !.shown = page.shown]
<1>1. PICK l \in SUBSET list : Commit(p, l, FALSE)
    BY DEF Open
<1>2. ~page.on /\ (kind = "docker" <=> k = NoKey)
    BY DEF Open
<1>3. (kind = "docker") \in BOOLEAN /\ page.shown \in Nat
    BY Rendering DEF Page
<1>4. p \in Page
    BY <1>3, Constants DEF Page
<1>5. p.key = k /\ p.lines = <<>> /\ p.status = "connecting" /\ ~p.timer
    BY DEF NewPage
<1> HIDE DEF p
<1>6. Rendered(p, FALSE)
    BY <1>2, <1>5 DEF Rendered
<1> QED
    BY <1>1, <1>4, <1>6, Rendering, CommitStep

LEMMA LeaveStep ==
    ASSUME IInv, Leave
    PROVE  IInv'
<1> DEFINE p == [page EXCEPT !.on = FALSE]
<1>1. Commit(p, list, FALSE)
    BY DEF Leave, Show
<1>2. p \in Page
    BY Rendering DEF Page
<1>3. Rendered(p, FALSE)
    BY Rendering DEF Leave, Rendered, Page
<1> QED
    BY <1>1, <1>2, <1>3, Rendering, CommitStep

LEMMA PickContainerStep ==
    ASSUME IInv, NEW k \in Keys, PickContainer(k)
    PROVE  IInv'
<1> DEFINE p == [page EXCEPT !.key = k]
<1>1. Commit(p, list, TRUE)
    BY DEF PickContainer, Show
<1>2. p \in Page
    BY Rendering DEF Page
<1>3. Rendered(p, TRUE)
    BY Rendering DEF PickContainer, Rendered, Page
<1> QED
    BY <1>1, <1>2, <1>3, Rendering, CommitStep

LEMMA PickCommandStep ==
    ASSUME IInv, NEW c \in Commands, PickCommand(c)
    PROVE  IInv'
<1> DEFINE p == [page EXCEPT !.command = c, !.useCustom = FALSE]
<1>1. Commit(p, list, TRUE)
    BY DEF PickCommand, Show
<1>2. p \in Page
    BY Rendering DEF Page
<1>3. Rendered(p, TRUE)
    BY Rendering DEF PickCommand, Rendered, Page
<1> QED
    BY <1>1, <1>2, <1>3, Rendering, CommitStep

LEMMA PickCustomStep ==
    ASSUME IInv, PickCustom
    PROVE  IInv'
<1> DEFINE p == [page EXCEPT !.useCustom = TRUE]
<1>1. Commit(p, list, FALSE)
    BY DEF PickCustom, Show
<1>2. p \in Page
    BY Rendering DEF Page
<1>3. Rendered(p, FALSE)
    BY Rendering DEF PickCustom, Rendered, Page
<1> QED
    BY <1>1, <1>2, <1>3, Rendering, CommitStep

LEMMA TypeCommandStep ==
    ASSUME IInv, NEW c \in Commands \cup {NoCommand}, TypeCommand(c)
    PROVE  IInv'
<1> DEFINE p == [page EXCEPT !.custom = c]
<1>1. Commit(p, list, FALSE)
    BY DEF TypeCommand, Show
<1>2. p \in Page
    BY Rendering DEF Page
<1>3. Rendered(p, FALSE)
    BY Rendering DEF TypeCommand, Rendered, Page
<1> QED
    BY <1>1, <1>2, <1>3, Rendering, CommitStep

LEMMA PodContainerStep ==
    ASSUME IInv, NEW k \in Keys, PodContainer(k)
    PROVE  IInv'
<1> DEFINE p == [page EXCEPT !.key = k]
<1>1. Commit(p, list, FALSE)
    BY DEF PodContainer, Show
<1>2. p \in Page
    BY Rendering DEF Page
<1>3. Rendered(p, FALSE)
    BY Rendering DEF PodContainer, Rendered, Page
<1> QED
    BY <1>1, <1>2, <1>3, Rendering, CommitStep

LEMMA FilterStep ==
    ASSUME IInv, NEW k \in Keys, Filter(k)
    PROVE  IInv'
<1> DEFINE p == [page EXCEPT !.key = k]
<1>1. Commit(p, list, FALSE)
    BY DEF Filter, Show
<1>2. p \in Page
    BY Rendering DEF Page
<1>3. Rendered(p, FALSE)
    BY Rendering DEF Filter, Rendered, Page
<1> QED
    BY <1>1, <1>2, <1>3, Rendering, CommitStep

LEMMA ToggleLiveStep ==
    ASSUME IInv, ToggleLive
    PROVE  IInv'
<1> DEFINE p == [page EXCEPT !.tail = ~@]
<1>1. Commit(p, list, FALSE)
    BY DEF ToggleLive, Show
<1>2. p \in Page
    BY Rendering DEF Page
<1>3. Rendered(p, FALSE)
    BY Rendering DEF ToggleLive, Rendered, Page
<1> QED
    BY <1>1, <1>2, <1>3, Rendering, CommitStep

LEMMA SelectContainerStep ==
    ASSUME IInv, NEW k \in Keys \cup {NoKey}, SelectContainer(k)
    PROVE  IInv'
<1> DEFINE p == [page EXCEPT !.key = k]
<1>1. Commit(p, list, FALSE)
    BY DEF SelectContainer, Show
<1>2. p \in Page
    BY Rendering DEF Page
<1>3. Rendered(p, FALSE)
    BY Rendering DEF SelectContainer, Rendered, Page
<1> QED
    BY <1>1, <1>2, <1>3, Rendering, CommitStep

LEMMA ClearStep ==
    ASSUME IInv, Clear
    PROVE  IInv'
<1> DEFINE p == [page EXCEPT !.lines = <<>>]
<1>1. Commit(p, list, FALSE)
    BY DEF Clear, Show
<1>2. p \in Page
  <2>1. <<>> \in Seq(LogLine)
      OBVIOUS
  <2> QED
      BY <2>1, Rendering DEF Page
<1>3. Rendered(p, FALSE)
    BY Rendering DEF Clear, Rendered, Page
<1> QED
    BY <1>1, <1>2, <1>3, Rendering, CommitStep

LEMMA AgainStep ==
    ASSUME IInv, Reset \/ CommitCommand
    PROVE  IInv'
<1>1. Commit(page, list, TRUE) /\ kind \in {"terminal", "exec"} /\ page.on
    BY DEF Reset, CommitCommand
<1>2. Rendered(page, TRUE)
    BY <1>1, Rendering DEF Rendered
<1> QED
    BY <1>1, <1>2, Rendering, CommitStep

LEMMA DockerStep ==
    ASSUME IInv, DockerAnswers
    PROVE  IInv'
<1>1. PICK tail \in BOOLEAN, l \in SUBSET Keys : Commit([page EXCEPT !.tail = tail], l, FALSE)
    BY Rendering DEF DockerAnswers, Show
<1>2. kind = "docker" /\ page.on
    BY DEF DockerAnswers
<1> DEFINE p == [page EXCEPT !.tail = tail]
<1>3. p \in Page
    BY Rendering DEF Page
<1>4. Rendered(p, FALSE)
    BY <1>2, Rendering DEF Rendered, Page
<1> QED
    BY <1>1, <1>3, <1>4, CommitStep

LEMMA AutoPickStep ==
    ASSUME IInv, AutoPick
    PROVE  IInv'
<1>1. PICK k \in list : Commit([page EXCEPT !.key = k], list, FALSE)
    BY DEF AutoPick, Show
<1>2. kind = "docker" /\ page.on
    BY DEF AutoPick
<1> DEFINE p == [page EXCEPT !.key = k]
<1>3. p \in Page
    BY Rendering DEF Page
<1>4. Rendered(p, FALSE)
    BY <1>2, Rendering DEF Rendered, Page
<1> QED
    BY <1>1, <1>3, <1>4, Rendering, CommitStep

LEMMA AnswersStep ==
    ASSUME IInv, DetailAnswers \/ StateAnswers \/ JournalAnswers
    PROVE  IInv'
<1>1. PICK l \in {list \cup {page.key}, list \ {page.key}} : Commit(page, l, FALSE)
    BY DEF DetailAnswers, StateAnswers, JournalAnswers
<1>2. kind \in {"sheet", "stats", "journal"} /\ page.on
    BY DEF DetailAnswers, StateAnswers, JournalAnswers
<1>3. l \in SUBSET Keys
    BY <1>2, Rendering
<1>4. Rendered(page, FALSE)
    BY <1>2, Rendering DEF Rendered
<1> QED
    BY <1>1, <1>3, <1>4, Rendering, CommitStep

-----------------------------------------------------------------------------
\* The events of the sockets.

LEMMA OpensStep ==
    ASSUME IInv, NEW s \in Slots, Opens(s)
    PROVE  IInv'
<1>1. /\ socks[s].at = "connecting" /\ socks' = [socks EXCEPT ![s].at = "open"]
      /\ page' = [page EXCEPT !.status = "open", !.attempts = 0]
      /\ UNCHANGED <<kind, list, host, poll>>
    BY DEF Opens
<1>2. page \in Page /\ socks \in [Slots -> Socket]
    BY DEF IInv, TypeOK
<1>3. page' \in Page /\ page'.status = "open"
  <2>1. 0 \in 0..6
      OBVIOUS
  <2> QED
      BY <1>1, <1>2, <2>1 DEF Page
<1>4. /\ page'.on = page.on /\ page'.key = page.key /\ page'.tail = page.tail
      /\ page'.ws = page.ws /\ page'.timer = page.timer /\ page'.lines = page.lines
      /\ page'.command = page.command /\ page'.useCustom = page.useCustom
    BY <1>1, <1>2 DEF Page
<1>5. /\ socks' \in [Slots -> Socket] /\ socks'[s].at = "open"
      /\ \A t \in Slots : /\ socks'[t].key = socks[t].key /\ socks'[t].alive = socks[t].alive
                          /\ socks'[t].command = socks[t].command /\ socks'[t].n = socks[t].n
                          /\ t # s => socks'[t].at = socks[t].at
    BY <1>1, <1>2 DEF Socket
<1>6. Wanted(page, list)' = Wanted(page, list)
    BY <1>1, <1>4, WantedStays
<1>7. s = page.ws /\ page.lines = <<>> /\ page.ws # 0
    BY <1>1, SocketsAssumption DEF IInv, SocketWanted, PageOK, Slots
<1>8. TypeOK'
    BY <1>1, <1>3, <1>5 DEF IInv, TypeOK
<1>9. SocketsOK'
    BY <1>1, <1>4, <1>5, <1>6 DEF IInv, SocketsOK, InUse
<1>10. PageOK' /\ LinesOfKey'
    BY <1>1, <1>4, <1>6, <1>7, SocketsAssumption DEF IInv, PageOK, LinesOfKey
<1>11. SocketWanted'
    BY <1>1, <1>4, <1>5, <1>6 DEF IInv, SocketWanted
<1>12. LiveIsLive'
    BY <1>4, <1>5, <1>7 DEF LiveIsLive, Connected
<1> QED
    BY <1>8, <1>9, <1>10, <1>11, <1>12 DEF IInv

LEMMA LineStep ==
    ASSUME IInv, NEW s \in Slots, Line(s)
    PROVE  IInv'
<1> DEFINE k == socks[s].key
           n == socks[s].n
           new == Ring(page.lines, [key |-> k, n |-> n + 1])
<1>1. /\ kind \in {"pod", "journal", "docker", "sheet", "stats"} /\ socks[s].at = "open"
      /\ socks' = [socks EXCEPT ![s].n = @ + 1] /\ page' = [page EXCEPT !.lines = new]
      /\ UNCHANGED <<kind, list, host, poll>>
    BY DEF Line
<1>2. page \in Page /\ socks \in [Slots -> Socket]
    BY DEF IInv, TypeOK
<1>3. s = page.ws /\ page.ws # 0 /\ Connected /\ k = Wanted(page, list)
    BY <1>1, SocketsAssumption DEF IInv, SocketWanted, Slots, Connected
<1>4. k \in Keys /\ n \in Nat
    BY <1>1, <1>2 DEF IInv, SocketsOK, Socket
<1>5. page.lines \in Seq(LogLine)
    BY <1>2 DEF Page
<1>6. InOrder(page.lines, k) /\ (page.lines # <<>> => page.lines[Len(page.lines)].n = n)
    BY <1>3, <1>5 DEF IInv, LinesOfKey, InOrder
<1> HIDE DEF k, n
<1>7. /\ new \in Seq(LogLine) /\ InOrder(new, k) /\ Len(new) <= MaxLines
      /\ new # <<>> /\ new[Len(new)].n = n + 1
    BY <1>4, <1>5, <1>6, RingInOrder
<1> HIDE DEF new
<1>8. page' \in Page /\ page'.lines = new
    BY <1>1, <1>2, <1>7 DEF Page
<1>9. /\ page'.on = page.on /\ page'.key = page.key /\ page'.tail = page.tail
      /\ page'.ws = page.ws /\ page'.timer = page.timer /\ page'.status = page.status
      /\ page'.command = page.command /\ page'.useCustom = page.useCustom
    BY <1>1, <1>2 DEF Page
<1>10. /\ socks' \in [Slots -> Socket] /\ socks'[s].n = n + 1
       /\ \A t \in Slots : /\ socks'[t].key = socks[t].key /\ socks'[t].alive = socks[t].alive
                           /\ socks'[t].command = socks[t].command /\ socks'[t].at = socks[t].at
  <2>1. \A t \in Slots : socks[t] \in Socket /\ socks[t].n + 1 \in Nat
      BY <1>2 DEF Socket
  <2> QED
      BY <1>1, <1>2, <2>1 DEF Socket, n
<1>11. Wanted(page, list)' = Wanted(page, list)
    BY <1>1, <1>9, WantedStays
<1>12. TypeOK'
    BY <1>1, <1>8, <1>10 DEF IInv, TypeOK
<1>13. SocketsOK'
    BY <1>1, <1>9, <1>10, <1>11 DEF IInv, SocketsOK, InUse
<1>14. PageOK'
    BY <1>1, <1>3, <1>9, <1>10, <1>11 DEF IInv, PageOK
<1>15. SocketWanted'
    BY <1>1, <1>9, <1>10, <1>11 DEF IInv, SocketWanted
<1>16. LinesOfKey'
  <2>1. DOMAIN new = 1..Len(new)
      BY <1>7
  <2>2. \A i \in DOMAIN new : new[i].key = Wanted(page, list) /\ new[i].n = new[1].n + i - 1
      BY <1>3, <1>7, <2>1 DEF InOrder
  <2>3. new[Len(new)].n = socks'[page'.ws].n
      BY <1>3, <1>7, <1>9, <1>10
  <2> QED
      BY <1>7, <1>8, <1>11, <2>2, <2>3 DEF LinesOfKey
<1>17. LiveIsLive'
    BY <1>1 DEF LiveIsLive
<1> QED
    BY <1>12, <1>13, <1>14, <1>15, <1>16, <1>17 DEF IInv

\* Events that come after one another: an error frame, the end of a socket.
LEMMA ErrorStep ==
    ASSUME IInv, NEW s \in Slots, ErrorFrame(s)
    PROVE  IInv'
<1>1. page' = [page EXCEPT !.error = TRUE] /\ UNCHANGED <<kind, socks, list, host, poll>>
    BY DEF ErrorFrame
<1>2. page \in Page
    BY DEF IInv, TypeOK
<1>3. page' \in Page
    BY <1>1, <1>2 DEF Page
<1>4. /\ page'.on = page.on /\ page'.key = page.key /\ page'.tail = page.tail
      /\ page'.ws = page.ws /\ page'.timer = page.timer /\ page'.status = page.status
      /\ page'.command = page.command /\ page'.useCustom = page.useCustom
      /\ page'.lines = page.lines
    BY <1>1, <1>2 DEF Page
<1>5. Wanted(page, list)' = Wanted(page, list)
    BY <1>1, <1>4, WantedStays
<1>6. TypeOK' /\ SocketsOK'
    BY <1>1, <1>3, <1>4, <1>5 DEF IInv, TypeOK, SocketsOK, InUse
<1>7. PageOK' /\ SocketWanted'
    BY <1>1, <1>4, <1>5 DEF IInv, PageOK, SocketWanted
<1>8. LinesOfKey' /\ LiveIsLive'
    BY <1>1, <1>4, <1>5 DEF IInv, LinesOfKey, LiveIsLive, Connected
<1> QED
    BY <1>6, <1>7, <1>8 DEF IInv

LEMMA EndedPage ==
    ASSUME NEW p \in Page, NEW failed \in BOOLEAN
    PROVE  LET q == Ended(p, failed)
           IN /\ q \in Page
              /\ q.on = p.on /\ q.key = p.key /\ q.tail = p.tail /\ q.ws = p.ws
              /\ q.lines = p.lines /\ q.command = p.command /\ q.useCustom = p.useCustom
              /\ q.timer = (p.timer \/ kind = "overview")
              /\ kind \in {"terminal", "exec"} => q.status = "closed"
<1> DEFINE q == Ended(p, failed)
<1>1. (p.error \/ failed) \in BOOLEAN
    OBVIOUS
<1>2. (IF p.attempts < 6 THEN p.attempts + 1 ELSE 6) \in 0..6
    BY DEF Page
<1>3. CASE kind \in {"terminal", "exec"}
  <2>1. q = [p EXCEPT !.status = "closed", !.error = @ \/ failed]
      BY <1>3 DEF Ended
  <2> QED
      BY <1>1, <1>3, <2>1 DEF Page
<1>4. CASE kind = "overview"
  <2> DEFINE n == IF p.attempts < 6 THEN p.attempts + 1 ELSE 6
  <2>1. q = [p EXCEPT !.timer = TRUE, !.attempts = n]
      BY <1>4 DEF Ended
  <2> HIDE DEF n, q
  <2>2. n \in 0..6
      BY <1>2 DEF n
  <2>3. q \in Page
      BY <2>1, <2>2 DEF Page
  <2>4. /\ q.on = p.on /\ q.key = p.key /\ q.tail = p.tail /\ q.ws = p.ws
        /\ q.lines = p.lines /\ q.command = p.command /\ q.useCustom = p.useCustom
        /\ q.timer
      BY <2>1 DEF Page
  <2> QED
      BY <1>4, <2>3, <2>4 DEF q
<1>5. CASE kind = "stats"
  <2>1. q = p
      BY <1>5 DEF Ended
  <2>2. p.timer \in BOOLEAN
      BY DEF Page
  <2> QED
      BY <1>5, <2>1, <2>2
<1>6. CASE kind \notin {"terminal", "exec", "overview", "stats"}
  <2>1. q = [p EXCEPT !.error = @ \/ failed]
      BY <1>6 DEF Ended
  <2> QED
      BY <1>1, <1>6, <2>1 DEF Page
<1> QED
    BY <1>3, <1>4, <1>5, <1>6

LEMMA EndsStep ==
    ASSUME IInv, NEW s \in Slots, Ends(s)
    PROVE  IInv'
<1>1. PICK failed \in BOOLEAN : page' = IF socks[s].alive THEN Ended(page, failed) ELSE page
    BY DEF Ends
<1>2. /\ socks' = [socks EXCEPT ![s] = NoSocket]
      /\ UNCHANGED <<kind, list, host, poll>>
    BY DEF Ends
<1>3. page \in Page /\ socks \in [Slots -> Socket]
    BY DEF IInv, TypeOK
<1>4. /\ page' \in Page
      /\ page'.on = page.on /\ page'.key = page.key /\ page'.tail = page.tail
      /\ page'.ws = page.ws /\ page'.lines = page.lines
      /\ page'.command = page.command /\ page'.useCustom = page.useCustom
      /\ page'.timer => page.timer \/ (kind = "overview" /\ socks[s].alive)
      /\ kind \in {"terminal", "exec"} /\ page'.status = "open" =>
            ~socks[s].alive /\ page.status = "open"
  <2>1. CASE socks[s].alive
    <3>1. page' = Ended(page, failed)
        BY <1>1, <2>1
    <3> QED
        BY <1>3, <2>1, <3>1, EndedPage
  <2>2. CASE ~socks[s].alive
    <3>1. page' = page
        BY <1>1, <2>2
    <3> QED
        BY <1>3, <2>2, <3>1
  <2> QED
      BY <2>1, <2>2
<1>5. /\ socks' \in [Slots -> Socket] /\ socks'[s].at = "free" /\ ~socks'[s].alive
      /\ \A t \in Slots : t # s => socks'[t] = socks[t]
    BY <1>2, <1>3, Constants DEF NoSocket
<1>6. Wanted(page, list)' = Wanted(page, list)
    BY <1>2, <1>4, WantedStays
<1>7. TypeOK'
    BY <1>2, <1>4, <1>5 DEF IInv, TypeOK
<1>8. ASSUME NEW t \in Slots, t # s, kind = "overview", socks[t].alive
      PROVE  ~socks[s].alive /\ ~page'.timer
    BY <1>4, <1>8 DEF IInv, SocketsOK
<1>9. SocketsOK'
  <2> SUFFICES ASSUME NEW t \in Slots
               PROVE  (/\ socks[t].at # "free" => socks[t].key \in Keys
                       /\ InUse(t) => socks[t].alive
                       /\ socks[t].alive => Wanted(page, list) # NoKey
                       /\ kind = "overview" /\ socks[t].alive =>
                             t = page.ws /\ InUse(t) /\ ~page.timer)'
      BY DEF SocketsOK
  <2>1. CASE t = s
      BY <1>5, <2>1 DEF InUse
  <2>2. CASE t # s
      BY <1>2, <1>4, <1>5, <1>6, <1>8, <2>2 DEF IInv, SocketsOK, InUse
  <2> QED
      BY <2>1, <2>2
<1>10. PageOK'
  <2>1. page'.timer => kind = "overview" /\ Wanted(page, list) # NoKey
      BY <1>4 DEF IInv, PageOK, SocketsOK
  <2>2. page.ws # 0 => page.ws \in Slots
      BY <1>3, SocketsAssumption DEF Page, Slots
  <2>3. page'.ws # 0 /\ socks'[page'.ws].at = "connecting" => page'.lines = <<>>
      BY <1>4, <1>5, <2>2 DEF IInv, PageOK
  <2> QED
      BY <1>2, <1>4, <1>6, <2>1, <2>3 DEF IInv, PageOK
<1>11. SocketWanted'
  <2> SUFFICES ASSUME NEW t \in Slots, socks'[t].at \in {"connecting", "open"}
               PROVE  (/\ t = page.ws /\ ~page.timer
                       /\ socks[t].key = Wanted(page, list) /\ page.on
                       /\ kind = "exec" /\ ~page.useCustom => socks[t].command = page.command)'
      BY DEF SocketWanted
  <2>1. t # s /\ socks'[t] = socks[t]
      BY <1>5
  <2>2. socks[t].alive
      BY <2>1 DEF IInv, SocketsOK, InUse
  <2>3. ~page.timer
      BY <2>1 DEF IInv, SocketWanted
  <2>4. ~page'.timer
      BY <1>4, <1>8, <2>1, <2>2, <2>3
  <2> QED
      BY <1>2, <1>4, <1>6, <2>1, <2>4 DEF IInv, SocketWanted
<1>12. Connected' => Connected /\ socks'[page'.ws] = socks[page.ws]
  <2>1. page.ws # 0 => page.ws \in Slots
      BY <1>3, SocketsAssumption DEF Page, Slots
  <2> QED
      BY <1>4, <1>5, <2>1 DEF Connected
<1>13. LinesOfKey'
    BY <1>4, <1>6, <1>12 DEF IInv, LinesOfKey
<1>14. LiveIsLive'
  <2> SUFFICES ASSUME kind \in {"terminal", "exec"}, page'.on, page'.status = "open"
               PROVE  Connected'
      BY <1>2 DEF LiveIsLive
  <2>1. ~socks[s].alive /\ Connected
      BY <1>4 DEF IInv, LiveIsLive
  <2>2. page.ws \in Slots /\ socks[page.ws].alive
      BY <1>3, <2>1, SocketsAssumption DEF Connected, Page, Slots, IInv, SocketsOK, InUse
  <2>3. page.ws # s
      BY <2>1, <2>2
  <2> QED
      BY <1>4, <1>5, <2>1, <2>2, <2>3 DEF Connected
<1> QED
    BY <1>7, <1>9, <1>10, <1>11, <1>13, <1>14 DEF IInv

-----------------------------------------------------------------------------
\* The overview.

LEMMA ReconnectStep ==
    ASSUME IInv, Reconnect
    PROVE  IInv'
<1>1. PICK s \in Free :
        /\ socks' = [socks EXCEPT ![s] = Opened(page)]
        /\ page' = [page EXCEPT !.timer = FALSE, !.ws = s]
    BY DEF Reconnect
<1>2. page.timer /\ UNCHANGED <<kind, list, host, poll>>
    BY DEF Reconnect
<1>3. page \in Page /\ socks \in [Slots -> Socket] /\ list \in SUBSET Keys
    BY DEF IInv, TypeOK
<1>4. s \in Slots /\ s \in 0..MaxSockets /\ s # 0
    BY SocketsAssumption DEF Free, Slots
<1>5. kind = "overview" /\ Wanted(page, list) # NoKey /\ page.lines = <<>>
    BY <1>2 DEF IInv, PageOK
<1>6. page.on /\ Wanted(page, list) = page.key /\ page.key \in Keys
    BY <1>3, <1>5, WantedKey
<1>7. \A t \in Slots : ~InUse(t) /\ ~socks[t].alive
    BY <1>2, <1>5 DEF IInv, SocketsOK
<1>8. page' \in Page /\ page'.ws = s /\ ~page'.timer
    BY <1>1, <1>3, <1>4 DEF Page
<1>9. /\ page'.on = page.on /\ page'.key = page.key /\ page'.tail = page.tail
      /\ page'.lines = page.lines
    BY <1>1, <1>3 DEF Page
<1>10. Wanted(page, list)' = Wanted(page, list)
    BY <1>2, <1>9, WantedStays
<1>11. /\ Opened(page) \in Socket /\ Opened(page).at = "connecting"
       /\ Opened(page).key = page.key /\ Opened(page).alive
    BY <1>3, <1>6, OpenedSocket
<1>12. /\ socks' \in [Slots -> Socket] /\ socks'[s] = Opened(page)
       /\ \A t \in Slots : t # s => socks'[t] = socks[t]
    BY <1>1, <1>3, <1>4, <1>11
<1>13. TypeOK'
    BY <1>2, <1>8, <1>12 DEF IInv, TypeOK
<1>14. \A t \in Slots : t # s => ~InUse(t)' /\ ~socks'[t].alive
    BY <1>7, <1>12 DEF InUse
<1>15. SocketsOK'
  <2>1. \A t \in Slots : socks'[t].at # "free" => socks'[t].key \in Keys
      BY <1>6, <1>11, <1>12 DEF IInv, SocketsOK
  <2>2. InUse(s)'
      BY <1>11, <1>12 DEF InUse
  <2> QED
      BY <1>5, <1>8, <1>10, <1>11, <1>12, <1>14, <2>1, <2>2 DEF SocketsOK
<1>16. PageOK' /\ LinesOfKey' /\ LiveIsLive'
    BY <1>2, <1>5, <1>6, <1>8, <1>9, SocketsAssumption DEF PageOK, LinesOfKey, LiveIsLive
<1>17. SocketWanted'
    BY <1>2, <1>5, <1>6, <1>8, <1>9, <1>10, <1>11, <1>12, <1>14 DEF SocketWanted, InUse
<1> QED
    BY <1>13, <1>15, <1>16, <1>17 DEF IInv

\* Only what the query and the frames bring changes.
LEMMA ShownStep ==
    ASSUME IInv, UNCHANGED <<kind, socks, list>>, host' \in 1..MaxSamples, poll' \in Poll,
           NEW sample \in Nat, page' \in {page, [page EXCEPT !.shown = sample]}
    PROVE  IInv'
<1>1. page \in Page
    BY DEF IInv, TypeOK
<1>2. page' \in Page
    BY <1>1 DEF Page
<1>3. /\ page'.on = page.on /\ page'.key = page.key /\ page'.tail = page.tail
      /\ page'.ws = page.ws /\ page'.timer = page.timer /\ page'.status = page.status
      /\ page'.command = page.command /\ page'.useCustom = page.useCustom
      /\ page'.lines = page.lines
    BY <1>1 DEF Page
<1>4. Wanted(page, list)' = Wanted(page, list)
    BY <1>3, WantedStays
<1>5. TypeOK' /\ SocketsOK'
    BY <1>2, <1>3, <1>4 DEF IInv, TypeOK, SocketsOK, InUse
<1>6. PageOK' /\ SocketWanted'
    BY <1>3, <1>4 DEF IInv, PageOK, SocketWanted
<1>7. LinesOfKey' /\ LiveIsLive'
    BY <1>3, <1>4 DEF IInv, LinesOfKey, LiveIsLive, Connected
<1> QED
    BY <1>5, <1>6, <1>7 DEF IInv

LEMMA PollStep ==
    ASSUME IInv, \/ HostChanges \/ Interval \/ PollOverview
                 \/ ServerAnswers \/ PollArrives \/ PollFails
    PROVE  IInv'
<1>1. /\ host \in 1..MaxSamples /\ host \in Nat
      /\ poll \in Poll /\ poll.sample \in Nat
    BY SocketsAssumption DEF IInv, TypeOK, Poll
<1>2. UNCHANGED <<kind, socks, list>>
    BY DEF HostChanges, Interval, PollOverview, ServerAnswers, PollArrives, PollFails
<1>3. host' \in 1..MaxSamples
    BY <1>1, SocketsAssumption
    DEF HostChanges, Interval, PollOverview, ServerAnswers, PollArrives, PollFails
<1>4. poll' \in Poll
  <2>1. CASE HostChanges \/ Interval \/ PollOverview
      BY <1>1, <2>1 DEF HostChanges, Interval, PollOverview, Poll
  <2>2. CASE ServerAnswers
      BY <1>1, <2>2 DEF ServerAnswers, Poll
  <2>3. CASE PollArrives \/ PollFails
    <3>1. poll' = [at |-> "none", sample |-> 0, quiet |-> FALSE]
        BY <2>3 DEF PollArrives, PollFails
    <3> QED
        BY <3>1 DEF Poll
  <2> QED
      BY <2>1, <2>2, <2>3
<1>5. page' \in {page, [page EXCEPT !.shown = poll.sample]}
    BY DEF HostChanges, Interval, PollOverview, ServerAnswers, PollArrives, PollFails
<1> QED
    BY <1>1, <1>2, <1>3, <1>4, <1>5, ShownStep

\* A frame is sent and arrives; nothing that is shown as a log depends on it.
LEMMA FrameStep ==
    ASSUME IInv, NEW s \in Slots, ServerPushes(s) \/ Sample(s)
    PROVE  IInv'
<1>1. /\ kind = "overview" /\ UNCHANGED <<kind, list, host>>
      /\ socks' \in {[socks EXCEPT ![s].n = host], [socks EXCEPT ![s].n = 0]}
      /\ poll' \in {poll, [poll EXCEPT !.quiet = FALSE]}
      /\ page' \in {page, [page EXCEPT !.shown = socks[s].n]}
    BY DEF ServerPushes, Sample
<1>2. /\ page \in Page /\ socks \in [Slots -> Socket] /\ poll \in Poll
      /\ host \in 1..MaxSamples /\ host \in Nat
    BY SocketsAssumption DEF IInv, TypeOK
<1>3. socks[s].n \in Nat
    BY <1>2 DEF Socket
<1>4. page' \in Page
    BY <1>1, <1>2, <1>3 DEF Page
<1>5. /\ page'.on = page.on /\ page'.key = page.key /\ page'.tail = page.tail
      /\ page'.ws = page.ws /\ page'.timer = page.timer /\ page'.lines = page.lines
    BY <1>1, <1>2 DEF Page
<1>6. /\ socks' \in [Slots -> Socket]
      /\ \A t \in Slots : /\ socks'[t].key = socks[t].key /\ socks'[t].alive = socks[t].alive
                          /\ socks'[t].at = socks[t].at
    BY <1>1, <1>2 DEF Socket
<1>7. poll' \in Poll
    BY <1>1, <1>2 DEF Poll
<1>8. Wanted(page, list)' = Wanted(page, list)
    BY <1>1, <1>5, WantedStays
<1>9. TypeOK' /\ SocketsOK'
    BY <1>1, <1>2, <1>4, <1>5, <1>6, <1>7, <1>8 DEF IInv, TypeOK, SocketsOK, InUse
<1>10. page.lines = <<>>
    BY <1>1 DEF IInv, PageOK
<1>11. PageOK' /\ LinesOfKey' /\ LiveIsLive'
    BY <1>1, <1>5, <1>8, <1>10, SocketsAssumption
    DEF IInv, PageOK, LinesOfKey, LiveIsLive
<1>12. SocketWanted'
    BY <1>1, <1>5, <1>6, <1>8 DEF IInv, SocketWanted
<1> QED
    BY <1>9, <1>11, <1>12 DEF IInv

-----------------------------------------------------------------------------
\* The whole.

LEMMA UserStep ==
    ASSUME IInv, User
    PROVE  IInv'
<1>1. CASE \E k \in Keys \cup {NoKey} : Open(k) \/ SelectContainer(k)
    BY <1>1, OpenStep, SelectContainerStep
<1>2. CASE \E k \in Keys : PickContainer(k) \/ PodContainer(k) \/ Filter(k)
    BY <1>2, PickContainerStep, PodContainerStep, FilterStep
<1>3. CASE \E c \in Commands : PickCommand(c) \/ TypeCommand(c)
    BY <1>3, PickCommandStep, TypeCommandStep
<1>4. CASE TypeCommand(NoCommand)
    BY <1>4, TypeCommandStep
<1>5. CASE Leave \/ Reset \/ PickCustom \/ CommitCommand \/ ToggleLive \/ Clear
    BY <1>5, LeaveStep, AgainStep, PickCustomStep, ToggleLiveStep, ClearStep
<1> QED
    BY <1>1, <1>2, <1>3, <1>4, <1>5 DEF User

\* Every step of the browser, the server and the network keeps the invariant.
LEMMA NextInv ==
    ASSUME IInv, [Next]_vars
    PROVE  IInv'
<1>1. CASE User
    BY <1>1, UserStep
<1>2. CASE DockerAnswers \/ AutoPick \/ DetailAnswers \/ StateAnswers \/ JournalAnswers
    BY <1>2, DockerStep, AutoPickStep, AnswersStep
<1>3. CASE \E s \in Slots : Opens(s) \/ Line(s) \/ ErrorFrame(s) \/ Ends(s)
                              \/ ServerPushes(s) \/ Sample(s)
    BY <1>3, OpensStep, LineStep, ErrorStep, EndsStep, FrameStep
<1>4. CASE Reconnect
    BY <1>4, ReconnectStep
<1>5. CASE HostChanges \/ Interval \/ PollOverview \/ ServerAnswers \/ PollArrives \/ PollFails
    BY <1>5, PollStep
<1>6. CASE UNCHANGED vars
  <2>1. Wanted(page, list)' = Wanted(page, list)
      BY <1>6 DEF vars, Wanted
  <2>2. TypeOK' /\ SocketsOK'
      BY <1>6, <2>1 DEF vars, IInv, TypeOK, SocketsOK, InUse
  <2>3. PageOK' /\ SocketWanted'
      BY <1>6, <2>1 DEF vars, IInv, PageOK, SocketWanted
  <2>4. LinesOfKey' /\ LiveIsLive'
      BY <1>6, <2>1 DEF vars, IInv, LinesOfKey, LiveIsLive, Connected
  <2> QED
      BY <2>2, <2>3, <2>4 DEF IInv
<1> QED
    BY <1>1, <1>2, <1>3, <1>4, <1>5, <1>6 DEF Next

LEMMA Inductive == Spec => []IInv
<1>1. IInv /\ [Next]_vars => IInv'
    BY NextInv
<1> QED
    BY InitInv, <1>1, PTL DEF Spec

\* Each variable has its type in every state: lines are lines, and a view's socket is
\* one of the browser's.
THEOREM SocketsTypeOK == Spec => []TypeOK
<1>1. IInv => TypeOK
    BY DEF IInv
<1> QED
    BY <1>1, Inductive, PTL

\* The only socket in use is the one the view wants: the effects of all eight views
\* close what they opened before they open anything else.
THEOREM OneSocket == Spec => []SocketWanted
<1>1. IInv => SocketWanted
    BY DEF IInv
<1> QED
    BY <1>1, Inductive, PTL

\* A log never mixes the lines of two streams, and never skips or repeats one, for
\* every MAX_LINES.
THEOREM LinesOfOneStream == Spec => []LinesOfKey
<1>1. IInv => LinesOfKey
    BY DEF IInv
<1> QED
    BY <1>1, Inductive, PTL

\* A terminal that says "Live" has a session: the events of sockets it has left before
\* do not make it say so.
THEOREM TerminalLive == Spec => []LiveIsLive
<1>1. IInv => LiveIsLive
    BY DEF IInv
<1> QED
    BY <1>1, Inductive, PTL

-----------------------------------------------------------------------------
(***************************************************************************)
(* The handlers of a terminal and of an exec.  The invariant says of each  *)
(* place in main what the waits before it have established; that no other  *)
(* goroutine, nor the shell, can take it back is the proof.                *)
(***************************************************************************)

\* A handler starts with nothing that could be left over.
LEMMA ShellInitInv == ShellInit => ShellIInv
<1> SUFFICES ASSUME ShellInit PROVE ShellIInv
    OBVIOUS
<1>1. PlacesOK
    BY ShellAssumption DEF ShellAssumption, NoRow, ShellInit, PlacesOK
<1>2. FlagsOK
    BY Zenon DEF ShellInit, FlagsOK
<1>3. ShellInv
    BY ShellAssumption
    DEF ShellAssumption, NoRow, Launched, Closed, ShellInit, ShellInv, Unlaunched,
        AfterClose, AfterOutput, AfterTicker
<1> QED
    BY <1>1, <1>2, <1>3 DEF ShellIInv, ShellTypeOK

\* Every step of a goroutine, the shell, the clock and the browser keeps it.
LEMMA ShellPlaces == PlacesOK /\ ShellInv /\ [ShellNext]_shellVars => (PlacesOK /\ ShellInv)'
<1> SUFFICES ASSUME PlacesOK /\ ShellInv, [ShellNext]_shellVars
             PROVE  (PlacesOK /\ ShellInv)'
    OBVIOUS
<1> USE ShellAssumption
        DEF ShellAssumption, NoRow, Launched, Closed, PlacesOK, ShellInv, Unlaunched,
            AfterClose, AfterOutput, AfterTicker
<1>1. CASE Reject
    BY <1>1 DEF Reject
<1>2. CASE Launch
    BY <1>2 DEF Launch
<1>3. CASE ReadMessage
    BY <1>3 DEF ReadMessage
<1>4. CASE ReadError
    BY <1>4 DEF ReadError
<1>5. CASE InputWritten
    BY <1>5 DEF InputWritten
<1>6. CASE InputFails
    BY <1>6 DEF InputFails
<1>7. CASE MainClose
    BY <1>7 DEF MainClose, StartClose
<1>8. CASE WaitOutput
    BY <1>8 DEF WaitOutput
<1>9. CASE WaitTicker
    BY <1>9 DEF WaitTicker
<1>10. CASE ErrorReport
    BY <1>10 DEF ErrorReport
<1>11. CASE AuditEnd
    BY <1>11 DEF AuditEnd
<1>12. CASE OutputRead
    BY <1>12 DEF OutputRead, Writable
<1>13. CASE OutputCount
    BY <1>13 DEF OutputCount, Count
<1>14. CASE OutputWrite
    BY <1>14 DEF OutputWrite, Count
<1>15. CASE OutputEnds
    BY <1>15 DEF OutputEnds
<1>16. CASE StreamReturns
    BY <1>16 DEF StreamReturns
<1>17. CASE TickerStops
    BY <1>17 DEF TickerStops
<1>18. CASE TickerPing
    BY <1>18 DEF TickerPing
<1>19. CASE TickerPinged
    BY <1>19 DEF TickerPinged
<1>20. CASE TickerIdle
    BY <1>20 DEF TickerIdle
<1>21. CASE TickerIdled
    BY <1>21 DEF TickerIdled
<1>22. CASE TickerClose
    BY <1>22 DEF TickerClose, StartClose
<1>23. CASE CloseGrace
    BY <1>23 DEF CloseGrace
<1>24. CASE CloseReap
    BY <1>24 DEF CloseReap
<1>25. CASE ChildExits
    BY <1>25 DEF ChildExits
<1>26. CASE PeerLeaves
    BY <1>26 DEF PeerLeaves
<1>27. CASE Quiet
    BY <1>27 DEF Quiet
<1>28. CASE UNCHANGED shellVars
    BY <1>28 DEF shellVars
<1> QED
    BY <1>1, <1>2, <1>3, <1>4, <1>5, <1>6, <1>7, <1>8, <1>9, <1>10,
       <1>11, <1>12, <1>13, <1>14, <1>15, <1>16, <1>17, <1>18, <1>19, <1>20,
       <1>21, <1>22, <1>23, <1>24, <1>25, <1>26, <1>27, <1>28
    DEF ShellNext, MainStep, OutputStep, TickerStep, CloseStep

\* The flags are a separate matter: Booleans and arithmetic are for different provers.
LEMMA ShellFlags == FlagsOK /\ [ShellNext]_shellVars => (FlagsOK)'
<1> SUFFICES ASSUME FlagsOK, [ShellNext]_shellVars
             PROVE  (FlagsOK)'
    OBVIOUS
<1> USE DEF FlagsOK
<1>1. CASE Reject
    BY <1>1, Zenon DEF Reject
<1>2. CASE Launch
    BY <1>2, Zenon DEF Launch
<1>3. CASE ReadMessage
    BY <1>3, Zenon DEF ReadMessage
<1>4. CASE ReadError
    BY <1>4, Zenon DEF ReadError
<1>5. CASE InputWritten
    BY <1>5, Zenon DEF InputWritten
<1>6. CASE InputFails
    BY <1>6, Zenon DEF InputFails
<1>7. CASE MainClose
    BY <1>7, Zenon DEF MainClose
<1>8. CASE WaitOutput
    BY <1>8, Zenon DEF WaitOutput
<1>9. CASE WaitTicker
    BY <1>9, Zenon DEF WaitTicker
<1>10. CASE ErrorReport
    BY <1>10, Zenon DEF ErrorReport, BeginWrite, Written, WriteFails
<1>11. CASE AuditEnd
    BY <1>11, Zenon DEF AuditEnd
<1>12. CASE OutputRead
    BY <1>12, Zenon DEF OutputRead
<1>13. CASE OutputCount
    BY <1>13, Zenon DEF OutputCount, BeginWrite
<1>14. CASE OutputWrite
    BY <1>14, Zenon DEF OutputWrite, Written, WriteFails
<1>15. CASE OutputEnds
    BY <1>15, Zenon DEF OutputEnds
<1>16. CASE StreamReturns
    BY <1>16, Zenon DEF StreamReturns
<1>17. CASE TickerStops
    BY <1>17, Zenon DEF TickerStops
<1>18. CASE TickerPing
    BY <1>18, Zenon DEF TickerPing, BeginWrite
<1>19. CASE TickerPinged
    BY <1>19, Zenon DEF TickerPinged, Written, WriteFails
<1>20. CASE TickerIdle
    BY <1>20, Zenon DEF TickerIdle, BeginWrite
<1>21. CASE TickerIdled
    BY <1>21, Zenon DEF TickerIdled, Written, WriteFails
<1>22. CASE TickerClose
    BY <1>22, Zenon DEF TickerClose
<1>23. CASE CloseGrace
    BY <1>23, Zenon DEF CloseGrace
<1>24. CASE CloseReap
    BY <1>24, Zenon DEF CloseReap
<1>25. CASE ChildExits
    BY <1>25, Zenon DEF ChildExits
<1>26. CASE PeerLeaves
    BY <1>26, Zenon DEF PeerLeaves
<1>27. CASE Quiet
    BY <1>27, Zenon DEF Quiet
<1>28. CASE UNCHANGED shellVars
    BY <1>28, Zenon DEF shellVars
<1> QED
    BY <1>1, <1>2, <1>3, <1>4, <1>5, <1>6, <1>7, <1>8, <1>9, <1>10,
       <1>11, <1>12, <1>13, <1>14, <1>15, <1>16, <1>17, <1>18, <1>19, <1>20,
       <1>21, <1>22, <1>23, <1>24, <1>25, <1>26, <1>27, <1>28, Zenon
    DEF ShellNext, MainStep, OutputStep, TickerStep, CloseStep

LEMMA ShellInvariant == ShellSpec => []ShellIInv
<1>1. ShellIInv /\ [ShellNext]_shellVars => ShellIInv'
    BY ShellPlaces, ShellFlags DEF ShellIInv, ShellTypeOK
<1> QED
    BY ShellInitInv, <1>1, PTL DEF ShellSpec

-----------------------------------------------------------------------------
\* The counters and the states of goroutines, shell and socket stay in their types.
THEOREM ShellTypeCorrect == ShellSpec => []ShellTypeOK
<1>1. ShellIInv => ShellTypeOK
    BY DEF ShellIInv
<1> QED
    BY <1>1, ShellInvariant, PTL

\* A handler that has returned leaves no goroutine, shell or exec call behind
\* (terminal.go:205-209, k8s.go:975-983).
THEOREM NothingIsLeft == ShellSpec => []NothingLeft
<1>1. ShellIInv => NothingLeft
    BY DEF ShellIInv, ShellInv, NothingLeft, AfterClose, AfterOutput, AfterTicker
<1> QED
    BY <1>1, ShellInvariant, PTL

\* After Close the shell is reaped, whichever goroutine was the first to call it
\* (pty.go:205-224).
THEOREM CloseHasReaped == ShellSpec => []CloseReaps
<1>1. ShellIInv => CloseReaps
    BY DEF ShellIInv, ShellTypeOK, PlacesOK, ShellInv, Unlaunched, CloseReaps,
           AfterClose, AfterOutput, AfterTicker
<1> QED
    BY <1>1, ShellInvariant, PTL

\* The audit row of a terminal misses no output (terminal.go:207-220).
THEOREM AuditIsComplete == ShellSpec => []AuditComplete
<1>1. ShellIInv => AuditComplete
    BY DEF ShellIInv, ShellInv, AuditComplete
<1> QED
    BY <1>1, ShellInvariant, PTL
=============================================================================
