----------------------------- MODULE PanelsProofs -----------------------------
(***************************************************************************)
(* The pages that list things of the host and change them, for every       *)
(* number of rules, units, changes and states of the host: why a delete    *)
(* that is answered costs no second rule, and why no card removes a        *)
(* container that it has not shown to be running.                          *)
(***************************************************************************)
EXTENDS Panels, FiniteSetTheorems, TLAPS

-----------------------------------------------------------------------------
\* None of the changes in S has made a state after v.
NoneAfter(h, v, S) == \A n \in (v + 1)..Len(h) : h[n].by \notin S

\* What the buttons of each page send.
VerbsOf(k) ==
    CASE k = "firewall"   -> {"add", "delete", "enable", "disable"}
      [] k = "containers" -> {"start", "stop", "restart", "remove"}
      [] k = "services"   -> {"start", "stop", "restart", "enable", "disable"}

\* No container is started at boot by systemd.
Shapes == IF kind = "containers" THEN {t \in Thing : ~t.boot} ELSE Thing

HistOK == \A v \in DOMAIN hist : hist[v].things \in Seq(Shapes)

\* The states that were read exist; before the first list no button is there; and a
\* list that is settled has every change the page was told of.
ListOK ==
    /\ shown <= Len(hist) /\ fetch.ver <= Len(hist)
    /\ fetch.at = "answered" => fetch.ver # 0
    /\ shown = 0 => \A i \in Requests : request[i].at = "none"
    /\ ~open /\ Loading => fetch.old
    /\ \A i \in told : request[i].at \notin {"none", "sent"}
    /\ kind = "firewall" /\ open =>
          /\ fetch.at = "answered" /\ ~fetch.old => NoneAfter(hist, fetch.ver, told)
          /\ sure /\ ~Loading => NoneAfter(hist, shown, told)

\* What a change under way knows of the host, as long as it is under way: the position
\* of the rule in the list it was chosen from, and that the container ran.
RequestOK(r, k, h, t) ==
    r.at = "sent" =>
        /\ r.verb \in VerbsOf(k)
        /\ r.verb = "add" => r.id \in Rules
        /\ r.told \subseteq t
        /\ r.verb \in {"delete", "remove"} => r.ver \in DOMAIN h
        /\ r.verb = "delete" =>
              /\ r.index \in DOMAIN h[r.ver].things
              /\ h[r.ver].things[r.index].id = r.id
              /\ r.clean => NoneAfter(h, r.ver, r.told)
        /\ r.verb = "remove" /\ r.force =>
              \E j \in DOMAIN h[r.ver].things :
                  h[r.ver].things[j].id = r.id /\ h[r.ver].things[j].on

RequestsOK == \A i \in Requests : RequestOK(request[i], kind, hist, told)

IInv == TypeOK /\ HistOK /\ ListOK /\ RequestsOK

-----------------------------------------------------------------------------
\* The operators on sequences.

LEMMA SetToSeqType ==
    ASSUME NEW S, IsFiniteSet(S)
    PROVE  SetToSeq(S) \in Seq(S)
<1>1. PICK f \in [1..Cardinality(S) -> S] : \A a, b \in DOMAIN f : f[a] = f[b] => a = b
    <2>1. PICK f : f \in Bijection(1..Cardinality(S), S)
        BY FS_CardinalityType DEF ExistsBijection
    <2> QED
        BY <2>1 DEF Bijection, Injection, Surjection, IsInjective
<1>2. IsInjective(f)
    BY <1>1 DEF IsInjective
<1>3. SetToSeq(S) \in [1..Cardinality(S) -> S]
    BY <1>2 DEF SetToSeq
<1> QED
    BY <1>3, FS_CardinalityType

LEMMA ConcatAt ==
    ASSUME NEW S, NEW a \in Seq(S), NEW b \in Seq(S), NEW m \in 1..Len(b)
    PROVE  (a \o b)[Len(a) + m] = b[m]
OBVIOUS

\* What is left after RemoveAt, and where.
LEMMA Removed ==
    ASSUME NEW S, NEW s \in Seq(S), NEW k \in DOMAIN s
    PROVE  /\ RemoveAt(s, k) \in Seq(S)
           /\ DOMAIN RemoveAt(s, k) = 1..(Len(s) - 1)
           /\ \A j \in 1..(k - 1) : RemoveAt(s, k)[j] = s[j]
           /\ \A j \in k..(Len(s) - 1) : RemoveAt(s, k)[j] = s[j + 1]
<1> DEFINE a == SubSeq(s, 1, k - 1)
           b == SubSeq(s, k + 1, Len(s))
<1>1. k \in 1..Len(s) /\ Len(s) \in Nat
    OBVIOUS
<1>2. a \in Seq(S) /\ Len(a) = k - 1 /\ \A j \in 1..(k - 1) : a[j] = s[j]
    BY <1>1
<1>3. b \in Seq(S) /\ Len(b) = Len(s) - k /\ \A j \in 1..(Len(s) - k) : b[j] = s[j + k]
    BY <1>1
<1>4. RemoveAt(s, k) = a \o b
    BY DEF RemoveAt
<1> HIDE DEF a, b
<1>5. a \o b \in Seq(S) /\ DOMAIN (a \o b) = 1..(Len(s) - 1)
    BY <1>1, <1>2, <1>3
<1>6. \A j \in 1..(k - 1) : (a \o b)[j] = s[j]
    BY <1>1, <1>2, <1>3
<1>7. ASSUME NEW j \in k..(Len(s) - 1) PROVE (a \o b)[j] = s[j + 1]
    <2> DEFINE m == j - (k - 1)
    <2>1. m \in 1..Len(b) /\ j = Len(a) + m /\ m + k = j + 1
        <3>1. Len(a) = k - 1 /\ Len(b) = Len(s) - k
            BY <1>2, <1>3
        <3> HIDE DEF a, b
        <3> QED
            BY <1>1, <3>1
    <2>2. a \in Seq(S) /\ b \in Seq(S)
        BY <1>2, <1>3
    <2> HIDE DEF m
    <2>3. (a \o b)[Len(a) + m] = b[m]
        BY <2>1, <2>2, ConcatAt
    <2> QED
        BY <1>3, <2>1, <2>3
<1> QED
    BY <1>4, <1>5, <1>6, <1>7

\* What was at another position is still there.
LEMMA RemovedKeeps ==
    ASSUME NEW S, NEW s \in Seq(S), NEW k \in DOMAIN s, NEW j \in DOMAIN s, j # k
    PROVE  \E m \in DOMAIN RemoveAt(s, k) : RemoveAt(s, k)[m] = s[j]
<1>1. CASE j < k
    <2>1. j \in 1..(k - 1) /\ j \in 1..(Len(s) - 1)
        BY <1>1
    <2> QED
        BY <2>1, Removed
<1>2. CASE j > k
    <2>1. j - 1 \in k..(Len(s) - 1) /\ j - 1 \in 1..(Len(s) - 1)
        BY <1>2
    <2>2. RemoveAt(s, k)[j - 1] = s[(j - 1) + 1]
        BY <2>1, Removed
    <2> QED
        BY <2>1, <2>2, Removed
<1> QED
    BY <1>1, <1>2

\* InsertAt has the new element and the old ones.
LEMMA Inserted ==
    ASSUME NEW S, NEW s \in Seq(S), NEW k \in 1..(Len(s) + 1), NEW e \in S
    PROVE  InsertAt(s, k, e) \in Seq(S)
<1> DEFINE a == SubSeq(s, 1, k - 1)
           b == SubSeq(s, k, Len(s))
<1>1. a \in Seq(S) /\ b \in Seq(S) /\ <<e>> \in Seq(S)
    OBVIOUS
<1>2. InsertAt(s, k, e) = a \o <<e>> \o b
    BY DEF InsertAt
<1> QED
    BY <1>1, <1>2
-----------------------------------------------------------------------------
\* The records.

LEMMA Constants ==
    /\ 0 \in Versions
    /\ NoRequest \in Request /\ Done \in Request
    /\ NoFetch \in Fetch /\ Sent \in Fetch
<1>1. 0 \in Versions
    BY PanelsAssumption DEF Versions
<1>2. "none" \in Verbs
    BY DEF Verbs
<1>3. NoRequest \in Request
    BY <1>1, <1>2, PanelsAssumption DEF NoRequest, Request
<1>4. Done \in Request
    <2>1. NoRequest.verb = "none" /\ NoRequest.force = FALSE
        BY DEF NoRequest
    <2> QED
        BY <1>3, <2>1 DEF Done, Request
<1>5. NoFetch \in Fetch /\ Sent \in Fetch
    BY <1>1 DEF NoFetch, Sent, Fetch
<1> QED
    BY <1>1, <1>3, <1>4, <1>5

LEMMA SameKind ==
    ASSUME kind' = kind
    PROVE  /\ Things' = Things /\ Thing' = Thing /\ HostState' = HostState
           /\ Request' = Request /\ Shapes' = Shapes
BY DEF Things, Thing, HostState, Request, Shapes

LEMMA AnsweredType ==
    ASSUME TypeOK, NEW i \in Requests, NEW result \in {"ok", "error", "settling"}
    PROVE  Answered(i, result) \in Request /\ Answered(i, result).at = result
<1>1. request[i] \in Request
    BY DEF TypeOK
<1> DEFINE kept == IF request[i].verb \in {"add", "enable", "disable"} THEN request[i]
                   ELSE NoRequest
<1>2. kept.verb \in Verbs /\ kept.verb # "delete" /\ kept.visit \in 0..MaxLeave
    <2>1. NoRequest \in Request /\ NoRequest.verb = "none"
        BY Constants DEF NoRequest
    <2> QED
        BY <1>1, <2>1 DEF Request
<1>3. Answered(i, result) =
          [NoRequest EXCEPT !.at = result, !.verb = kept.verb, !.visit = kept.visit]
    BY DEF Answered
<1> HIDE DEF kept
<1>4. NoRequest \in Request /\ NoRequest.force = FALSE
    BY Constants DEF NoRequest
<1> QED
    BY <1>2, <1>3, <1>4 DEF Request

LEMMA CurrentType ==
    ASSUME TypeOK, HistOK
    PROVE  /\ Len(hist) \in Nat \ {0} /\ Len(hist) \in DOMAIN hist
           /\ Current \in HostState /\ Current = hist[Len(hist)]
           /\ Current.things \in Seq(Shapes)
<1>1. hist \in Seq(HostState) /\ Len(hist) \in 1..MaxVersion /\ MaxVersion \in Nat
    BY PanelsAssumption DEF TypeOK
<1>2. Len(hist) \in Nat \ {0} /\ Len(hist) \in DOMAIN hist
    BY <1>1
<1>3. hist[Len(hist)] \in HostState
    BY <1>1, <1>2
<1> QED
    BY <1>2, <1>3 DEF Current, Last, HistOK

LEMMA ShapesType ==
    /\ Shapes \subseteq Thing
    /\ \A t \in Things : [id |-> t, on |-> FALSE, boot |-> FALSE] \in Shapes
    /\ \A t \in Shapes : [t EXCEPT !.on = TRUE] \in Shapes
    /\ \A t \in Shapes : [t EXCEPT !.on = FALSE] \in Shapes
    /\ \A t \in Shapes : [t EXCEPT !.on = ~@] \in Shapes
    /\ kind # "containers" =>
          \A t \in Shapes : /\ [t EXCEPT !.boot = TRUE] \in Shapes
                            /\ [t EXCEPT !.boot = FALSE] \in Shapes
BY DEF Shapes, Thing

LEMMA WithNewType ==
    ASSUME NEW q \in Seq(Shapes), NEW t \in Things, NEW s \in WithNew(q, t)
    PROVE  s \in Seq(Shapes)
<1>1. CASE s = q
    BY <1>1
<1>2. CASE \E k \in 1..(Len(q) + 1) :
              s = InsertAt(q, k, [id |-> t, on |-> FALSE, boot |-> FALSE])
    BY <1>2, ShapesType, Inserted
<1> QED
    BY <1>1, <1>2 DEF WithNew

LEMMA InsertionsType ==
    ASSUME TypeOK, HistOK, NEW t \in Things, NEW s \in Insertions(t)
    PROVE  s \in Seq(Shapes)
<1>1. Current.things \in Seq(Shapes)
    BY CurrentType
<1>2. CASE s \in WithNew(Current.things, t)
    BY <1>1, <1>2, WithNewType
<1>3. CASE \E q \in WithNew(Current.things, t), u \in Things : s \in WithNew(q, u)
    <2>1. PICK q \in WithNew(Current.things, t), u \in Things : s \in WithNew(q, u)
        BY <1>3
    <2>2. q \in Seq(Shapes)
        BY <1>1, <2>1, WithNewType
    <2> QED
        BY <2>1, <2>2, WithNewType
<1> QED
    BY <1>2, <1>3 DEF Insertions

LEMMA InStateType ==
    ASSUME NEW t \in Shapes, kind # "firewall", kind \in Kinds, NEW verb \in VerbsOf(kind),
           verb # "remove"
    PROVE  InState(t, verb) \in Shapes
<1>1. CASE kind = "containers"
    <2>1. verb \in {"start", "stop", "restart"}
        BY <1>1 DEF VerbsOf
    <2> QED
        BY <2>1, ShapesType DEF InState
<1>2. CASE kind = "services"
    <2>1. verb \in {"start", "stop", "restart", "enable", "disable"}
        BY <1>2 DEF VerbsOf
    <2> QED
        BY <1>2, <2>1, ShapesType DEF InState
<1> QED
    BY <1>1, <1>2, PanelsAssumption

\* What a change can lead to is a state of the host.
LEMMA ResultsType ==
    ASSUME IInv, NEW i \in Requests, request[i].at = "sent", NEW x \in Results(request[i])
    PROVE  x \in HostState /\ x.things \in Seq(Shapes)
<1> DEFINE r == request[i]
<1>1. TypeOK /\ HistOK
    BY DEF IInv
<1>2. RequestOK(r, kind, hist, told)
    BY DEF IInv, RequestsOK
<1>3. r.verb \in VerbsOf(kind) /\ (r.verb = "add" => r.id \in Rules)
    BY <1>2 DEF RequestOK
<1>4. kind \in Kinds /\ r.at = "sent"
    BY <1>1 DEF TypeOK
<1> HIDE DEF r
<1>5. Seq(Shapes) \subseteq Seq(Thing)
    BY ShapesType
<1>6. \A s \in Seq(Shapes) : [Current EXCEPT !.things = s] \in HostState
                          /\ [Current EXCEPT !.things = s].things = s
    BY <1>1, <1>5, CurrentType DEF HostState
<1>7. CASE \E k \in DOMAIN Current.things : x = [Current EXCEPT !.things = RemoveAt(@, k)]
    <2>1. PICK k \in DOMAIN Current.things : x = [Current EXCEPT !.things = RemoveAt(@, k)]
        BY <1>7
    <2>2. RemoveAt(Current.things, k) \in Seq(Shapes)
        BY <1>1, <2>1, CurrentType, Removed
    <2> QED
        BY <2>1, <2>2, <1>6
<1>8. CASE r.verb = "add" /\ \E s \in Insertions(r.id) : x = [Current EXCEPT !.things = s]
    <2>1. PICK s \in Insertions(r.id) : x = [Current EXCEPT !.things = s]
        BY <1>8
    <2>2. kind = "firewall"
        BY <1>3, <1>4, <1>8, PanelsAssumption DEF VerbsOf
    <2>3. r.id \in Things
        BY <1>3, <1>8, <2>2 DEF Things
    <2>4. s \in Seq(Shapes)
        BY <1>1, <2>3, <2>1, InsertionsType
    <2> QED
        BY <2>1, <2>4, <1>6
<1>9. CASE x = [Current EXCEPT !.active = r.verb = "enable"]
    BY <1>9, <1>1, CurrentType DEF HostState
<1>10. CASE /\ kind # "firewall" /\ r.verb # "remove"
            /\ \E k \in DOMAIN Current.things :
                  x = [Current EXCEPT !.things[k] = InState(@, r.verb)]
    <2>1. PICK k \in DOMAIN Current.things :
              x = [Current EXCEPT !.things[k] = InState(@, r.verb)]
        BY <1>10
    <2> DEFINE c == Current.things
    <2>2. c \in Seq(Shapes) /\ k \in DOMAIN c
        BY <1>1, <2>1, CurrentType
    <2>3. InState(c[k], r.verb) \in Shapes
        <3>1. c[k] \in Shapes
            BY <2>2
        <3> QED
            BY <3>1, <1>3, <1>4, <1>10, InStateType
    <2> DEFINE s == [c EXCEPT ![k] = InState(c[k], r.verb)]
    <2>4. s \in Seq(Shapes)
        BY <2>2, <2>3
    <2>5. x = [Current EXCEPT !.things = s]
        BY <1>1, <2>1, CurrentType DEF HostState
    <2> QED
        BY <2>4, <2>5, <1>6
<1> QED
    BY <1>7, <1>8, <1>9, <1>10 DEF Results, r

-----------------------------------------------------------------------------
\* The parts of the invariant from one state to the next.

LEMMA NoneAfterGrows ==
    ASSUME NEW S, NEW h \in Seq(S), NEW x, NEW T, x.by \notin T,
           NEW v \in Nat, NoneAfter(h, v, T)
    PROVE  NoneAfter(Append(h, x), v, T)
<1>1. Len(Append(h, x)) = Len(h) + 1 /\ Len(h) \in Nat
    OBVIOUS
<1>2. ASSUME NEW n \in (v + 1)..Len(Append(h, x)) PROVE Append(h, x)[n].by \notin T
    <2>1. CASE n = Len(h) + 1
        BY <2>1
    <2>2. CASE n \in (v + 1)..Len(h)
        <3>1. Append(h, x)[n] = h[n]
            BY <2>2
        <3> QED
            BY <2>2, <3>1 DEF NoneAfter
    <2> QED
        BY <1>1, <2>1, <2>2
<1> QED
    BY <1>2 DEF NoneAfter

LEMMA Grown ==
    ASSUME NEW S, NEW h \in Seq(S), NEW x
    PROVE  /\ DOMAIN h \subseteq DOMAIN Append(h, x)
           /\ \A v \in DOMAIN h : Append(h, x)[v] = h[v]
           /\ Len(Append(h, x)) = Len(h) + 1
OBVIOUS

\* A change that is under way keeps what it knows while the host goes on, as long as
\* the states that are added are not of changes the page was told of.
LEMMA RequestGrows ==
    ASSUME NEW S, NEW h \in Seq(S), NEW x, NEW t, NEW r, NEW k,
           x.by \notin t, RequestOK(r, k, h, t)
    PROVE  RequestOK(r, k, Append(h, x), t)
<1> SUFFICES ASSUME r.at = "sent" PROVE RequestOK(r, k, Append(h, x), t)
    BY DEF RequestOK
<1>1. /\ r.verb \in VerbsOf(k)
      /\ r.verb = "add" => r.id \in Rules
      /\ r.told \subseteq t
    BY DEF RequestOK
<1>2. r.verb \in {"delete", "remove"} => r.ver \in DOMAIN h
    BY DEF RequestOK
<1>3. r.verb \in {"delete", "remove"} =>
          r.ver \in DOMAIN Append(h, x) /\ Append(h, x)[r.ver] = h[r.ver]
    BY <1>2, Grown
<1>4. ASSUME r.verb = "delete"
      PROVE  /\ r.index \in DOMAIN h[r.ver].things
             /\ h[r.ver].things[r.index].id = r.id
             /\ r.clean => NoneAfter(Append(h, x), r.ver, r.told)
    <2>1. r.ver \in Nat
        BY <1>2, <1>4
    <2>2. x.by \notin r.told
        BY <1>1
    <2>3. r.clean => NoneAfter(h, r.ver, r.told)
        BY <1>4 DEF RequestOK
    <2> QED
        BY <1>4, <2>1, <2>2, <2>3, NoneAfterGrows DEF RequestOK
<1>5. ASSUME r.verb = "remove", r.force
      PROVE  \E j \in DOMAIN h[r.ver].things :
                 h[r.ver].things[j].id = r.id /\ h[r.ver].things[j].on
    BY <1>5 DEF RequestOK
<1> QED
    BY <1>1, <1>3, <1>4, <1>5 DEF RequestOK

LEMMA RequestTold ==
    ASSUME NEW h, NEW t, NEW t2, NEW r, NEW k, t \subseteq t2, RequestOK(r, k, h, t)
    PROVE  RequestOK(r, k, h, t2)
BY DEF RequestOK

\* No change is sent, and the host stays as it is.
LEMMA RequestsKept ==
    ASSUME RequestsOK, UNCHANGED <<kind, hist>>, told \subseteq told',
           \A i \in Requests : request'[i] = request[i] \/ request'[i].at # "sent"
    PROVE  RequestsOK'
<1> SUFFICES ASSUME NEW i \in Requests PROVE RequestOK(request'[i], kind, hist, told')
    BY DEF RequestsOK, Requests
<1>1. CASE request'[i] = request[i]
    BY <1>1, RequestTold DEF RequestsOK
<1>2. CASE request'[i].at # "sent"
    BY <1>2 DEF RequestOK
<1> QED
    BY <1>1, <1>2

LEMMA HistKept ==
    ASSUME HistOK, UNCHANGED <<kind, hist>>
    PROVE  HistOK'
BY SameKind DEF HistOK

\* The host has a new state, made by the change b or by somebody else.
LEMMA HistGrown ==
    ASSUME TypeOK, HistOK, kind' = kind, Len(hist) < MaxVersion, NEW x \in HostState,
           x.things \in Seq(Shapes), hist' = Append(hist, x)
    PROVE  /\ hist' \in Seq(HostState) /\ Len(hist') \in 1..MaxVersion
           /\ Len(hist') = Len(hist) + 1
           /\ HistOK'
<1>1. hist \in Seq(HostState) /\ Len(hist) \in 1..MaxVersion /\ MaxVersion \in Nat
    BY PanelsAssumption DEF TypeOK
<1>2. hist' \in Seq(HostState) /\ Len(hist') = Len(hist) + 1
    BY <1>1
<1>3. \A v \in DOMAIN hist' : hist'[v].things \in Seq(Shapes)
    <2> SUFFICES ASSUME NEW v \in DOMAIN hist' PROVE hist'[v].things \in Seq(Shapes)
        OBVIOUS
    <2>1. CASE v = Len(hist) + 1
        BY <1>1, <2>1
    <2>2. CASE v \in DOMAIN hist
        BY <1>1, <2>2, Grown DEF HistOK
    <2> QED
        BY <1>1, <1>2, <2>1, <2>2
<1> QED
    BY <1>1, <1>2, <1>3, SameKind DEF HistOK

LEMMA SettledType ==
    ASSUME TypeOK
    PROVE  /\ Settled \in [Requests -> Request]
           /\ \A i \in Requests :
                 \/ Settled[i] = request[i]
                 \/ request[i].at = "settling" /\ Settled[i].at = "done"
<1>1. \A i \in Requests : request[i] \in Request
    BY DEF TypeOK
<1>2. Done.at = "done"
    BY DEF Done, NoRequest
<1> QED
    BY <1>1, <1>2, Constants DEF Settled

-----------------------------------------------------------------------------
LEMMA InitInv == Init => IInv
<1> SUFFICES ASSUME Init PROVE IInv
    OBVIOUS
<1>1. PICK on, boot \in BOOLEAN :
          /\ boot => kind = "services"
          /\ hist = <<[things |-> [i \in DOMAIN SetToSeq(Things) |->
                                     [id |-> SetToSeq(Things)[i], on |-> on, boot |-> boot]],
                       active |-> TRUE, by |-> 0]>>
    BY DEF Init
<1> DEFINE q == SetToSeq(Things)
           s == [i \in DOMAIN q |-> [id |-> q[i], on |-> on, boot |-> boot]]
           x == [things |-> s, active |-> TRUE, by |-> 0]
<1>2. q \in Seq(Things)
    BY SetToSeqType, PanelsAssumption DEF Things
<1> HIDE DEF q
<1>3. \A t \in Things : [id |-> t, on |-> on, boot |-> boot] \in Shapes
    BY <1>1 DEF Shapes, Thing
<1>4. s \in Seq(Shapes)
    BY <1>2, <1>3
<1>5. s \in Seq(Thing)
    BY <1>4, ShapesType
<1>6. 0 \in 0..MaxRequests
    BY PanelsAssumption
<1> HIDE DEF s
<1>7. x \in HostState /\ x.things = s
    BY <1>5, <1>6 DEF HostState
<1>8. hist = <<x>>
    BY <1>1 DEF s, q
<1> HIDE DEF x
<1>9. hist \in Seq(HostState) /\ Len(hist) = 1 /\ DOMAIN hist = {1} /\ hist[1] = x
    BY <1>7, <1>8
<1>10. TypeOK
    <2>1. /\ kind \in Kinds /\ shown \in Versions /\ sure \in BOOLEAN /\ fetch \in Fetch
          /\ request \in [Requests -> Request] /\ told \subseteq Requests
          /\ open \in BOOLEAN /\ left \in 0..MaxLeave
        <3>1. /\ kind \in Kinds /\ shown = 0 /\ sure = FALSE /\ fetch = Sent
              /\ request = [i \in Requests |-> NoRequest] /\ told = {}
              /\ open = TRUE /\ left = 0
            BY DEF Init
        <3>2. request \in [Requests -> Request]
            BY <3>1, Constants
        <3>3. sure \in BOOLEAN /\ open \in BOOLEAN
            BY <3>1
        <3>4. left \in 0..MaxLeave
            BY <3>1, PanelsAssumption
        <3> QED
            BY <3>1, <3>2, <3>3, <3>4, Constants
    <2> QED
        BY <1>9, <2>1, PanelsAssumption DEF TypeOK
<1>11. HistOK
    BY <1>4, <1>7, <1>9 DEF HistOK
<1>12. ListOK
    <2>1. \A i \in Requests : request[i].at = "none"
        BY DEF Init, NoRequest
    <2> QED
        BY <1>9, <2>1 DEF Init, ListOK, Sent, NoFetch
<1>13. RequestsOK
    BY DEF Init, RequestsOK, RequestOK, NoRequest
<1> QED
    BY <1>10, <1>11, <1>12, <1>13 DEF IInv

LEMMA PollInv == IInv /\ Poll => IInv'
<1> SUFFICES ASSUME IInv, Poll PROVE IInv'
    OBVIOUS
<1>1. UNCHANGED <<kind, hist, shown, sure, request, told, open, left>> /\ fetch' = Sent /\ open
    BY DEF Poll
<1>2. TypeOK'
    BY <1>1, SameKind, Constants DEF IInv, TypeOK
<1>3. HistOK' /\ RequestsOK'
    BY <1>1, HistKept, RequestsKept DEF IInv
<1>4. ListOK'
    <2>1. fetch'.at = "sent" /\ fetch'.ver = 0 /\ Len(hist) \in Nat
        BY <1>1 DEF Sent, NoFetch, IInv, TypeOK
    <2> QED
        BY <1>1, <2>1 DEF IInv, ListOK, Loading
<1> QED
    BY <1>2, <1>3, <1>4 DEF IInv

LEMMA HostReadsInv == IInv /\ HostReads => IInv'
<1> SUFFICES ASSUME IInv, HostReads PROVE IInv'
    OBVIOUS
<1>1. /\ UNCHANGED <<kind, hist, shown, sure, request, told, open, left>>
      /\ fetch' = [fetch EXCEPT !.at = "answered", !.ver = Len(hist)]
      /\ fetch.at = "sent"
    BY DEF HostReads
<1>2. fetch \in Fetch /\ Len(hist) \in 1..MaxVersion /\ MaxVersion \in Nat
    BY PanelsAssumption DEF IInv, TypeOK
<1>3. /\ fetch' \in Fetch /\ fetch'.at = "answered" /\ fetch'.ver = Len(hist)
      /\ fetch'.old = fetch.old
    <2>1. Len(hist) \in Versions
        BY <1>2 DEF Versions
    <2> QED
        BY <1>1, <1>2, <2>1 DEF Fetch
<1>4. TypeOK'
    BY <1>1, <1>3, SameKind DEF IInv, TypeOK
<1>5. HistOK' /\ RequestsOK'
    BY <1>1, HistKept, RequestsKept DEF IInv
<1>6. NoneAfter(hist, Len(hist), told)
    BY <1>2 DEF NoneAfter
<1>7. ListOK'
    BY <1>1, <1>2, <1>3, <1>6 DEF IInv, ListOK, Loading
<1> QED
    BY <1>4, <1>5, <1>7 DEF IInv

\* The list arrives, or its request fails.
LEMMA ListArrivesInv == IInv /\ ListArrives => IInv'
<1> SUFFICES ASSUME IInv, ListArrives PROVE IInv'
    OBVIOUS
<1>1. /\ UNCHANGED <<kind, hist, told, open, left>>
      /\ fetch.at = "answered" /\ fetch' = NoFetch
      /\ shown' = fetch.ver /\ sure' = ~fetch.old
      /\ request' = Settled
    BY DEF ListArrives
<1>2. fetch \in Fetch /\ Len(hist) \in Nat /\ told \subseteq Requests
    BY DEF IInv, TypeOK
<1>3. TypeOK'
    <2>1. shown' \in Versions /\ sure' \in BOOLEAN
        BY <1>1, <1>2 DEF Fetch
    <2> QED
        BY <1>1, <2>1, SameKind, SettledType, Constants DEF IInv, TypeOK
<1>4. \A i \in Requests : request'[i] = request[i] \/ request'[i].at = "done"
    BY <1>1, SettledType DEF IInv
<1>5. HistOK' /\ RequestsOK'
    BY <1>1, <1>4, HistKept, RequestsKept DEF IInv
<1>6. ListOK'
    <2>1. \A i \in told' : request'[i].at \notin {"none", "sent"}
        BY <1>1, <1>2, <1>4 DEF IInv, ListOK
    <2>2. shown' # 0 /\ shown' <= Len(hist')
        BY <1>1 DEF IInv, ListOK
    <2>3. fetch'.ver <= Len(hist') /\ fetch'.at = "none"
        BY <1>1, <1>2 DEF NoFetch
    <2>4. kind = "firewall" /\ open /\ sure' => NoneAfter(hist, fetch.ver, told)
        BY <1>1 DEF IInv, ListOK
    <2> QED
        BY <1>1, <2>1, <2>2, <2>3, <2>4 DEF ListOK, Loading
<1> QED
    BY <1>3, <1>5, <1>6 DEF IInv

LEMMA ListFailsInv == IInv /\ ListFails => IInv'
<1> SUFFICES ASSUME IInv, ListFails PROVE IInv'
    OBVIOUS
<1>1. /\ UNCHANGED <<kind, hist, shown, told, open, left>>
      /\ fetch' = NoFetch /\ sure' = FALSE
      /\ request' = Settled
    BY DEF ListFails
<1>2. Len(hist) \in Nat /\ told \subseteq Requests
    BY DEF IInv, TypeOK
<1>3. TypeOK'
    <2>1. sure' \in BOOLEAN
        BY <1>1
    <2> QED
        BY <1>1, <2>1, SameKind, SettledType, Constants DEF IInv, TypeOK
<1>4. \A i \in Requests :
          /\ request'[i] = request[i] \/ request'[i].at = "done"
          /\ request[i].at = "none" => request'[i].at = "none"
    BY <1>1, SettledType DEF IInv
<1>5. HistOK' /\ RequestsOK'
    BY <1>1, <1>4, HistKept, RequestsKept DEF IInv
<1>6. ListOK'
    <2>1. \A i \in told' : request'[i].at \notin {"none", "sent"}
        BY <1>1, <1>2, <1>4 DEF IInv, ListOK
    <2>2. shown' <= Len(hist') /\ (shown' = 0 => \A i \in Requests : request'[i].at = "none")
        BY <1>1, <1>4 DEF IInv, ListOK
    <2>3. fetch'.ver <= Len(hist') /\ fetch'.at = "none"
        BY <1>1, <1>2 DEF NoFetch
    <2> QED
        BY <1>1, <2>1, <2>2, <2>3 DEF ListOK, Loading
<1> QED
    BY <1>3, <1>5, <1>6 DEF IInv

LEMMA LeaveInv == IInv /\ Leave => IInv'
<1> SUFFICES ASSUME IInv, Leave PROVE IInv'
    OBVIOUS
<1>1. /\ UNCHANGED <<kind, hist, shown, sure, request, told>>
      /\ open' = FALSE /\ left < MaxLeave /\ left' = left + 1
      /\ fetch' = [fetch EXCEPT !.old = Loading]
    BY DEF Leave
<1>2. fetch \in Fetch /\ left \in 0..MaxLeave /\ MaxLeave \in Nat
    BY PanelsAssumption DEF IInv, TypeOK
<1>3. /\ fetch' \in Fetch /\ fetch'.at = fetch.at /\ fetch'.ver = fetch.ver
      /\ fetch'.old = Loading
    <2>1. Loading \in BOOLEAN
        BY DEF Loading
    <2> QED
        BY <1>1, <1>2, <2>1 DEF Fetch
<1>4. TypeOK'
    <2>1. open' \in BOOLEAN
        BY <1>1
    <2>2. left' \in 0..MaxLeave
        BY <1>1, <1>2
    <2> QED
        BY <1>1, <1>3, <2>1, <2>2, SameKind DEF IInv, TypeOK
<1>5. HistOK' /\ RequestsOK'
    BY <1>1, HistKept, RequestsKept DEF IInv
<1>6. ListOK'
    BY <1>1, <1>3 DEF IInv, ListOK, Loading
<1> QED
    BY <1>4, <1>5, <1>6 DEF IInv

\* What a firewall page joins when it is opened again is old; otherwise it asks anew.
LEMMA ReturnInv == IInv /\ Return => IInv'
<1> SUFFICES ASSUME IInv, Return PROVE IInv'
    OBVIOUS
<1>1. /\ UNCHANGED <<kind, hist, shown, sure, request, told, left>>
      /\ ~open /\ open' = TRUE
    BY DEF Return
<1>2. \/ Loading /\ fetch' = fetch
      \/ ~Loading /\ fetch' = Sent
      \/ kind # "firewall" /\ fetch' = fetch
    BY DEF Return
<1>3. Len(hist) \in Nat /\ fetch \in Fetch
    BY DEF IInv, TypeOK
<1>4. Sent.at = "sent" /\ Sent.ver = 0
    BY DEF Sent, NoFetch
<1>5. TypeOK'
    <2>1. open' \in BOOLEAN
        BY <1>1
    <2>2. fetch' \in Fetch
        BY <1>2, <1>3, Constants
    <2> QED
        BY <1>1, <2>1, <2>2, SameKind DEF IInv, TypeOK
<1>6. HistOK' /\ RequestsOK'
    BY <1>1, HistKept, RequestsKept DEF IInv
<1>7. ListOK'
    <2>1. fetch'.ver <= Len(hist) /\ (fetch'.at = "answered" => fetch'.ver # 0)
        BY <1>2, <1>3, <1>4 DEF IInv, ListOK
    <2>2. CASE kind = "firewall"
        <3>1. Loading'
            BY <1>2, <1>4, <2>2 DEF Loading
        <3>2. ~(fetch'.at = "answered" /\ ~fetch'.old)
            BY <1>1, <1>2, <1>4, <2>2 DEF IInv, ListOK
        <3> QED
            BY <1>1, <2>1, <3>1, <3>2 DEF IInv, ListOK
    <2>3. CASE kind # "firewall"
        BY <1>1, <2>1, <2>3 DEF IInv, ListOK
    <2> QED
        BY <2>2, <2>3
<1> QED
    BY <1>5, <1>6, <1>7 DEF IInv

-----------------------------------------------------------------------------
\* The buttons: whatever is sent, it knows what the row showed.
LEMMA SendInv ==
    ASSUME IInv, open, shown # 0,
           NEW verb \in VerbsOf(kind), NEW id \in Things \cup {NoThing}, NEW index \in Nat,
           NEW force \in BOOLEAN,
           verb = "add" => id \in Rules,
           verb = "delete" => /\ index \in DOMAIN hist[shown].things
                              /\ hist[shown].things[index].id = id,
           force => /\ verb = "remove"
                    /\ \E j \in DOMAIN hist[shown].things :
                          hist[shown].things[j].id = id /\ hist[shown].things[j].on,
           Send(verb, id, index, force)
    PROVE  IInv'
<1> DEFINE ver   == IF verb \in {"delete", "remove"} THEN shown ELSE 0
           clean == verb = "delete" /\ sure /\ ~Loading
           know  == IF verb = "delete" THEN told ELSE {}
           new   == [at |-> "sent", verb |-> verb, id |-> id, index |-> index, force |-> force,
                     visit |-> left, ver |-> ver, clean |-> clean, told |-> know]
<1>1. PICK i \in Requests : request[i].at = "none" /\ request' = [request EXCEPT ![i] = new]
    BY DEF Send
<1>2. UNCHANGED <<kind, hist, shown, sure, fetch, told, open, left>>
    BY DEF Send
<1>3. TypeOK /\ ListOK /\ HistOK /\ RequestsOK
    BY DEF IInv
<1>4. kind \in Kinds /\ verb \in Verbs /\ (verb = "delete" => kind = "firewall")
    <2>1. kind \in {"firewall", "containers", "services"}
        BY <1>3, PanelsAssumption DEF TypeOK
    <2> QED
        BY <1>3, <2>1 DEF TypeOK, VerbsOf, Verbs
<1>5. new \in Request
    <2>1. ver \in Versions /\ know \in SUBSET Requests
        BY <1>3, Constants DEF TypeOK
    <2>2. clean \in BOOLEAN
        BY DEF Loading
    <2>3. left \in 0..MaxLeave
        BY <1>3 DEF TypeOK
    <2>4. verb = "delete" => index # 0
        <3>1. ASSUME verb = "delete" PROVE index # 0
            <4>1. shown \in DOMAIN hist
                BY <1>3 DEF TypeOK, ListOK, Versions
            <4>2. hist[shown].things \in Seq(Shapes)
                BY <1>3, <4>1 DEF HistOK
            <4> QED
                BY <3>1, <4>2
        <3> QED
            BY <3>1
    <2> HIDE DEF ver, know, clean
    <2> QED
        BY <1>4, <2>1, <2>2, <2>3, <2>4 DEF Request
<1>6. RequestOK(new, kind, hist, told)
    <2>1. shown \in DOMAIN hist
        BY <1>3 DEF TypeOK, ListOK, Versions
    <2>2. clean => NoneAfter(hist, shown, told)
        BY <1>3, <1>4 DEF ListOK
    <2>3. verb \in {"delete", "remove"} => ver = shown
        OBVIOUS
    <2>4. know \subseteq told /\ (verb = "delete" => know = told)
        OBVIOUS
    <2> HIDE DEF ver, know, clean
    <2> QED
        BY <2>1, <2>2, <2>3, <2>4 DEF RequestOK
<1>7. new.at = "sent"
    OBVIOUS
<1> HIDE DEF new
<1>8. TypeOK'
    <2>1. request' \in [Requests -> Request]
        BY <1>1, <1>3, <1>5 DEF TypeOK
    <2> QED
        BY <1>2, <1>3, <2>1, SameKind DEF TypeOK
<1>9. \A j \in Requests : j # i => request'[j] = request[j]
    BY <1>1, <1>3 DEF TypeOK
<1>10. request'[i] = new
    BY <1>1, <1>3 DEF TypeOK
<1>11. HistOK'
    BY <1>2, <1>3, HistKept
<1>12. RequestsOK'
    <2> SUFFICES ASSUME NEW j \in Requests PROVE RequestOK(request'[j], kind, hist, told)
        BY <1>2 DEF RequestsOK, Requests
    <2> QED
        BY <1>3, <1>6, <1>9, <1>10 DEF RequestsOK
<1>13. ListOK'
    <2>1. i \notin told
        BY <1>1, <1>3 DEF ListOK
    <2>2. \A j \in told' : request'[j].at \notin {"none", "sent"}
        BY <1>2, <1>3, <1>9, <2>1 DEF ListOK, TypeOK
    <2> QED
        BY <1>2, <1>3, <2>2 DEF ListOK, Loading
<1> QED
    BY <1>8, <1>11, <1>12, <1>13 DEF IInv

LEMMA AddRuleInv == IInv /\ AddRule => IInv'
<1> SUFFICES ASSUME IInv, AddRule PROVE IInv'
    OBVIOUS
<1>1. kind = "firewall" /\ open /\ shown # 0
    BY DEF AddRule
<1>2. PICK t \in Things : Send("add", t, 0, FALSE)
    BY DEF AddRule
<1>3. t \in Rules /\ "add" \in VerbsOf(kind)
    BY <1>1, <1>2 DEF Things, VerbsOf
<1> QED
    BY <1>1, <1>2, <1>3, SendInv

\* The rows are those of the list on the screen.
LEMMA RowsType ==
    ASSUME IInv, NEW k \in DOMAIN Rows
    PROVE  /\ shown # 0 /\ k \in Nat
           /\ k \in DOMAIN hist[shown].things /\ Rows[k] = hist[shown].things[k]
           /\ Rows[k] \in Thing
<1>1. shown # 0 /\ Rows = hist[shown].things
    BY DEF Rows
<1>2. shown \in DOMAIN hist
    BY <1>1 DEF IInv, TypeOK, ListOK, Versions
<1>3. hist[shown].things \in Seq(Thing)
    BY <1>2, ShapesType DEF IInv, HistOK
<1> QED
    BY <1>1, <1>3

LEMMA DeleteRuleInv == IInv /\ DeleteRule => IInv'
<1> SUFFICES ASSUME IInv, DeleteRule PROVE IInv'
    OBVIOUS
<1>1. kind = "firewall" /\ open
    BY DEF DeleteRule
<1>2. PICK k \in DOMAIN Rows : Send("delete", Rows[k].id, k, FALSE)
    BY DEF DeleteRule
<1>3. "delete" \in VerbsOf(kind)
    BY <1>1 DEF VerbsOf
<1>4. Rows[k].id \in Things \cup {NoThing}
    BY <1>2, RowsType DEF Thing
<1> QED
    BY <1>1, <1>2, <1>3, <1>4, RowsType, SendInv

LEMMA ToggleInv == IInv /\ Toggle => IInv'
<1> SUFFICES ASSUME IInv, Toggle PROVE IInv'
    OBVIOUS
<1>1. kind = "firewall" /\ open /\ shown # 0
    BY DEF Toggle
<1>2. PICK verb \in {"enable", "disable"} : Send(verb, NoThing, 0, FALSE)
    BY DEF Toggle
<1>3. verb \in VerbsOf(kind)
    BY <1>1 DEF VerbsOf
<1> QED
    BY <1>1, <1>2, <1>3, SendInv

LEMMA RowActionInv == IInv /\ RowAction => IInv'
<1> SUFFICES ASSUME IInv, RowAction PROVE IInv'
    OBVIOUS
<1>1. kind # "firewall" /\ open
    BY DEF RowAction
<1>2. PICK k \in DOMAIN Rows : \E verb \in Offered(Rows[k]) :
          Send(verb, Rows[k].id, 0, verb = "remove" /\ Rows[k].on)
    BY DEF RowAction
<1>3. PICK verb \in Offered(Rows[k]) :
          Send(verb, Rows[k].id, 0, verb = "remove" /\ Rows[k].on)
    BY <1>2
<1>4. kind \in {"containers", "services"}
    BY <1>1, PanelsAssumption DEF IInv, TypeOK
<1>5. verb \in VerbsOf(kind) /\ verb \notin {"add", "delete"}
    BY <1>3, <1>4 DEF Offered, VerbsOf
<1>6. Rows[k].id \in Things \cup {NoThing}
    BY <1>2, RowsType DEF Thing
<1> DEFINE force == verb = "remove" /\ Rows[k].on
<1>7. force \in BOOLEAN
    OBVIOUS
<1>8. force => /\ verb = "remove"
               /\ hist[shown].things[k].on /\ hist[shown].things[k].id = Rows[k].id
    BY RowsType
<1> HIDE DEF force
<1>9. Send(verb, Rows[k].id, 0, force)
    BY <1>3 DEF force
<1> QED
    BY <1>1, <1>5, <1>6, <1>7, <1>8, <1>9, RowsType, SendInv

-----------------------------------------------------------------------------
\* The host.  A state it adds is of a change under way, of which the page has not been
\* told yet, or of somebody else.
LEMMA GrowInv ==
    ASSUME IInv, UNCHANGED <<kind, shown, fetch, told, open>>, ListOK,
           Len(hist) < MaxVersion, NEW x \in HostState, x.things \in Seq(Shapes),
           x.by \notin told, hist' = Append(hist, x)
    PROVE  /\ NoneAfter(hist, shown, told) => NoneAfter(hist', shown, told)
           /\ NoneAfter(hist, fetch.ver, told) => NoneAfter(hist', fetch.ver, told)
           /\ \A r : RequestOK(r, kind, hist, told) => RequestOK(r, kind, hist', told)
<1>1. hist \in Seq(HostState) /\ shown \in Nat /\ fetch.ver \in Nat
    BY DEF IInv, TypeOK, Fetch, Versions
<1>2. /\ NoneAfter(hist, shown, told) => NoneAfter(hist', shown, told)
      /\ NoneAfter(hist, fetch.ver, told) => NoneAfter(hist', fetch.ver, told)
    BY <1>1, NoneAfterGrows
<1>3. ASSUME NEW r, RequestOK(r, kind, hist, told) PROVE RequestOK(r, kind, hist', told)
    BY <1>1, <1>3, RequestGrows
<1> QED
    BY <1>2, <1>3

LEMMA HostDoesInv == ASSUME IInv, NEW i \in Requests, HostDoes(i) PROVE IInv'
<1>1. /\ request[i].at = "sent"
      /\ UNCHANGED <<kind, shown, sure, fetch, told, open, left>>
    BY DEF HostDoes
<1>2. PICK x \in Results(request[i]), result \in {"ok", "error"} :
          /\ x # Current => Len(hist) < MaxVersion
          /\ hist' = IF x = Current THEN hist ELSE Append(hist, [x EXCEPT !.by = i])
          /\ request' = [request EXCEPT ![i] = Answered(i, result)]
    BY DEF HostDoes
<1>3. TypeOK /\ HistOK /\ ListOK /\ RequestsOK
    BY DEF IInv
<1>4. x \in HostState /\ x.things \in Seq(Shapes)
    BY <1>1, <1>2, ResultsType
<1> DEFINE y == [x EXCEPT !.by = i]
<1>5. y \in HostState /\ y.things \in Seq(Shapes) /\ y.by = i
    BY <1>4 DEF HostState, Requests
<1> HIDE DEF y
<1>6. i \notin told
    BY <1>1, <1>3 DEF ListOK
<1>7. \/ hist' = hist
      \/ Len(hist) < MaxVersion /\ hist' = Append(hist, y)
    BY <1>2 DEF y
<1>8. Answered(i, result) \in Request /\ Answered(i, result).at = result
    BY <1>2, <1>3, AnsweredType
<1>9. /\ request' \in [Requests -> Request]
      /\ request'[i].at = result
      /\ \A j \in Requests : j # i => request'[j] = request[j]
    BY <1>2, <1>3, <1>8 DEF TypeOK
<1>10. /\ hist' \in Seq(HostState) /\ Len(hist') \in 1..MaxVersion /\ HistOK'
       /\ Len(hist) <= Len(hist')
    <2>1. CASE hist' = hist
        BY <1>1, <1>3, <2>1, HistKept DEF TypeOK
    <2>2. CASE Len(hist) < MaxVersion /\ hist' = Append(hist, y)
        <3>1. hist' \in Seq(HostState) /\ Len(hist') \in 1..MaxVersion /\ HistOK'
              /\ Len(hist') = Len(hist) + 1
            BY <1>1, <1>3, <1>5, <2>2, HistGrown
        <3>2. Len(hist) \in Nat
            BY <1>3 DEF TypeOK
        <3> QED
            BY <3>1, <3>2
    <2> QED
        BY <1>7, <2>1, <2>2
<1>11. TypeOK'
    BY <1>1, <1>3, <1>9, <1>10, SameKind DEF TypeOK
<1>12. /\ NoneAfter(hist, shown, told) => NoneAfter(hist', shown, told)
       /\ NoneAfter(hist, fetch.ver, told) => NoneAfter(hist', fetch.ver, told)
       /\ \A r : RequestOK(r, kind, hist, told) => RequestOK(r, kind, hist', told)
    <2>1. CASE hist' = hist
        BY <2>1
    <2>2. CASE Len(hist) < MaxVersion /\ hist' = Append(hist, y)
        BY <1>1, <1>3, <1>5, <1>6, <2>2, GrowInv
    <2> QED
        BY <1>7, <2>1, <2>2
<1>13. RequestsOK'
    <2> SUFFICES ASSUME NEW j \in Requests PROVE RequestOK(request'[j], kind, hist', told)
        BY <1>1 DEF RequestsOK, Requests
    <2>1. CASE j = i
        BY <1>2, <1>9, <2>1 DEF RequestOK
    <2>2. CASE j # i
        BY <1>3, <1>9, <1>12, <2>2 DEF RequestsOK
    <2> QED
        BY <2>1, <2>2
<1>14. ListOK'
    <2>1. shown <= Len(hist') /\ fetch.ver <= Len(hist')
        BY <1>3, <1>10 DEF TypeOK, ListOK, Fetch, Versions
    <2>2. shown # 0
        BY <1>1, <1>3 DEF ListOK
    <2>3. \A j \in told : request'[j].at \notin {"none", "sent"}
        BY <1>3, <1>6, <1>9 DEF ListOK, TypeOK
    <2> QED
        BY <1>1, <1>3, <1>12, <2>1, <2>2, <2>3 DEF ListOK, Loading
<1> QED
    BY <1>10, <1>11, <1>13, <1>14 DEF IInv

LEMMA HostRefusesInv == ASSUME IInv, NEW i \in Requests, HostRefuses(i) PROVE IInv'
<1>1. /\ request[i].at = "sent"
      /\ request' = [request EXCEPT ![i] = Answered(i, "error")]
      /\ UNCHANGED <<kind, hist, shown, sure, fetch, told, open, left>>
    BY DEF HostRefuses
<1>2. TypeOK /\ HistOK /\ ListOK /\ RequestsOK
    BY DEF IInv
<1>3. Answered(i, "error") \in Request /\ Answered(i, "error").at = "error"
    BY <1>2, AnsweredType
<1>4. /\ request' \in [Requests -> Request]
      /\ request'[i].at = "error"
      /\ \A j \in Requests : j # i => request'[j] = request[j]
    BY <1>1, <1>2, <1>3 DEF TypeOK
<1>5. TypeOK'
    BY <1>1, <1>2, <1>4, SameKind DEF TypeOK
<1>6. \A j \in Requests : request'[j] = request[j] \/ request'[j].at # "sent"
    BY <1>4
<1>7. HistOK' /\ RequestsOK'
    BY <1>1, <1>2, <1>6, HistKept, RequestsKept
<1>8. ListOK'
    <2>1. shown # 0
        BY <1>1, <1>2 DEF ListOK
    <2>2. \A j \in told : request'[j].at \notin {"none", "sent"}
        BY <1>2, <1>4 DEF ListOK, TypeOK
    <2> QED
        BY <1>1, <1>2, <2>1, <2>2 DEF ListOK, Loading
<1> QED
    BY <1>5, <1>7, <1>8 DEF IInv

LEMMA OthersChangeInv == IInv /\ OthersChange => IInv'
<1> SUFFICES ASSUME IInv, OthersChange PROVE IInv'
    OBVIOUS
<1>1. Len(hist) < MaxVersion /\ UNCHANGED <<kind, shown, sure, fetch, request, told, open, left>>
    BY DEF OthersChange
<1>2. TypeOK /\ HistOK /\ ListOK /\ RequestsOK
    BY DEF IInv
<1>3. PICK s \in Seq(Shapes) : hist' = Append(hist, [Current EXCEPT !.things = s, !.by = 0])
    <2> DEFINE c == Current.things
               y(s) == hist' = Append(hist, [Current EXCEPT !.things = s, !.by = 0])
    <2>1. c \in Seq(Shapes)
        BY <1>2, CurrentType
    <2> HIDE DEF y
    <2>2. ASSUME NEW k \in DOMAIN c, y(RemoveAt(c, k)) PROVE \E s \in Seq(Shapes) : y(s)
        BY <2>1, <2>2, Removed
    <2>3. ASSUME NEW t \in Things, NEW s \in Insertions(t), y(s) PROVE \E q \in Seq(Shapes) : y(q)
        BY <1>2, <2>3, InsertionsType
    <2>4. ASSUME NEW k \in DOMAIN c, y([c EXCEPT ![k].on = ~@]) PROVE \E s \in Seq(Shapes) : y(s)
        <3>1. [c[k] EXCEPT !.on = ~@] \in Shapes
            BY <2>1, ShapesType
        <3>2. [c EXCEPT ![k].on = ~@] = [c EXCEPT ![k] = [c[k] EXCEPT !.on = ~@]]
            OBVIOUS
        <3>3. [c EXCEPT ![k] = [c[k] EXCEPT !.on = ~@]] \in Seq(Shapes)
            BY <2>1, <3>1
        <3> QED
            BY <2>4, <3>2, <3>3
    <2>5. \/ \E k \in DOMAIN c : y(RemoveAt(c, k))
          \/ \E t \in Things : \E s \in Insertions(t) : y(s)
          \/ \E k \in DOMAIN c : y([c EXCEPT ![k].on = ~@])
        BY DEF OthersChange, y
    <2>6. \E s \in Seq(Shapes) : y(s)
        BY <2>2, <2>3, <2>4, <2>5
    <2> QED
        BY <2>6 DEF y
<1> DEFINE x == [Current EXCEPT !.things = s, !.by = 0]
<1>4. x \in HostState /\ x.things \in Seq(Shapes) /\ x.by = 0
    <2>1. s \in Seq(Thing)
        BY <1>3, ShapesType
    <2>2. 0 \in 0..MaxRequests
        BY PanelsAssumption
    <2> QED
        BY <1>2, <1>3, <2>1, <2>2, CurrentType DEF HostState
<1>5. hist' = Append(hist, x)
    BY <1>3
<1> HIDE DEF x
<1>6. x.by \notin told
    BY <1>2, <1>4 DEF TypeOK, Requests
<1>7. hist' \in Seq(HostState) /\ Len(hist') \in 1..MaxVersion /\ HistOK'
      /\ Len(hist') = Len(hist) + 1
    BY <1>1, <1>2, <1>4, <1>5, HistGrown
<1>8. TypeOK'
    BY <1>1, <1>2, <1>7, SameKind DEF TypeOK
<1>9. /\ NoneAfter(hist, shown, told) => NoneAfter(hist', shown, told)
      /\ NoneAfter(hist, fetch.ver, told) => NoneAfter(hist', fetch.ver, told)
      /\ \A r : RequestOK(r, kind, hist, told) => RequestOK(r, kind, hist', told)
    BY <1>1, <1>2, <1>4, <1>5, <1>6, GrowInv
<1>10. RequestsOK'
    BY <1>1, <1>2, <1>9 DEF RequestsOK, Requests
<1>11. ListOK'
    <2>1. shown <= Len(hist') /\ fetch.ver <= Len(hist')
        BY <1>2, <1>7 DEF TypeOK, ListOK, Fetch, Versions
    <2> QED
        BY <1>1, <1>2, <1>9, <2>1 DEF ListOK, Loading
<1> QED
    BY <1>7, <1>8, <1>10, <1>11 DEF IInv

-----------------------------------------------------------------------------
\* The answer.  A firewall page that is told of a success asks for the list anew, so
\* that no list is settled until it has this change as well.
LEMMA RespondInv == ASSUME IInv, NEW i \in Requests, Respond(i) PROVE IInv'
<1>1. TypeOK /\ HistOK /\ ListOK /\ RequestsOK
    BY DEF IInv
<1>2. UNCHANGED <<kind, hist, shown, sure, open, left>>
    BY DEF Respond
<1>3. Done.at = "done" /\ Sent.at = "sent" /\ Sent.ver = 0
    BY DEF Done, NoRequest, Sent, NoFetch
<1>4. shown # 0
    BY <1>1 DEF Respond, ListOK
<1>5. CASE /\ request[i].at = "ok"
           /\ fetch' = Invalidated
           /\ request' = [Settled EXCEPT ![i] =
                 IF Invalidated = Sent THEN Answered(i, "settling") ELSE Done]
           /\ told' = told \cup {i}
    <2> DEFINE new == IF Invalidated = Sent THEN Answered(i, "settling") ELSE Done
    <2>1. new \in Request /\ new.at \in {"settling", "done"}
        BY <1>1, <1>3, Constants, AnsweredType
    <2>2. request' = [Settled EXCEPT ![i] = new]
        BY <1>5
    <2> HIDE DEF new
    <2>3. /\ request' \in [Requests -> Request]
          /\ request'[i].at \in {"settling", "done"}
          /\ \A j \in Requests : j # i => request'[j] = Settled[j]
        BY <1>1, <2>1, <2>2, SettledType
    <2>4. \A j \in Requests : request'[j] = request[j] \/ request'[j].at \in {"settling", "done"}
        BY <1>1, <2>3, SettledType
    <2>5. \/ open /\ fetch' = Sent
          \/ ~open /\ fetch' = fetch
        BY <1>4, <1>5 DEF Invalidated
    <2>6. TypeOK'
        <3>1. fetch' \in Fetch /\ told' \subseteq Requests
            BY <1>1, <1>5, <2>5, Constants DEF TypeOK
        <3> QED
            BY <1>1, <1>2, <2>3, <3>1, SameKind DEF TypeOK
    <2>7. HistOK' /\ RequestsOK'
        BY <1>1, <1>2, <1>5, <2>4, HistKept, RequestsKept
    <2>8. ListOK'
        <3>1. \A j \in told' : request'[j].at \notin {"none", "sent"}
            BY <1>1, <1>5, <2>3, <2>4 DEF ListOK, TypeOK
        <3>2. CASE open /\ fetch' = Sent
            <4>1. Loading' /\ fetch'.at = "sent" /\ fetch'.ver <= Len(hist)
                BY <1>1, <1>3, <3>2 DEF Loading, TypeOK
            <4> QED
                BY <1>1, <1>2, <1>4, <3>1, <3>2, <4>1 DEF ListOK
        <3>3. CASE ~open /\ fetch' = fetch
            BY <1>1, <1>2, <1>4, <3>1, <3>3 DEF ListOK, Loading
        <3> QED
            BY <2>5, <3>2, <3>3
    <2> QED
        BY <2>6, <2>7, <2>8 DEF IInv
<1>6. CASE /\ request[i].at = "error"
           /\ request' = [request EXCEPT ![i] = Done]
           /\ UNCHANGED <<fetch, told>>
    <2>1. /\ request' \in [Requests -> Request]
          /\ request'[i].at = "done"
          /\ \A j \in Requests : j # i => request'[j] = request[j]
        BY <1>1, <1>3, <1>6, Constants DEF TypeOK
    <2>2. TypeOK'
        BY <1>1, <1>2, <1>6, <2>1, SameKind DEF TypeOK
    <2>3. \A j \in Requests : request'[j] = request[j] \/ request'[j].at # "sent"
        BY <2>1
    <2>4. HistOK' /\ RequestsOK'
        BY <1>1, <1>2, <1>6, <2>3, HistKept, RequestsKept
    <2>5. ListOK'
        <3>1. \A j \in told : request'[j].at \notin {"none", "sent"}
            BY <1>1, <2>1 DEF ListOK, TypeOK
        <3> QED
            BY <1>1, <1>2, <1>4, <1>6, <3>1 DEF ListOK, Loading
    <2> QED
        BY <2>2, <2>4, <2>5 DEF IInv
<1> QED
    BY <1>5, <1>6 DEF Respond

LEMMA NextInv == IInv /\ [Next]_vars => IInv'
<1> SUFFICES ASSUME IInv, [Next]_vars PROVE IInv'
    OBVIOUS
<1>1. CASE Poll \/ HostReads \/ ListArrives \/ ListFails \/ Leave \/ Return
    BY <1>1, PollInv, HostReadsInv, ListArrivesInv, ListFailsInv, LeaveInv, ReturnInv
<1>2. CASE AddRule \/ DeleteRule \/ Toggle \/ RowAction
    BY <1>2, AddRuleInv, DeleteRuleInv, ToggleInv, RowActionInv
<1>3. CASE \E i \in Requests : HostDoes(i) \/ HostRefuses(i) \/ Respond(i)
    BY <1>3, HostDoesInv, HostRefusesInv, RespondInv
<1>4. CASE OthersChange
    BY <1>4, OthersChangeInv
<1>5. CASE UNCHANGED vars
    <2>1. UNCHANGED <<kind, hist, shown, sure, fetch, request, told, open, left>>
        BY <1>5 DEF vars
    <2>2. TypeOK'
        BY <2>1, SameKind DEF IInv, TypeOK
    <2>3. HistOK' /\ RequestsOK'
        BY <2>1, HistKept, RequestsKept DEF IInv
    <2>4. ListOK'
        BY <2>1 DEF IInv, ListOK, Loading
    <2> QED
        BY <2>2, <2>3, <2>4 DEF IInv
<1> QED
    BY <1>1, <1>2, <1>3, <1>4, <1>5 DEF Next

LEMMA Inductive == Spec => []IInv
<1>1. IInv /\ [Next]_vars => IInv'
    BY NextInv
<1> QED
    BY InitInv, <1>1, PTL DEF Spec

-----------------------------------------------------------------------------
\* What takes a thing away.

\* The state that bears a request's number is the host's answer to it.
LEMMA MadeByRequest ==
    ASSUME IInv, [Next]_vars, NEW i \in Requests,
           Len(hist') > Len(hist), hist'[Len(hist')].by = i
    PROVE  \E x \in Results(request[i]) : hist'[Len(hist')].things = x.things
<1>1. hist \in Seq(HostState) /\ Len(hist) \in Nat /\ i # 0
    BY DEF IInv, TypeOK, Requests
<1>2. hist' # hist
    BY <1>1
<1>3. ASSUME NEW y, hist' = Append(hist, y) PROVE hist'[Len(hist')] = y
    BY <1>1, <1>3
<1>4. CASE OthersChange
    <2>1. PICK s : hist' = Append(hist, [Current EXCEPT !.things = s, !.by = 0])
        BY <1>4 DEF OthersChange
    <2>2. Current \in HostState
        BY CurrentType DEF IInv
    <2>3. hist'[Len(hist')].by = 0
        BY <1>3, <2>1, <2>2 DEF HostState
    <2> QED
        BY <1>1, <2>3
<1>5. ASSUME NEW j \in Requests, HostDoes(j)
      PROVE  \E x \in Results(request[i]) : hist'[Len(hist')].things = x.things
    <2>1. PICK x \in Results(request[j]) : hist' = Append(hist, [x EXCEPT !.by = j])
        BY <1>2, <1>5 DEF HostDoes
    <2>2. x \in HostState
        BY <1>5, <2>1, ResultsType DEF HostDoes
    <2>3. hist'[Len(hist')].by = j /\ hist'[Len(hist')].things = x.things
        BY <1>3, <2>1, <2>2 DEF HostState
    <2> QED
        BY <2>1, <2>3
<1>6. CASE UNCHANGED hist
    BY <1>2, <1>6
<1> QED
    BY <1>4, <1>5, <1>6
    DEF Next, vars, Poll, HostReads, ListArrives, ListFails, Leave, Return, AddRule, DeleteRule,
        Toggle, RowAction, Send, HostRefuses, Respond

\* A delete takes the rule at its position, a remove one container of its name, which
\* does not run unless the removal is forced.
LEMMA TakenAway ==
    ASSUME IInv, [Next]_vars, NEW i \in Requests, NEW verb \in {"delete", "remove"},
           Takes(i, verb), NEW t \in Gone
    PROVE  \E k \in DOMAIN Current.things :
               t = Current.things[k] /\ Removable(request[i], k)
<1>1. PICK x \in Results(request[i]) : hist'[Len(hist')].things = x.things
    BY MadeByRequest DEF Takes
<1>2. PICK j \in DOMAIN Current.things :
          t = Current.things[j] /\ \A m \in DOMAIN x.things : x.things[m] # t
    BY <1>1 DEF Gone
<1>3. request[i].verb = verb /\ request[i].verb \in VerbsOf(kind)
    BY DEF Takes, IInv, RequestsOK, RequestOK
<1>4. request[i].verb = "delete" => kind = "firewall"
    <2>1. kind \in {"firewall", "containers", "services"}
        BY PanelsAssumption DEF IInv, TypeOK
    <2> QED
        BY <1>3, <2>1 DEF VerbsOf
<1>5. PICK k \in DOMAIN Current.things :
          Removable(request[i], k) /\ x = [Current EXCEPT !.things = RemoveAt(@, k)]
    BY <1>1, <1>3, <1>4 DEF Results
<1>6. Current \in HostState /\ Current.things \in Seq(Shapes)
    BY CurrentType DEF IInv
<1>7. x.things = RemoveAt(Current.things, k)
    BY <1>5, <1>6 DEF HostState
<1>8. j = k
    BY <1>2, <1>6, <1>7, RemovedKeeps
<1> QED
    BY <1>2, <1>5, <1>8

LEMMA DeleteStep ==
    ASSUME IInv, [Next]_vars, NEW i \in Requests, Takes(i, "delete"), request[i].clean,
           NEW t \in Gone, t.id # request[i].id
    PROVE  \E v \in (request[i].ver + 1)..Len(hist) : hist[v].by \notin request[i].told
<1> DEFINE r == request[i]
<1>1. t = Current.things[r.index]
    BY TakenAway DEF Takes, Removable
<1>2. /\ r.ver \in DOMAIN hist
      /\ hist[r.ver].things[r.index].id = r.id
      /\ NoneAfter(hist, r.ver, r.told)
    BY DEF Takes, IInv, RequestsOK, RequestOK
<1>3. Current = hist[Len(hist)] /\ Len(hist) \in Nat /\ hist \in Seq(HostState)
    BY CurrentType DEF IInv, TypeOK
<1>4. r.ver # Len(hist)
    BY <1>1, <1>2, <1>3
<1>5. Len(hist) \in (r.ver + 1)..Len(hist)
    BY <1>2, <1>3, <1>4
<1> QED
    BY <1>2, <1>5 DEF NoneAfter

LEMMA RemoveStep ==
    ASSUME IInv, [Next]_vars, NEW i \in Requests, Takes(i, "remove"), NEW t \in Gone, t.on
    PROVE  \E k \in DOMAIN hist[request[i].ver].things : hist[request[i].ver].things[k] = t
<1> DEFINE r == request[i]
           s == hist[r.ver].things
<1>1. PICK k \in DOMAIN Current.things : t = Current.things[k] /\ t.id = r.id /\ r.force
    BY TakenAway DEF Takes, Removable
<1>2. /\ r.ver \in DOMAIN hist /\ r.verb \in VerbsOf(kind) /\ r.verb = "remove"
      /\ \E j \in DOMAIN s : s[j].id = r.id /\ s[j].on
    BY <1>1 DEF Takes, IInv, RequestsOK, RequestOK
<1>3. PICK j \in DOMAIN s : s[j].id = r.id /\ s[j].on
    BY <1>2
<1>4. s \in Seq(Shapes) /\ Current.things \in Seq(Shapes)
    BY <1>2, CurrentType DEF IInv, HistOK
<1>5. kind = "containers"
    <2>1. kind \in {"firewall", "containers", "services"}
        BY PanelsAssumption DEF IInv, TypeOK
    <2> QED
        BY <1>2, <2>1 DEF VerbsOf
<1>6. t \in Shapes /\ s[j] \in Shapes
    BY <1>1, <1>3, <1>4
<1>7. s[j].id = t.id /\ s[j].on /\ t.on
    BY <1>1, <1>3
<1> HIDE DEF s
<1>8. s[j] = t
    BY <1>5, <1>6, <1>7 DEF Shapes, Thing
<1> QED
    BY <1>3, <1>8 DEF s

-----------------------------------------------------------------------------
\* Each variable has its type in every state; a change has the things of its page.
THEOREM PanelsTypeOK == Spec => []TypeOK
<1>1. IInv => TypeOK
    BY DEF IInv
<1> QED
    BY <1>1, Inductive, PTL

\* If the list was settled when the button was clicked, a delete by position takes a
\* wrong rule only because of a change that the page had not been told of.
THEOREM WrongRule == Spec => WrongRuleHasCause
<1> DEFINE A == \A i \in Requests :
                    Takes(i, "delete") /\ request[i].clean
                    /\ (\E t \in Gone : t.id # request[i].id) =>
                        \E v \in (request[i].ver + 1)..Len(hist) :
                            hist[v].by \notin request[i].told
<1>1. IInv /\ [Next]_vars => A
    BY DeleteStep
<1>2. IInv /\ [Next]_vars => [A]_vars
    BY <1>1
<1> QED
    BY <1>2, Inductive, PTL DEF Spec, WrongRuleHasCause

\* A running container is removed only after its card has shown it running.
THEOREM RunningRemoved == Spec => RunningRemovedKnowingly
<1> DEFINE A == \A i \in Requests :
                    Takes(i, "remove") =>
                        \A t \in Gone : t.on =>
                            \E k \in DOMAIN hist[request[i].ver].things :
                                hist[request[i].ver].things[k] = t
<1>1. IInv /\ [Next]_vars => A
    BY RemoveStep
<1>2. IInv /\ [Next]_vars => [A]_vars
    BY <1>1
<1> QED
    BY <1>2, Inductive, PTL DEF Spec, RunningRemovedKnowingly
===============================================================================
