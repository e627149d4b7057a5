--------------------------- MODULE EditorsProofs ---------------------------
(***************************************************************************)
(* What is proved of Editors for every set of objects and contents and any *)
(* number of requests and versions.  A version number says nothing by      *)
(* itself: the invariant says of each place that keeps one (page, pending  *)
(* request, answered request, stored version) which writes lie between it  *)
(* and the version whose contents it goes with.                            *)
(***************************************************************************)
EXTENDS Editors, TLAPS

\* Only this page has written object o after version b, up to version v.
Own(o, b, v) == \A m \in DOMAIN hist[o] : b < m /\ m <= v => hist[o][m].by = "page"

VersionOK(o, n) ==
    /\ n = 1 => hist[o][n].by = "other"
    /\ hist[o][n].by = "page" =>
          /\ kind = "manifest" => Own(o, hist[o][n].base, n - 1)
          /\ kind = "form" => hist[o][n].rest = hist[o][n - 1].rest

HistOK == \A o \in Objects : \A n \in 1..Len(hist[o]) : VersionOK(o, n)

FetchOK ==
    \A o \in Objects :
        /\ cache[o] <= Len(hist[o])
        /\ fetch[o].at = "answered" =>
              fetch[o].ver \in 1..Len(hist[o]) /\ cache[o] <= fetch[o].ver

\* The page was loaded from o, and no older version can still arrive.
LoadedOK(o) ==
    /\ page.base <= Len(hist[o])
    /\ cache[o] # 0 => page.base <= cache[o]
    /\ fetch[o].at = "answered" => page.base <= fetch[o].ver
    /\ page.rv <= Len(hist[o])
    /\ page.rv # 0 => Own(o, page.base, page.rv) /\ page.orig = hist[o][page.rv].data

PageOK ==
    kind = "manifest" =>
        /\ page.from = NoObject => page.base = 0 /\ page.rv = 0 /\ page.req = 0
        /\ page.dialog = "confirm" => page.rv # 0
        /\ view # NoObject => page.from = view
        /\ page.from # NoObject => LoadedOK(page.from)

Sound(r) ==
    /\ r.at \in {"sent", "read", "ok"} => r.to \in Objects
    /\ r.at = "read" => /\ kind = "form" /\ r.rv \in 1..Len(hist[r.to])
                        /\ r.rest = hist[r.to][r.rv].rest
    /\ kind = "manifest" /\ r.at \in {"sent", "ok"} =>
          r.rv \in 1..Len(hist[r.to]) /\ Own(r.to, r.base, r.rv)
    /\ kind = "manifest" /\ r.at = "ok" /\ ~r.dry => hist[r.to][r.rv].data = r.data

\* The request the page waits for is of what it shows.
Mine(i) ==
    kind = "manifest" /\ page.req = i /\ request[i].at \in {"sent", "ok"} =>
        request[i].to = page.from /\ request[i].base <= page.base

RequestsOK == \A i \in Requests : Sound(request[i]) /\ Mine(i)

IInv == TypeOK /\ HistOK /\ FetchOK /\ PageOK /\ RequestsOK

USE EditorsAssumption DEF EditorsAssumption, Requests, Versions

-----------------------------------------------------------------------------
\* The types of what steps put into the variables.
LEMMA Constants == NewPage \in Page /\ NoRequest \in Request /\ NoFetch \in Fetch /\ Sent \in Fetch
BY DEF NewPage, Page, NoRequest, Request, NoFetch, Sent, Fetch

\* The records that are made of requests and of the page.
RequestAt == {"none", "sent", "read", "ok", "conflict", "rejected", "error", "done"}

LEMMA WithAt ==
    ASSUME NEW r \in Request, NEW at \in RequestAt
    PROVE  LET new == [r EXCEPT !.at = at]
           IN /\ new \in Request /\ new.at = at /\ new.to = r.to /\ new.base = r.base /\ new.data = r.data
              /\ new.dry = r.dry /\ new.rv = r.rv /\ new.rest = r.rest
BY DEF Request, RequestAt

LEMMA WithVersion ==
    ASSUME NEW r \in Request, NEW at \in RequestAt, NEW rv \in Versions
    PROVE  LET new == [r EXCEPT !.at = at, !.rv = rv]
           IN /\ new \in Request /\ new.at = at /\ new.to = r.to /\ new.base = r.base /\ new.data = r.data
              /\ new.dry = r.dry /\ new.rv = rv /\ new.rest = r.rest
BY DEF Request, RequestAt

LEMMA WithStatus ==
    ASSUME NEW p \in Page, NEW status \in {"idle", "dryRun", "applied", "rejected", "conflict", "error"},
           NEW saved \in BOOLEAN
    PROVE  LET new == [p EXCEPT !.status = status, !.saved = saved, !.req = 0]
           IN /\ new \in Page /\ new.from = p.from /\ new.base = p.base /\ new.rv = p.rv /\ new.orig = p.orig
              /\ new.dialog = p.dialog /\ new.req = 0
<1>1. 0 \in 0..MaxRequests
    OBVIOUS
<1> DEFINE new == [p EXCEPT !.status = status, !.saved = saved, !.req = 0]
<1>2. new \in Page
    BY <1>1 DEF Page
<1>3. /\ new.from = p.from /\ new.base = p.base /\ new.rv = p.rv /\ new.orig = p.orig
      /\ new.dialog = p.dialog /\ new.req = 0
    BY DEF Page
<1> QED
    BY <1>2, <1>3

LEMMA InitInv == Init => IInv
<1> SUFFICES ASSUME Init PROVE IInv
    OBVIOUS
<1>1. PICK d \in [Objects -> Data \ Invalid] :
        hist = [o \in Objects |-> <<[by |-> "other", base |-> 0, data |-> d[o], rest |-> FALSE]>>]
    BY DEF Init
<1>2. ASSUME NEW o \in Objects
      PROVE  /\ hist[o] \in Seq(Version) /\ Len(hist[o]) = 1 /\ hist[o][1].by = "other"
    BY <1>1 DEF Version
<1>3. TypeOK
  <2>1. hist \in [Objects -> Seq(Version)]
      BY <1>1, <1>2
  <2> QED
      BY <2>1, <1>2, Constants DEF Init, TypeOK
<1>4. HistOK
    BY <1>2 DEF HistOK, VersionOK
<1>5. FetchOK
    BY <1>2 DEF Init, FetchOK, NoFetch
<1>6. PageOK
    BY DEF Init, PageOK, NewPage
<1>7. RequestsOK
    BY DEF Init, RequestsOK, Sound, Mine, NoRequest
<1> QED
    BY <1>3, <1>4, <1>5, <1>6, <1>7 DEF IInv

-----------------------------------------------------------------------------
\* Versions are only added.
Grows ==
    /\ kind' = kind
    /\ \A o \in Objects :
          /\ Len(hist[o]) <= Len(hist'[o])
          /\ \A n \in 1..Len(hist[o]) : hist'[o][n] = hist[o][n]

LEMMA SameGrows == ASSUME kind' = kind, hist' = hist, TypeOK PROVE Grows
BY DEF Grows, TypeOK

LEMMA AppendGrows ==
    ASSUME TypeOK, kind' = kind, NEW x \in Objects, NEW v \in Version, Len(hist[x]) < MaxVersion,
           hist' = [hist EXCEPT ![x] = Append(@, v)]
    PROVE  /\ Grows
           /\ hist' \in [Objects -> Seq(Version)]
           /\ \A o \in Objects : Len(hist'[o]) \in 1..MaxVersion
           /\ Len(hist'[x]) = Len(hist[x]) + 1 /\ hist'[x][Len(hist[x]) + 1] = v
           /\ \A o \in Objects \ {x} : hist'[o] = hist[o]
<1>1. hist[x] \in Seq(Version) /\ Len(hist[x]) \in 1..MaxVersion
    BY DEF TypeOK
<1>2. /\ Append(hist[x], v) \in Seq(Version)
      /\ Len(Append(hist[x], v)) = Len(hist[x]) + 1
      /\ \A n \in 1..Len(hist[x]) : Append(hist[x], v)[n] = hist[x][n]
      /\ Append(hist[x], v)[Len(hist[x]) + 1] = v
    BY <1>1
<1>3. hist'[x] = Append(hist[x], v) /\ \A o \in Objects \ {x} : hist'[o] = hist[o]
    BY DEF TypeOK
<1>4. hist' \in [Objects -> Seq(Version)]
    BY <1>2 DEF TypeOK
<1> QED
    BY <1>1, <1>2, <1>3, <1>4 DEF Grows, TypeOK

LEMMA OwnPersists ==
    ASSUME TypeOK, Grows, NEW o \in Objects, NEW b \in Nat, NEW v \in 0..Len(hist[o]), Own(o, b, v),
           Len(hist'[o]) \in Nat, hist'[o] \in Seq(Version)
    PROVE  Own(o, b, v)'
<1>1. ASSUME NEW m \in DOMAIN hist'[o], b < m, m <= v
      PROVE  hist'[o][m].by = "page"
  <2>1. hist[o] \in Seq(Version) /\ m \in 1..Len(hist[o])
      BY <1>1 DEF TypeOK
  <2>2. m \in DOMAIN hist[o]
      BY <2>1
  <2> QED
      BY <2>1, <2>2, <1>1 DEF Own, Grows
<1> QED
    BY <1>1 DEF Own

LEMMA SoundPersists ==
    ASSUME TypeOK, Grows, hist' \in [Objects -> Seq(Version)], NEW r \in Request, Sound(r)
    PROVE  Sound(r)'
<1>1. \A o \in Objects : Len(hist[o]) \in Nat /\ Len(hist'[o]) \in Nat /\ hist'[o] \in Seq(Version)
    BY DEF TypeOK
<1>2. CASE kind = "manifest" /\ r.at \in {"sent", "ok"}
  <2>1. r.to \in Objects /\ r.rv \in 1..Len(hist[r.to]) /\ Own(r.to, r.base, r.rv) /\ r.base \in Nat
      BY <1>2 DEF Sound, Request
  <2>2. Own(r.to, r.base, r.rv)'
      BY <2>1, <1>1, OwnPersists
  <2> QED
      BY <1>1, <1>2, <2>1, <2>2 DEF Sound, Grows
<1>3. CASE ~(kind = "manifest" /\ r.at \in {"sent", "ok"})
    BY <1>1, <1>3 DEF Sound, Grows
<1> QED
    BY <1>2, <1>3

LEMMA VersionPersists ==
    ASSUME TypeOK, Grows, hist' \in [Objects -> Seq(Version)],
           NEW o \in Objects, NEW n \in 1..Len(hist[o]), VersionOK(o, n)
    PROVE  VersionOK(o, n)'
<1>1. /\ hist[o] \in Seq(Version) /\ hist'[o] \in Seq(Version)
      /\ Len(hist[o]) \in Nat /\ Len(hist'[o]) \in Nat /\ hist[o][n] \in Version
    BY DEF TypeOK
<1>2. hist'[o][n] = hist[o][n] /\ n \in 1..Len(hist'[o]) /\ kind' = kind
    BY <1>1 DEF Grows
<1>3. hist[o][n].base \in Nat /\ n - 1 \in 0..Len(hist[o])
    BY <1>1 DEF Version
<1>4. Own(o, hist[o][n].base, n - 1) => Own(o, hist[o][n].base, n - 1)'
  <2> DEFINE b == hist[o][n].base
  <2>1. b \in Nat /\ hist'[o][n].base = b
      BY <1>2, <1>3
  <2> HIDE DEF b
  <2>2. ASSUME Own(o, b, n - 1)
        PROVE  \A m \in DOMAIN hist'[o] : b < m /\ m <= n - 1 => hist'[o][m].by = "page"
    <3>1. \A m \in 1..Len(hist[o]) : b < m /\ m <= n - 1 => hist[o][m].by = "page"
        BY <1>1, <2>2 DEF Own
    <3>2. \A m \in 1..Len(hist[o]) : hist'[o][m] = hist[o][m]
        BY DEF Grows
    <3> QED
        BY <1>1, <3>1, <3>2
  <2> QED
      BY <2>1, <2>2 DEF Own, b
<1>5. n > 1 => hist'[o][n - 1] = hist[o][n - 1]
    BY <1>1 DEF Grows
<1> QED
    BY <1>2, <1>4, <1>5 DEF VersionOK

-----------------------------------------------------------------------------
\* Steps of the page and of its queries that load nothing, send nothing and write
\* nothing.
Quiet ==
    /\ kind' = kind /\ hist' = hist /\ request' = request
    /\ page' \in Page
    /\ page'.from = page.from /\ page'.base = page.base /\ page'.rv = page.rv
    /\ page'.orig = page.orig /\ page'.req = page.req
    /\ kind = "manifest" /\ page'.dialog = "confirm" => page.dialog = "confirm" \/ page.rv # 0
    /\ view' \in {view, NoObject}
    /\ cache' \in [Objects -> Versions]
    /\ \A o \in Objects : cache'[o] \in {cache[o], 0}
    /\ fetch' \in [Objects -> Fetch]
    /\ \A o \in Objects : \/ fetch'[o] = fetch[o]
                          \/ fetch'[o].at # "answered"
                          \/ fetch'[o].ver = Len(hist[o])

LEMMA HistSame == ASSUME kind' = kind, hist' = hist, HistOK PROVE HistOK'
BY DEF HistOK, VersionOK, Own

LEMMA QuietStep == IInv /\ Quiet => IInv'
<1> SUFFICES ASSUME IInv, Quiet PROVE IInv'
    OBVIOUS
<1> USE DEF IInv, Quiet
<1>1. TypeOK'
    BY DEF TypeOK
<1>2. HistOK'
    BY HistSame
<1>3. \A o \in Objects : Len(hist[o]) \in 1..MaxVersion /\ fetch[o].ver \in Nat /\ cache[o] \in Nat
    BY DEF TypeOK, Fetch
<1>4. FetchOK'
    BY <1>3 DEF FetchOK
<1>5. PageOK'
  <2>1. page.base \in Nat /\ page.rv \in Nat /\ page.from \in Objects \cup {NoObject}
      BY DEF TypeOK, Page
  <2>2. ASSUME kind = "manifest", page.from \in Objects PROVE LoadedOK(page.from)'
    <3>1. LoadedOK(page.from)
        BY <2>2 DEF PageOK
    <3> QED
        BY <1>3, <2>1, <2>2, <3>1 DEF LoadedOK, Own
  <2> QED
      BY <2>1, <2>2 DEF PageOK
<1>6. RequestsOK'
  <2>1. ASSUME NEW i \in Requests PROVE Sound(request[i])' /\ Mine(i)'
    <3>1. Sound(request[i]) /\ Mine(i)
        BY DEF RequestsOK
    <3>2. Sound(request[i])'
        BY <3>1 DEF Sound, Own
    <3>3. Mine(i)'
        BY <3>1 DEF Mine
    <3> QED
        BY <3>2, <3>3
  <2> QED
      BY <2>1 DEF RequestsOK
<1> QED
    BY <1>1, <1>2, <1>4, <1>5, <1>6

LEMMA QuietSteps ==
    ASSUME TypeOK,
           \/ \E o \in Objects : Poll(o) \/ ServerReads(o) \/ FetchFails(o) \/ Evict(o)
           \/ CloseForm \/ UpdateEntry \/ AddOrRemoveEntry \/ ReloadForm
           \/ EditorChange \/ ReloadClean \/ ReloadConflict \/ ReloadConfirmed
           \/ AskReload \/ Ask \/ Cancel
    PROVE  Quiet
<1> USE Constants
<1>1. /\ page \in Page /\ cache \in [Objects -> Versions] /\ fetch \in [Objects -> Fetch]
      /\ \A o \in Objects : Len(hist[o]) \in 1..MaxVersion
      /\ view \in Objects \cup {NoObject}
    BY DEF TypeOK
<1>2. ASSUME NEW o \in Objects, Poll(o) PROVE Quiet
    BY <1>1, <1>2 DEF Poll, Quiet, Sent
<1>3. ASSUME NEW o \in Objects, ServerReads(o) PROVE Quiet
    BY <1>1, <1>3 DEF ServerReads, Quiet, Fetch
<1>4. ASSUME NEW o \in Objects, FetchFails(o) PROVE Quiet
    BY <1>1, <1>4 DEF FetchFails, Quiet, NoFetch
<1>5. ASSUME NEW o \in Objects, Evict(o) PROVE Quiet
    BY <1>1, <1>5 DEF Evict, Quiet
<1>6. CASE CloseForm
    BY <1>1, <1>6 DEF CloseForm, Quiet
<1>7. CASE UpdateEntry
  <2>1. PICK d \in Data : page' = [page EXCEPT !.data = d, !.saved = FALSE,
                                      !.status = IF @ = "error" THEN "idle" ELSE @]
      BY <1>7 DEF UpdateEntry
  <2>2. page' \in Page
      BY <1>1, <2>1 DEF Page
  <2>3. /\ page'.from = page.from /\ page'.base = page.base /\ page'.rv = page.rv
        /\ page'.orig = page.orig /\ page'.req = page.req /\ page'.dialog = page.dialog
      BY <1>1, <2>1 DEF Page
  <2> QED
      BY <1>1, <1>7, <2>2, <2>3 DEF UpdateEntry, Quiet
<1>8. CASE AddOrRemoveEntry
  <2>1. PICK d \in Data : page' = [page EXCEPT !.data = d]
      BY <1>8 DEF AddOrRemoveEntry
  <2>2. page' \in Page
      BY <1>1, <2>1 DEF Page
  <2>3. /\ page'.from = page.from /\ page'.base = page.base /\ page'.rv = page.rv
        /\ page'.orig = page.orig /\ page'.req = page.req /\ page'.dialog = page.dialog
      BY <1>1, <2>1 DEF Page
  <2> QED
      BY <1>1, <1>8, <2>2, <2>3 DEF AddOrRemoveEntry, Quiet
<1>9. CASE EditorChange
  <2>1. PICK d \in Data : page' = [page EXCEPT !.data = d,
                                      !.status = IF @ \in {"dryRun", "applied"} THEN "idle" ELSE @]
      BY <1>9 DEF EditorChange
  <2>2. page' \in Page
      BY <1>1, <2>1 DEF Page
  <2>3. /\ page'.from = page.from /\ page'.base = page.base /\ page'.rv = page.rv
        /\ page'.orig = page.orig /\ page'.req = page.req /\ page'.dialog = page.dialog
      BY <1>1, <2>1 DEF Page
  <2> QED
      BY <1>1, <1>9, <2>2, <2>3 DEF EditorChange, Quiet
<1>10. CASE ReloadForm
    BY <1>1, <1>10 DEF ReloadForm, Refetch, Quiet, Sent
<1>11. CASE ReloadClean \/ ReloadConflict \/ ReloadConfirmed
  <2>1. TriggerReload
      BY <1>11 DEF ReloadClean, ReloadConflict, ReloadConfirmed
  <2>2. /\ page' \in Page /\ page'.dialog = "none"
        /\ page'.from = page.from /\ page'.base = page.base /\ page'.rv = page.rv
        /\ page'.orig = page.orig /\ page'.req = page.req
      BY <1>1, <2>1 DEF TriggerReload, Page
  <2>3. /\ fetch' \in [Objects -> Fetch]
        /\ \A o \in Objects : fetch'[o] = fetch[o] \/ fetch'[o].at # "answered"
      BY <1>1, <2>1 DEF TriggerReload, Refetch, Sent
  <2> QED
      BY <1>1, <2>1, <2>2, <2>3 DEF TriggerReload, Quiet
<1>12. CASE AskReload
    BY <1>1, <1>12 DEF AskReload, Quiet, Page
<1>13. CASE Ask
    BY <1>1, <1>13 DEF Ask, CanSave, Quiet, Page
<1>14. CASE Cancel
    BY <1>1, <1>14 DEF Cancel, Quiet, Page
<1> QED
    BY <1>2, <1>3, <1>4, <1>5, <1>6, <1>7, <1>8, <1>9, <1>10, <1>11, <1>12, <1>13, <1>14

-----------------------------------------------------------------------------
\* Contents are loaded.
LEMMA LoadPage ==
    ASSUME TypeOK, NEW o \in Objects, NEW n \in 1..Len(hist[o])
    PROVE  /\ Load(page, o, n) \in Page
           /\ Load(page, o, n).from = o /\ Load(page, o, n).base = n
           /\ Load(page, o, n).req = page.req /\ Load(page, o, n).dialog = page.dialog
           /\ Load(page, o, n).orig = hist[o][n].data
           /\ kind = "manifest" => Load(page, o, n).rv = n
<1>1. /\ page \in Page /\ Len(hist[o]) \in 1..MaxVersion /\ hist[o][n] \in Version
    BY DEF TypeOK
<1> DEFINE d == hist[o][n].data
           rv == IF kind = "manifest" THEN n ELSE 0
<1>2. d \in Data /\ n \in Versions /\ rv \in Versions /\ (kind = "manifest" => rv = n)
    BY <1>1 DEF Version
<1> DEFINE shown == [page EXCEPT !.data = d, !.orig = d, !.loaded = TRUE, !.from = o, !.base = n]
           q     == [shown EXCEPT !.rv = rv, !.status = "idle", !.saved = FALSE]
<1>3. Load(page, o, n) = q
    BY Zenon DEF Load
<1> HIDE DEF d, rv
<1>4. shown \in Page
    BY <1>1, <1>2 DEF Page
<1>5. /\ shown.from = o /\ shown.base = n /\ shown.orig = d
      /\ shown.req = page.req /\ shown.dialog = page.dialog
    BY <1>1, <1>2 DEF Page
<1> HIDE DEF shown
<1>6. q \in Page
    BY <1>2, <1>4 DEF Page
<1>7. /\ q.from = o /\ q.base = n /\ q.rv = rv /\ q.orig = d
      /\ q.req = page.req /\ q.dialog = page.dialog
    BY <1>2, <1>4, <1>5 DEF Page
<1> HIDE DEF q
<1> QED
    BY <1>2, <1>3, <1>6, <1>7 DEF d

\* The page loads version n of o, which no older answer follows.
LEMMA LoadStep ==
    ASSUME IInv, NEW o \in Objects, NEW n \in 1..Len(hist[o]),
           UNCHANGED <<kind, hist, request>>, page' = Load(page, o, n),
           view' = o, kind = "manifest" => page.from \in {o, NoObject},
           cache' \in [Objects -> Versions], fetch' \in [Objects -> Fetch], FetchOK',
           kind = "manifest" => page.base <= n /\ cache'[o] \in {0, n},
           kind = "manifest" => (fetch'[o].at = "answered" => n <= fetch'[o].ver)
    PROVE  IInv'
<1>1. /\ page \in Page /\ page' \in Page /\ page'.from = o /\ page'.base = n
      /\ page'.req = page.req /\ page'.orig = hist[o][n].data
      /\ kind = "manifest" => page'.rv = n
    BY LoadPage DEF IInv, TypeOK
<1>2. Len(hist[o]) \in 1..MaxVersion /\ n \in Nat /\ hist[o] \in Seq(Version)
    BY DEF IInv, TypeOK
<1>3. TypeOK'
    BY <1>1 DEF IInv, TypeOK
<1>4. PageOK'
    BY <1>1, <1>2 DEF PageOK, LoadedOK, Own
<1>5. RequestsOK'
  <2> SUFFICES ASSUME NEW i \in Requests PROVE (Sound(request[i]) /\ Mine(i))'
      BY DEF RequestsOK
  <2>0. request[i] \in Request /\ page \in Page
      BY DEF IInv, TypeOK
  <2>1. Sound(request[i]) /\ Mine(i) /\ request[i].base \in Nat /\ page.base \in Nat
      BY <2>0 DEF IInv, RequestsOK, Request, Page
  <2>2. Sound(request[i])'
      BY <2>1 DEF Sound, Own
  <2>3. kind = "manifest" /\ page.req = i => page.from = o
      BY DEF IInv, PageOK
  <2>4. Mine(i)'
      BY <1>1, <1>2, <2>1, <2>3 DEF Mine
  <2> QED
      BY <2>2, <2>4
<1> QED
    BY <1>3, <1>4, <1>5, HistSame DEF IInv

LEMMA ArriveStep == ASSUME IInv, NEW o \in Objects, Arrive(o) PROVE IInv'
<1> DEFINE n == fetch[o].ver
<1>1. /\ n \in 1..Len(hist[o]) /\ cache[o] \in Nat /\ cache[o] <= n /\ Len(hist[o]) \in 1..MaxVersion
      /\ fetch \in [Objects -> Fetch] /\ cache \in [Objects -> Versions]
    BY DEF IInv, FetchOK, TypeOK, Arrive
<1>2. /\ cache' = [cache EXCEPT ![o] = IF Same(o, @, n) THEN @ ELSE n]
      /\ fetch' = [fetch EXCEPT ![o] = NoFetch]
      /\ UNCHANGED <<kind, hist, view, request>>
    BY DEF Arrive
<1>3. /\ cache' \in [Objects -> Versions] /\ fetch' \in [Objects -> Fetch]
      /\ cache'[o] = (IF Same(o, cache[o], n) THEN cache[o] ELSE n)
      /\ fetch'[o].at # "answered"
      /\ \A x \in Objects \ {o} : cache'[x] = cache[x] /\ fetch'[x] = fetch[x]
    BY <1>1, <1>2, Constants DEF NoFetch
<1>4. FetchOK'
    BY <1>1, <1>2, <1>3 DEF IInv, FetchOK
<1>5. CASE view = o /\ ~Same(o, cache[o], n)
  <2>1. page' = Load(page, o, n)
      BY <1>5 DEF Arrive
  <2>2. kind = "manifest" => page.from = o /\ LoadedOK(o)
      BY <1>5 DEF IInv, PageOK
  <2>3. kind = "manifest" => page.base <= n
      BY <2>2 DEF LoadedOK, Arrive
  <2> HIDE DEF n
  <2> QED
      BY <1>1, <1>2, <1>3, <1>4, <1>5, <2>1, <2>2, <2>3, LoadStep
<1>6. CASE ~(view = o /\ ~Same(o, cache[o], n))
  <2>1. page' = page
      BY <1>6 DEF Arrive
  <2>2. TypeOK'
      BY <1>2, <1>3, <2>1 DEF IInv, TypeOK
  <2>3. PageOK'
    <3>1. ASSUME kind = "manifest", page.from \in Objects PROVE LoadedOK(page.from)'
      <4>1. LoadedOK(page.from)
          BY <3>1 DEF IInv, PageOK
      <4>2. page.from = o => page.base <= n
          BY <4>1 DEF LoadedOK, Arrive
      <4> HIDE DEF n
      <4> QED
          BY <1>2, <1>3, <2>1, <3>1, <4>1, <4>2 DEF LoadedOK, Own
    <3>2. page.from \in Objects \cup {NoObject}
        BY DEF IInv, TypeOK, Page
    <3> QED
        BY <1>2, <2>1, <3>1, <3>2 DEF IInv, PageOK
  <2>4. RequestsOK'
      BY <1>2, <2>1 DEF IInv, RequestsOK, Sound, Mine, Own
  <2> QED
      BY <1>2, <1>4, <2>2, <2>3, <2>4, HistSame DEF IInv
<1> QED
    BY <1>5, <1>6

LEMMA OpenStep == ASSUME IInv, NEW o \in Objects, OpenForm(o) \/ OpenManifest(o) PROVE IInv'
<1>1. /\ view' = o /\ UNCHANGED <<kind, hist, cache, request>>
      /\ kind = "manifest" => page.from \in {o, NoObject}
      /\ fetch' = fetch \/ FetchIfIdle(o)
    BY DEF OpenForm, OpenManifest
<1>2. /\ cache \in [Objects -> Versions] /\ fetch \in [Objects -> Fetch] /\ page \in Page
      /\ Len(hist[o]) \in 1..MaxVersion /\ cache[o] <= Len(hist[o])
    BY DEF IInv, TypeOK, FetchOK
<1>3. /\ fetch' \in [Objects -> Fetch]
      /\ \A x \in Objects : fetch'[x] = fetch[x] \/ fetch'[x].at # "answered"
    BY <1>1, <1>2, Constants DEF FetchIfIdle, Sent
<1>4. FetchOK'
    BY <1>1, <1>2, <1>3 DEF IInv, FetchOK
<1>5. kind = "manifest" => /\ page.from = o => LoadedOK(o)
                           /\ page.from # o => page.base = 0 /\ page.rv = 0 /\ page.req = 0
    BY <1>1 DEF IInv, PageOK
<1>6. CASE cache[o] # 0
  <2>1. page' = Load(page, o, cache[o]) /\ cache[o] \in 1..Len(hist[o])
      BY <1>2, <1>6 DEF OpenForm, OpenManifest
  <2>2. kind = "manifest" => page.base <= cache[o]
      BY <1>2, <1>5, <1>6 DEF LoadedOK
  <2>3. fetch'[o].at = "answered" => cache[o] <= fetch'[o].ver
      BY <1>1, <1>4 DEF FetchOK
  <2> QED
      BY <1>1, <1>2, <1>3, <1>4, <2>1, <2>2, <2>3, LoadStep
<1>7. CASE cache[o] = 0
  <2>1. /\ kind = "form" => page' = page
        /\ kind = "manifest" => page' = [page EXCEPT !.from = o, !.status = "idle"]
      BY <1>7 DEF OpenForm, OpenManifest
  <2>2. /\ page' \in Page /\ page'.base = page.base /\ page'.rv = page.rv
        /\ page'.orig = page.orig /\ page'.req = page.req /\ page'.dialog = page.dialog
        /\ kind = "manifest" => page'.from = o
    <3> DEFINE q == [page EXCEPT !.from = o, !.status = "idle"]
    <3>1. page \in Page /\ kind \in {"form", "manifest"}
        BY DEF IInv, TypeOK
    <3>2. q \in Page /\ q.from = o /\ q.base = page.base /\ q.rv = page.rv
          /\ q.orig = page.orig /\ q.req = page.req /\ q.dialog = page.dialog
        BY <3>1 DEF Page
    <3> HIDE DEF q
    <3>3. CASE kind = "form"
        BY <2>1, <3>1, <3>3
    <3>4. CASE kind = "manifest"
        BY <2>1, <3>2, <3>4 DEF q
    <3> QED
        BY <3>1, <3>3, <3>4
  <2>3. TypeOK'
      BY <1>1, <1>3, <2>2 DEF IInv, TypeOK
  <2>4. PageOK'
    <3>1. ASSUME kind = "manifest" PROVE LoadedOK(o)'
        BY <1>1, <1>2, <1>3, <1>5, <1>7, <2>2, <3>1 DEF LoadedOK, Own, Fetch
    <3> QED
        BY <1>1, <2>2, <3>1 DEF IInv, PageOK
  <2>5. RequestsOK'
      BY <1>1, <1>5, <2>2 DEF IInv, RequestsOK, Sound, Mine, Own
  <2> QED
      BY <1>1, <1>4, <2>3, <2>4, <2>5, HistSame DEF IInv
<1> QED
    BY <1>6, <1>7

LEMMA CloseManifestStep == IInv /\ CloseManifest => IInv'
<1> SUFFICES ASSUME IInv, CloseManifest PROVE IInv'
    OBVIOUS
<1>1. CASE page' = page
  <2>1. Quiet
      BY <1>1 DEF IInv, TypeOK, CloseManifest, Quiet
  <2> QED
      BY <2>1, QuietStep
<1>2. CASE page' = NewPage
  <2>1. UNCHANGED <<kind, hist, cache, fetch, request>> /\ view' = NoObject
      BY DEF CloseManifest
  <2>2. TypeOK' /\ HistOK' /\ FetchOK'
      BY <1>2, <2>1, Constants, HistSame DEF IInv, TypeOK, FetchOK
  <2>3. PageOK'
      BY <1>2, <2>1 DEF PageOK, NewPage
  <2>4. RequestsOK'
      BY <1>2, <2>1 DEF IInv, RequestsOK, Sound, Mine, Own, NewPage
  <2> QED
      BY <2>2, <2>3, <2>4 DEF IInv
<1> QED
    BY <1>1, <1>2 DEF CloseManifest

-----------------------------------------------------------------------------
\* Requests.

LEMMA SendStep == IInv /\ (Confirm \/ DryRun) => IInv'
<1> SUFFICES ASSUME IInv, Confirm \/ DryRun PROVE IInv'
    OBVIOUS
<1>1. /\ view \in Objects /\ UNCHANGED <<kind, hist, cache, fetch, view>>
      /\ page \in Page /\ request \in [Requests -> Request]
      /\ kind = "manifest" => page.rv # 0 /\ page.from = view /\ LoadedOK(view)
    BY DEF Confirm, DryRun, CanSave, IInv, PageOK, TypeOK
<1>2. PICK i \in Requests, dry \in BOOLEAN :
        /\ request' = [request EXCEPT ![i] =
              [at |-> "sent", to |-> view, data |-> page.data, dry |-> dry,
               base |-> IF page.from = view THEN page.base ELSE 0,
               rv |-> page.rv, rest |-> FALSE]]
        /\ page' = [page EXCEPT !.dialog = "none", !.req = i]
    BY DEF Confirm, DryRun, Send
<1> DEFINE r == [at |-> "sent", to |-> view, data |-> page.data, dry |-> dry,
                 base |-> IF page.from = view THEN page.base ELSE 0,
                 rv |-> page.rv, rest |-> FALSE]
<1>3. /\ r \in Request /\ r.at = "sent" /\ r.to = view /\ r.rv = page.rv
      /\ kind = "manifest" => r.base = page.base
    BY <1>1 DEF Page, Request
<1>4. /\ page' \in Page /\ page'.from = page.from /\ page'.base = page.base
      /\ page'.rv = page.rv /\ page'.orig = page.orig /\ page'.req = i /\ page'.dialog = "none"
  <2>1. page' = [page EXCEPT !.dialog = "none", !.req = i] /\ page \in Page /\ i \in 0..MaxRequests
      BY <1>1, <1>2
  <2> QED
      BY <2>1 DEF Page
<1>5. /\ request' \in [Requests -> Request] /\ request'[i] = r
      /\ \A j \in Requests \ {i} : request'[j] = request[j]
    BY <1>1, <1>2, <1>3
<1> HIDE DEF r
<1>6. TypeOK' /\ HistOK' /\ FetchOK'
    BY <1>1, <1>4, <1>5, HistSame DEF IInv, TypeOK, FetchOK
<1>7. PageOK'
    BY <1>1, <1>4 DEF IInv, PageOK, LoadedOK, Own
<1>8. RequestsOK'
  <2>1. Len(hist[view]) \in 1..MaxVersion /\ page.rv \in Nat /\ page.base \in Nat
      BY <1>1 DEF IInv, TypeOK, Page
  <2>2. (Sound(request[i]) /\ Mine(i))'
      BY <1>1, <1>3, <1>4, <1>5, <2>1 DEF Sound, Mine, LoadedOK, Own
  <2>3. ASSUME NEW j \in Requests \ {i} PROVE (Sound(request[j]) /\ Mine(j))'
      BY <1>1, <1>4, <1>5 DEF IInv, RequestsOK, Sound, Mine, Own
  <2> QED
      BY <2>2, <2>3 DEF RequestsOK
<1> QED
    BY <1>6, <1>7, <1>8 DEF IInv

\* A request is replaced by r, and nothing is written.
LEMMA AnswerStep ==
    ASSUME IInv, NEW i \in Requests, NEW r \in Request,
           UNCHANGED <<kind, hist, cache, fetch, view, page>>,
           request' = [request EXCEPT ![i] = r], Sound(r),
           kind = "manifest" /\ page.req = i /\ r.at \in {"sent", "ok"} =>
              r.to = page.from /\ r.base <= page.base
    PROVE  IInv'
<1>1. /\ request' \in [Requests -> Request] /\ request'[i] = r
      /\ \A j \in Requests \ {i} : request'[j] = request[j]
    BY DEF IInv, TypeOK
<1>2. TypeOK' /\ HistOK' /\ FetchOK'
    BY <1>1, HistSame DEF IInv, TypeOK, FetchOK
<1>3. PageOK'
    BY DEF IInv, PageOK, LoadedOK, Own
<1>4. RequestsOK'
    BY <1>1 DEF IInv, RequestsOK, Sound, Mine, Own
<1> QED
    BY <1>2, <1>3, <1>4 DEF IInv

\* A version is added by the request i, or by somebody else.
LEMMA WriteStep ==
    ASSUME IInv, NEW o \in Objects, NEW v \in Version, Len(hist[o]) < MaxVersion,
           hist' = [hist EXCEPT ![o] = Append(@, v)],
           UNCHANGED <<kind, cache, fetch, view, page>>,
           v.by = "page" => /\ kind = "manifest" => Own(o, v.base, Len(hist[o]))
                            /\ kind = "form" => v.rest = Current(o).rest,
           request' \in [Requests -> Request],
           \A j \in Requests : request'[j] = request[j] \/ (Sound(request[j]) /\ Mine(j))'
    PROVE  IInv'
<1>0. TypeOK /\ HistOK /\ FetchOK /\ PageOK /\ RequestsOK
    BY DEF IInv
<1>1. /\ Grows /\ hist' \in [Objects -> Seq(Version)]
      /\ \A x \in Objects : Len(hist'[x]) \in 1..MaxVersion
      /\ Len(hist'[o]) = Len(hist[o]) + 1 /\ hist'[o][Len(hist[o]) + 1] = v
      /\ \A x \in Objects \ {o} : hist'[x] = hist[x]
    BY <1>0, AppendGrows
<1>2. \A x \in Objects : Len(hist[x]) \in 1..MaxVersion /\ hist[x] \in Seq(Version)
    BY <1>0 DEF TypeOK
<1>3. TypeOK'
    BY <1>0, <1>1 DEF TypeOK
<1>4. HistOK'
  <2>1. ASSUME NEW x \in Objects, NEW n \in 1..Len(hist[x]) PROVE VersionOK(x, n)'
      BY <1>0, <1>1, VersionPersists DEF HistOK
  <2>2. PICK k \in Nat : k = Len(hist[o])
      BY <1>2
  <2>3. VersionOK(o, k + 1)'
    <3>1. /\ hist'[o][k] = Current(o) /\ hist'[o][k + 1] = v /\ k + 1 # 1 /\ kind' = kind
          /\ DOMAIN hist'[o] = 1..(k + 1)
        BY <1>1, <1>2, <2>2 DEF Grows, Current
    <3>2. v.by = "page" /\ kind = "manifest" => Own(o, v.base, k)'
        BY <1>0, <1>1, <1>2, <2>2, OwnPersists DEF Version, Own
    <3>3. v.by = "page" /\ kind = "form" => v.rest = hist'[o][k].rest
        BY <3>1
    <3>4. k + 1 - 1 = k
        OBVIOUS
    <3> QED
        BY <3>1, <3>2, <3>3, <3>4 DEF VersionOK, Own
  <2>4. ASSUME NEW x \in Objects, NEW n \in 1..Len(hist'[x]) PROVE VersionOK(x, n)'
    <3>1. n \in 1..Len(hist[x]) \/ (x = o /\ n = k + 1)
        BY <1>1, <1>2, <2>2
    <3> QED
        BY <2>1, <2>3, <3>1
  <2> QED
      BY <2>4 DEF HistOK
<1>5. FetchOK'
    BY <1>0, <1>1, <1>2 DEF FetchOK, Grows, TypeOK, Fetch
<1>6. PageOK'
  <2>1. /\ page.from \in Objects \cup {NoObject} /\ page.base \in Nat /\ page.rv \in Nat
      BY <1>0 DEF TypeOK, Page
  <2>2. ASSUME kind = "manifest", page.from \in Objects PROVE LoadedOK(page.from)'
    <3>1. LoadedOK(page.from)
        BY <1>0, <2>2 DEF PageOK
    <3>2. page.rv # 0 => Own(page.from, page.base, page.rv)'
        BY <1>0, <1>1, <1>2, <2>1, <2>2, <3>1, OwnPersists DEF LoadedOK
    <3> QED
        BY <1>1, <1>2, <2>1, <2>2, <3>1, <3>2 DEF LoadedOK, Grows
  <2> QED
      BY <1>0, <2>1, <2>2 DEF PageOK
<1>7. RequestsOK'
  <2> SUFFICES ASSUME NEW j \in Requests, request'[j] = request[j]
               PROVE  (Sound(request[j]) /\ Mine(j))'
      BY DEF RequestsOK
  <2>1. request[j] \in Request /\ Sound(request[j]) /\ Mine(j)
      BY <1>0 DEF TypeOK, RequestsOK
  <2> DEFINE r == request[j]
  <2>2. Sound(request[j])'
    <3>1. \A q \in Request : Sound(q) => Sound(q)'
        BY <1>0, <1>1, SoundPersists
    <3> QED
        BY <2>1, <3>1
  <2>3. Mine(j)'
      BY <2>1 DEF Mine
  <2> QED
      BY <2>2, <2>3
<1> QED
    BY <1>3, <1>4, <1>5, <1>6, <1>7 DEF IInv

\* Store, of a request made from the version that is the newest.
LEMMA StoreStep ==
    ASSUME IInv, NEW i \in Requests, NEW rest \in BOOLEAN, Store(i, rest),
           UNCHANGED <<kind, cache, fetch, view, page>>,
           NEW r \in Request, r = request[i], NEW o \in Objects, o = r.to,
           r.at \in {"sent", "read"},
           kind = "manifest" => r.at = "sent" /\ r.rv = Len(hist[o]),
           kind = "form" => rest = Current(o).rest
    PROVE  IInv'
<1> DEFINE v == [by |-> "page", base |-> r.base, data |-> r.data, rest |-> rest]
           same == Current(o).data = v.data /\ Current(o).rest = v.rest
<1>1. /\ v \in Version /\ v.by = "page" /\ v.base = r.base /\ v.data = r.data /\ v.rest = rest
      /\ Sound(r) /\ Mine(i) /\ request \in [Requests -> Request]
      /\ Len(hist[o]) \in 1..MaxVersion /\ hist[o] \in Seq(Version)
    BY DEF IInv, TypeOK, RequestsOK, Request, Version
<1>2. /\ ~same => Len(hist[o]) < MaxVersion
      /\ hist' = IF same THEN hist ELSE [hist EXCEPT ![o] = Append(@, v)]
      /\ request' = [request EXCEPT ![i].at = "ok", ![i].rv = Len(hist'[o])]
    BY DEF Store
<1>3. kind = "manifest" => Own(o, r.base, Len(hist[o]))
    BY <1>1 DEF Sound
<1>4. CASE same
  <2>1. PICK n \in Versions : n = Len(hist[o])
      BY <1>1
  <2> DEFINE q == [r EXCEPT !.at = "ok", !.rv = n]
  <2>2. /\ q \in Request /\ q.at = "ok" /\ q.rv = n /\ q.to = o /\ q.base = r.base
        /\ q.data = r.data /\ q.dry = r.dry
    <3>1. "ok" \in RequestAt
        BY DEF RequestAt
    <3>2. q \in Request
        BY <2>1, <3>1, WithVersion
    <3>3. q.at = "ok" /\ q.rv = n /\ q.to = r.to /\ q.base = r.base /\ q.data = r.data /\ q.dry = r.dry
        BY DEF Request
    <3> QED
        BY <3>2, <3>3
  <2>3. hist' = hist /\ request' = [request EXCEPT ![i] = q]
      BY <1>1, <1>2, <1>4, <2>1
  <2>4. hist[o][n].data = r.data
      BY <1>1, <1>4, <2>1 DEF Current
  <2> HIDE DEF q
  <2>5. Sound(q)
      BY <1>1, <1>3, <2>1, <2>2, <2>4 DEF Sound
  <2>6. kind = "manifest" /\ page.req = i => q.to = page.from /\ q.base <= page.base
      BY <1>1, <2>2 DEF Mine
  <2> QED
      BY <2>2, <2>3, <2>5, <2>6, AnswerStep
<1>5. CASE ~same
  <2>1. hist' = [hist EXCEPT ![o] = Append(@, v)] /\ Len(hist[o]) < MaxVersion
      BY <1>2, <1>5
  <2>2. v.by = "page" => /\ kind = "manifest" => Own(o, v.base, Len(hist[o]))
                         /\ kind = "form" => v.rest = Current(o).rest
      BY <1>3
  <2> HIDE DEF v
  <2>3. /\ Grows /\ hist' \in [Objects -> Seq(Version)] /\ Len(hist'[o]) \in 1..MaxVersion
        /\ Len(hist'[o]) = Len(hist[o]) + 1 /\ hist'[o][Len(hist[o]) + 1] = v
    <3>1. TypeOK /\ kind' = kind /\ v \in Version
        BY <1>1 DEF IInv
    <3> QED
        BY <2>1, <3>1, AppendGrows, ZenonT(40)
  <2>4. PICK k \in Nat : k = Len(hist[o])
      BY <1>1
  <2> DEFINE q == [r EXCEPT !.at = "ok", !.rv = k + 1]
  <2>5. /\ q \in Request /\ q.at = "ok" /\ q.rv = k + 1 /\ q.to = o /\ q.base = r.base
        /\ q.data = r.data /\ q.dry = r.dry
    <3>1. k + 1 \in Versions /\ "ok" \in RequestAt
        BY <2>3, <2>4 DEF RequestAt
    <3>2. q \in Request
        BY <3>1, WithVersion
    <3>3. q.at = "ok" /\ q.rv = k + 1 /\ q.to = r.to /\ q.base = r.base /\ q.data = r.data /\ q.dry = r.dry
        BY DEF Request
    <3> QED
        BY <3>2, <3>3
  <2>6. request' = [request EXCEPT ![i] = q]
      BY <1>1, <1>2, <2>3, <2>4
  <2> HIDE DEF q
  <2>7. /\ request' \in [Requests -> Request] /\ request'[i] = q
        /\ \A j \in Requests \ {i} : request'[j] = request[j]
      BY <1>1, <2>5, <2>6
  <2>8. kind = "manifest" => Own(o, r.base, k + 1)'
    <3>1. kind = "manifest" => Own(o, r.base, k)'
      <4>1. TypeOK /\ r.base \in Nat /\ hist'[o] \in Seq(Version) /\ Len(hist'[o]) \in Nat
          BY <2>3 DEF IInv, Request
      <4>2. k \in 0..Len(hist[o])
          BY <1>1, <2>4
      <4>3. kind = "manifest" => Own(o, r.base, k)
          BY <1>3, <2>4
      <4>4. ASSUME Own(o, r.base, k) PROVE Own(o, r.base, k)'
          BY <2>3, <4>1, <4>2, <4>4, OwnPersists
      <4> QED
          BY <4>3, <4>4
    <3>2. DOMAIN hist'[o] = 1..(k + 1) /\ hist'[o][k + 1].by = "page"
        BY <1>1, <2>3, <2>4
    <3> QED
        BY <3>1, <3>2 DEF Own
  <2>9. Sound(q)'
      BY <1>1, <2>3, <2>4, <2>5, <2>8 DEF Sound, Own
  <2>10. (Sound(request[i]) /\ Mine(i))'
      BY <1>1, <2>5, <2>7, <2>9 DEF Sound, Mine, Own
  <2> QED
      BY <1>1, <2>1, <2>2, <2>7, <2>10, WriteStep
<1> QED
    BY <1>4, <1>5

LEMMA ApplyManifestStep == ASSUME IInv, NEW i \in Requests, ApplyManifest(i) PROVE IInv'
<1> DEFINE r == request[i]
<1>1. /\ r \in Request /\ Sound(r) /\ Mine(i) /\ r.at = "sent" /\ kind = "manifest"
      /\ r.to \in Objects /\ request \in [Requests -> Request]
      /\ UNCHANGED <<kind, cache, fetch, view, page>>
    BY DEF IInv, TypeOK, RequestsOK, Sound, ApplyManifest
<1>2. CASE r.rv # Len(hist[r.to])
  <2> DEFINE q == [NoRequest EXCEPT !.at = "conflict"]
  <2>1. q \in Request /\ q.at = "conflict"
      BY Constants, WithAt DEF RequestAt
  <2>2. hist' = hist /\ request' = [request EXCEPT ![i] = q]
      BY <1>2 DEF ApplyManifest, Refused
  <2> HIDE DEF q
  <2> QED
      BY <1>1, <2>1, <2>2, AnswerStep DEF Sound
<1>3. CASE r.rv = Len(hist[r.to]) /\ r.dry
  <2> DEFINE q == [r EXCEPT !.at = "ok"]
  <2>1. /\ q \in Request /\ q.at = "ok" /\ q.rv = r.rv /\ q.to = r.to /\ q.base = r.base /\ q.dry
      BY <1>1, <1>3 DEF Request
  <2>2. hist' = hist /\ request' = [request EXCEPT ![i] = q]
      BY <1>1, <1>3 DEF ApplyManifest, Answered
  <2>3. Sound(q) /\ (page.req = i => q.to = page.from /\ q.base <= page.base)
      BY <1>1, <2>1 DEF Sound, Mine
  <2> HIDE DEF q
  <2> QED
      BY <1>1, <2>1, <2>2, <2>3, AnswerStep
<1>4. CASE r.rv = Len(hist[r.to]) /\ ~r.dry
  <2>1. Store(i, FALSE)
      BY <1>4 DEF ApplyManifest
  <2> QED
      BY <1>1, <1>4, <2>1, StoreStep
<1> QED
    BY <1>2, <1>3, <1>4

LEMMA FormSteps ==
    ASSUME IInv, NEW i \in Requests, GetForUpdate(i) \/ UpdateConfigMap(i) PROVE IInv'
<1> DEFINE r == request[i]
<1>1. /\ r \in Request /\ Sound(r) /\ kind = "form" /\ r.at \in {"sent", "read"}
      /\ r.to \in Objects /\ request \in [Requests -> Request]
      /\ UNCHANGED <<kind, cache, fetch, view, page>>
      /\ Len(hist[r.to]) \in 1..MaxVersion /\ hist[r.to] \in Seq(Version)
    BY DEF IInv, TypeOK, RequestsOK, Sound, GetForUpdate, UpdateConfigMap
<1>2. CASE GetForUpdate(i)
  <2> DEFINE q == [r EXCEPT !.at = "read", !.rv = Len(hist[r.to]), !.rest = Current(r.to).rest]
  <2>1. Current(r.to).rest \in BOOLEAN
    <3>1. Current(r.to) \in Version
        BY <1>1 DEF Current
    <3> QED
        BY <3>1 DEF Version
  <2>2. /\ q \in Request /\ q.at = "read" /\ q.rv = Len(hist[r.to]) /\ q.to = r.to
        /\ q.rest = Current(r.to).rest
    <3> DEFINE rest == Current(r.to).rest
               n == Len(hist[r.to])
    <3>1. r \in Request /\ rest \in BOOLEAN /\ n \in Versions
        BY <1>1, <2>1
    <3> HIDE DEF rest, n
    <3>2. LET x == [r EXCEPT !.at = "read", !.rv = n, !.rest = rest]
          IN x \in Request /\ x.at = "read" /\ x.rv = n /\ x.to = r.to /\ x.rest = rest
        BY <3>1 DEF Request
    <3> QED
        BY <3>2 DEF rest, n
  <2>3. hist' = hist /\ request' = [request EXCEPT ![i] = q]
      BY <1>1, <1>2 DEF GetForUpdate
  <2>4. Sound(q)
      BY <1>1, <2>2 DEF Sound, Current
  <2> HIDE DEF q
  <2> QED
      BY <1>1, <2>2, <2>3, <2>4, AnswerStep
<1>3. CASE UpdateConfigMap(i) /\ r.rv # Len(hist[r.to])
  <2> DEFINE q == [NoRequest EXCEPT !.at = "conflict"]
  <2>1. q \in Request /\ q.at = "conflict"
      BY Constants, WithAt DEF RequestAt
  <2>2. hist' = hist /\ request' = [request EXCEPT ![i] = q]
      BY <1>3 DEF UpdateConfigMap, Refused
  <2> HIDE DEF q
  <2> QED
      BY <1>1, <2>1, <2>2, AnswerStep DEF Sound
<1>4. CASE UpdateConfigMap(i) /\ r.rv = Len(hist[r.to])
  <2>1. Store(i, r.rest) /\ r.at = "read"
      BY <1>4 DEF UpdateConfigMap
  <2>2. r.rest = Current(r.to).rest /\ r.rest \in BOOLEAN
      BY <1>1, <1>4, <2>1 DEF Sound, Current, Request
  <2> QED
      BY <1>1, <2>1, <2>2, StoreStep
<1> QED
    BY <1>2, <1>3, <1>4

LEMMA RefuseStep == ASSUME IInv, NEW i \in Requests, Refuse(i) PROVE IInv'
<1>1. PICK result \in {"error", "rejected"} : Refused(i, result)
    BY DEF Refuse
<1> DEFINE q == [NoRequest EXCEPT !.at = result]
<1>2. q \in Request /\ q.at \in {"error", "rejected"}
  <2>1. result \in RequestAt
      BY DEF RequestAt
  <2> QED
      BY <2>1, Constants, WithAt
<1>3. request' = [request EXCEPT ![i] = q] /\ UNCHANGED <<kind, hist, cache, fetch, view, page>>
    BY <1>1 DEF Refused, Refuse
<1> HIDE DEF q
<1> QED
    BY <1>2, <1>3, AnswerStep DEF Sound

LEMMA OtherWritesStep == ASSUME IInv, NEW o \in Objects, OtherWrites(o) PROVE IInv'
<1>1. Len(hist[o]) \in Nat /\ request \in [Requests -> Request]
    BY DEF IInv, TypeOK
<1>2. PICK d \in Data \ Invalid, r \in BOOLEAN :
        hist' = [hist EXCEPT ![o] = Append(@,
                   [by |-> "other", base |-> Len(@), data |-> d, rest |-> r])]
    BY DEF OtherWrites
<1> DEFINE v == [by |-> "other", base |-> Len(hist[o]), data |-> d, rest |-> r]
<1>3. /\ hist' = [hist EXCEPT ![o] = Append(@, v)] /\ Len(hist[o]) < MaxVersion
      /\ UNCHANGED <<kind, cache, fetch, view, page, request>>
    BY <1>2 DEF OtherWrites, IInv, TypeOK
<1>4. v \in Version /\ v.by = "other"
    BY <1>1, <1>3 DEF Version
<1> HIDE DEF v
<1> QED
    BY <1>1, <1>3, <1>4, WriteStep

-----------------------------------------------------------------------------
\* An answer reaches the page.
LEMMA RespondStep == ASSUME IInv, NEW i \in Requests, Respond(i) PROVE IInv'
<1> DEFINE r == request[i]
           q == [NoRequest EXCEPT !.at = "done"]
<1>1. /\ r \in Request /\ Sound(r) /\ Mine(i) /\ page \in Page
      /\ request \in [Requests -> Request] /\ fetch \in [Objects -> Fetch]
      /\ r.at \in {"ok", "conflict", "rejected", "error"}
      /\ UNCHANGED <<kind, hist, cache, view>> /\ page' = Notified(i)
    BY DEF IInv, TypeOK, RequestsOK, Respond
<1>2. q \in Request /\ q.at = "done" /\ request' = [request EXCEPT ![i] = q]
    BY Constants, WithAt DEF RequestAt, Respond
<1>3. /\ request' \in [Requests -> Request] /\ request'[i] = q
      /\ \A j \in Requests \ {i} : request'[j] = request[j]
    BY <1>1, <1>2
<1>4. /\ fetch' \in [Objects -> Fetch]
      /\ \A o \in Objects : fetch'[o] = fetch[o] \/ fetch'[o].at # "answered"
      /\ kind = "manifest" => fetch' = fetch
    BY <1>1, Constants DEF Respond, Refetch, Sent, Sound
<1> DEFINE loads == kind = "manifest" /\ page.req = i /\ r.at = "ok" /\ ~r.dry
<1>5. /\ page' \in Page /\ page'.from = page.from /\ page'.base = page.base
      /\ page'.dialog = page.dialog /\ page'.req \in {0, page.req}
      /\ page.req = i => page'.req = 0
      /\ loads => page'.rv = r.rv /\ page'.orig = r.data
      /\ ~loads => page'.rv = page.rv /\ page'.orig = page.orig
  <2>1. r.data \in Data /\ r.rv \in Versions /\ kind \in {"form", "manifest"}
      BY <1>1 DEF Request, IInv, TypeOK
  <2>2. CASE page.req # i
      BY <1>1, <2>2 DEF Notified
  <2>3. CASE page.req = i /\ ~loads
    <3>1. PICK status \in {"idle", "dryRun", "rejected", "conflict", "error"}, saved \in BOOLEAN :
            page' = [page EXCEPT !.status = status, !.saved = saved, !.req = 0]
      <4>1. \/ \E status \in {"idle", "dryRun", "rejected", "conflict", "error"} :
                  page' = [page EXCEPT !.status = status, !.req = 0]
            \/ page' = [page EXCEPT !.status = "idle", !.saved = TRUE, !.req = 0]
          BY <1>1, <2>1, <2>3 DEF Notified, Saved, Applied, Page
      <4>2. \A status : [page EXCEPT !.status = status, !.req = 0]
                         = [page EXCEPT !.status = status, !.saved = page.saved, !.req = 0]
          BY <1>1 DEF Page
      <4>3. page.saved \in BOOLEAN
          BY <1>1 DEF Page
      <4>4. CASE \E status \in {"idle", "dryRun", "rejected", "conflict", "error"} :
                    page' = [page EXCEPT !.status = status, !.req = 0]
        <5>1. PICK status \in {"idle", "dryRun", "rejected", "conflict", "error"} :
                page' = [page EXCEPT !.status = status, !.req = 0]
            BY <4>4
        <5>2. page' = [page EXCEPT !.status = status, !.saved = page.saved, !.req = 0]
            BY <4>2, <5>1, Zenon
        <5> QED
            BY <4>3, <5>2
      <4>5. CASE page' = [page EXCEPT !.status = "idle", !.saved = TRUE, !.req = 0]
          BY <4>5
      <4> QED
          BY <4>1, <4>4, <4>5
    <3>2. /\ page'.from = page.from /\ page'.base = page.base /\ page'.rv = page.rv
          /\ page'.orig = page.orig /\ page'.dialog = page.dialog /\ page'.req = 0
        BY <1>1, <3>1 DEF Page
    <3>3. page' \in Page
      <4>1. status \in {"idle", "dryRun", "applied", "rejected", "conflict", "error"}
          BY <3>1
      <4> QED
        <5>1. page \in Page /\ status \in {"idle", "dryRun", "applied", "rejected", "conflict", "error"}
              /\ saved \in BOOLEAN
            BY <1>1, <3>1, <4>1
        <5>2. [page EXCEPT !.status = status, !.saved = saved, !.req = 0] \in Page
            BY <5>1, WithStatus, Zenon
        <5> QED
            BY <3>1, <5>2
    <3> QED
        BY <2>3, <3>2, <3>3
  <2>4. CASE page.req = i /\ loads
    <3>1. page' = [page EXCEPT !.status = "applied", !.orig = r.data, !.rv = r.rv, !.req = 0]
        BY <1>1, <2>4 DEF Notified, Applied, Page
    <3>2. 0 \in 0..MaxRequests
        OBVIOUS
    <3>3. page' \in Page
      <4>1. page \in Page /\ r.data \in Data /\ r.rv \in Versions
          BY <1>1, <2>1
      <4> HIDE DEF r
      <4> QED
          BY ONLY <3>1, <3>2, <4>1 DEF Page
    <3>4. /\ page'.from = page.from /\ page'.base = page.base /\ page'.rv = r.rv
          /\ page'.orig = r.data /\ page'.dialog = page.dialog /\ page'.req = 0
        BY <1>1, <3>1 DEF Page
    <3> QED
        BY <2>4, <3>3, <3>4
  <2> QED
      BY <2>2, <2>3, <2>4
<1> HIDE DEF q
<1>6. TypeOK' /\ HistOK' /\ FetchOK'
    BY <1>1, <1>3, <1>4, <1>5, HistSame DEF IInv, TypeOK, FetchOK
<1>7. PageOK'
  <2>1. /\ page.from \in Objects \cup {NoObject} /\ page.base \in Nat
        /\ loads => r.to = page.from /\ r.to \in Objects /\ r.base \in Nat /\ r.base <= page.base
                    /\ r.rv \in 1..Len(hist[r.to]) /\ Own(r.to, r.base, r.rv)
                    /\ hist[r.to][r.rv].data = r.data
      BY <1>1 DEF Sound, Mine, Page, Request
  <2> DEFINE o == page.from
  <2>2. ASSUME kind = "manifest", o \in Objects PROVE LoadedOK(o)'
    <3>1. LoadedOK(o)
        BY <2>2 DEF IInv, PageOK
    <3>2. CASE loads
        BY <1>1, <1>4, <1>5, <2>1, <2>2, <3>1, <3>2 DEF LoadedOK, Own
    <3>3. CASE ~loads
        BY <1>1, <1>4, <1>5, <2>2, <3>1, <3>3 DEF LoadedOK, Own
    <3> QED
        BY <3>2, <3>3
  <2>3. page.req = i /\ r.at = "ok" /\ kind = "manifest" /\ ~r.dry => r.rv # 0
      BY <1>1 DEF Sound
  <2> QED
      BY <1>1, <1>5, <2>1, <2>2, <2>3 DEF IInv, PageOK
<1>8. RequestsOK'
  <2>1. ASSUME NEW j \in Requests PROVE Sound(request[j])' /\ Mine(j)'
    <3>1. Sound(request[j]) /\ Mine(j)
        BY DEF IInv, RequestsOK
    <3>2. CASE j = i
        BY <1>2, <1>3, <3>2 DEF Sound, Mine
    <3>3. CASE j # i
      <4>1. Sound(request[j])'
          BY <1>1, <1>3, <3>1, <3>3 DEF Sound, Own
      <4>2. Mine(j)'
          BY <1>1, <1>3, <1>5, <3>1, <3>3 DEF Mine
      <4> QED
          BY <4>1, <4>2
    <3> QED
        BY <3>2, <3>3
  <2> QED
      BY <2>1 DEF RequestsOK
<1> QED
    BY <1>6, <1>7, <1>8 DEF IInv

-----------------------------------------------------------------------------
LEMMA NextInv == IInv /\ [Next]_vars => IInv'
<1> SUFFICES ASSUME IInv, [Next]_vars PROVE IInv'
    OBVIOUS
<1>1. CASE UNCHANGED vars
  <2>1. Quiet
      BY <1>1 DEF vars, IInv, TypeOK, Quiet
  <2> QED
      BY <2>1, QuietStep
<1>2. ASSUME \/ \E o \in Objects : Poll(o) \/ ServerReads(o) \/ FetchFails(o) \/ Evict(o)
             \/ CloseForm \/ UpdateEntry \/ AddOrRemoveEntry \/ ReloadForm
             \/ EditorChange \/ ReloadClean \/ ReloadConflict \/ ReloadConfirmed
             \/ AskReload \/ Ask \/ Cancel
      PROVE  IInv'
    BY <1>2, QuietSteps, QuietStep DEF IInv
<1>3. ASSUME NEW o \in Objects, Arrive(o) \/ OpenForm(o) \/ OpenManifest(o) \/ OtherWrites(o)
      PROVE  IInv'
    BY <1>3, ArriveStep, OpenStep, OtherWritesStep
<1>4. CASE CloseManifest \/ Confirm \/ DryRun
    BY <1>4, CloseManifestStep, SendStep
<1>5. ASSUME NEW i \in Requests,
             \/ ApplyManifest(i) \/ GetForUpdate(i) \/ UpdateConfigMap(i) \/ Refuse(i)
             \/ Respond(i)
      PROVE  IInv'
    BY <1>5, ApplyManifestStep, FormSteps, RefuseStep, RespondStep
<1> QED
    BY <1>1, <1>2, <1>3, <1>4, <1>5 DEF Next

LEMMA InvariantHolds == Spec => []IInv
BY InitInv, NextInv, PTL DEF Spec

-----------------------------------------------------------------------------
\* Versions, queries, page and requests stay in their types (Editors.tla).
THEOREM TypeCorrect == Spec => []TypeOK
<1>1. IInv => TypeOK
    BY DEF IInv
<1> QED
    BY <1>1, InvariantHolds, PTL

\* No apply of the YAML editor replaces what somebody else has stored since its text was
\* loaded, however reloads, answers and closed sheets interleave (ManifestEditor.tsx,
\* manifest.go).
THEOREM ManifestIsSafe == Spec => []ManifestKeepsOthers
<1>1. IInv => ManifestKeepsOthers
  <2> SUFFICES ASSUME IInv, kind = "manifest", NEW o \in Objects, NEW n \in DOMAIN hist[o],
                      hist[o][n].by = "page", NEW m \in DOMAIN hist[o],
                      hist[o][n].base < m, m < n
               PROVE  hist[o][m].by = "page"
      BY DEF ManifestKeepsOthers, NoLostUpdate
  <2>1. hist[o] \in Seq(Version) /\ n \in 1..Len(hist[o]) /\ m \in Nat
      BY DEF IInv, TypeOK
  <2>2. Own(o, hist[o][n].base, n - 1)
      BY <2>1 DEF IInv, HistOK, VersionOK
  <2> QED
      BY <2>1, <2>2 DEF Own
<1> QED
    BY <1>1, InvariantHolds, PTL

\* The version that the YAML editor sends is that of the text it compares with
\* (ManifestEditor.tsx:64-79, 104-116).
THEOREM VersionOfText == Spec => []VersionIsOriginal
<1>1. IInv => VersionIsOriginal
    BY DEF IInv, PageOK, LoadedOK, VersionIsOriginal
<1> QED
    BY <1>1, InvariantHolds, PTL

\* UpdateConfigMap keeps what the form does not show (configmaps.go:121-132).
THEOREM FormKeepsRest == Spec => []RestSurvives
<1>1. IInv => RestSurvives
  <2> SUFFICES ASSUME IInv, kind = "form", NEW o \in Objects, NEW n \in DOMAIN hist[o],
                      hist[o][n].by = "page"
               PROVE  hist[o][n].rest = hist[o][n - 1].rest
      BY DEF RestSurvives
  <2>1. n \in 1..Len(hist[o])
      BY DEF IInv, TypeOK
  <2> QED
      BY <2>1 DEF IInv, HistOK, VersionOK
<1> QED
    BY <1>1, InvariantHolds, PTL

=============================================================================
