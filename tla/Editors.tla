------------------------------- MODULE Editors -------------------------------
(***************************************************************************)
(* The two editors of a Kubernetes object in the browser: the key/value    *)
(* form of web/src/components/k8s/ConfigMapDetail.tsx ("form") and the     *)
(* YAML editor of ManifestEditor.tsx ("manifest"), over the queries and    *)
(* mutations of web/src/lib/k8s.ts and the handlers of internal/k8s.       *)
(* Other people, and other tabs, write the same objects.                   *)
(*                                                                         *)
(* Abstractions: the contents of an object is a member of Data; the form   *)
(* edits data and not the rest (labels, binary data), the YAML is all of   *)
(* it.  A resourceVersion is the number of a version.  The query library   *)
(* keeps one answer and at most one request per object; an answer equal to *)
(* the one it has keeps the old reference, so that no effect runs.         *)
(***************************************************************************)
EXTENDS Naturals, Sequences

CONSTANTS
    Kinds,         \* the editors under consideration
    Objects, NoObject,
    Data,          \* contents: what the user or another writer may type
    Empty,         \* no keys; no text
    Invalid,       \* contents with duplicate or malformed keys
    MaxRequests,   \* bound: changes sent by the page
    MaxVersion     \* bound: versions of an object

ASSUME EditorsAssumption ==
    /\ Kinds \subseteq {"form", "manifest"}
    /\ NoObject \notin Objects
    /\ Empty \in Data
    /\ Invalid \subseteq Data \ {Empty}
    /\ MaxRequests \in Nat
    /\ MaxVersion \in Nat \ {0}

VARIABLES
    kind,
    hist,     \* the versions of each object
    cache,    \* the last answer of each object's query
    fetch,    \* the request of that query
    view,     \* the object whose sheet is open
    page,     \* the state of the component
    request   \* the mutations, in the order they were sent

vars == <<kind, hist, cache, fetch, view, page, request>>

-----------------------------------------------------------------------------
Requests == 1..MaxRequests
Versions == 0..MaxVersion

\* base is the version whose contents the writer had loaded.
Version == [by: {"page", "other"}, base: Versions, data: Data, rest: BOOLEAN]

Fetch == [at: {"none", "sent", "answered"}, ver: Versions]
NoFetch == [at |-> "none", ver |-> 0]
Sent    == [at |-> "sent", ver |-> 0]

\* data, orig: entries and originalJson, editedYAML and originalYAML.  from, base: the
\* version they were loaded from.  req: the mutation that is pending.
Page == [data: Data, orig: Data, loaded: BOOLEAN,
         from: Objects \cup {NoObject}, base: Versions, rv: Versions,
         status: {"idle", "dryRun", "applied", "rejected", "conflict", "error"},
         saved: BOOLEAN,
         dialog: {"none", "confirm", "reload"},
         req: 0..MaxRequests]

NewPage == [data |-> Empty, orig |-> Empty, loaded |-> FALSE,
            from |-> NoObject, base |-> 0, rv |-> 0,
            status |-> "idle", saved |-> FALSE, dialog |-> "none", req |-> 0]

Request == [at: {"none", "sent", "read", "ok", "conflict", "rejected", "error", "done"},
            to: Objects \cup {NoObject}, base: Versions, data: Data,
            dry: BOOLEAN, rv: Versions, rest: BOOLEAN]

NoRequest == [at |-> "none", to |-> NoObject, base |-> 0, data |-> Empty,
              dry |-> FALSE, rv |-> 0, rest |-> FALSE]

TypeOK ==
    /\ kind \in Kinds
    /\ hist \in [Objects -> Seq(Version)]
    /\ \A o \in Objects : Len(hist[o]) \in 1..MaxVersion
    /\ cache \in [Objects -> Versions]
    /\ fetch \in [Objects -> Fetch]
    /\ view \in Objects \cup {NoObject}
    /\ page \in Page
    /\ request \in [Requests -> Request]

Init ==
    /\ kind \in Kinds
    /\ \E d \in [Objects -> Data \ Invalid] :
          hist = [o \in Objects |-> <<[by |-> "other", base |-> 0, data |-> d[o], rest |-> FALSE]>>]
    /\ cache = [o \in Objects |-> 0]
    /\ fetch = [o \in Objects |-> NoFetch]
    /\ view = NoObject
    /\ page = NewPage
    /\ request = [i \in Requests |-> NoRequest]

-----------------------------------------------------------------------------
Current(o) == hist[o][Len(hist[o])]
Loading(o) == fetch[o].at # "none"

\* GetConfigMap tells neither version nor writer; the manifest has its version.
Same(o, m, n) ==
    /\ m # 0 /\ n # 0
    /\ IF kind = "manifest" THEN m = n
       ELSE hist[o][m].data = hist[o][n].data /\ hist[o][m].rest = hist[o][n].rest

\* The effects on [detail] and [manifestQ.data].
Load(p, o, n) ==
    LET d     == hist[o][n].data
        shown == [p EXCEPT !.data = d, !.orig = d, !.loaded = TRUE, !.from = o, !.base = n]
    IN  [shown EXCEPT !.rv = IF kind = "manifest" THEN n ELSE 0,
                      !.status = "idle", !.saved = FALSE]

\* originalJson is '' until the first answer, which no contents of the form equals.
Dirty == page.data # page.orig \/ (kind = "form" /\ ~page.loaded)

Pending == page.req # 0

\* refetch() starts anew, unless the first answer is still being waited for.
Refetch(o) ==
    fetch' = [fetch EXCEPT ![o] = IF cache[o] = 0 /\ Loading(o) THEN @ ELSE Sent]

FetchIfIdle(o) == fetch' = [fetch EXCEPT ![o] = IF Loading(o) THEN @ ELSE Sent]

-----------------------------------------------------------------------------
\* The queries.

\* The first request when the sheet opens; later ones of the form every 10 s.
Poll(o) ==
    /\ kind = "form" /\ view = o /\ ~Loading(o)
    /\ fetch' = [fetch EXCEPT ![o] = Sent]
    /\ UNCHANGED <<kind, hist, cache, view, page, request>>

\* GetConfigMap, GetManifest.
ServerReads(o) ==
    /\ fetch[o].at = "sent"
    /\ fetch' = [fetch EXCEPT ![o] =
          [at |-> "answered", ver |-> Len(hist[o])]]
    /\ UNCHANGED <<kind, hist, cache, view, page, request>>

\* Mutant: an answer does not replace contents the user has changed.
ArriveKeepsEdits(o) ==
    /\ fetch[o].at = "answered"
    /\ LET n == fetch[o].ver
       IN /\ cache' = [cache EXCEPT ![o] = IF Same(o, @, n) THEN @ ELSE n]
          /\ page' = IF view = o /\ ~Same(o, cache[o], n) /\ ~(Dirty /\ page.loaded)
                     THEN Load(page, o, n) ELSE page
    /\ fetch' = [fetch EXCEPT ![o] = NoFetch]
    /\ UNCHANGED <<kind, hist, view, request>>

Arrive(o) ==
    /\ fetch[o].at = "answered"
    /\ LET n == fetch[o].ver
       IN /\ cache' = [cache EXCEPT ![o] = IF Same(o, @, n) THEN @ ELSE n]
          /\ page' = IF view = o /\ ~Same(o, cache[o], n) THEN Load(page, o, n) ELSE page
    /\ fetch' = [fetch EXCEPT ![o] = NoFetch]
    /\ UNCHANGED <<kind, hist, view, request>>

\* The query keeps the data it has.
FetchFails(o) ==
    /\ Loading(o)
    /\ fetch' = [fetch EXCEPT ![o] = NoFetch]
    /\ UNCHANGED <<kind, hist, cache, view, page, request>>

\* Five minutes after the last component that used it.
Evict(o) ==
    /\ cache[o] # 0 /\ view # o /\ ~Loading(o)
    /\ cache' = [cache EXCEPT ![o] = 0]
    /\ UNCHANGED <<kind, hist, fetch, view, page, request>>

-----------------------------------------------------------------------------
\* The user.

\* The sheet opens: its query is enabled, and the effect runs on cached data.
OpenForm(o) ==
    /\ kind = "form" /\ view = NoObject
    /\ view' = o
    /\ page' = IF cache[o] # 0 THEN Load(page, o, cache[o]) ELSE page
    /\ FetchIfIdle(o)
    /\ UNCHANGED <<kind, hist, cache, request>>

\* The YAML editor is mounted for one object, and a manifest is never stale.
OpenManifest(o) ==
    /\ kind = "manifest" /\ view = NoObject /\ page.from \in {o, NoObject}
    /\ view' = o
    /\ page' = IF cache[o] # 0 THEN Load(page, o, cache[o])
               ELSE [page EXCEPT !.from = o, !.status = "idle"]
    /\ IF cache[o] = 0 THEN FetchIfIdle(o) ELSE UNCHANGED fetch
    /\ UNCHANGED <<kind, hist, cache, request>>

\* The form stays mounted whatever is opened next.
CloseForm ==
    /\ kind = "form" /\ view # NoObject /\ page.dialog = "none"
    /\ view' = NoObject
    /\ UNCHANGED <<kind, hist, cache, fetch, page, request>>

\* The YAML editor is unmounted with the sheet it was opened from; what it has sent
\* goes on, and nobody listens.
CloseManifest ==
    /\ kind = "manifest" /\ view # NoObject /\ page.dialog = "none"
    /\ view' = NoObject
    /\ page' \in {page, NewPage}
    /\ UNCHANGED <<kind, hist, cache, fetch, request>>

Typing == view # NoObject /\ page.dialog = "none"

\* updateEntry, in the table, which is shown once there is data.
UpdateEntry ==
    /\ kind = "form" /\ Typing /\ cache[view] # 0
    /\ \E d \in Data \ {page.data} :
          page' = [page EXCEPT !.data = d, !.saved = FALSE,
                               !.status = IF @ = "error" THEN "idle" ELSE @]
    /\ UNCHANGED <<kind, hist, cache, fetch, view, request>>

\* addEntry and removeEntry leave standing what was said of the contents before.
AddOrRemoveEntry ==
    /\ kind = "form" /\ Typing /\ cache[view] # 0
    /\ \E d \in Data \ {page.data} : page' = [page EXCEPT !.data = d]
    /\ UNCHANGED <<kind, hist, cache, fetch, view, request>>

\* handleEditorChange; the editor is there before its text.
EditorChange ==
    /\ kind = "manifest" /\ Typing
    /\ \E d \in Data \ {page.data} :
          page' = [page EXCEPT !.data = d,
                               !.status = IF @ \in {"dryRun", "applied"} THEN "idle" ELSE @]
    /\ UNCHANGED <<kind, hist, cache, fetch, view, request>>

ReloadForm ==
    /\ kind = "form" /\ view # NoObject /\ page.dialog = "none"
    /\ Refetch(view)
    /\ UNCHANGED <<kind, hist, cache, view, page, request>>

\* triggerReload.
TriggerReload ==
    /\ kind = "manifest" /\ view # NoObject
    /\ Refetch(view)
    /\ page' = [page EXCEPT !.dialog = "none", !.status = "idle"]
    /\ UNCHANGED <<kind, hist, cache, view, request>>

\* The button in the header asks first when there are changes; that of the conflict
\* notice does not.
ReloadClean == Typing /\ ~Pending /\ ~Loading(view) /\ ~Dirty /\ TriggerReload
ReloadConflict == Typing /\ page.status = "conflict" /\ TriggerReload
ReloadConfirmed == page.dialog = "reload" /\ TriggerReload

AskReload ==
    /\ kind = "manifest" /\ view # NoObject /\ page.dialog = "none"
    /\ ~Pending /\ ~Loading(view) /\ Dirty
    /\ page' = [page EXCEPT !.dialog = "reload"]
    /\ UNCHANGED <<kind, hist, cache, fetch, view, request>>

CanSave ==
    /\ view # NoObject /\ page.dialog = "none"
    /\ ~Pending /\ Dirty
    /\ IF kind = "form" THEN page.data \notin Invalid ELSE page.rv # 0

Ask ==
    /\ CanSave
    /\ page' = [page EXCEPT !.dialog = "confirm"]
    /\ UNCHANGED <<kind, hist, cache, fetch, view, request>>

Cancel ==
    /\ page.dialog # "none"
    /\ page' = [page EXCEPT !.dialog = "none"]
    /\ UNCHANGED <<kind, hist, cache, fetch, view, request>>

\* mutate with what the page holds now.  base counts only if the contents were loaded
\* from the object they are sent to.
Send(dry) ==
    \E i \in Requests :
        /\ request[i].at = "none" /\ \A j \in Requests : j < i => request[j].at # "none"
        /\ request' = [request EXCEPT ![i] =
              [at |-> "sent", to |-> view, data |-> page.data, dry |-> dry,
               base |-> IF page.from = view THEN page.base ELSE 0,
               rv |-> page.rv, rest |-> FALSE]]
        /\ page' = [page EXCEPT !.dialog = "none", !.req = i]

Confirm ==
    /\ view # NoObject /\ page.dialog = "confirm" /\ ~Pending
    /\ Send(FALSE)
    /\ UNCHANGED <<kind, hist, cache, fetch, view>>

DryRun ==
    /\ kind = "manifest" /\ CanSave
    /\ Send(TRUE)
    /\ UNCHANGED <<kind, hist, cache, fetch, view>>

-----------------------------------------------------------------------------
\* The server.

Answered(i, result) == request' = [request EXCEPT ![i].at = result]

Refused(i, result) == request' = [request EXCEPT ![i] = [NoRequest EXCEPT !.at = result]]

\* The API server stores a new version unless nothing changes.
Store(i, rest) ==
    LET r == request[i]
        o == r.to
        v == [by |-> "page", base |-> r.base, data |-> r.data, rest |-> rest]
        same == Current(o).data = v.data /\ Current(o).rest = v.rest
    IN /\ ~same => Len(hist[o]) < MaxVersion
       /\ hist' = IF same THEN hist ELSE [hist EXCEPT ![o] = Append(@, v)]
       /\ request' = [request EXCEPT ![i].at = "ok", ![i].rv = Len(hist'[o])]

\* Mutant: the YAML is stored whatever version it was made from.
ApplyManifestAnyway(i) ==
    /\ kind = "manifest" /\ request[i].at = "sent"
    /\ LET o == request[i].to
       IN IF request[i].dry THEN Answered(i, "ok") /\ UNCHANGED hist
          ELSE Store(i, FALSE)
    /\ UNCHANGED <<kind, cache, fetch, view, page>>

ApplyManifest(i) ==
    /\ kind = "manifest" /\ request[i].at = "sent"
    /\ LET o == request[i].to
       IN IF request[i].rv # Len(hist[o]) THEN Refused(i, "conflict") /\ UNCHANGED hist
          ELSE IF request[i].dry THEN Answered(i, "ok") /\ UNCHANGED hist
          ELSE Store(i, FALSE)
    /\ UNCHANGED <<kind, cache, fetch, view, page>>

\* UpdateConfigMap: Get, then Update with the version and the rest that Get returned.
GetForUpdate(i) ==
    /\ kind = "form" /\ request[i].at = "sent"
    /\ request' = [request EXCEPT ![i].at = "read",
                                  ![i].rv = Len(hist[request[i].to]),
                                  ![i].rest = Current(request[i].to).rest]
    /\ UNCHANGED <<kind, hist, cache, fetch, view, page>>

\* Mutant: the object is put without its version.
UpdateConfigMapAnyway(i) ==
    /\ kind = "form" /\ request[i].at = "read"
    /\ Store(i, request[i].rest)
    /\ UNCHANGED <<kind, cache, fetch, view, page>>

UpdateConfigMap(i) ==
    /\ kind = "form" /\ request[i].at = "read"
    /\ IF request[i].rv # Len(hist[request[i].to])
       THEN Refused(i, "conflict") /\ UNCHANGED hist
       ELSE Store(i, request[i].rest)
    /\ UNCHANGED <<kind, cache, fetch, view, page>>

\* Admission refuses it; or anything fails, the answer to a change that is stored too.
Refuse(i) ==
    /\ \/ request[i].at \in {"sent", "read", "ok"} /\ Refused(i, "error")
       \/ kind = "manifest" /\ request[i].at = "sent" /\ Refused(i, "rejected")
    /\ UNCHANGED <<kind, hist, cache, fetch, view, page>>

-----------------------------------------------------------------------------
\* The answer reaches the page.

\* A form that fails still shows that it was saved before.
Saved(p, r) ==
    IF r.at = "ok" THEN [p EXCEPT !.status = "idle", !.saved = TRUE]
    ELSE [p EXCEPT !.status = r.at]

\* Mutant: the text as it is now counts as applied, not the text that was sent.
AppliedCurrent(p, r) ==
    IF r.at # "ok" THEN [p EXCEPT !.status = r.at]
    ELSE IF r.dry THEN [p EXCEPT !.status = "dryRun"]
    ELSE [p EXCEPT !.status = "applied", !.orig = p.data, !.rv = r.rv]

Applied(p, r) ==
    IF r.at # "ok" THEN [p EXCEPT !.status = r.at]
    ELSE IF r.dry THEN [p EXCEPT !.status = "dryRun"]
    ELSE [p EXCEPT !.status = "applied", !.orig = r.data, !.rv = r.rv]

\* The callbacks of mutate, which run only while the component that called it lives.
Notified(i) ==
    IF page.req # i THEN page
    ELSE IF kind = "form" THEN [Saved(page, request[i]) EXCEPT !.req = 0]
    ELSE [Applied(page, request[i]) EXCEPT !.req = 0]

\* A saved form invalidates its query, which refetches if it is in use.  Nothing
\* invalidates the manifest.
Respond(i) ==
    LET o == request[i].to IN
    /\ request[i].at \in {"ok", "conflict", "rejected", "error"}
    /\ request' = [request EXCEPT ![i] = [NoRequest EXCEPT !.at = "done"]]
    /\ page' = Notified(i)
    /\ IF kind = "form" /\ request[i].at = "ok" /\ view = o THEN Refetch(o) ELSE UNCHANGED fetch
    /\ UNCHANGED <<kind, hist, cache, view>>

-----------------------------------------------------------------------------
\* Everybody else.

OtherWrites(o) ==
    /\ Len(hist[o]) < MaxVersion
    /\ \E d \in Data \ Invalid, r \in BOOLEAN :
          /\ kind = "manifest" => ~r
          /\ d # Current(o).data \/ r # Current(o).rest
          /\ hist' = [hist EXCEPT ![o] = Append(@,
                [by |-> "other", base |-> Len(@), data |-> d, rest |-> r])]
    /\ UNCHANGED <<kind, cache, fetch, view, page, request>>

Next ==
    \/ \E o \in Objects :
          \/ Poll(o) \/ ServerReads(o) \/ Arrive(o) \/ FetchFails(o) \/ Evict(o)
          \/ OpenForm(o) \/ OpenManifest(o)
          \/ OtherWrites(o)
    \/ CloseForm \/ UpdateEntry \/ AddOrRemoveEntry \/ ReloadForm
    \/ CloseManifest \/ EditorChange \/ ReloadClean \/ ReloadConflict \/ ReloadConfirmed
    \/ AskReload \/ Ask \/ Cancel \/ Confirm \/ DryRun
    \/ \E i \in Requests :
          \/ ApplyManifest(i) \/ GetForUpdate(i) \/ UpdateConfigMap(i) \/ Refuse(i)
          \/ Respond(i)

\* Requests that are sent again and again are answered at some time.
Spec ==
    /\ Init /\ [][Next]_vars
    /\ \A o \in Objects : WF_vars(Poll(o)) /\ SF_vars(ServerReads(o)) /\ SF_vars(Arrive(o))

-----------------------------------------------------------------------------
\* Nothing that somebody else stored is replaced by a change made without having seen
\* it (CHANGELOG.md:48-50 of the form, 61-63 of the YAML editor).
NoLostUpdate ==
    \A o \in Objects : \A n \in DOMAIN hist[o] :
        hist[o][n].by = "page" =>
            \A m \in DOMAIN hist[o] :
                hist[o][n].base < m /\ m < n => hist[o][m].by = "page"

\* It holds of the YAML editor in spite of reloads, answers in any order, closed sheets
\* and applies nobody listens to any more: the version travels with the text
\* (ManifestEditor.tsx:64-72, 107-116).
ManifestKeepsOthers == kind = "manifest" => NoLostUpdate

\* The version the YAML editor will send is the one whose text it takes for unchanged.
VersionIsOriginal ==
    kind = "manifest" /\ page.rv # 0 => page.orig = hist[page.from][page.rv].data

\* The form writes data and nothing else: labels and binary data that change between
\* its Get and its Update survive (configmaps.go:121-132).
RestSurvives ==
    kind = "form" =>
        \A o \in Objects : \A n \in DOMAIN hist[o] :
            hist[o][n].by = "page" => hist[o][n].rest = hist[o][n - 1].rest

\* An open form comes to the newest data of its object, its own saved data included
\* (ConfigMapDetail.tsx:172, k8s.ts:276).
FormCatchesUp ==
    \A o \in Objects :
        kind = "form" /\ view = o ~> view # o \/ (page.from = o /\ page.orig = Current(o).data)
=============================================================================
