-------------------------------- MODULE Panels --------------------------------
(***************************************************************************)
(* The pages that list things of the host and change them row by row: the  *)
(* firewall of web/src/routes/Network.tsx ("firewall"), the cards of       *)
(* Containers.tsx ("containers") and the units of Services.tsx             *)
(* ("services"), over the queries and mutations of web/src/lib and ufw,    *)
(* Docker and systemd behind internal/network, docker and systemd.  Other  *)
(* people change the host as well.                                         *)
(*                                                                         *)
(* Abstractions: a rule, container or unit is a name with two flags, on    *)
(* (running, active) and boot (enabled); a rule uses neither.  confirm()   *)
(* stops the page, so that a question and its answer are one step.  Search *)
(* and type filters only choose rows.                                      *)
(***************************************************************************)
EXTENDS Naturals, Sequences, FiniteSets, SequencesExt

CONSTANTS
    Kinds,         \* the pages under consideration
    Rules,         \* of the firewall
    Units,         \* containers and services
    NoThing,
    MaxRequests,   \* bound: changes sent by the page
    MaxVersion,    \* bound: states of the host
    MaxLeave       \* bound: times the page is left

ASSUME PanelsAssumption ==
    /\ Kinds \subseteq {"firewall", "containers", "services"}
    /\ IsFiniteSet(Rules) /\ IsFiniteSet(Units)
    /\ NoThing \notin Rules \cup Units
    /\ MaxRequests \in Nat
    /\ MaxVersion \in Nat \ {0}
    /\ MaxLeave \in Nat

VARIABLES
    kind,
    hist,      \* the states of the host, the last one current
    shown,     \* the state of the host on the screen, 0: none
    sure,      \* whether nothing has happened to the list's request (history)
    fetch,     \* the request for the list
    request,   \* the changes, in the order they were sent
    told,      \* the changes the page knows to have succeeded (history)
    open, left

vars == <<kind, hist, shown, sure, fetch, request, told, open, left>>

-----------------------------------------------------------------------------
Requests == 1..MaxRequests
Versions == 0..MaxVersion

Things == IF kind = "firewall" THEN Rules ELSE Units

Thing == [id: Things, on: BOOLEAN, boot: BOOLEAN]

\* by is the request that made it, 0: somebody else.
HostState == [things: Seq(Thing), active: BOOLEAN, by: 0..MaxRequests]

\* old: the page was left while it was under way.
Fetch == [at: {"none", "sent", "answered"}, ver: Versions, old: BOOLEAN]
NoFetch == [at |-> "none", ver |-> 0, old |-> FALSE]
Sent    == [NoFetch EXCEPT !.at = "sent"]

Verbs == {"none", "add", "delete", "enable", "disable", "start", "stop", "restart", "remove"}

\* id is the thing the row showed, visit counts the times the page was left before.  ver,
\* clean, told: what the page knew at the click (history, of the requests that take
\* something away).  Rules are numbered from 1; only a removal has a force.
Request ==
    {r \in [at: {"none", "sent", "ok", "error", "settling", "done"}, verb: Verbs,
            id: Things \cup {NoThing}, index: Nat, force: BOOLEAN, visit: 0..MaxLeave,
            ver: Versions, clean: BOOLEAN, told: SUBSET Requests] :
        /\ r.verb = "delete" => r.index # 0
        /\ r.force => r.verb = "remove"}

NoRequest == [at |-> "none", verb |-> "none", id |-> NoThing, index |-> 0, force |-> FALSE,
              visit |-> 0, ver |-> 0, clean |-> FALSE, told |-> {}]

Done == [NoRequest EXCEPT !.at = "done"]

\* What isPending depends on, of a change that is answered.
Answered(i, result) ==
    LET kept == IF request[i].verb \in {"add", "enable", "disable"} THEN request[i] ELSE NoRequest
    IN [NoRequest EXCEPT !.at = result, !.verb = kept.verb, !.visit = kept.visit]

TypeOK ==
    /\ kind \in Kinds
    /\ hist \in Seq(HostState) /\ Len(hist) \in 1..MaxVersion
    /\ shown \in Versions /\ sure \in BOOLEAN
    /\ fetch \in Fetch
    /\ request \in [Requests -> Request]
    /\ told \subseteq Requests
    /\ open \in BOOLEAN /\ left \in 0..MaxLeave

Init ==
    /\ kind \in Kinds
    /\ \E on, boot \in BOOLEAN :
          /\ on => kind # "firewall"
          /\ boot => kind = "services"
          /\ hist = <<[things |-> [i \in DOMAIN SetToSeq(Things) |->
                                     [id |-> SetToSeq(Things)[i], on |-> on, boot |-> boot]],
                       active |-> TRUE, by |-> 0]>>
    /\ shown = 0 /\ sure = FALSE
    /\ fetch = Sent
    /\ request = [i \in Requests |-> NoRequest]
    /\ told = {}
    /\ open = TRUE /\ left = 0

-----------------------------------------------------------------------------
Current == Last(hist)
Loading == fetch.at # "none"

\* An inactive firewall tells no rules.
Rows == IF shown = 0 \/ ~hist[shown].active THEN <<>> ELSE hist[shown].things

Names(s) == {s[i].id : i \in DOMAIN s}

\* isPending of a mutation lasts until the list it has invalidated is there, and is known
\* to the mount of the page that has sent it: a page that is opened again starts anew.
Pending(verbs) ==
    \E i \in Requests :
        /\ request[i].verb \in verbs /\ request[i].at \notin {"none", "done"}
        /\ request[i].visit = left

Settled == [i \in Requests |->
    IF request[i].at = "settling" THEN Done ELSE request[i]]

-----------------------------------------------------------------------------
\* The list: useFirewall, useContainers, useServices.

\* refetchInterval.
Poll ==
    /\ open /\ ~Loading
    /\ fetch' = Sent
    /\ UNCHANGED <<kind, hist, shown, sure, request, told, open, left>>

\* Mutant: later requests are answered from a cache.
HostReadsCached ==
    /\ fetch.at = "sent"
    /\ fetch' = [fetch EXCEPT !.at = "answered", !.ver = IF shown # 0 THEN shown ELSE Len(hist)]
    /\ UNCHANGED <<kind, hist, shown, sure, request, told, open, left>>

HostReads ==
    /\ fetch.at = "sent"
    /\ fetch' = [fetch EXCEPT !.at = "answered", !.ver = Len(hist)]
    /\ UNCHANGED <<kind, hist, shown, sure, request, told, open, left>>

ListArrives ==
    /\ fetch.at = "answered"
    /\ shown' = fetch.ver /\ sure' = ~fetch.old
    /\ fetch' = NoFetch
    /\ request' = Settled
    /\ UNCHANGED <<kind, hist, told, open, left>>

\* The page keeps the list it has.
ListFails ==
    /\ Loading
    /\ fetch' = NoFetch /\ sure' = FALSE
    /\ request' = Settled
    /\ UNCHANGED <<kind, hist, shown, told, open, left>>

\* The request goes on; its answer is kept for five minutes.
Leave ==
    /\ open /\ left < MaxLeave
    /\ open' = FALSE /\ left' = left + 1
    /\ fetch' = [fetch EXCEPT !.old = Loading]
    /\ UNCHANGED <<kind, hist, shown, sure, request, told>>

\* A request under way is joined.  Containers and units fetched less than a second ago
\* are not fetched again.
Return ==
    /\ ~open
    /\ open' = TRUE
    /\ \/ fetch' = IF Loading THEN fetch ELSE Sent
       \/ kind # "firewall" /\ shown # 0 /\ UNCHANGED fetch
    /\ UNCHANGED <<kind, hist, shown, sure, request, told, left>>

-----------------------------------------------------------------------------
\* The buttons.

Send(verb, id, index, force) ==
    \E i \in Requests :
        /\ request[i].at = "none" /\ \A j \in Requests : j < i => request[j].at # "none"
        /\ request' = [request EXCEPT ![i] =
              [at |-> "sent", verb |-> verb, id |-> id, index |-> index, force |-> force,
               visit |-> left,
               ver   |-> IF verb \in {"delete", "remove"} THEN shown ELSE 0,
               clean |-> verb = "delete" /\ sure /\ ~Loading,
               told  |-> IF verb = "delete" THEN told ELSE {}]]
        /\ UNCHANGED <<kind, hist, shown, sure, fetch, told, open, left>>

\* AddRuleForm.
AddRule ==
    /\ kind = "firewall" /\ open /\ shown # 0 /\ ~Pending({"add"})
    /\ \E t \in Things : Send("add", t, 0, FALSE)

\* Mutant: the row's place in the table, from 0.
DeleteRuleFromZero ==
    /\ kind = "firewall" /\ open
    /\ \E k \in DOMAIN Rows : Send("delete", Rows[k].id, k - 1, FALSE)

\* The rows' buttons are never disabled; the number is that of `ufw status numbered`.
DeleteRule ==
    /\ kind = "firewall" /\ open
    /\ \E k \in DOMAIN Rows : Send("delete", Rows[k].id, k, FALSE)

Toggle ==
    /\ kind = "firewall" /\ open /\ shown # 0 /\ ~Pending({"enable", "disable"})
    /\ Send(IF hist[shown].active THEN "disable" ELSE "enable", NoThing, 0, FALSE)

\* RowMenu of a container or unit: what it offers depends on the row.
Offered(t) ==
    {"restart", IF t.on THEN "stop" ELSE "start"}
    \cup IF kind = "containers" THEN {"remove"}
         ELSE {IF t.boot THEN "disable" ELSE "enable"}

\* Mutant: every container is removed with force.
RowActionForced ==
    /\ kind # "firewall" /\ open
    /\ \E k \in DOMAIN Rows : \E verb \in Offered(Rows[k]) :
          Send(verb, Rows[k].id, 0, verb = "remove")

RowAction ==
    /\ kind # "firewall" /\ open
    /\ \E k \in DOMAIN Rows : \E verb \in Offered(Rows[k]) :
          Send(verb, Rows[k].id, 0, verb = "remove" /\ Rows[k].on)

-----------------------------------------------------------------------------
\* The host.

InState(t, verb) ==
    CASE verb \in {"start", "restart"} -> [t EXCEPT !.on = TRUE]
      [] verb = "stop"    -> [t EXCEPT !.on = FALSE]
      [] verb = "enable"  -> [t EXCEPT !.boot = TRUE]
      [] verb = "disable" -> [t EXCEPT !.boot = FALSE]

\* ufw puts a new rule behind the others of its address family, and knows one it has.
WithNew(s, t) ==
    IF t \in Names(s) THEN {s}
    ELSE {InsertAt(s, k, [id |-> t, on |-> FALSE, boot |-> FALSE]) : k \in 1..Len(s) + 1}

\* A rule without an address is added twice, for IPv4 and for IPv6.
Insertions(t) ==
    LET once == WithNew(Current.things, t)
    IN once \cup UNION {WithNew(s, u) : s \in once, u \in {u \in Things : kind = "firewall"}}

\* Docker removes no running container without force.
Removable(r, k) ==
    IF r.verb = "delete" THEN k = r.index
    ELSE r.verb = "remove" /\ Current.things[k].id = r.id /\ (Current.things[k].on => r.force)

\* The states request r can lead to.
Results(r) ==
    {[Current EXCEPT !.things = RemoveAt(@, k)] : k \in {k \in DOMAIN Current.things : Removable(r, k)}}
    \cup (IF r.verb = "add"
          THEN {[Current EXCEPT !.things = s] : s \in Insertions(r.id)} ELSE {})
    \cup (IF kind = "firewall" /\ r.verb \in {"enable", "disable"}
          THEN {[Current EXCEPT !.active = r.verb = "enable"]} ELSE {})
    \cup (IF kind # "firewall" /\ r.verb # "remove"
          THEN {[Current EXCEPT !.things[k] = InState(@, r.verb)] :
                   k \in {k \in DOMAIN Current.things : Current.things[k].id = r.id}}
          ELSE {})

\* Done and answered; or done, and the answer is an error all the same: it is lost, the
\* unit's job takes more than 30 s, or the reload after enabling a unit fails.
HostDoes(i) ==
    /\ request[i].at = "sent"
    /\ \E x \in Results(request[i]), result \in {"ok", "error"} :
          /\ x # Current => Len(hist) < MaxVersion
          /\ hist' = IF x = Current THEN hist ELSE Append(hist, [x EXCEPT !.by = i])
          /\ request' = [request EXCEPT ![i] = Answered(i, result)]
    /\ UNCHANGED <<kind, shown, sure, fetch, told, open, left>>

\* Refused, or failed before anything is done.
HostRefuses(i) ==
    /\ request[i].at = "sent"
    /\ request' = [request EXCEPT ![i] = Answered(i, "error")]
    /\ UNCHANGED <<kind, hist, shown, sure, fetch, told, open, left>>

\* A container restarts, somebody adds or removes a rule.
OthersChange ==
    /\ Len(hist) < MaxVersion
    /\ \E s \in {RemoveAt(Current.things, k) : k \in DOMAIN Current.things}
             \cup (IF kind = "services" THEN {} ELSE UNION {Insertions(t) : t \in Things})
             \cup {[Current.things EXCEPT ![k].on = ~@] :
                      k \in {k \in DOMAIN Current.things : kind # "firewall"}} :
          /\ s # Current.things
          /\ hist' = Append(hist, [Current EXCEPT !.things = s, !.by = 0])
    /\ UNCHANGED <<kind, shown, sure, fetch, request, told, open, left>>

-----------------------------------------------------------------------------
\* The answer: onSuccess invalidates the list, which is asked for anew unless it is not
\* on the screen; a failed change invalidates nothing.

\* Mutant: a request that is under way is good enough.
InvalidatedJoins == IF open /\ ~Loading THEN Sent ELSE fetch

Invalidated == IF open /\ ~(shown = 0 /\ Loading) THEN Sent ELSE fetch

Respond(i) ==
    \/ /\ request[i].at = "ok"
       /\ fetch' = Invalidated
       /\ request' = [Settled EXCEPT ![i] =
             IF Invalidated = Sent THEN Answered(i, "settling") ELSE Done]
       /\ told' = told \cup {i}
       /\ UNCHANGED <<kind, hist, shown, sure, open, left>>
    \/ /\ request[i].at = "error"
       /\ request' = [request EXCEPT ![i] = Done]
       /\ UNCHANGED <<kind, hist, shown, sure, fetch, told, open, left>>

Next ==
    \/ Poll \/ HostReads \/ ListArrives \/ ListFails \/ Leave \/ Return
    \/ AddRule \/ DeleteRule \/ Toggle \/ RowAction
    \/ \E i \in Requests : HostDoes(i) \/ HostRefuses(i) \/ Respond(i)
    \/ OthersChange

\* A list that is asked for again and again is answered at some time.
Spec == Init /\ [][Next]_vars /\ WF_vars(Poll) /\ SF_vars(HostReads) /\ SF_vars(ListArrives)

-----------------------------------------------------------------------------
Gone ==
    {Current.things[k] : k \in DOMAIN Current.things}
        \ {hist'[Len(hist')].things[k] : k \in DOMAIN hist'[Len(hist')].things}

Takes(i, verb) ==
    /\ request[i].at = "sent" /\ request[i].verb = verb
    /\ Len(hist') > Len(hist) /\ hist'[Len(hist')].by = i

\* Rules are deleted by their position (network.ts:73, ufw.go:140-146).  If the list was
\* settled when the button was clicked, a wrong rule goes only because of a change that
\* the page had not been told of: a delete that is answered costs no second rule.
WrongRuleHasCause ==
    [][\A i \in Requests :
          Takes(i, "delete") /\ request[i].clean /\ (\E t \in Gone : t.id # request[i].id) =>
              \E v \in (request[i].ver + 1)..Len(hist) : hist[v].by \notin request[i].told]_vars

\* A running container is removed only after its card has shown it running
\* (ContainerCard.tsx:122, client.go:172).
RunningRemovedKnowingly ==
    [][\A i \in Requests :
          Takes(i, "remove") =>
              \A t \in Gone : t.on =>
                  \E k \in DOMAIN hist[request[i].ver].things : hist[request[i].ver].things[k] = t]_vars

\* When the host comes to rest, an open page shows it as it is, whatever changes were
\* reported as failed and whoever made them (network.ts:53, containers.ts:79,
\* services.ts:48).
ShowsHost == <>[](open => shown # 0 /\ hist[shown].things = Current.things
                                    /\ hist[shown].active = Current.active)
===============================================================================
