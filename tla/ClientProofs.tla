----------------------------- MODULE ClientProofs -----------------------------
(***************************************************************************)
(* The browser's side of signing in, for every number of tabs, sessions,   *)
(* requests and faults: a family of sessions is revoked as stolen only     *)
(* when the browser itself has given cause for it (OneTabIsNoThief), and   *)
(* the tab that has changed 2FA shows what it has left (TwoFactorHolds).   *)
(***************************************************************************)
EXTENDS Client, TLAPS

-----------------------------------------------------------------------------
Known0(n) == n # 0 => session[n].at # "none"
NoChild(m) == \A n \in 1..MaxSessions : session[n].parent # m

\* The queries of the gates set no cookies.
SlotsOK ==
    \A t \in Tabs :
        /\ call[t]["me"].do \in {"none", "me"} /\ call[t]["me"].sets = 0
        /\ call[t]["setup"].do \in {"none", "setup"} /\ call[t]["setup"].sets = 0

\* A session that exists has a family, and so has the one it replaces.
SessionOK(n) ==
    /\ Known0(session[n].parent)
    /\ session[n].at = "none" <=> session[n].family = 0

\* What is referred to has been created.
References ==
    /\ \A n \in 1..MaxSessions : SessionOK(n)
    /\ Known0(cookie)
    /\ \A t \in Tabs :
          /\ Known0(refresh[t].cookie) /\ Known0(refresh[t].sets)
          /\ refresh[t].at # "answered" \/ refresh[t].result # "ok" => refresh[t].sets = 0
          /\ \A s \in Slots : Known0(call[t][s].sets)

\* One refresh at a time, of a session that has not been refreshed.
OneRefresh ==
    \A t \in Tabs :
        /\ \A u \in Tabs : refresh[t].at # "none" /\ refresh[u].at # "none" => t = u
        /\ refresh[t].at = "sent" /\ refresh[t].cookie # 0 => NoChild(refresh[t].cookie)

\* The session of the cookies has been refreshed only by an answer still to arrive.
CookieFresh ==
    cookie # 0 => \A n \in 1..MaxSessions :
        session[n].parent = cookie =>
            \E t \in Tabs : refresh[t].at = "answered" /\ refresh[t].sets = n

\* A session whose cookies are still to arrive belongs to one answer only.
SetsFresh ==
    /\ \A t \in Tabs : refresh[t].sets # 0 =>
          NoChild(refresh[t].sets) /\ refresh[t].sets # cookie
    /\ \A t \in Tabs, s \in Slots : call[t][s].sets # 0 =>
          /\ NoChild(call[t][s].sets) /\ call[t][s].sets # cookie
          /\ \A u \in Tabs : /\ refresh[u].sets # call[t][s].sets
                             /\ refresh[u].at = "sent" => refresh[u].cookie # call[t][s].sets
          /\ \A u \in Tabs, r \in Slots :
                call[u][r].sets = call[t][s].sets => u = t /\ r = s

Causes == ~burnt.excused => ~burnt.done /\ OneRefresh /\ CookieFresh /\ SetsFresh

IInv == TypeOK /\ SlotsOK /\ References /\ Causes

-----------------------------------------------------------------------------
LEMMA Constants ==
    /\ NoCall \in Call /\ NoRefresh \in Refresh /\ NoSession \in Session /\ NewTab \in Tab
    /\ 0 \in Sessions0 /\ 1 \in Sessions0 /\ 1 \in 1..MaxSessions /\ MaxSessions \in Nat \ {0}
<1>1. 0 \in Sessions0 /\ 1 \in Sessions0 /\ 1 \in 1..MaxSessions /\ MaxSessions \in Nat \ {0}
    BY ClientAssumption DEF Sessions0
<1> QED
    BY <1>1 DEF NoCall, Call, NoRefresh, Refresh, NoSession, Session, NewTab, Tab

LEMMA Types ==
    ASSUME TypeOK
    PROVE  /\ server \in [required: BOOLEAN, totp: BOOLEAN, by: Tabs \cup {NoTab}]
           /\ session \in [1..MaxSessions -> Session] /\ cookie \in Sessions0
           /\ tab \in [Tabs -> Tab] /\ call \in [Tabs -> [Slots -> Call]]
           /\ refresh \in [Tabs -> Refresh] /\ burnt \in [done: BOOLEAN, excused: BOOLEAN]
           /\ \A n \in 1..MaxSessions : session[n] \in Session
           /\ \A t \in Tabs : tab[t] \in Tab /\ refresh[t] \in Refresh
           /\ \A t \in Tabs, s \in Slots : call[t][s] \in Call
BY DEF TypeOK

\* The numbers of sessions that are referred to.
LEMMA Numbers ==
    ASSUME TypeOK
    PROVE  /\ \A n \in 1..MaxSessions : session[n].parent \in Sessions0 /\ n \in Sessions0
           /\ \A t \in Tabs : refresh[t].cookie \in Sessions0 /\ refresh[t].sets \in Sessions0
           /\ \A t \in Tabs, s \in Slots :
                 call[t][s].sets \in Sessions0 /\ call[t][s].cookie \in Sessions0
<1>1. \A n \in 1..MaxSessions : session[n].parent \in Sessions0 /\ n \in Sessions0
    BY Types DEF Session, Sessions0
<1>2. \A t \in Tabs : refresh[t].cookie \in Sessions0 /\ refresh[t].sets \in Sessions0
    BY Types DEF Refresh
<1>3. \A x \in Call : x.sets \in Sessions0 /\ x.cookie \in Sessions0
    BY DEF Call
<1> QED
    BY <1>1, <1>2, <1>3, Types

LEMMA InitInv == Init => IInv
<1> SUFFICES ASSUME Init PROVE IInv
    OBVIOUS
<1>1. /\ \A t \in Tabs : refresh[t] = NoRefresh /\ \A s \in Slots : call[t][s] = NoCall
      /\ call \in [Tabs -> [Slots -> Call]] /\ refresh \in [Tabs -> Refresh]
    BY Constants DEF Init
<1>2. cookie \in {0, 1} /\ cookie \in Sessions0
    BY Constants DEF Init
<1>3. \A n \in 1..MaxSessions :
        /\ session[n] \in Session /\ session[n].parent = 0
        /\ n = cookie => session[n].at = "live"
        /\ session[n].at = "none" <=> session[n].family = 0
  <2> TAKE n \in 1..MaxSessions
  <2>1. session[n] = IF n = cookie THEN [NoSession EXCEPT !.at = "live", !.family = n] ELSE NoSession
      BY DEF Init
  <2>2. n \in Sessions0
      BY DEF Sessions0
  <2>3. CASE n = cookie
    <3>1. session[n] = [at |-> "live", family |-> n, parent |-> 0, expired |-> FALSE]
        BY <2>1, <2>3 DEF NoSession
    <3> QED
        BY <2>2, <3>1, Constants DEF Session
  <2>4. CASE n # cookie
    <3>1. session[n] = NoSession
        BY <2>1, <2>4
    <3> QED
        BY <2>4, <3>1, Constants DEF NoSession
  <2> QED
      BY <2>3, <2>4
<1>4. session \in [1..MaxSessions -> Session]
    BY <1>3 DEF Init
<1>5. tab \in [Tabs -> Tab]
  <2>1. [NewTab EXCEPT !.at = "app", !.me = "off", !.required = "no"] \in Tab
      BY Constants DEF Tab
  <2> QED
      BY <2>1, Constants DEF Init
<1>6. /\ server \in [required: BOOLEAN, totp: BOOLEAN, by: Tabs \cup {NoTab}]
      /\ burnt \in [done: BOOLEAN, excused: BOOLEAN] /\ ~burnt.done
      /\ count \in [user: 0..MaxUser, faults: 0..MaxFaults]
  <2>1. 0 \in 0..MaxUser /\ 0 \in 0..MaxFaults
      BY ClientAssumption
  <2> QED
      BY <2>1 DEF Init
<1>7. TypeOK
    BY <1>1, <1>2, <1>4, <1>5, <1>6 DEF TypeOK
<1>8. /\ NoCall.do = "none" /\ NoCall.sets = 0
      /\ NoRefresh.at = "none" /\ NoRefresh.cookie = 0 /\ NoRefresh.sets = 0
    BY DEF NoCall, NoRefresh
<1>9. \A t \in Tabs : /\ refresh[t].at = "none" /\ refresh[t].cookie = 0 /\ refresh[t].sets = 0
                      /\ \A s \in Slots : call[t][s].sets = 0 /\ call[t][s].do = "none"
    BY <1>1, <1>8
<1>12. SlotsOK
    BY <1>9 DEF SlotsOK, Slots
<1>10. References
    BY <1>2, <1>3, <1>9, Constants DEF References, SessionOK, Known0
<1>11. Causes
    BY <1>3, <1>6, <1>9 DEF Causes, OneRefresh, CookieFresh, SetsFresh
<1> QED
    BY <1>7, <1>10, <1>11, <1>12 DEF IInv

-----------------------------------------------------------------------------
\* Steps by what they do to the sessions and to the cookies that are under way.

\* A session stays what it is to the refreshes.
SameSessions ==
    \A n \in 1..MaxSessions :
        /\ session'[n].parent = session[n].parent /\ session'[n].family = session[n].family
        /\ session'[n].at = "none" <=> session[n].at = "none"

\* No answer sets other cookies than before.
NoNewCookies ==
    \A t \in Tabs, s \in Slots : call'[t][s].sets \in {0, call[t][s].sets}

LEMMA QuietStep ==
    ASSUME IInv, TypeOK', SlotsOK', SameSessions, NoNewCookies,
           cookie' \in {0, cookie}, UNCHANGED <<refresh, burnt>>
    PROVE  IInv'
<1>1. \A m \in Sessions0 : (Known0(m) => Known0(m)') /\ (NoChild(m) => NoChild(m)')
    BY DEF SameSessions, Known0, NoChild, Sessions0
<1>2. /\ cookie \in Sessions0
      /\ \A n \in 1..MaxSessions : session[n].parent \in Sessions0
      /\ \A t \in Tabs : /\ refresh[t].cookie \in Sessions0 /\ refresh[t].sets \in Sessions0
                         /\ \A s \in Slots : call[t][s].sets \in Sessions0
    BY Types, Numbers DEF IInv
<1>3. References'
  <2>1. \A n \in 1..MaxSessions : SessionOK(n)'
      BY <1>1, <1>2 DEF IInv, References, SameSessions, SessionOK, Known0
  <2>2. Known0(cookie)'
      BY <1>1, <1>2 DEF IInv, References, Known0
  <2>3. \A t \in Tabs : Known0(refresh[t].cookie)' /\ Known0(refresh[t].sets)'
      BY <1>1, <1>2 DEF IInv, References, Known0
  <2>4. \A t \in Tabs, s \in Slots : Known0(call[t][s].sets)'
      BY <1>1, <1>2 DEF IInv, References, Known0, NoNewCookies
  <2> QED
      BY <2>1, <2>2, <2>3, <2>4 DEF IInv, References
<1>4. Causes'
  <2> SUFFICES ASSUME ~burnt.excused PROVE (~burnt.done /\ OneRefresh /\ CookieFresh /\ SetsFresh)'
      BY DEF Causes
  <2>1. ~burnt.done /\ OneRefresh /\ CookieFresh /\ SetsFresh
      BY DEF IInv, Causes
  <2>2. OneRefresh'
      BY <1>1, <1>2, <2>1 DEF OneRefresh, NoChild
  <2>3. CookieFresh'
      BY <2>1 DEF CookieFresh, SameSessions
  <2>4. SetsFresh'
      BY <1>1, <1>2, <2>1 DEF SetsFresh, NoNewCookies, NoChild
  <2> QED
      BY <2>1, <2>2, <2>3, <2>4
<1> QED
    BY <1>3, <1>4 DEF IInv

-----------------------------------------------------------------------------
\* The requests of a tab.

\* The requests c may follow those of tab t: nothing is to set cookies that was not.
Follows(c, t) ==
    /\ c \in [Slots -> Call]
    /\ c["me"].do \in {"none", "me"} /\ c["setup"].do \in {"none", "setup"}
    /\ \A s \in Slots : c[s].sets \in {0, call[t][s].sets}

LEMMA NewCalls ==
    ASSUME IInv, NEW t \in Tabs, NEW c, Follows(c, t), call' = [call EXCEPT ![t] = c]
    PROVE  call' \in [Tabs -> [Slots -> Call]] /\ SlotsOK' /\ NoNewCookies
<1>1. call \in [Tabs -> [Slots -> Call]] /\ c \in [Slots -> Call]
    BY Types DEF IInv, Follows
<1>2. call' \in [Tabs -> [Slots -> Call]] /\ call'[t] = c
    BY <1>1
<1>3. \A u \in Tabs : u # t => call'[u] = call[u]
    BY <1>1
<1>4. NoNewCookies
    BY <1>2, <1>3 DEF NoNewCookies, Follows
<1>5. "me" \in Slots /\ "setup" \in Slots
    BY DEF Slots
<1>6. SlotsOK'
    BY <1>2, <1>3, <1>5 DEF IInv, SlotsOK, Follows
<1> QED
    BY <1>2, <1>4, <1>6

LEMMA FollowsItself ==
    ASSUME IInv, NEW t \in Tabs
    PROVE  Follows(call[t], t)
BY Types DEF IInv, SlotsOK, Follows

\* One slot is given another request.
LEMMA FollowsOne ==
    ASSUME NEW t \in Tabs, NEW c, Follows(c, t), NEW s \in Slots, NEW x \in Call,
           s = "me" => x.do \in {"none", "me"}, s = "setup" => x.do \in {"none", "setup"},
           x.sets \in {0, call[t][s].sets}
    PROVE  Follows([c EXCEPT ![s] = x], t)
<1> DEFINE d == [c EXCEPT ![s] = x]
<1>1. d \in [Slots -> Call] /\ d[s] = x /\ \A r \in Slots : r # s => d[r] = c[r]
    BY DEF Follows
<1> HIDE DEF d
<1>2. "me" \in Slots /\ "setup" \in Slots
    BY DEF Slots
<1>3. d["me"].do \in {"none", "me"} /\ d["setup"].do \in {"none", "setup"}
    BY <1>1, <1>2 DEF Follows
<1>4. \A r \in Slots : d[r].sets \in {0, call[t][r].sets}
    BY <1>1 DEF Follows
<1>5. Follows(d, t)
    BY <1>1, <1>3, <1>4 DEF Follows
<1> QED
    BY <1>5 DEF d

LEMMA NoCallFields == NoCall \in Call /\ NoCall.do = "none" /\ NoCall.sets = 0
<1>1. NoCall.do = "none" /\ NoCall.sets = 0
    BY DEF NoCall
<1> QED
    BY <1>1, Constants

LEMMA FollowsDone ==
    ASSUME IInv, NEW t \in Tabs, NEW s \in Slots
    PROVE  Follows(Done(t, s), t)
<1>1. Follows([call[t] EXCEPT ![s] = NoCall], t)
    BY FollowsItself, FollowsOne, NoCallFields
<1> QED
    BY <1>1 DEF Done

LEMMA FollowsDisowned ==
    ASSUME IInv, NEW t \in Tabs, NEW c, Follows(c, t)
    PROVE  Follows(Disowned(c), t)
<1>1. CASE c["me"].at = "none"
    BY <1>1 DEF Disowned
<1>2. CASE c["me"].at # "none"
  <2> DEFINE x == [c["me"] EXCEPT !.do = "query"]
  <2>1. "me" \in Slots /\ "query" \in Slots /\ c["me"] \in Call
      BY DEF Slots, Follows
  <2>2. c["me"].sets = 0
      BY <2>1 DEF Follows, IInv, SlotsOK
  <2>3. x \in Call /\ x.sets = 0
      BY <2>1, <2>2 DEF Call
  <2> HIDE DEF x
  <2>4. Follows([c EXCEPT !["query"] = x], t)
      BY <2>1, <2>3, FollowsOne
  <2> DEFINE d == [c EXCEPT !["query"] = x]
  <2> HIDE DEF d
  <2>5. Follows([d EXCEPT !["me"] = NoCall], t)
      BY <2>1, <2>4, FollowsOne, NoCallFields DEF d
  <2>6. Disowned(c) = [d EXCEPT !["me"] = NoCall]
      BY <1>2 DEF Disowned, d, x
  <2> QED
      BY <2>5, <2>6
<1> QED
    BY <1>1, <1>2

LEMMA FollowsForgotten ==
    ASSUME IInv, NEW t \in Tabs, NEW c, Follows(c, t)
    PROVE  Follows(Forgotten(c), t)
<1>1. "setup" \in Slots
    BY DEF Slots
<1>2. Follows([Disowned(c) EXCEPT !["setup"] = NoCall], t)
    BY <1>1, FollowsDisowned, FollowsOne, NoCallFields
<1> QED
    BY <1>2 DEF Forgotten

LEMMA AskedCall ==
    ASSUME NEW jar \in Sessions0, NEW good \in BOOLEAN,
           NEW do \in Submits \cup {"me", "setup", "query"}
    PROVE  /\ Asked(do, good, jar) \in Call
           /\ Asked(do, good, jar).do = do /\ Asked(do, good, jar).sets = 0
<1>1. Asked(do, good, jar) \in Call
    BY Constants DEF Asked, Call
<1>2. Asked(do, good, jar).do = do /\ Asked(do, good, jar).sets = NoCall.sets
    BY Constants DEF Asked, Call
<1> QED
    BY <1>1, <1>2, NoCallFields

Counts == [user: 0..MaxUser, faults: 0..MaxFaults]

\* A mount sends the queries of the gates and nothing else.
LEMMA MountStep ==
    ASSUME IInv, NEW t \in Tabs, NEW p \in Tab, NEW c, Follows(c, t),
           NEW place \in {"app", "login", "setup"}, NEW jar \in Sessions0, NEW n \in {0, 1},
           Mount(t, p, c, place, jar, n)
    PROVE  /\ call' \in [Tabs -> [Slots -> Call]] /\ SlotsOK' /\ NoNewCookies
           /\ tab' \in [Tabs -> Tab] /\ count' \in Counts
<1>0. PICK stale \in SUBSET {"me", "setup"} :
        LET idle == {s \in {"me", "setup"} :
                        c[s].at = "none" /\ (s = "me" => place # "setup")}
            f == (MustFetch(p) \cup stale) \cap idle
            m == IF "setup" \in f \ MustFetch(p) THEN n + 1 ELSE n
        IN /\ call' = [call EXCEPT ![t] = [s \in Slots |-> IF s \in f THEN Asked(s, FALSE, jar) ELSE c[s]]]
           /\ tab' = [tab EXCEPT ![t] = [p EXCEPT
                 !.at = place, !.failed = @ /\ ~("me" \in f /\ p.me = "none"),
                 !.step = IF place = p.at THEN @ ELSE "token"]]
           /\ count.user + m <= MaxUser /\ count' = [count EXCEPT !.user = @ + m]
    BY DEF Mount
<1>1. PICK f \in SUBSET {"me", "setup"}, m \in {n, n + 1} :
        /\ call' = [call EXCEPT ![t] = [s \in Slots |-> IF s \in f THEN Asked(s, FALSE, jar) ELSE c[s]]]
        /\ tab' = [tab EXCEPT ![t] = [p EXCEPT
              !.at = place, !.failed = @ /\ ~("me" \in f /\ p.me = "none"),
              !.step = IF place = p.at THEN @ ELSE "token"]]
        /\ count.user + m <= MaxUser /\ count' = [count EXCEPT !.user = @ + m]
  <2> DEFINE f == (MustFetch(p) \cup stale) \cap {s \in {"me", "setup"} :
                        c[s].at = "none" /\ (s = "me" => place # "setup")}
             m == IF "setup" \in f \ MustFetch(p) THEN n + 1 ELSE n
  <2>1. f \in SUBSET {"me", "setup"} /\ m \in {n, n + 1}
      OBVIOUS
  <2> QED
      BY <1>0, <2>1
<1> DEFINE d == [s \in Slots |-> IF s \in f THEN Asked(s, FALSE, jar) ELSE c[s]]
<1>2. \A s \in f : Asked(s, FALSE, jar) \in Call /\ Asked(s, FALSE, jar).do = s /\ Asked(s, FALSE, jar).sets = 0
  <2>1. \A s \in f : s \in {"me", "setup"}
      OBVIOUS
  <2> QED
      BY <2>1, AskedCall
<1>3. \A s \in Slots : d[s] = IF s \in f THEN Asked(s, FALSE, jar) ELSE c[s]
    OBVIOUS
<1>4. "me" \in Slots /\ "setup" \in Slots
    BY DEF Slots
<1>5. d \in [Slots -> Call]
    BY <1>2 DEF Follows
<1>6. \A s \in Slots : d[s].sets \in {0, call[t][s].sets}
    BY <1>2, <1>3 DEF Follows
<1>7. d["me"].do \in {"none", "me"} /\ d["setup"].do \in {"none", "setup"}
    BY <1>2, <1>3, <1>4 DEF Follows
<1> HIDE DEF d
<1>8. Follows(d, t)
    BY <1>5, <1>6, <1>7 DEF Follows
<1>9. call' \in [Tabs -> [Slots -> Call]] /\ SlotsOK' /\ NoNewCookies
    BY <1>1, <1>8, NewCalls DEF d
<1>10. tab' \in [Tabs -> Tab]
  <2> DEFINE b == p.failed /\ ~("me" \in f /\ p.me = "none")
             e == IF place = p.at THEN p.step ELSE "token"
             q == [p EXCEPT !.at = place, !.failed = b, !.step = e]
  <2>1. b \in BOOLEAN /\ e \in {"token", "account", "totp", "done"}
      BY DEF Tab
  <2>2. tab' = [tab EXCEPT ![t] = q]
      BY <1>1
  <2> HIDE DEF b, e
  <2>3. q \in Tab
      BY <2>1 DEF Tab
  <2> HIDE DEF q
  <2> QED
      BY <2>2, <2>3, Types DEF IInv
<1>11. count' \in Counts
    BY <1>1, ClientAssumption DEF IInv, TypeOK, Counts
<1> QED
    BY <1>9, <1>10, <1>11

\* The server's answer to one request.
LEMMA AnswersStep ==
    ASSUME IInv, NEW t \in Tabs, NEW s \in Slots, NEW result \in {"ok", "unauthorized", "error"},
           NEW n \in Sessions0, NEW value \in BOOLEAN, Answers(t, s, result, n, value)
    PROVE  /\ call' \in [Tabs -> [Slots -> Call]]
           /\ call'[t][s].sets = n /\ call'[t][s].do = call[t][s].do
           /\ \A u \in Tabs, r \in Slots : ~(u = t /\ r = s) => call'[u][r] = call[u][r]
<1> DEFINE x == [call[t][s] EXCEPT !.at = "answered", !.cookie = 0, !.result = result,
                                   !.sets = n, !.value = value]
<1>1. call \in [Tabs -> [Slots -> Call]] /\ call[t][s] \in Call
    BY Types DEF IInv
<1>2. x \in Call /\ x.sets = n /\ x.do = call[t][s].do
    BY <1>1, Constants DEF Call
<1>3. call' = [call EXCEPT ![t] = [call[t] EXCEPT ![s] = x]]
    BY <1>1 DEF Answers
<1> HIDE DEF x
<1>4. call' \in [Tabs -> [Slots -> Call]] /\ call'[t][s] = x
    BY <1>1, <1>2, <1>3
<1>5. \A u \in Tabs, r \in Slots : ~(u = t /\ r = s) => call'[u][r] = call[u][r]
    BY <1>1, <1>3
<1> QED
    BY <1>2, <1>4, <1>5

LEMMA AnswersNothing ==
    ASSUME IInv, NEW t \in Tabs, NEW s \in Slots, NEW result \in {"ok", "unauthorized", "error"},
           NEW value \in BOOLEAN, Answers(t, s, result, 0, value)
    PROVE  call' \in [Tabs -> [Slots -> Call]] /\ SlotsOK' /\ NoNewCookies
<1>1. /\ call' \in [Tabs -> [Slots -> Call]]
      /\ call'[t][s].sets = 0 /\ call'[t][s].do = call[t][s].do
      /\ \A u \in Tabs, r \in Slots : ~(u = t /\ r = s) => call'[u][r] = call[u][r]
    BY AnswersStep, Constants
<1>2. NoNewCookies
    BY <1>1 DEF NoNewCookies
<1>3. \A u \in Tabs, r \in Slots : call'[u][r].do = call[u][r].do /\
        (call[u][r].sets = 0 => call'[u][r].sets = 0)
    BY <1>1
<1>4. "me" \in Slots /\ "setup" \in Slots
    BY DEF Slots
<1>5. SlotsOK'
    BY <1>3, <1>4 DEF IInv, SlotsOK
<1> QED
    BY <1>1, <1>2, <1>5

-----------------------------------------------------------------------------
\* Navigation, the user and the queries.

LEMMA PlainStep ==
    ASSUME IInv, call' \in [Tabs -> [Slots -> Call]], SlotsOK', NoNewCookies,
           tab' \in [Tabs -> Tab], count' \in Counts,
           UNCHANGED <<server, session, cookie, refresh, burnt>>
    PROVE  IInv'
<1>1. TypeOK'
    BY DEF IInv, TypeOK, Counts
<1>2. SameSessions
    BY DEF SameSessions
<1> QED
    BY <1>1, <1>2, QuietStep

LEMMA CountedStep ==
    ASSUME IInv, Counted
    PROVE  count' \in Counts
BY ClientAssumption DEF IInv, TypeOK, Counts, Counted

LEMMA FaultyStep ==
    ASSUME IInv, Faulty
    PROVE  count' \in Counts
BY ClientAssumption DEF IInv, TypeOK, Counts, Faulty

LEMMA MountAgainStep ==
    ASSUME IInv, NEW t \in Tabs, NEW place \in {"app", "login", "setup"}, NEW n \in {0, 1},
           MountAgain(t, call[t], place, n)
    PROVE  /\ call' \in [Tabs -> [Slots -> Call]] /\ SlotsOK' /\ NoNewCookies
           /\ tab' \in [Tabs -> Tab] /\ count' \in Counts
<1>1. Follows(call[t], t) /\ Follows(Forgotten(call[t]), t)
    BY FollowsItself, FollowsForgotten
<1>2. tab[t] \in Tab /\ NewTab \in Tab /\ cookie \in Sessions0
    BY Types, Constants DEF IInv
<1>3. CASE Mount(t, NewTab, Forgotten(call[t]), place, cookie, n)
    BY <1>1, <1>2, <1>3, MountStep
<1>4. CASE Mount(t, tab[t], call[t], place, cookie, n)
    BY <1>1, <1>2, <1>4, MountStep
<1> QED
    BY <1>3, <1>4 DEF MountAgain

LEMMA NavigateStep ==
    ASSUME IInv, NEW t \in Tabs, Navigate(t)
    PROVE  IInv'
<1>1. PICK place \in {"app", "login", "setup"} : MountAgain(t, call[t], place, 0)
    BY DEF Navigate
<1>2. UNCHANGED <<server, session, cookie, refresh, burnt>>
    BY DEF Navigate
<1> QED
    BY <1>1, <1>2, MountAgainStep, PlainStep

LEMMA OpenTabStep ==
    ASSUME IInv, NEW t \in Tabs, OpenTab(t)
    PROVE  IInv'
<1>1. PICK place \in {"app", "login"} : Mount(t, NewTab, call[t], place, cookie, 1)
    BY DEF OpenTab
<1>2. UNCHANGED <<server, session, cookie, refresh, burnt>>
    BY DEF OpenTab
<1>3. cookie \in Sessions0
    BY Types DEF IInv
<1> QED
    BY <1>1, <1>2, <1>3, FollowsItself, Constants, MountStep, PlainStep

LEMMA BrowseStep ==
    ASSUME IInv, NEW t \in Tabs, Browse(t)
    PROVE  IInv'
<1>1. MountAgain(t, call[t], "app", 1)
      /\ UNCHANGED <<server, session, cookie, refresh, burnt>>
    BY DEF Browse
<1> QED
    BY <1>1, MountAgainStep, PlainStep

LEMMA SendsStep ==
    ASSUME IInv, NEW t \in Tabs, NEW s \in {"act", "query"}, NEW do \in Submits \cup {"query"},
           NEW good \in BOOLEAN, Sends(t, s, do, good), count' \in Counts
    PROVE  IInv'
<1>1. /\ call' = [call EXCEPT ![t][s] = Asked(do, good, cookie)]
      /\ UNCHANGED <<server, session, cookie, tab, refresh, burnt>>
    BY DEF Sends
<1>2. call \in [Tabs -> [Slots -> Call]] /\ tab \in [Tabs -> Tab] /\ cookie \in Sessions0
    BY Types DEF IInv
<1>3. Asked(do, good, cookie) \in Call /\ Asked(do, good, cookie).sets = 0
    BY <1>2, AskedCall
<1>4. s \in Slots /\ s # "me" /\ s # "setup"
    BY DEF Slots
<1>5. Follows([call[t] EXCEPT ![s] = Asked(do, good, cookie)], t)
    BY <1>3, <1>4, FollowsItself, FollowsOne
<1>6. call' = [call EXCEPT ![t] = [call[t] EXCEPT ![s] = Asked(do, good, cookie)]]
    BY <1>1, <1>2
<1> QED
    BY <1>1, <1>2, <1>5, <1>6, NewCalls, PlainStep

LEMMA SubmitStep ==
    ASSUME IInv, NEW t \in Tabs,
           \/ Poll(t) \/ Login(t) \/ Logout(t) \/ Verify(t) \/ TokenStep(t) \/ TotpStep(t)
           \/ \E good \in BOOLEAN : ChangePassword(t, good) \/ Disable(t, good)
    PROVE  IInv'
<1>1. CASE TokenStep(t)
  <2>1. Sends(t, "act", "verifyToken", TRUE) /\ count' = count
      BY <1>1 DEF TokenStep
  <2>2. count' \in Counts
      BY <2>1 DEF IInv, TypeOK, Counts
  <2> QED
      BY <2>1, <2>2, SendsStep DEF Submits
<1>2. CASE ~TokenStep(t)
  <2>1. PICK s \in {"act", "query"}, do \in Submits \cup {"query"}, good \in BOOLEAN :
            Submit(t, s, do, good)
      BY <1>2 DEF Poll, Login, Logout, Verify, TotpStep, ChangePassword, Disable, Submits
  <2> QED
      BY <2>1, SendsStep, CountedStep DEF Submit
<1> QED
    BY <1>1, <1>2

LEMMA AccountStepStep ==
    ASSUME IInv, NEW t \in Tabs, AccountStep(t)
    PROVE  IInv'
<1>1. /\ tab' = [tab EXCEPT ![t].step = "totp"]
      /\ UNCHANGED <<server, session, cookie, call, refresh, burnt, count>>
    BY DEF AccountStep
<1>2. tab' \in [Tabs -> Tab]
  <2>1. tab \in [Tabs -> Tab] /\ tab[t] \in Tab
      BY Types DEF IInv
  <2> DEFINE p == [tab[t] EXCEPT !.step = "totp"]
  <2>2. p \in Tab
      BY <2>1 DEF Tab
  <2>3. tab' = [tab EXCEPT ![t] = p]
      BY <1>1, <2>1
  <2> HIDE DEF p
  <2> QED
      BY <2>1, <2>2, <2>3
<1>3. call' \in [Tabs -> [Slots -> Call]] /\ SlotsOK' /\ NoNewCookies /\ count' \in Counts
    BY <1>1 DEF IInv, TypeOK, SlotsOK, NoNewCookies, Counts
<1> QED
    BY <1>1, <1>2, <1>3, PlainStep

-----------------------------------------------------------------------------
\* The server.

\* An answer that sets no cookies.
LEMMA ServeStep ==
    ASSUME IInv, NEW t \in Tabs, NEW s \in Slots, NEW result \in {"ok", "unauthorized", "error"},
           NEW value \in BOOLEAN, Answers(t, s, result, 0, value),
           server' \in [required: BOOLEAN, totp: BOOLEAN, by: Tabs \cup {NoTab}],
           session' \in [1..MaxSessions -> Session], SameSessions, count' \in Counts,
           UNCHANGED <<cookie, tab, refresh, burnt>>
    PROVE  IInv'
<1>1. call' \in [Tabs -> [Slots -> Call]] /\ SlotsOK' /\ NoNewCookies
    BY AnswersNothing
<1>2. TypeOK'
    BY <1>1 DEF IInv, TypeOK, Counts
<1> QED
    BY <1>1, <1>2, QuietStep

LEMMA RevokedSession ==
    ASSUME NEW x \in Session
    PROVE  /\ Revoked(x) \in Session /\ Revoked(x).parent = x.parent
           /\ Revoked(x).at = "revoked" /\ Revoked(x).family = x.family
BY DEF Revoked, Session

\* Sessions that are revoked stay what they are to the refreshes, if they are sessions.
LEMMA RevokesSome ==
    ASSUME TypeOK, NEW R \in SUBSET (1..MaxSessions), \A n \in R : session[n].at # "none",
           session' = [n \in 1..MaxSessions |-> IF n \in R THEN Revoked(session[n]) ELSE session[n]]
    PROVE  session' \in [1..MaxSessions -> Session] /\ SameSessions
<1>1. \A n \in 1..MaxSessions :
        /\ session'[n] \in Session
        /\ session'[n].parent = session[n].parent /\ session'[n].family = session[n].family
        /\ session'[n].at = "none" <=> session[n].at = "none"
    BY Types, RevokedSession
<1> QED
    BY <1>1 DEF SameSessions

LEMMA ServeQuietly ==
    ASSUME IInv, NEW t \in Tabs, NEW s \in Slots,
           \/ ServeStatus(t, s) \/ ServeMe(t, s) \/ ServeLogout(t, s) \/ ServePassword(t, s)
           \/ ServeTwoFactor(t, s) \/ ServeVerifyToken(t, s)
    PROVE  IInv'
<1>1. /\ server \in [required: BOOLEAN, totp: BOOLEAN, by: Tabs \cup {NoTab}]
      /\ session \in [1..MaxSessions -> Session] /\ count \in Counts
      /\ call[t][s] \in Call /\ TypeOK
    BY Types DEF IInv, TypeOK, Counts
<1>2. session' = session => SameSessions /\ session' \in [1..MaxSessions -> Session]
    BY <1>1 DEF SameSessions
<1>3. CASE ServeStatus(t, s)
  <2>1. Answers(t, s, "ok", 0, server.required)
        /\ UNCHANGED <<server, session, cookie, tab, refresh, burnt, count>>
      BY <1>3 DEF ServeStatus
  <2>2. server.required \in BOOLEAN
      BY <1>1
  <2> QED
      BY <1>1, <1>2, <2>1, <2>2, ServeStep
<1>4. CASE ServeMe(t, s)
  <2> DEFINE v == server.totp /\ call[t][s].do = "me"
             r == IF Authorized(call[t][s]) THEN "ok" ELSE "unauthorized"
  <2>1. Answers(t, s, r, 0, v)
        /\ UNCHANGED <<server, session, cookie, tab, refresh, burnt, count>>
      BY <1>4 DEF ServeMe
  <2>2. v \in BOOLEAN /\ r \in {"ok", "unauthorized", "error"}
      OBVIOUS
  <2> HIDE DEF v, r
  <2> QED
      BY <1>1, <1>2, <2>1, <2>2, ServeStep
<1>5. CASE ServeLogout(t, s)
  <2>1. UNCHANGED <<server, cookie, tab, refresh, burnt, count>>
      BY <1>5 DEF ServeLogout
  <2>2. CASE Authorized(call[t][s])
    <3> DEFINE c == call[t][s].cookie
    <3>1. session' = [session EXCEPT ![c] = Revoked(@)] /\ Answers(t, s, "ok", 0, FALSE)
        BY <1>5, <2>2 DEF ServeLogout
    <3>2. c \in 1..MaxSessions /\ session[c].at = "live"
        BY <1>1, <2>2, ClientAssumption DEF Authorized, Call, Sessions0
    <3>3. session' = [n \in 1..MaxSessions |-> IF n \in {c} THEN Revoked(session[n]) ELSE session[n]]
        BY <1>1, <3>1
    <3>5. {c} \in SUBSET (1..MaxSessions) /\ \A n \in {c} : session[n].at # "none"
        BY <3>2
    <3> HIDE DEF c
    <3>4. session' \in [1..MaxSessions -> Session] /\ SameSessions
        BY <1>1, <3>3, <3>5, RevokesSome
    <3> QED
        BY <1>1, <2>1, <3>1, <3>4, ServeStep
  <2>3. CASE ~Authorized(call[t][s])
    <3>1. Answers(t, s, "unauthorized", 0, FALSE) /\ session' = session
        BY <1>5, <2>3 DEF ServeLogout
    <3> QED
        BY <1>1, <1>2, <2>1, <3>1, ServeStep
  <2> QED
      BY <2>2, <2>3
<1>6. CASE ServePassword(t, s)
  <2>1. UNCHANGED <<server, cookie, tab, refresh, burnt, count>>
      BY <1>6 DEF ServePassword
  <2>2. CASE Authorized(call[t][s]) /\ call[t][s].good
    <3> DEFINE R == {n \in 1..MaxSessions : session[n].at = "live"}
    <3>1. /\ session' = [n \in 1..MaxSessions |-> IF n \in R THEN Revoked(session[n]) ELSE session[n]]
          /\ Answers(t, s, "ok", 0, FALSE)
        BY <1>6, <2>2 DEF ServePassword
    <3>2. R \in SUBSET (1..MaxSessions) /\ \A n \in R : session[n].at # "none"
        OBVIOUS
    <3> HIDE DEF R
    <3>3. session' \in [1..MaxSessions -> Session] /\ SameSessions
        BY <1>1, <3>1, <3>2, RevokesSome
    <3> QED
        BY <1>1, <2>1, <3>1, <3>3, ServeStep
  <2>3. CASE ~(Authorized(call[t][s]) /\ call[t][s].good)
    <3>1. Answers(t, s, "unauthorized", 0, FALSE) /\ session' = session
        BY <1>6, <2>3 DEF ServePassword
    <3> QED
        BY <1>1, <1>2, <2>1, <3>1, ServeStep
  <2> QED
      BY <2>2, <2>3
<1>7. CASE ServeTwoFactor(t, s)
  <2> DEFINE on == call[t][s].do = "verify"
             r == IF ~Authorized(call[t][s]) \/ (~on /\ server.totp) THEN "unauthorized" ELSE "error"
  <2>1. /\ \/ Answers(t, s, "ok", 0, FALSE) /\ server' = [server EXCEPT !.totp = on, !.by = t]
           \/ Answers(t, s, r, 0, FALSE) /\ server' = server
        /\ UNCHANGED <<session, cookie, tab, refresh, burnt, count>>
      BY <1>7 DEF ServeTwoFactor
  <2>2. on \in BOOLEAN /\ r \in {"ok", "unauthorized", "error"}
      OBVIOUS
  <2> HIDE DEF on, r
  <2>3. server' \in [required: BOOLEAN, totp: BOOLEAN, by: Tabs \cup {NoTab}]
      BY <1>1, <2>1, <2>2
  <2> QED
      BY <1>1, <1>2, <2>1, <2>2, <2>3, ServeStep
<1>8. CASE ServeVerifyToken(t, s)
  <2> DEFINE r == IF server.required THEN "ok" ELSE "unauthorized"
  <2>1. Answers(t, s, r, 0, FALSE)
        /\ UNCHANGED <<server, session, cookie, tab, refresh, burnt, count>>
      BY <1>8 DEF ServeVerifyToken
  <2>2. r \in {"ok", "unauthorized", "error"}
      OBVIOUS
  <2> HIDE DEF r
  <2> QED
      BY <1>1, <1>2, <2>1, <2>2, ServeStep
<1> QED
    BY <1>3, <1>4, <1>5, <1>6, <1>7, <1>8

\* A session that is created is not referred to yet; its cookies are in one answer.
LEMMA IssueStep ==
    ASSUME IInv, NEW t \in Tabs, NEW s \in {"act", "query"}, NEW n \in 1..MaxSessions,
           NEW value \in BOOLEAN, Issue(n), Answers(t, s, "ok", n, value),
           server' \in [required: BOOLEAN, totp: BOOLEAN, by: Tabs \cup {NoTab}],
           UNCHANGED <<cookie, tab, refresh, burnt, count>>
    PROVE  IInv'
<1> DEFINE x == [at |-> "live", family |-> n, parent |-> 0, expired |-> FALSE]
<1>1. session[n].at = "none" /\ session' = [session EXCEPT ![n] = x]
    BY DEF Issue, Unused
<1>2. /\ session \in [1..MaxSessions -> Session] /\ TypeOK
      /\ n \in Sessions0 /\ n # 0 /\ s \in Slots /\ s # "me" /\ s # "setup"
    BY Types DEF IInv, Sessions0, Slots
<1>3. x \in Session
    BY <1>2, Constants DEF Session
<1>4. /\ session' \in [1..MaxSessions -> Session]
      /\ session'[n].at = "live" /\ session'[n].parent = 0 /\ session'[n].family = n
      /\ \A m \in 1..MaxSessions : m # n => session'[m] = session[m]
    BY <1>1, <1>2, <1>3
<1> HIDE DEF x
<1>5. /\ call' \in [Tabs -> [Slots -> Call]]
      /\ call'[t][s].sets = n /\ call'[t][s].do = call[t][s].do
      /\ \A u \in Tabs, r \in Slots : ~(u = t /\ r = s) => call'[u][r] = call[u][r]
    BY <1>2, AnswersStep
<1>6. TypeOK'
    BY <1>4, <1>5 DEF IInv, TypeOK
<1>7. SlotsOK'
    BY <1>2, <1>5 DEF IInv, SlotsOK, Slots
<1>8. ASSUME NEW m \in Sessions0, Known0(m)
      PROVE  Known0(m)' /\ m # n
    BY <1>1, <1>2, <1>4, <1>8 DEF Known0, Sessions0
<1>9. ASSUME NEW m \in Sessions0, NoChild(m), m # 0
      PROVE  NoChild(m)'
    BY <1>4, <1>9 DEF NoChild
<1>10. NoChild(n)'
  <2>1. \A m \in 1..MaxSessions : Known0(session[m].parent) /\ session[m].parent \in Sessions0
      BY <1>2, Numbers DEF IInv, References, SessionOK
  <2> QED
      BY <1>2, <1>4, <1>8, <2>1 DEF NoChild
<1>11. /\ cookie \in Sessions0 /\ cookie # n
       /\ \A u \in Tabs : /\ refresh[u].cookie \in Sessions0 /\ refresh[u].cookie # n
                          /\ refresh[u].sets \in Sessions0 /\ refresh[u].sets # n
       /\ \A u \in Tabs, r \in Slots : call[u][r].sets \in Sessions0 /\ call[u][r].sets # n
    BY <1>2, <1>8, Numbers, Types DEF IInv, References
<1>12. References'
  <2>1. \A m \in 1..MaxSessions : SessionOK(m)'
    <3> TAKE m \in 1..MaxSessions
    <3>1. CASE m = n
        BY <1>2, <1>4, <3>1 DEF SessionOK, Known0
    <3>2. CASE m # n
      <4>1. SessionOK(m) /\ session[m].parent \in Sessions0
          BY <1>2, Numbers DEF IInv, References
      <4> QED
          BY <1>4, <1>8, <3>2, <4>1 DEF SessionOK, Known0
    <3> QED
        BY <3>1, <3>2
  <2>2. Known0(cookie)' /\ \A u \in Tabs : Known0(refresh[u].cookie)' /\ Known0(refresh[u].sets)'
      BY <1>8, <1>11 DEF IInv, References, Known0
  <2>3. \A u \in Tabs, r \in Slots : Known0(call[u][r].sets)'
    <3> TAKE u \in Tabs, r \in Slots
    <3>1. CASE u = t /\ r = s
        BY <1>4, <1>5, <3>1 DEF Known0
    <3>2. CASE ~(u = t /\ r = s)
        BY <1>5, <1>8, <1>11, <3>2 DEF IInv, References, Known0
    <3> QED
        BY <3>1, <3>2
  <2> QED
      BY <2>1, <2>2, <2>3 DEF IInv, References
<1>13. Causes'
  <2> SUFFICES ASSUME ~burnt.excused PROVE (~burnt.done /\ OneRefresh /\ CookieFresh /\ SetsFresh)'
      BY DEF Causes
  <2>1. ~burnt.done /\ OneRefresh /\ CookieFresh /\ SetsFresh
      BY DEF IInv, Causes
  <2>2. OneRefresh'
      BY <1>9, <1>11, <2>1 DEF OneRefresh, NoChild
  <2>3. CookieFresh'
      BY <1>4, <1>11, <2>1 DEF CookieFresh
  <2>4. \A u \in Tabs : refresh[u].sets # 0 => NoChild(refresh[u].sets)' /\ refresh[u].sets # cookie
      BY <1>9, <1>11, <2>1 DEF SetsFresh
  <2>5. ASSUME NEW u \in Tabs, NEW r \in Slots, call'[u][r].sets # 0
        PROVE  /\ NoChild(call[u][r].sets)' /\ call'[u][r].sets # cookie
               /\ \A v \in Tabs : /\ refresh[v].sets # call'[u][r].sets
                                  /\ refresh[v].at = "sent" => refresh[v].cookie # call'[u][r].sets
               /\ \A v \in Tabs, q \in Slots :
                     call'[v][q].sets = call'[u][r].sets => v = u /\ q = r
    <3>1. CASE u = t /\ r = s
      <4>1. call'[u][r].sets = n
          BY <1>5, <3>1
      <4>2. NoChild(call[u][r].sets)'
          BY <1>10, <4>1 DEF NoChild
      <4> QED
          BY <1>5, <1>11, <3>1, <4>1, <4>2
    <3>2. CASE ~(u = t /\ r = s)
      <4>1. call'[u][r] = call[u][r]
          BY <1>5, <3>2
      <4>2. NoChild(call[u][r].sets)'
          BY <1>9, <1>11, <2>1, <2>5, <4>1 DEF SetsFresh, NoChild
      <4>3. \A v \in Tabs, q \in Slots : call'[v][q].sets = call'[u][r].sets => v = u /\ q = r
          BY <1>5, <1>11, <2>1, <2>5, <4>1 DEF SetsFresh
      <4> QED
          BY <2>1, <2>5, <4>1, <4>2, <4>3 DEF SetsFresh
    <3> QED
        BY <3>1, <3>2
  <2>6. SetsFresh'
      BY <2>4, <2>5 DEF SetsFresh, NoChild
  <2> QED
      BY <2>1, <2>2, <2>3, <2>6
<1> QED
    BY <1>6, <1>7, <1>12, <1>13 DEF IInv

LEMMA ServeIssues ==
    ASSUME IInv, NEW t \in Tabs, NEW s \in Slots, ServeLogin(t, s) \/ ServeComplete(t, s)
    PROVE  IInv'
<1>1. /\ server \in [required: BOOLEAN, totp: BOOLEAN, by: Tabs \cup {NoTab}]
      /\ session \in [1..MaxSessions -> Session] /\ count \in Counts
    BY Types DEF IInv, TypeOK, Counts
<1>2. session' = session => SameSessions /\ session' \in [1..MaxSessions -> Session]
    BY <1>1 DEF SameSessions
<1>3. s \in {"act", "query"}
    BY DEF ServeLogin, ServeComplete, Asks, Slots, IInv, SlotsOK
<1>4. UNCHANGED <<cookie, tab, refresh, burnt, count>>
    BY DEF ServeLogin, ServeComplete
<1>5. CASE ServeLogin(t, s) /\ ~server.required
  <2>1. /\ \E n \in 1..MaxSessions : Issue(n) /\ Answers(t, s, "ok", n, server.totp)
        /\ server' = server
      BY <1>5 DEF ServeLogin
  <2>2. server.totp \in BOOLEAN
      BY <1>1
  <2> QED
      BY <1>1, <1>3, <1>4, <2>1, <2>2, IssueStep
<1>6. CASE ServeComplete(t, s) /\ server.required
  <2>1. PICK n \in 1..MaxSessions, totp \in BOOLEAN :
          /\ Issue(n) /\ Answers(t, s, "ok", n, totp)
          /\ server' = [required |-> FALSE, totp |-> totp, by |-> t]
      BY <1>6 DEF ServeComplete
  <2>2. server' \in [required: BOOLEAN, totp: BOOLEAN, by: Tabs \cup {NoTab}]
      BY <2>1
  <2> QED
      BY <1>3, <1>4, <2>1, <2>2, IssueStep
<1>7. CASE ServeLogin(t, s) /\ server.required
  <2>1. Answers(t, s, "unauthorized", 0, FALSE) /\ session' = session /\ server' = server
      BY <1>7 DEF ServeLogin
  <2> QED
      BY <1>1, <1>2, <1>4, <2>1, ServeStep
<1>8. CASE ServeComplete(t, s) /\ ~server.required
  <2>1. Answers(t, s, "error", 0, FALSE) /\ session' = session /\ server' = server
      BY <1>8 DEF ServeComplete
  <2> QED
      BY <1>1, <1>2, <1>4, <2>1, ServeStep
<1> QED
    BY <1>5, <1>6, <1>7, <1>8

\* The access token of a session expires.
LEMMA ExpireStep ==
    ASSUME IInv, NEW n \in 1..MaxSessions, Expire(n)
    PROVE  IInv'
<1>1. /\ session' = [session EXCEPT ![n].expired = TRUE]
      /\ UNCHANGED <<server, cookie, tab, call, refresh, burnt, count>>
    BY DEF Expire
<1>2. session \in [1..MaxSessions -> Session]
    BY Types DEF IInv
<1>3. session' \in [1..MaxSessions -> Session] /\ SameSessions
    BY <1>1, <1>2 DEF Session, SameSessions
<1>4. TypeOK' /\ SlotsOK' /\ NoNewCookies
    BY <1>1, <1>3 DEF IInv, TypeOK, SlotsOK, NoNewCookies
<1> QED
    BY <1>1, <1>3, <1>4, QuietStep

LEMMA FailStep ==
    ASSUME IInv, NEW t \in Tabs, NEW s \in Slots, Fail(t, s)
    PROVE  IInv'
<1>1. /\ Answers(t, s, "error", 0, FALSE) /\ Faulty
      /\ server' = [server EXCEPT !.by = IF @ = t /\ s = "act" THEN NoTab ELSE @]
      /\ UNCHANGED <<session, cookie, tab, refresh, burnt>>
    BY DEF Fail
<1>2. server \in [required: BOOLEAN, totp: BOOLEAN, by: Tabs \cup {NoTab}]
      /\ session \in [1..MaxSessions -> Session]
    BY Types DEF IInv
<1>3. server' \in [required: BOOLEAN, totp: BOOLEAN, by: Tabs \cup {NoTab}]
    BY <1>1, <1>2
<1>4. SameSessions /\ session' \in [1..MaxSessions -> Session]
    BY <1>1, <1>2 DEF SameSessions
<1> QED
    BY <1>1, <1>3, <1>4, FaultyStep, ServeStep

-----------------------------------------------------------------------------
\* The answers reach the tab.

LEMMA ChangesTab ==
    ASSUME IInv, NEW t \in Tabs, NEW s \in Slots, call' = [call EXCEPT ![t] = Done(t, s)],
           NEW p \in Tab, tab' = [tab EXCEPT ![t] = p],
           UNCHANGED <<server, session, cookie, refresh, burnt, count>>
    PROVE  IInv'
<1>1. call' \in [Tabs -> [Slots -> Call]] /\ SlotsOK' /\ NoNewCookies
    BY FollowsDone, NewCalls
<1>2. tab' \in [Tabs -> Tab]
    BY Types DEF IInv
<1>3. count' \in Counts
    BY DEF IInv, TypeOK, Counts
<1> QED
    BY <1>1, <1>2, <1>3, PlainStep

LEMMA KnownTab ==
    ASSUME IInv, NEW t \in Tabs, NEW value
    PROVE  Known(t, value) \in Tab
<1>1. Flag(value) \in {"none", "off", "on"} /\ tab[t] \in Tab
    BY Types DEF Flag, IInv
<1> QED
    BY <1>1 DEF Known, Tab

LEMMA QueryArrives ==
    ASSUME IInv, NEW t \in Tabs, NEW s \in Slots,
           \/ s = "me" /\ MeArrives(t)
           \/ s = "setup" /\ StatusArrives(t)
           \/ s = "act" /\ VerifyTokenArrives(t)
           \/ Shrug(t, s)
    PROVE  IInv'
<1>1. call' = [call EXCEPT ![t] = Done(t, s)]
      /\ UNCHANGED <<server, session, cookie, refresh, burnt, count>>
    BY DEF MeArrives, StatusArrives, VerifyTokenArrives, Shrug
<1>2. tab \in [Tabs -> Tab] /\ tab[t] \in Tab
    BY Types DEF IInv
<1>3. CASE s = "me" /\ MeArrives(t)
  <2> DEFINE p == IF call[t]["me"].result = "ok" THEN Known(t, call[t]["me"].value)
                  ELSE [tab[t] EXCEPT !.failed = TRUE]
  <2>1. tab' = [tab EXCEPT ![t] = p]
      BY <1>3 DEF MeArrives
  <2>2. [tab[t] EXCEPT !.failed = TRUE] \in Tab
      BY <1>2 DEF Tab
  <2>3. p \in Tab
      BY <2>2, KnownTab
  <2> HIDE DEF p
  <2> QED
      BY <1>1, <2>1, <2>3, ChangesTab
<1>4. CASE s = "setup" /\ StatusArrives(t)
  <2> DEFINE v == IF call[t]["setup"].result # "ok" THEN tab[t].required
                  ELSE IF call[t]["setup"].value THEN "yes" ELSE "no"
             p == [tab[t] EXCEPT !.required = v]
  <2>1. tab' = [tab EXCEPT ![t] = p]
      BY <1>2, <1>4 DEF StatusArrives
  <2>2. v \in {"none", "yes", "no"}
      BY <1>2 DEF Tab
  <2> HIDE DEF v
  <2>3. p \in Tab
      BY <1>2, <2>2 DEF Tab
  <2> HIDE DEF p
  <2> QED
      BY <1>1, <2>1, <2>3, ChangesTab
<1>5. CASE s = "act" /\ VerifyTokenArrives(t)
  <2> DEFINE v == IF tab[t].at = "setup" THEN "account" ELSE tab[t].step
             p == [tab[t] EXCEPT !.step = v]
  <2>1. tab' = [tab EXCEPT ![t] = p]
      BY <1>2, <1>5 DEF VerifyTokenArrives
  <2>2. v \in {"token", "account", "totp", "done"}
      BY <1>2 DEF Tab
  <2> HIDE DEF v
  <2>3. p \in Tab
      BY <1>2, <2>2 DEF Tab
  <2> HIDE DEF p
  <2> QED
      BY <1>1, <2>1, <2>3, ChangesTab
<1>6. CASE Shrug(t, s)
  <2>1. tab' = [tab EXCEPT ![t] = tab[t]]
      BY <1>2, <1>6 DEF Shrug
  <2> QED
      BY <1>1, <1>2, <2>1, ChangesTab
<1> QED
    BY <1>3, <1>4, <1>5, <1>6

LEMMA LogoutStep ==
    ASSUME IInv, NEW t \in Tabs, LogoutArrives(t)
    PROVE  IInv'
<1>1. UNCHANGED <<server, session, refresh, burnt>>
    BY DEF LogoutArrives
<1>2. "act" \in Slots /\ TypeOK /\ cookie \in Sessions0
    BY Types DEF Slots, IInv
<1>3. CASE call[t]["act"].result = "ok"
  <2>1. cookie' = 0 /\ Mount(t, NewTab, Forgotten(Done(t, "act")), "login", cookie', 0)
      BY <1>3 DEF LogoutArrives
  <2>2. Follows(Forgotten(Done(t, "act")), t)
      BY <1>2, FollowsDone, FollowsForgotten
  <2>3. /\ call' \in [Tabs -> [Slots -> Call]] /\ SlotsOK' /\ NoNewCookies
        /\ tab' \in [Tabs -> Tab] /\ count' \in Counts
      BY <2>1, <2>2, Constants, MountStep
  <2>4. TypeOK' /\ SameSessions
      BY <1>1, <1>2, <2>1, <2>3, Constants DEF TypeOK, SameSessions, Counts
  <2> QED
      BY <1>1, <2>1, <2>3, <2>4, QuietStep
<1>4. CASE call[t]["act"].result # "ok"
  <2>1. /\ call' = [call EXCEPT ![t] = Done(t, "act")]
        /\ tab' = [tab EXCEPT ![t].cleared = TRUE] /\ UNCHANGED <<cookie, count>>
      BY <1>4 DEF LogoutArrives
  <2>2. tab[t] \in Tab /\ tab \in [Tabs -> Tab]
      BY Types DEF IInv
  <2>3. [tab[t] EXCEPT !.cleared = TRUE] \in Tab
      BY <2>2 DEF Tab
  <2>4. tab' = [tab EXCEPT ![t] = [tab[t] EXCEPT !.cleared = TRUE]]
      BY <2>1, <2>2
  <2> QED
      BY <1>1, <1>2, <2>1, <2>3, <2>4, ChangesTab
<1> QED
    BY <1>3, <1>4

LEMMA ChangeStep ==
    ASSUME IInv, NEW t \in Tabs, ChangeArrives(t)
    PROVE  IInv'
<1> DEFINE c == Done(t, "act")
           d == Invalidated(tab[t], c)
<1>1. /\ call' = [call EXCEPT ![t] = d]
      /\ server' = [server EXCEPT !.by = IF FirstAwaited(tab[t], call[t]) THEN NoTab ELSE @]
      /\ UNCHANGED <<session, cookie, tab, refresh, burnt, count>>
    BY DEF ChangeArrives
<1>2. "act" \in Slots /\ "me" \in Slots /\ cookie \in Sessions0 /\ TypeOK
    BY Types DEF Slots, IInv
<1>3. Follows(c, t)
    BY <1>2, FollowsDone
<1> HIDE DEF c
<1>4. Follows([Disowned(c) EXCEPT !["me"] = Asked("me", FALSE, cookie)], t)
  <2> DEFINE x == Asked("me", FALSE, cookie)
             e == Disowned(c)
  <2>1. x \in Call /\ x.do = "me" /\ x.sets = 0
      BY <1>2, AskedCall
  <2>2. Follows(e, t)
      BY <1>3, FollowsDisowned
  <2> HIDE DEF x, e
  <2>3. Follows([e EXCEPT !["me"] = x], t)
      BY <1>2, <2>1, <2>2, FollowsOne
  <2> QED
      BY <2>3 DEF x, e
<1>5. Follows(d, t)
    BY <1>3, <1>4 DEF Invalidated
<1> HIDE DEF d
<1>6. call' \in [Tabs -> [Slots -> Call]] /\ SlotsOK' /\ NoNewCookies
    BY <1>1, <1>5, NewCalls
<1>7. server' \in [required: BOOLEAN, totp: BOOLEAN, by: Tabs \cup {NoTab}]
    BY <1>1, <1>2 DEF TypeOK
<1>8. TypeOK' /\ SameSessions
    BY <1>1, <1>2, <1>6, <1>7 DEF TypeOK, SameSessions
<1> QED
    BY <1>1, <1>6, <1>8, QuietStep

\* The cookies of a new session arrive: nothing has been refreshed with them.
LEMMA CookiesArrive ==
    ASSUME IInv, NEW t \in Tabs, NEW s \in {"act", "query"},
           cookie' = call[t][s].sets, TypeOK', SlotsOK', NoNewCookies,
           call'[t][s].sets = 0, UNCHANGED <<session, refresh, burnt>>
    PROVE  IInv'
<1>1. s \in Slots /\ TypeOK
    BY DEF Slots, IInv
<1>2. \A m : Known0(m)' <=> Known0(m)
    BY DEF Known0
<1>3. References'
  <2>1. Known0(cookie)'
      BY <1>1 DEF IInv, References, Known0
  <2>2. \A u \in Tabs, r \in Slots : Known0(call[u][r].sets)'
      BY DEF IInv, References, Known0, NoNewCookies
  <2>3. \A n \in 1..MaxSessions : SessionOK(n)'
      BY DEF IInv, References, SessionOK, Known0
  <2>4. \A u \in Tabs : Known0(refresh[u].cookie)' /\ Known0(refresh[u].sets)'
      BY DEF IInv, References, Known0
  <2> QED
      BY <2>1, <2>2, <2>3, <2>4 DEF IInv, References
<1>4. Causes'
  <2> SUFFICES ASSUME ~burnt.excused PROVE (~burnt.done /\ OneRefresh /\ CookieFresh /\ SetsFresh)'
      BY DEF Causes
  <2>1. ~burnt.done /\ OneRefresh /\ CookieFresh /\ SetsFresh
      BY DEF IInv, Causes
  <2>2. OneRefresh'
      BY <2>1 DEF OneRefresh, NoChild
  <2>3. CookieFresh'
      BY <1>1, <2>1 DEF CookieFresh, SetsFresh, NoChild
  <2>4. \A u \in Tabs : refresh[u].sets # 0 => NoChild(refresh[u].sets)' /\ refresh[u].sets # cookie'
      BY <1>1, <2>1 DEF SetsFresh, NoChild
  <2>5. ASSUME NEW u \in Tabs, NEW r \in Slots, call'[u][r].sets # 0
        PROVE  /\ NoChild(call[u][r].sets)' /\ call'[u][r].sets # cookie'
               /\ \A v \in Tabs : /\ refresh[v].sets # call'[u][r].sets
                                  /\ refresh[v].at = "sent" => refresh[v].cookie # call'[u][r].sets
               /\ \A v \in Tabs, q \in Slots :
                     call'[v][q].sets = call'[u][r].sets => v = u /\ q = r
    <3>1. call'[u][r].sets = call[u][r].sets
        BY <2>5 DEF NoNewCookies
    <3>2. NoChild(call[u][r].sets)'
        BY <2>1, <2>5, <3>1 DEF SetsFresh, NoChild
    <3>3. call'[u][r].sets # cookie'
        BY <1>1, <2>1, <2>5, <3>1 DEF SetsFresh
    <3>4. \A v \in Tabs, q \in Slots : call'[v][q].sets = call'[u][r].sets => v = u /\ q = r
        BY <2>1, <2>5, <3>1 DEF SetsFresh, NoNewCookies
    <3> QED
        BY <2>1, <2>5, <3>1, <3>2, <3>3, <3>4 DEF SetsFresh
  <2>6. SetsFresh'
      BY <2>4, <2>5 DEF SetsFresh, NoChild
  <2> QED
      BY <2>1, <2>2, <2>3, <2>6
<1> QED
    BY <1>3, <1>4 DEF IInv

LEMMA SignInStep ==
    ASSUME IInv, NEW t \in Tabs, NEW s \in Slots,
           (s = "act" /\ LoginArrives(t)) \/ CompleteArrives(t, s)
    PROVE  IInv'
<1>1. s \in {"act", "query"}
    BY DEF CompleteArrives, Slots, IInv, SlotsOK
<1>2. /\ cookie' = call[t][s].sets
      /\ UNCHANGED <<session, refresh, burnt>>
    BY DEF LoginArrives, CompleteArrives
<1>3. Follows(Done(t, s), t)
    BY FollowsDone
<1>4. TypeOK /\ call[t][s].sets \in Sessions0 /\ call \in [Tabs -> [Slots -> Call]]
      /\ tab[t] \in Tab /\ tab \in [Tabs -> Tab]
    BY Types, Numbers DEF IInv
<1>5. /\ call' \in [Tabs -> [Slots -> Call]] /\ SlotsOK' /\ NoNewCookies
      /\ tab' \in [Tabs -> Tab] /\ call'[t][s].sets = 0
      /\ count' \in Counts /\ server' \in [required: BOOLEAN, totp: BOOLEAN, by: Tabs \cup {NoTab}]
  <2>1. CASE s = "act" /\ LoginArrives(t)
    <3>1. Mount(t, Known(t, call[t]["act"].value), Done(t, "act"), "app", cookie', 0)
        BY <2>1 DEF LoginArrives
    <3>2. /\ call' \in [Tabs -> [Slots -> Call]] /\ SlotsOK' /\ NoNewCookies
          /\ tab' \in [Tabs -> Tab] /\ count' \in Counts
        BY <1>2, <1>3, <1>4, <2>1, <3>1, KnownTab, MountStep
    <3>3. call'[t]["act"] = Done(t, "act")["act"]
      <4>1. "act" \in Slots
          BY DEF Slots
      <4>2. PICK f \in SUBSET {"me", "setup"} :
              call' = [call EXCEPT ![t] = [r \in Slots |-> IF r \in f THEN Asked(r, FALSE, cookie')
                                                           ELSE Done(t, "act")[r]]]
          BY <3>1 DEF Mount, MustFetch
      <4>3. "act" \notin f
          OBVIOUS
      <4> QED
          BY <1>4, <4>1, <4>2, <4>3
    <3>4. Done(t, "act")["act"].sets = 0
        BY <1>4, <2>1, NoCallFields DEF Done
    <3>5. server' = server
        BY <2>1 DEF LoginArrives
    <3> QED
        BY <1>4, <2>1, <3>2, <3>3, <3>4, <3>5 DEF TypeOK
  <2>2. CASE CompleteArrives(t, s)
    <3>1. call' = [call EXCEPT ![t] = Done(t, s)]
          /\ tab' = [tab EXCEPT ![t] = [Known(t, call[t][s].value) EXCEPT
                                          !.required = "no", !.step = "done"]]
        BY <2>2 DEF CompleteArrives
    <3>2. call' \in [Tabs -> [Slots -> Call]] /\ SlotsOK' /\ NoNewCookies
        BY <1>3, <3>1, NewCalls
    <3>3. call'[t][s].sets = 0
        BY <1>4, <3>1, NoCallFields DEF Done
    <3>4. [Known(t, call[t][s].value) EXCEPT !.required = "no", !.step = "done"] \in Tab
      <4>1. \A p \in Tab : [p EXCEPT !.required = "no", !.step = "done"] \in Tab
          BY DEF Tab
      <4> QED
          BY <4>1, KnownTab
    <3>5. server' = [server EXCEPT !.by = IF @ = t /\ tab[t].at # "setup" THEN NoTab ELSE @]
          /\ count' = count
        BY <2>2 DEF CompleteArrives
    <3>6. server' \in [required: BOOLEAN, totp: BOOLEAN, by: Tabs \cup {NoTab}] /\ count' \in Counts
        BY <1>4, <3>5 DEF TypeOK, Counts
    <3> QED
        BY <1>4, <3>1, <3>2, <3>3, <3>4, <3>6
  <2> QED
      BY <2>1, <2>2
<1>6. TypeOK'
    BY <1>2, <1>4, <1>5 DEF TypeOK, Counts
<1> QED
    BY <1>1, <1>2, <1>5, <1>6, CookiesArrive

-----------------------------------------------------------------------------
\* The refreshes.

\* The requests keep what they set; the table of sessions and the cookies stay.
SameSets ==
    /\ call' \in [Tabs -> [Slots -> Call]]
    /\ \A t \in Tabs, s \in Slots : /\ call'[t][s].sets = call[t][s].sets
                                    /\ call'[t][s].do = call[t][s].do

LEMMA SameSlots ==
    ASSUME IInv, SameSets
    PROVE  SlotsOK' /\ NoNewCookies
<1>1. "me" \in Slots /\ "setup" \in Slots
    BY DEF Slots
<1> QED
    BY <1>1 DEF SameSets, IInv, SlotsOK, NoNewCookies

\* A refresh is given up, lost or refused; unless it was answered with cookies, it
\* leaves no trace.
LEMMA RefreshEnds ==
    ASSUME IInv, NEW t \in Tabs, NEW r \in Refresh, refresh' = [refresh EXCEPT ![t] = r],
           r.at # "sent", r.at = "none" \/ refresh[t].at # "none",
           r.sets = 0, r.cookie \in {0, refresh[t].cookie},
           burnt.excused => burnt'.excused, burnt'.done => burnt.done \/ burnt'.excused,
           refresh[t].sets # 0 => burnt'.excused,
           TypeOK', SlotsOK', NoNewCookies, SameSessions, cookie' \in {0, cookie}
    PROVE  IInv'
<1>1. TypeOK /\ refresh \in [Tabs -> Refresh]
    BY Types DEF IInv
<1>2. refresh'[t] = r /\ \A u \in Tabs : u # t => refresh'[u] = refresh[u]
    BY <1>1
<1>3. \A m \in Sessions0 : (Known0(m) => Known0(m)') /\ (NoChild(m) => NoChild(m)')
    BY DEF SameSessions, Known0, NoChild, Sessions0
<1>4. /\ cookie \in Sessions0
      /\ \A n \in 1..MaxSessions : session[n].parent \in Sessions0
      /\ \A u \in Tabs : /\ refresh[u].cookie \in Sessions0 /\ refresh[u].sets \in Sessions0
                         /\ \A s \in Slots : call[u][s].sets \in Sessions0
    BY <1>1, Types, Numbers
<1>5. References'
  <2>1. \A n \in 1..MaxSessions : SessionOK(n)'
      BY <1>3, <1>4 DEF IInv, References, SameSessions, SessionOK, Known0
  <2>2. Known0(cookie)' /\ \A u \in Tabs, q \in Slots : Known0(call[u][q].sets)'
      BY <1>3, <1>4 DEF IInv, References, Known0, NoNewCookies
  <2>3. \A u \in Tabs : Known0(refresh[u].cookie)' /\ Known0(refresh[u].sets)'
      BY <1>2, <1>3, <1>4 DEF IInv, References, Known0
  <2>4. \A u \in Tabs : refresh'[u].at # "answered" \/ refresh'[u].result # "ok" => refresh'[u].sets = 0
      BY <1>2 DEF IInv, References
  <2> QED
      BY <2>1, <2>2, <2>3, <2>4 DEF References
<1>6. Causes'
  <2> SUFFICES ASSUME ~burnt'.excused PROVE (~burnt.done /\ OneRefresh /\ CookieFresh /\ SetsFresh)'
      BY DEF Causes
  <2>1. ~burnt'.done /\ OneRefresh /\ CookieFresh /\ SetsFresh /\ refresh[t].sets = 0
      BY DEF IInv, Causes
  <2>2. \A u \in Tabs : refresh'[u].sets = refresh[u].sets
      BY <1>2, <2>1
  <2>3. \A u \in Tabs : u # t => refresh'[u] = refresh[u]
      BY <1>2
  <2>4. \A u \in Tabs : refresh'[u].at = "sent" => u # t
      BY <1>2
  <2>5. OneRefresh'
    <3>1. \A u \in Tabs : refresh'[u].at # "none" => refresh[u].at # "none"
        BY <1>2
    <3>2. \A u \in Tabs : refresh'[u].at = "sent" /\ refresh'[u].cookie # 0 => NoChild(refresh[u].cookie)'
        BY <1>3, <1>4, <2>1, <2>3, <2>4 DEF OneRefresh, NoChild
    <3>3. \A u \in Tabs : refresh'[u].at = "sent" => refresh'[u].cookie = refresh[u].cookie
        BY <2>3, <2>4
    <3> QED
        BY <2>1, <3>1, <3>2, <3>3 DEF OneRefresh, NoChild
  <2>6. CookieFresh'
    <3> SUFFICES ASSUME cookie' # 0, NEW n \in 1..MaxSessions, session'[n].parent = cookie'
                 PROVE  \E u \in Tabs : refresh'[u].at = "answered" /\ refresh'[u].sets = n
        BY DEF CookieFresh
    <3>1. PICK u \in Tabs : refresh[u].at = "answered" /\ refresh[u].sets = n
        BY <2>1 DEF CookieFresh, SameSessions
    <3>2. n # 0
        OBVIOUS
    <3>3. u # t
        BY <2>1, <3>1, <3>2
    <3> QED
        BY <2>3, <3>1, <3>3
  <2>7. SetsFresh'
    <3>1. \A u \in Tabs : refresh'[u].sets # 0 => NoChild(refresh[u].sets)' /\ refresh'[u].sets # cookie'
        BY <1>3, <1>4, <2>1, <2>2 DEF SetsFresh, NoChild
    <3>2. \A u \in Tabs, q \in Slots : call'[u][q].sets # 0 =>
            /\ call'[u][q].sets = call[u][q].sets
            /\ NoChild(call[u][q].sets)' /\ call'[u][q].sets # cookie'
        BY <1>3, <1>4, <2>1 DEF SetsFresh, NoNewCookies, NoChild
    <3>3. \A u \in Tabs, q \in Slots : call'[u][q].sets # 0 =>
            /\ \A v \in Tabs : /\ refresh'[v].sets # call'[u][q].sets
                               /\ refresh'[v].at = "sent" => refresh'[v].cookie # call'[u][q].sets
            /\ \A v \in Tabs, p \in Slots :
                  call'[v][p].sets = call'[u][q].sets => v = u /\ p = q
        BY <2>1, <2>2, <2>3, <2>4 DEF SetsFresh, NoNewCookies
    <3> QED
        BY <2>2, <3>1, <3>2, <3>3 DEF SetsFresh, NoChild
  <2> QED
      BY <2>1, <2>5, <2>6, <2>7
<1> QED
    BY <1>5, <1>6 DEF IInv

LEMMA CloseTabStep ==
    ASSUME IInv, NEW t \in Tabs, CloseTab(t)
    PROVE  IInv'
<1>1. /\ Counted /\ tab' = [tab EXCEPT ![t] = NewTab]
      /\ call' = [call EXCEPT ![t] = [s \in Slots |-> NoCall]]
      /\ refresh' = [refresh EXCEPT ![t] = NoRefresh]
      /\ burnt' = [burnt EXCEPT !.excused = @ \/ refresh[t].sets # 0]
      /\ server' = [server EXCEPT !.by = IF @ = t /\ call[t]["act"].at # "none" THEN NoTab ELSE @]
      /\ UNCHANGED <<session, cookie>>
    BY DEF CloseTab
<1>2. TypeOK
    BY DEF IInv
<1>3. NoRefresh \in Refresh /\ NoRefresh.at = "none" /\ NoRefresh.sets = 0 /\ NoRefresh.cookie = 0
    BY Constants DEF NoRefresh
<1>4. Follows([s \in Slots |-> NoCall], t)
    BY NoCallFields DEF Follows, Slots
<1>5. call' \in [Tabs -> [Slots -> Call]] /\ SlotsOK' /\ NoNewCookies
    BY <1>1, <1>4, NewCalls
<1>6. /\ tab' \in [Tabs -> Tab] /\ refresh' \in [Tabs -> Refresh] /\ count' \in Counts
      /\ server' \in [required: BOOLEAN, totp: BOOLEAN, by: Tabs \cup {NoTab}]
    BY <1>1, <1>2, Types, Constants, CountedStep
<1>7. /\ burnt' \in [done: BOOLEAN, excused: BOOLEAN] /\ burnt'.done = burnt.done
      /\ burnt.excused => burnt'.excused
      /\ refresh[t].sets # 0 => burnt'.excused
  <2>1. (burnt.excused \/ refresh[t].sets # 0) \in BOOLEAN
      OBVIOUS
  <2> QED
      BY <1>1, <1>2, <2>1, Types
<1>8. TypeOK' /\ SameSessions
    BY <1>1, <1>2, <1>5, <1>6, <1>7 DEF TypeOK, Counts, SameSessions
<1> QED
    BY <1>1, <1>3, <1>5, <1>7, <1>8, RefreshEnds

LEMMA FailRefreshStep ==
    ASSUME IInv, NEW t \in Tabs, FailRefresh(t)
    PROVE  IInv'
<1> DEFINE r == [refresh[t] EXCEPT !.at = "answered", !.result = "error", !.sets = 0]
<1>1. /\ Faulty /\ refresh[t].at # "none"
      /\ refresh' = [refresh EXCEPT ![t].at = "answered", ![t].result = "error", ![t].sets = 0]
      /\ burnt' = [burnt EXCEPT !.excused = @ \/ refresh[t].sets # 0]
      /\ UNCHANGED <<server, session, cookie, tab, call>>
    BY DEF FailRefresh
<1>2. TypeOK /\ refresh \in [Tabs -> Refresh] /\ refresh[t] \in Refresh
    BY Types DEF IInv
<1>3. r \in Refresh /\ r.at = "answered" /\ r.sets = 0 /\ r.cookie = refresh[t].cookie
    BY <1>2, Constants DEF Refresh
<1>4. refresh' = [refresh EXCEPT ![t] = r]
    BY <1>1, <1>2
<1> HIDE DEF r
<1>5. SlotsOK' /\ NoNewCookies
    BY <1>1 DEF IInv, SlotsOK, NoNewCookies
<1>6. /\ burnt' \in [done: BOOLEAN, excused: BOOLEAN] /\ burnt'.done = burnt.done
      /\ burnt.excused => burnt'.excused
      /\ refresh[t].sets # 0 => burnt'.excused
  <2>1. (burnt.excused \/ refresh[t].sets # 0) \in BOOLEAN
      OBVIOUS
  <2> QED
      BY <1>1, <1>2, <2>1, Types
<1>7. refresh' \in [Tabs -> Refresh]
    BY <1>2, <1>3, <1>4
<1>8. TypeOK' /\ SameSessions
    BY <1>1, <1>2, <1>6, <1>7, FaultyStep DEF TypeOK, Counts, SameSessions
<1> QED
    BY <1>1, <1>3, <1>4, <1>5, <1>6, <1>8, RefreshEnds

\* A 401 starts a refresh, if there is none in this tab; one in another is an excuse.
LEMMA UnauthorizedStep ==
    ASSUME IInv, NEW t \in Tabs, NEW s \in Slots, Unauthorized(t, s)
    PROVE  IInv'
<1>1. /\ call' = [call EXCEPT ![t][s].at = "waiting"] /\ TryRefresh(t)
      /\ UNCHANGED <<server, session, cookie, tab, count>>
    BY DEF Unauthorized
<1>2. /\ TypeOK /\ call \in [Tabs -> [Slots -> Call]] /\ cookie \in Sessions0
      /\ refresh \in [Tabs -> Refresh] /\ burnt \in [done: BOOLEAN, excused: BOOLEAN]
    BY Types DEF IInv
<1>3. call' \in [Tabs -> [Slots -> Call]]
  <2> DEFINE x == [call[t][s] EXCEPT !.at = "waiting"]
  <2>3. call[t][s] \in Call
      BY <1>2, Types
  <2>1. x \in Call
      BY <2>3 DEF Call
  <2>2. call' = [call EXCEPT ![t] = [call[t] EXCEPT ![s] = x]]
      BY <1>1, <1>2
  <2> HIDE DEF x
  <2> QED
      BY <1>2, <2>1, <2>2
<1>4. \A u \in Tabs, q \in Slots : call'[u][q].sets = call[u][q].sets /\ call'[u][q].do = call[u][q].do
    BY <1>1, <1>2 DEF Call
<1>5. SlotsOK' /\ NoNewCookies /\ SameSessions
    BY <1>1, <1>3, <1>4, SameSlots DEF SameSets, SameSessions
<1>6. CASE refresh[t].at # "none"
  <2>1. UNCHANGED <<refresh, burnt>>
      BY <1>1, <1>6 DEF TryRefresh
  <2>2. TypeOK'
      BY <1>1, <1>2, <1>3, <2>1 DEF TypeOK
  <2> QED
      BY <1>1, <1>5, <2>1, <2>2, QuietStep
<1>7. CASE refresh[t].at = "none"
  <2> DEFINE r == [NoRefresh EXCEPT !.at = "sent", !.cookie = cookie]
             b == burnt.excused \/ \E u \in Tabs \ {t} : refresh[u].at # "none"
  <2>1. refresh' = [refresh EXCEPT ![t] = r] /\ burnt' = [burnt EXCEPT !.excused = b]
      BY <1>1, <1>7 DEF TryRefresh
  <2>2. r \in Refresh /\ r.at = "sent" /\ r.cookie = cookie /\ r.sets = 0
      BY <1>2, Constants DEF Refresh, NoRefresh
  <2> HIDE DEF r
  <2>3. /\ refresh' \in [Tabs -> Refresh] /\ refresh'[t] = r
        /\ \A u \in Tabs : u # t => refresh'[u] = refresh[u]
      BY <1>2, <2>1, <2>2
  <2>4. /\ burnt' \in [done: BOOLEAN, excused: BOOLEAN]
        /\ burnt'.done = burnt.done /\ burnt'.excused = b
    <3>1. b \in BOOLEAN
        OBVIOUS
    <3> QED
        BY <1>2, <2>1, <3>1
  <2>5. TypeOK'
      BY <1>1, <1>2, <1>3, <2>3, <2>4 DEF TypeOK
  <2>6. References'
    <3>1. \A n \in 1..MaxSessions : SessionOK(n)'
        BY <1>1 DEF IInv, References, SessionOK, Known0
    <3>2. Known0(cookie)' /\ \A u \in Tabs, q \in Slots : Known0(call[u][q].sets)'
        BY <1>1, <1>4 DEF IInv, References, Known0
    <3>3. \A u \in Tabs :
            /\ Known0(refresh[u].cookie)' /\ Known0(refresh[u].sets)'
            /\ refresh'[u].at # "answered" \/ refresh'[u].result # "ok" => refresh'[u].sets = 0
        BY <1>1, <2>2, <2>3 DEF IInv, References, Known0
    <3> QED
        BY <3>1, <3>2, <3>3 DEF References
  <2>7. Causes'
    <3> SUFFICES ASSUME ~burnt'.excused PROVE (~burnt.done /\ OneRefresh /\ CookieFresh /\ SetsFresh)'
        BY DEF Causes
    <3>1. ~burnt.done /\ OneRefresh /\ CookieFresh /\ SetsFresh
        BY <2>4 DEF IInv, Causes
    <3>2. \A u \in Tabs : refresh[u].at = "none"
        BY <1>7, <2>4
    <3>3. cookie # 0 => NoChild(cookie)
        BY <3>1, <3>2 DEF CookieFresh, NoChild
    <3>4. \A u \in Tabs : refresh'[u].at # "none" => u = t
        BY <2>3, <3>2
    <3>5. \A u \in Tabs : refresh'[u].sets = 0
        BY <2>2, <2>3, <3>2 DEF IInv, References
    <3>6. OneRefresh'
        BY <1>1, <2>2, <2>3, <3>3, <3>4 DEF OneRefresh, NoChild
    <3>7. CookieFresh'
        BY <1>1, <3>3 DEF CookieFresh, NoChild
    <3>8. SetsFresh'
      <4>1. \A u \in Tabs, q \in Slots : call'[u][q].sets # 0 =>
              /\ NoChild(call[u][q].sets)' /\ call'[u][q].sets # cookie'
              /\ \A v \in Tabs, p \in Slots :
                    call'[v][p].sets = call'[u][q].sets => v = u /\ p = q
          BY <1>1, <1>4, <3>1 DEF SetsFresh, NoChild
      <4>2. \A u \in Tabs, q \in Slots : call'[u][q].sets # 0 =>
              \A v \in Tabs : /\ refresh'[v].sets # call'[u][q].sets
                              /\ refresh'[v].at = "sent" => refresh'[v].cookie # call'[u][q].sets
          BY <1>1, <2>2, <2>3, <3>4, <3>5, <4>1
      <4> QED
          BY <3>5, <4>1, <4>2 DEF SetsFresh, NoChild
    <3> QED
        BY <2>4, <3>1, <3>6, <3>7, <3>8
  <2> QED
      BY <1>5, <2>5, <2>6, <2>7 DEF IInv
<1> QED
    BY <1>6, <1>7

\* The server replaces a session: its successor is in the answer, and nowhere else.
LEMMA RotateStep ==
    ASSUME IInv, NEW t \in Tabs, refresh[t].at = "sent", refresh[t].cookie # 0,
           NEW n \in Unused, NEW r \in Refresh, NEW x \in Session, NEW y \in Session,
           r.at = "answered", r.result = "ok", r.sets = n, r.cookie = refresh[t].cookie,
           x.at = "revoked", x.parent = session[refresh[t].cookie].parent,
           x.family = session[refresh[t].cookie].family,
           y.at = "live", y.parent = refresh[t].cookie, y.family = x.family,
           session' = [session EXCEPT ![refresh[t].cookie] = x, ![n] = y],
           refresh' = [refresh EXCEPT ![t] = r],
           UNCHANGED <<server, cookie, tab, call, burnt, count>>
    PROVE  IInv'
<1> DEFINE c == refresh[t].cookie
<1>1. /\ TypeOK /\ session \in [1..MaxSessions -> Session] /\ refresh \in [Tabs -> Refresh]
      /\ c \in Sessions0 /\ Known0(c)
    BY Types, Numbers DEF IInv, References
<1>2. c \in 1..MaxSessions /\ session[c].at # "none"
    BY <1>1, ClientAssumption DEF Known0, Sessions0
<1>3. n \in 1..MaxSessions /\ session[n].at = "none" /\ n # c /\ n # 0 /\ n \in Sessions0
    BY <1>2 DEF Unused, Sessions0
<1> HIDE DEF c
<1>4. /\ session' \in [1..MaxSessions -> Session]
      /\ session'[c] = x /\ session'[n] = y
      /\ \A m \in 1..MaxSessions : m # c /\ m # n => session'[m] = session[m]
    BY <1>1, <1>2, <1>3 DEF c
<1>5. /\ refresh' \in [Tabs -> Refresh] /\ refresh'[t] = r
      /\ \A u \in Tabs : u # t => refresh'[u] = refresh[u]
    BY <1>1
<1>6. TypeOK'
    BY <1>1, <1>4, <1>5 DEF TypeOK
<1>7. SlotsOK'
    BY DEF IInv, SlotsOK
<1>8. ASSUME NEW m \in Sessions0, Known0(m)
      PROVE  Known0(m)' /\ m # n
    BY <1>2, <1>3, <1>4, <1>8 DEF Known0, Sessions0
<1>9. \A m \in 1..MaxSessions :
        session'[m].parent = IF m = n THEN c ELSE session[m].parent
    BY <1>3, <1>4 DEF c
<1>10. ASSUME NEW m, NoChild(m), m # c
       PROVE  NoChild(m)'
    BY <1>9, <1>10 DEF NoChild
<1>11. /\ \A m \in 1..MaxSessions : SessionOK(m) /\ session[m].parent \in Sessions0
       /\ \A u \in Tabs : /\ refresh[u].cookie \in Sessions0 /\ refresh[u].sets \in Sessions0
                          /\ \A s \in Slots : call[u][s].sets \in Sessions0
       /\ cookie \in Sessions0
    BY <1>1, Numbers, Types DEF IInv, References
<1>12. NoChild(n)'
  <2> SUFFICES ASSUME NEW m \in 1..MaxSessions PROVE session'[m].parent # n
      BY DEF NoChild
  <2>1. session[m].parent \in Sessions0 /\ Known0(session[m].parent)
      BY <1>11 DEF SessionOK
  <2>2. session[m].parent # n
      BY <1>8, <2>1
  <2> QED
      BY <1>3, <1>9, <2>2
<1>13. References'
  <2>1. \A m \in 1..MaxSessions : SessionOK(m)'
    <3> TAKE m \in 1..MaxSessions
    <3>0. session'[c].family # 0
        BY <1>2, <1>4, <1>11 DEF SessionOK, c
    <3>1. CASE m = n
        BY <1>4, <1>9, <3>0, <3>1 DEF SessionOK, Known0
    <3>2. CASE m # n
      <4>1. session'[m].at = "none" <=> session'[m].family = 0
          BY <1>4, <1>11, <3>0, <3>2 DEF SessionOK
      <4>2. session[m].parent \in Sessions0 /\ Known0(session[m].parent)
          BY <1>11 DEF SessionOK
      <4>3. session[m].parent # 0 => session'[session[m].parent].at # "none"
          BY <1>8, <4>2 DEF Known0
      <4> QED
          BY <1>9, <3>2, <4>1, <4>3 DEF SessionOK, Known0
    <3> QED
        BY <3>1, <3>2
  <2>2. Known0(cookie)' /\ \A u \in Tabs, s \in Slots : Known0(call[u][s].sets)'
      BY <1>8, <1>11 DEF IInv, References, Known0
  <2>3. \A u \in Tabs :
          /\ Known0(refresh[u].cookie)' /\ Known0(refresh[u].sets)'
          /\ refresh'[u].at # "answered" \/ refresh'[u].result # "ok" => refresh'[u].sets = 0
    <3> TAKE u \in Tabs
    <3>1. CASE u = t
        BY <1>4, <1>5, <3>1 DEF Known0, c
    <3>2. CASE u # t
        BY <1>5, <1>8, <1>11, <3>2 DEF IInv, References, Known0
    <3> QED
        BY <3>1, <3>2
  <2> QED
      BY <2>1, <2>2, <2>3 DEF References
<1>14. Causes'
  <2> SUFFICES ASSUME ~burnt.excused PROVE (~burnt.done /\ OneRefresh /\ CookieFresh /\ SetsFresh)'
      BY DEF Causes
  <2>1. ~burnt.done /\ OneRefresh /\ CookieFresh /\ SetsFresh
      BY DEF IInv, Causes
  <2>2. \A u \in Tabs : u # t => refresh[u].at = "none" /\ refresh[u].sets = 0
      BY <2>1 DEF OneRefresh, IInv, References
  <2>3. \A u \in Tabs : /\ refresh'[u].at # "none" => u = t
                        /\ refresh'[u].at # "sent"
                        /\ refresh'[u].sets # 0 => u = t
      BY <1>5, <2>2
  <2>4. OneRefresh'
      BY <2>3 DEF OneRefresh
  <2>5. CookieFresh'
    <3> SUFFICES ASSUME cookie # 0, NEW m \in 1..MaxSessions, session'[m].parent = cookie
                 PROVE  \E u \in Tabs : refresh'[u].at = "answered" /\ refresh'[u].sets = m
        BY DEF CookieFresh
    <3>1. CASE m = n
        BY <1>5, <3>1
    <3>2. CASE m # n
      <4>1. PICK u \in Tabs : refresh[u].at = "answered" /\ refresh[u].sets = m
          BY <1>9, <2>1, <3>2 DEF CookieFresh
      <4> QED
          BY <2>2, <4>1
    <3> QED
        BY <3>1, <3>2
  <2>6. \A u \in Tabs : refresh'[u].sets # 0 =>
          NoChild(refresh[u].sets)' /\ refresh'[u].sets # cookie
      BY <1>5, <1>8, <1>11, <1>12, <2>3 DEF NoChild, IInv, References
  <2>7. ASSUME NEW u \in Tabs, NEW s \in Slots, call[u][s].sets # 0
        PROVE  /\ NoChild(call[u][s].sets)' /\ call[u][s].sets # cookie
               /\ \A v \in Tabs : refresh'[v].sets # call[u][s].sets
               /\ \A v \in Tabs, q \in Slots :
                     call[v][q].sets = call[u][s].sets => v = u /\ q = s
    <3>1. NoChild(call[u][s].sets) /\ call[u][s].sets # c
        BY <2>1, <2>7 DEF SetsFresh, c
    <3>2. NoChild(call[u][s].sets)'
        BY <1>10, <3>1 DEF NoChild
    <3>3. call[u][s].sets # n
        BY <1>8, <1>11 DEF IInv, References
    <3>4. \A v \in Tabs : refresh'[v].sets # call[u][s].sets
        BY <1>5, <2>3, <2>7, <3>3
    <3> QED
        BY <2>1, <2>7, <3>2, <3>4 DEF SetsFresh
  <2>8. \A u \in Tabs, s \in Slots : call'[u][s].sets # 0 =>
          /\ NoChild(call[u][s].sets)' /\ call'[u][s].sets # cookie'
          /\ \A v \in Tabs : /\ refresh'[v].sets # call'[u][s].sets
                             /\ refresh'[v].at = "sent" => refresh'[v].cookie # call'[u][s].sets
          /\ \A v \in Tabs, q \in Slots :
                call'[v][q].sets = call'[u][s].sets => v = u /\ q = s
      BY <2>3, <2>7
  <2>9. SetsFresh'
      BY <2>6, <2>8 DEF SetsFresh, NoChild
  <2> QED
      BY <2>1, <2>4, <2>5, <2>9
<1> QED
    BY <1>6, <1>7, <1>13, <1>14 DEF IInv

LEMMA ServeRefreshStep ==
    ASSUME IInv, NEW t \in Tabs, ServeRefresh(t)
    PROVE  IInv'
<1> DEFINE c == refresh[t].cookie
           Refused(result) == [refresh[t] EXCEPT !.at = "answered", !.result = result]
<1>1. refresh[t].at = "sent" /\ UNCHANGED <<server, cookie, tab, call, count>>
    BY DEF ServeRefresh
<1>2. /\ TypeOK /\ session \in [1..MaxSessions -> Session] /\ refresh \in [Tabs -> Refresh]
      /\ refresh[t] \in Refresh /\ burnt \in [done: BOOLEAN, excused: BOOLEAN]
      /\ c \in Sessions0 /\ Known0(c) /\ refresh[t].sets = 0
    BY <1>1, Types, Numbers DEF IInv, References
<1>3. SlotsOK' /\ NoNewCookies
    BY <1>1 DEF IInv, SlotsOK, NoNewCookies
<1>4. ASSUME NEW result \in {"unauthorized", "error"}, refresh' = [refresh EXCEPT ![t] = Refused(result)],
             session' \in [1..MaxSessions -> Session], SameSessions,
             burnt' \in [done: BOOLEAN, excused: BOOLEAN], burnt'.excused = burnt.excused,
             burnt'.done => burnt.done \/ burnt.excused
      PROVE  IInv'
  <2> DEFINE r == Refused(result)
  <2>1. r \in Refresh /\ r.at = "answered" /\ r.sets = 0 /\ r.cookie = refresh[t].cookie
      BY <1>2 DEF Refresh
  <2>2. refresh' = [refresh EXCEPT ![t] = r]
      BY <1>4
  <2> HIDE DEF r
  <2>3. refresh' \in [Tabs -> Refresh]
      BY <1>2, <2>1, <2>2
  <2>4. TypeOK'
      BY <1>1, <1>2, <1>4, <2>3 DEF TypeOK
  <2>5. /\ burnt.excused => burnt'.excused
        /\ burnt'.done => burnt.done \/ burnt'.excused
        /\ refresh[t].sets # 0 => burnt'.excused
      BY <1>2, <1>4
  <2> QED
      BY <1>1, <1>3, <1>4, <2>1, <2>2, <2>4, <2>5, RefreshEnds
<1>5. ASSUME NEW result,
             refresh' = [refresh EXCEPT ![t].at = "answered", ![t].result = result]
      PROVE  refresh' = [refresh EXCEPT ![t] = Refused(result)]
    BY <1>2, <1>5
<1> HIDE DEF Refused
<1>6. session' = session => session' \in [1..MaxSessions -> Session] /\ SameSessions
    BY <1>2 DEF SameSessions
<1>7. CASE c = 0
  <2>1. /\ refresh' = [refresh EXCEPT ![t].at = "answered", ![t].result = "unauthorized"]
        /\ session' = session /\ burnt' = burnt
      BY <1>7 DEF ServeRefresh
  <2> QED
      BY <1>2, <1>4, <1>5, <1>6, <2>1
<1>8. CASE c # 0 /\ session[c].at = "revoked"
  <2>1. refresh' = [refresh EXCEPT ![t].at = "answered", ![t].result = "unauthorized"]
      BY <1>8 DEF ServeRefresh
  <2>2. CASE \E n \in 1..MaxSessions : session[n].parent = c
    <3> DEFINE R == {n \in 1..MaxSessions : session[n].family = session[c].family /\ session[n].at # "none"}
    <3>1. /\ session' = [n \in 1..MaxSessions |->
                IF session[n].family = session[c].family THEN Revoked(session[n]) ELSE session[n]]
          /\ burnt' = [burnt EXCEPT !.done = TRUE]
        BY <1>8, <2>2 DEF ServeRefresh
    <3>2. burnt' \in [done: BOOLEAN, excused: BOOLEAN] /\ burnt'.excused = burnt.excused
        BY <1>2, <3>1
    <3>3. burnt.excused
        BY <1>1, <1>8, <2>2 DEF IInv, Causes, OneRefresh, NoChild
    <3>4. session' \in [1..MaxSessions -> Session] /\ SameSessions
      <4>1. \A n \in 1..MaxSessions : session[n].at = "none" => session[n].family # session[c].family
        <5>1. c \in 1..MaxSessions
            BY <1>2, <1>8, ClientAssumption DEF Sessions0
        <5>2. session[c].family # 0
            BY <1>8, <5>1 DEF IInv, References, SessionOK
        <5> QED
            BY <5>2 DEF IInv, References, SessionOK
      <4>2. session' = [n \in 1..MaxSessions |-> IF n \in R THEN Revoked(session[n]) ELSE session[n]]
          BY <3>1, <4>1
      <4>3. R \in SUBSET (1..MaxSessions) /\ \A n \in R : session[n].at # "none"
          OBVIOUS
      <4> HIDE DEF R
      <4> QED
          BY <1>2, <4>2, <4>3, RevokesSome
    <3> QED
        BY <1>4, <1>5, <2>1, <3>2, <3>3, <3>4
  <2>3. CASE ~\E n \in 1..MaxSessions : session[n].parent = c
    <3>1. session' = session /\ burnt' = burnt
        BY <1>8, <2>3 DEF ServeRefresh
    <3> QED
        BY <1>2, <1>4, <1>5, <1>6, <2>1, <3>1
  <2> QED
      BY <2>2, <2>3
<1>9. CASE c # 0 /\ session[c].at # "revoked" /\ Unused = {}
  <2>1. /\ refresh' = [refresh EXCEPT ![t].at = "answered", ![t].result = "error"]
        /\ session' = session /\ burnt' = burnt
      BY <1>9 DEF ServeRefresh
  <2> QED
      BY <1>2, <1>4, <1>5, <1>6, <2>1
<1>10. CASE c # 0 /\ session[c].at # "revoked" /\ Unused # {}
  <2>1. /\ \E n \in Unused :
              /\ session' = [session EXCEPT ![c] = Revoked(@), ![n] =
                    [at |-> "live", family |-> session[c].family, parent |-> c, expired |-> FALSE]]
              /\ refresh' = [refresh EXCEPT ![t].at = "answered", ![t].result = "ok", ![t].sets = n]
        /\ burnt' = burnt
      BY <1>10 DEF ServeRefresh
  <2>2. PICK n \in Unused :
          /\ session' = [session EXCEPT ![c] = Revoked(@), ![n] =
                [at |-> "live", family |-> session[c].family, parent |-> c, expired |-> FALSE]]
          /\ refresh' = [refresh EXCEPT ![t].at = "answered", ![t].result = "ok", ![t].sets = n]
      BY <2>1
  <2> DEFINE r == [refresh[t] EXCEPT !.at = "answered", !.result = "ok", !.sets = n]
             x == Revoked(session[c])
             y == [at |-> "live", family |-> session[c].family, parent |-> c, expired |-> FALSE]
  <2>3. c \in 1..MaxSessions /\ session[c] \in Session /\ session[c].family \in Sessions0
      BY <1>2, <1>10, ClientAssumption DEF Sessions0, Session
  <2>4. n \in 1..MaxSessions /\ n \in Sessions0
      BY DEF Unused, Sessions0
  <2>5. r \in Refresh /\ r.at = "answered" /\ r.result = "ok" /\ r.sets = n /\ r.cookie = c
      BY <1>2, <2>4 DEF Refresh
  <2>6. x \in Session /\ x.at = "revoked" /\ x.parent = session[c].parent
        /\ x.family = session[c].family
      BY <2>3, RevokedSession
  <2>7. y \in Session /\ y.at = "live" /\ y.parent = c /\ y.family = session[c].family
      BY <1>2, <2>3 DEF Session
  <2>10. UNCHANGED <<server, cookie, tab, call, burnt, count>>
      BY <1>1, <2>1
  <2>8. refresh' = [refresh EXCEPT ![t] = r]
      BY <1>2, <2>2
  <2>9. session' = [session EXCEPT ![c] = x, ![n] = y]
      BY <1>2, <2>2, <2>3
  <2> HIDE DEF r, x, y
  <2>11. /\ r \in Refresh /\ r.at = "answered" /\ r.result = "ok" /\ r.sets = n
         /\ r.cookie = refresh[t].cookie
      BY <2>5
  <2>12. /\ x \in Session /\ x.at = "revoked" /\ x.parent = session[refresh[t].cookie].parent
         /\ x.family = session[refresh[t].cookie].family
      BY <2>6
  <2>13. y \in Session /\ y.at = "live" /\ y.parent = refresh[t].cookie /\ y.family = x.family
      BY <2>6, <2>7
  <2>14. session' = [session EXCEPT ![refresh[t].cookie] = x, ![n] = y]
      BY <2>9
  <2>15. n \in Unused /\ refresh[t].cookie # 0
      BY <1>10, <2>2
  <2> HIDE DEF c
  <2> QED
      BY ONLY IInv, t \in Tabs, <1>1, <2>8, <2>10, <2>11, <2>12, <2>13, <2>14, <2>15, RotateStep
<1> QED
    BY <1>7, <1>8, <1>9, <1>10

LEMMA ResumedCall ==
    ASSUME NEW x \in Call, NEW ok, NEW new \in Sessions0
    PROVE  /\ Resumed(x, ok, new) \in Call
           /\ Resumed(x, ok, new).sets = x.sets /\ Resumed(x, ok, new).do = x.do
BY DEF Resumed, Call

LEMMA ResumedCalls ==
    ASSUME IInv, NEW t \in Tabs, NEW ok, cookie' \in Sessions0,
           call' = [call EXCEPT ![t] = [s \in Slots |-> Resumed(@[s], ok, cookie')]]
    PROVE  call' \in [Tabs -> [Slots -> Call]] /\ SlotsOK' /\ SameSets /\ NoNewCookies
<1> DEFINE c == [s \in Slots |-> Resumed(call[t][s], ok, cookie')]
<1>1. call \in [Tabs -> [Slots -> Call]] /\ \A s \in Slots : call[t][s] \in Call
    BY Types DEF IInv
<1>2. c \in [Slots -> Call]
    BY <1>1, ResumedCall
<1>3. \A s \in Slots : c[s].sets = call[t][s].sets /\ c[s].do = call[t][s].do
    BY <1>1, ResumedCall
<1>4. call' = [call EXCEPT ![t] = c]
    OBVIOUS
<1> HIDE DEF c
<1>5. call' \in [Tabs -> [Slots -> Call]] /\ call'[t] = c
    BY <1>1, <1>2, <1>4
<1>6. \A u \in Tabs : u # t => call'[u] = call[u]
    BY <1>1, <1>4
<1>7. SameSets
    BY <1>3, <1>5, <1>6 DEF SameSets
<1> QED
    BY <1>5, <1>7, SameSlots

\* The answer to a refresh sets its cookies: nothing has been refreshed with them.
LEMMA RefreshSucceeds ==
    ASSUME IInv, NEW t \in Tabs, refresh[t].at = "answered", refresh[t].result = "ok",
           cookie' = refresh[t].sets, refresh' = [refresh EXCEPT ![t] = NoRefresh],
           TypeOK', SlotsOK', SameSets, UNCHANGED <<session, burnt>>
    PROVE  IInv'
<1>1. TypeOK /\ refresh \in [Tabs -> Refresh]
    BY Types DEF IInv
<1>2. NoRefresh.at = "none" /\ NoRefresh.sets = 0 /\ NoRefresh.cookie = 0
    BY DEF NoRefresh
<1>3. refresh'[t] = NoRefresh /\ \A u \in Tabs : u # t => refresh'[u] = refresh[u]
    BY <1>1
<1>4. References'
  <2>1. Known0(cookie)'
      BY DEF IInv, References, Known0
  <2>2. \A u \in Tabs, s \in Slots : Known0(call[u][s].sets)'
      BY DEF IInv, References, Known0, SameSets
  <2>3. \A n \in 1..MaxSessions : SessionOK(n)'
      BY DEF IInv, References, SessionOK, Known0
  <2>4. \A u \in Tabs :
          /\ Known0(refresh[u].cookie)' /\ Known0(refresh[u].sets)'
          /\ refresh'[u].at # "answered" \/ refresh'[u].result # "ok" => refresh'[u].sets = 0
      BY <1>2, <1>3 DEF IInv, References, Known0
  <2> QED
      BY <2>1, <2>2, <2>3, <2>4 DEF References
<1>5. Causes'
  <2> SUFFICES ASSUME ~burnt.excused PROVE (~burnt.done /\ OneRefresh /\ CookieFresh /\ SetsFresh)'
      BY DEF Causes
  <2>1. ~burnt.done /\ OneRefresh /\ CookieFresh /\ SetsFresh
      BY DEF IInv, Causes
  <2>2. \A u \in Tabs : u # t => refresh[u].at = "none" /\ refresh[u].sets = 0
      BY <2>1 DEF OneRefresh, IInv, References
  <2>3. \A u \in Tabs : refresh'[u].at = "none" /\ refresh'[u].sets = 0
      BY <1>2, <1>3, <2>2
  <2>4. OneRefresh'
      BY <2>3 DEF OneRefresh
  <2>5. CookieFresh'
      BY <2>1 DEF CookieFresh, SetsFresh, NoChild
  <2>6. ASSUME NEW u \in Tabs, NEW s \in Slots, call'[u][s].sets # 0
        PROVE  /\ NoChild(call[u][s].sets)' /\ call'[u][s].sets # cookie'
               /\ \A v \in Tabs, r \in Slots :
                     call'[v][r].sets = call'[u][s].sets => v = u /\ r = s
    <3>1. call'[u][s].sets = call[u][s].sets
        BY DEF SameSets
    <3>2. NoChild(call[u][s].sets)'
        BY <2>1, <2>6, <3>1 DEF SetsFresh, NoChild
    <3>3. call'[u][s].sets # cookie'
        BY <2>1, <2>6, <3>1 DEF SetsFresh
    <3>4. \A v \in Tabs, r \in Slots : call'[v][r].sets = call'[u][s].sets => v = u /\ r = s
        BY <2>1, <2>6, <3>1 DEF SetsFresh, SameSets
    <3> QED
        BY <3>2, <3>3, <3>4
  <2>7. SetsFresh'
      BY <2>3, <2>6 DEF SetsFresh, NoChild
  <2> QED
      BY <2>1, <2>4, <2>5, <2>7
<1> QED
    BY <1>4, <1>5 DEF IInv

LEMMA RefreshArrivesStep ==
    ASSUME IInv, NEW t \in Tabs, RefreshArrives(t)
    PROVE  IInv'
<1> DEFINE ok == refresh[t].result = "ok"
<1>1. /\ refresh[t].at = "answered" /\ refresh' = [refresh EXCEPT ![t] = NoRefresh]
      /\ call' = [call EXCEPT ![t] = [s \in Slots |-> Resumed(@[s], ok, cookie')]]
      /\ UNCHANGED <<server, session, tab, burnt, count>>
    BY DEF RefreshArrives
<1>2. cookie' = IF ok THEN refresh[t].sets
                ELSE IF refresh[t].result = "unauthorized" /\ refresh[t].cookie # 0 THEN 0 ELSE cookie
    BY DEF RefreshArrives
<1>3. TypeOK /\ refresh \in [Tabs -> Refresh] /\ refresh[t].sets \in Sessions0
      /\ cookie \in Sessions0
    BY Types, Numbers DEF IInv
<1>4. cookie' \in Sessions0
    BY <1>2, <1>3, Constants
<1>5. call' \in [Tabs -> [Slots -> Call]] /\ SlotsOK' /\ SameSets /\ NoNewCookies
    BY <1>1, <1>4, ResumedCalls
<1>6. TypeOK'
  <2>1. refresh' \in [Tabs -> Refresh]
      BY <1>1, <1>3, Constants
  <2> QED
      BY <1>1, <1>3, <1>4, <1>5, <2>1 DEF TypeOK
<1>7. CASE ok
    BY <1>1, <1>2, <1>5, <1>6, <1>7, RefreshSucceeds
<1>8. CASE ~ok
  <2>1. cookie' \in {0, cookie} /\ refresh[t].sets = 0
      BY <1>2, <1>8 DEF IInv, References
  <2>2. NoRefresh \in Refresh /\ NoRefresh.at = "none" /\ NoRefresh.sets = 0 /\ NoRefresh.cookie = 0
      BY Constants DEF NoRefresh
  <2>3. SameSessions /\ burnt' = burnt
      BY <1>1 DEF SameSessions
  <2> QED
      BY <1>1, <1>5, <1>6, <2>1, <2>2, <2>3, RefreshEnds
<1> QED
    BY <1>7, <1>8

-----------------------------------------------------------------------------
LEMMA UserStep ==
    ASSUME IInv, NEW t \in Tabs, User(t)
    PROVE  IInv'
BY OpenTabStep, CloseTabStep, BrowseStep, SubmitStep, AccountStepStep DEF User

LEMMA ArriveStep ==
    ASSUME IInv, NEW t \in Tabs, NEW s \in Slots, Arrive(t, s)
    PROVE  IInv'
BY QueryArrives, SignInStep, LogoutStep, ChangeStep, UnauthorizedStep DEF Arrive

LEMMA NetworkStep ==
    ASSUME IInv, NEW t \in Tabs, Network(t)
    PROVE  IInv'
<1>1. CASE ServeRefresh(t)
    BY <1>1, ServeRefreshStep
<1>2. CASE FailRefresh(t)
    BY <1>2, FailRefreshStep
<1>3. CASE RefreshArrives(t)
    BY <1>3, RefreshArrivesStep
<1>4. ASSUME NEW s \in Slots, Serve(t, s)
      PROVE  IInv'
    BY <1>4, ServeQuietly, ServeIssues DEF Serve
<1>5. ASSUME NEW s \in Slots, Fail(t, s)
      PROVE  IInv'
    BY <1>5, FailStep
<1>6. ASSUME NEW s \in Slots, Arrive(t, s)
      PROVE  IInv'
    BY <1>6, ArriveStep
<1> QED
    BY <1>1, <1>2, <1>3, <1>4, <1>5, <1>6 DEF Network

LEMMA NextInv == IInv /\ [Next]_vars => IInv'
<1> SUFFICES ASSUME IInv, [Next]_vars PROVE IInv'
    OBVIOUS
<1>1. ASSUME NEW t \in Tabs, User(t) \/ Navigate(t) \/ Network(t)
      PROVE  IInv'
    BY <1>1, UserStep, NavigateStep, NetworkStep
<1>2. ASSUME NEW n \in 1..MaxSessions, Expire(n)
      PROVE  IInv'
    BY <1>2, ExpireStep
<1>3. CASE UNCHANGED vars
  <2>1. TypeOK' /\ SlotsOK'
      BY <1>3 DEF vars, IInv, TypeOK, SlotsOK
  <2>2. SameSessions /\ NoNewCookies /\ cookie' \in {0, cookie} /\ UNCHANGED <<refresh, burnt>>
      BY <1>3 DEF vars, SameSessions, NoNewCookies
  <2> QED
      BY <2>1, <2>2, QuietStep
<1> QED
    BY <1>1, <1>2, <1>3 DEF Next

LEMMA Inductive == Spec => []IInv
BY InitInv, NextInv, PTL DEF Spec

-----------------------------------------------------------------------------
\* The tabs, their requests and caches, the cookies and the table of sessions keep their
\* types, in every order of clicks, answers and faults (api.ts, auth.ts, Gates.tsx).
THEOREM ClientTypeOK == Spec => []TypeOK
<1>1. IInv => TypeOK
    BY DEF IInv
<1> QED
    BY <1>1, Inductive, PTL

\* A family is revoked as stolen only after the answer to a refresh was lost or two tabs
\* have refreshed at once: one tab alone, however many of its requests get a 401,
\* presents no token twice (api.ts: refreshInFlight, tryRefresh).
THEOREM OneTabIsNoThief == Spec => []PunishedWithCause
<1>1. IInv => PunishedWithCause
    BY Zenon DEF IInv, Causes, PunishedWithCause
<1> QED
    BY <1>1, Inductive, PTL

-----------------------------------------------------------------------------
(***************************************************************************)
(* What a tab knows of 2FA                                                 *)
(***************************************************************************)
\* The invariant of one tab is a relation between the account v, the tab p and
\* its requests c, so that the parts of a step can be followed one by one.
Server == [required: BOOLEAN, totp: BOOLEAN, by: Tabs \cup {NoTab}]

Ok(x) == x.at = "answered" /\ x.result = "ok"

\* What the requests of a slot may be.
Kinds(s) ==
    CASE s = "me"    -> {"none", "me"}
      [] s = "setup" -> {"none", "setup"}
      [] s = "act"   -> {"none"} \cup Submits
      [] s = "query" -> {"none", "query", "complete"}

\* What tells the tab about its account, and what is done in the wizard.
Tells   == {"me", "login", "complete"}
Wizards == {"none", "verifyToken", "complete"}

InWizard(p) == p.at = "setup" /\ p.step # "token"

\* The wizard's last request has made the first account.
Completed(x) == Ok(x) /\ x.do = "complete"

\* The setup status that is to arrive says that there is no account.
SaysUnset(c) == Ok(c["setup"]) /\ c["setup"].value

\* The answer to the tab's own change of 2FA is still to arrive.
Changing(c) == Ok(c["act"]) /\ c["act"].do \in {"verify", "disable"}

\* Before the first account nobody has been told of one.
Unset(v, p, c) ==
    v.required => /\ p.me = "none"
                  /\ \A s \in Slots : Ok(c[s]) => c[s].do \notin Tells /\ s # "me"
                  /\ Ok(c["setup"]) => c["setup"].value

\* The slots hold what belongs there; a 401 is what makes a request wait; the
\* wizard's buttons send the wizard's requests.
SlotsFit(p, c) ==
    /\ \A s \in Slots : c[s].do \in Kinds(s)
    /\ \A s \in Slots : c[s].at = "waiting" => c[s].result = "unauthorized"
    /\ InWizard(p) => c["act"].do \in Wizards

\* The wizard is shown until there is an account, or a status says so.  Nobody comes
\* back to it while its answer is to arrive, and only one answer counts.
Completes(v, p, c) ==
    /\ \A s \in Slots : (v.required /\ c[s].do = "complete") => InWizard(p) /\ p.required = "yes"
    /\ \A s \in Slots : Completed(c[s]) =>
          /\ (p.at = "setup" \/ p.required = "yes") => InWizard(p)
          /\ p.required # "yes" => ~SaysUnset(c)
    /\ \A r, s \in Slots : Completed(c[r]) /\ Completed(c[s]) => r = s

\* What tab t has been told, or is being told, is the state its change has left.
MeRight(v, p) == p.me = "none" \/ p.failed \/ p.me = Flag(v.totp)

Agrees(t, v, p, c) ==
    v.by = t =>
        /\ \A s \in Slots :
              (Ok(c[s]) /\ (c[s].do = "login" \/ (c[s].do = "complete" /\ p.at = "setup")))
                 => c[s].value = v.totp
        /\ ~p.cleared /\ ~Changing(c) =>
              /\ Ok(c["me"]) => c["me"].value = v.totp
              /\ c["me"].at = "none" => MeRight(v, p)

Fits(t, v, p, c) ==
    Unset(v, p, c) /\ SlotsFit(p, c) /\ Completes(v, p, c) /\ Agrees(t, v, p, c)

\* A tab that is closed asks for nothing.
Closed(p, c) == p.at = "none" => ~p.cleared /\ \A s \in Slots : c[s].at = "none"

\* Before the first account there is no session.
NoSessions == server.required => \A n \in 1..MaxSessions : session[n].at = "none"

TabsFit == \A t \in Tabs : Closed(tab[t], call[t]) /\ Fits(t, server, tab[t], call[t])

\* The invariant TwoFactorShown needs.
ShownInv == NoSessions /\ TabsFit

LEMMA ShownEnough == ShownInv => TwoFactorShown
<1> SUFFICES ASSUME ShownInv, NEW t \in Tabs,
                    server.by = t, tab[t].me # "none", ~tab[t].failed, ~tab[t].cleared,
                    ~Busy(t, "me"), ~Busy(t, "act")
             PROVE  tab[t].me = Flag(server.totp)
    BY DEF TwoFactorShown
<1>1. ~Changing(call[t]) /\ call[t]["me"].at = "none"
    BY DEF Busy, Changing, Ok
<1> QED
    BY <1>1 DEF ShownInv, TabsFit, Fits, Agrees, MeRight

-----------------------------------------------------------------------------
\* One part of a step at a time.

\* Somebody else changes the account.
ServerKept(t, v, w) ==
    /\ w.required => v.required
    /\ w.by = t => v.by = t /\ w.totp = v.totp

LEMMA FitsServer ==
    ASSUME NEW t, NEW v, NEW w, NEW p, NEW c, Fits(t, v, p, c), ServerKept(t, v, w)
    PROVE  Fits(t, w, p, c)
<1>1. Unset(w, p, c)
    BY DEF Fits, Unset, ServerKept
<1>2. Completes(w, p, c)
    BY DEF Fits, Completes, ServerKept
<1>3. Agrees(t, w, p, c)
    BY DEF Fits, Agrees, MeRight, ServerKept
<1> QED
    BY <1>1, <1>2, <1>3 DEF Fits

\* One slot is given another request.
SlotFits(t, v, p, c, s, x) ==
    /\ x.do \in Kinds(s)
    /\ x.at = "waiting" => x.result = "unauthorized"
    /\ (s = "act" /\ InWizard(p)) => x.do \in Wizards
    /\ x.do = "complete" => ~Ok(x) /\ (v.required => InWizard(p) /\ p.required = "yes")
    /\ (s = "setup" /\ Ok(x)) => x.value = v.required
    /\ Ok(x) /\ (x.do \in Tells \/ s = "me") => ~v.required /\ x.value = v.totp
    /\ v.by = t /\ ~p.cleared =>
          /\ (s = "me" /\ x.at = "none" /\ ~Changing(c)) => MeRight(v, p)
          /\ (s = "act" /\ Changing(c)) => c["me"].at = "sent"

LEMMA FitsCall ==
    ASSUME NEW t, NEW v, NEW p, NEW c \in [Slots -> Call], NEW s \in Slots, NEW x,
           Fits(t, v, p, c), SlotFits(t, v, p, c, s, x)
    PROVE  Fits(t, v, p, [c EXCEPT ![s] = x])
<1> DEFINE d == [c EXCEPT ![s] = x]
<1>1. d[s] = x /\ \A r \in Slots : r # s => d[r] = c[r]
    OBVIOUS
<1> HIDE DEF d
<1>2. "me" \in Slots /\ "setup" \in Slots /\ "act" \in Slots
    BY DEF Slots
<1>3. Unset(v, p, d)
    BY <1>1, <1>2 DEF Fits, Unset, SlotFits
<1>4. SlotsFit(p, d)
  <2>1. \A r \in Slots : d[r].do \in Kinds(r)
      BY <1>1 DEF Fits, SlotsFit, SlotFits
  <2>2. \A r \in Slots : d[r].at = "waiting" => d[r].result = "unauthorized"
      BY <1>1 DEF Fits, SlotsFit, SlotFits
  <2>3. InWizard(p) => d["act"].do \in Wizards
      BY <1>1, <1>2 DEF Fits, SlotsFit, SlotFits
  <2> QED
      BY <2>1, <2>2, <2>3 DEF SlotsFit
<1>5. Completes(v, p, d)
  <2>1. \A r \in Slots : (v.required /\ d[r].do = "complete") => InWizard(p) /\ p.required = "yes"
      BY <1>1 DEF Fits, Completes, SlotFits
  <2>2. \A r \in Slots : Completed(d[r]) => Completed(c[r]) /\ d[r] = c[r]
      BY <1>1 DEF SlotFits, Completed
  <2>3. ASSUME NEW r \in Slots, Completed(d[r])
        PROVE  /\ (p.at = "setup" \/ p.required = "yes") => InWizard(p)
               /\ p.required # "yes" => ~SaysUnset(d)
    <3>1. /\ (p.at = "setup" \/ p.required = "yes") => InWizard(p)
          /\ p.required # "yes" => ~SaysUnset(c)
        BY <2>2, <2>3 DEF Fits, Completes
    <3>2. ~v.required
        BY <2>2, <2>3 DEF Fits, Unset, Completed, Tells
    <3>3. SaysUnset(d) => SaysUnset(c)
        BY <1>1, <1>2, <3>2 DEF SlotFits, SaysUnset
    <3> QED
        BY <3>1, <3>3
  <2>4. \A q, r \in Slots : Completed(d[q]) /\ Completed(d[r]) => q = r
      BY <2>2 DEF Fits, Completes
  <2> QED
      BY <2>1, <2>3, <2>4 DEF Completes
<1>6. Agrees(t, v, p, d)
  <2> SUFFICES ASSUME v.by = t PROVE Agrees(t, v, p, d)
      BY DEF Agrees
  <2>1. \A r \in Slots :
          (Ok(d[r]) /\ (d[r].do = "login" \/ (d[r].do = "complete" /\ p.at = "setup")))
             => d[r].value = v.totp
      BY <1>1 DEF Fits, Agrees, SlotFits, Tells
  <2>2. ASSUME ~p.cleared, ~Changing(d)
        PROVE  /\ Ok(d["me"]) => d["me"].value = v.totp
               /\ d["me"].at = "none" => MeRight(v, p)
    <3>1. CASE ~Changing(c)
      <4>1. /\ Ok(c["me"]) => c["me"].value = v.totp
            /\ c["me"].at = "none" => MeRight(v, p)
          BY <2>2, <3>1 DEF Fits, Agrees
      <4>2. CASE s = "me"
          BY <1>1, <2>2, <3>1, <4>2 DEF SlotFits
      <4> QED
          BY <1>1, <1>2, <4>1, <4>2
    <3>2. CASE Changing(c)
      <4>1. s = "act"
          BY <1>1, <1>2, <2>2, <3>2 DEF Changing
      <4>2. d["me"].at = "sent"
          BY <1>1, <1>2, <2>2, <3>2, <4>1 DEF SlotFits
      <4> QED
          BY <4>2 DEF Ok
    <3> QED
        BY <3>1, <3>2
  <2> QED
      BY <2>1, <2>2 DEF Agrees
<1> QED
    BY <1>3, <1>4, <1>5, <1>6 DEF Fits, d

\* The request of a slot is over.
LEMMA FitsDone ==
    ASSUME NEW t, NEW v, NEW p, NEW c \in [Slots -> Call], NEW s \in {"setup", "act", "query"},
           Fits(t, v, p, c),
           (s = "act" /\ v.by = t /\ ~p.cleared /\ Changing(c)) => c["me"].at = "sent"
    PROVE  Fits(t, v, p, [c EXCEPT ![s] = NoCall])
<1>1. NoCall.do = "none" /\ NoCall.at = "none" /\ ~Ok(NoCall)
    BY DEF NoCall, Ok
<1>2. SlotFits(t, v, p, c, s, NoCall)
    BY <1>1 DEF SlotFits, Kinds, Wizards, Tells
<1>3. s \in Slots
    BY DEF Slots
<1> QED
    BY <1>2, <1>3, FitsCall

\* The page p may be left for place: no request for the first account can still make
\* one, and no answer of one is brought into the wizard.
MayLeave(v, p, c, place) ==
    \A s \in Slots : c[s].do = "complete" =>
        ~v.required /\ (Ok(c[s]) => place # "setup" /\ p.required # "yes")

LEMMA OutsideWizard ==
    ASSUME NEW t, NEW v, NEW p, NEW c, Fits(t, v, p, c), NEW place,
           \/ p.at # "setup" \/ p.required # "yes" \/ c["act"].do \notin Wizards,
           place = "setup" => p.required = "yes" /\ p.at # "setup"
    PROVE  MayLeave(v, p, c, place)
<1> SUFFICES ASSUME NEW s \in Slots, c[s].do = "complete"
             PROVE  ~v.required /\ (Ok(c[s]) => place # "setup" /\ p.required # "yes")
    BY DEF MayLeave
<1>1. ~InWizard(p) \/ p.required # "yes"
    BY DEF Fits, SlotsFit, InWizard
<1>2. ~v.required
    BY <1>1 DEF Fits, Completes
<1>3. Ok(c[s]) => p.required # "yes"
    BY <1>1 DEF Fits, Completes, Completed
<1> QED
    BY <1>2, <1>3

\* The tab learns of the account.
LEMMA FitsKnown ==
    ASSUME NEW t, NEW v, NEW p \in Tab, NEW c, NEW value \in BOOLEAN, Fits(t, v, p, c),
           ~v.required,
           (v.by = t /\ ~p.cleared /\ ~Changing(c)) => value = v.totp
    PROVE  Fits(t, v, [p EXCEPT !.me = Flag(value), !.failed = FALSE], c)
<1> DEFINE q == [p EXCEPT !.me = Flag(value), !.failed = FALSE]
<1>1. /\ q.me = Flag(value) /\ q.at = p.at /\ q.required = p.required
      /\ q.cleared = p.cleared /\ q.step = p.step
    BY DEF Tab
<1> HIDE DEF q
<1>2. Unset(v, q, c)
    BY DEF Unset
<1>3. SlotsFit(q, c)
    BY <1>1 DEF Fits, SlotsFit, InWizard
<1>4. Completes(v, q, c)
    BY <1>1 DEF Fits, Completes, InWizard
<1>5. Agrees(t, v, q, c)
    BY <1>1 DEF Fits, Agrees, MeRight
<1> QED
    BY <1>2, <1>3, <1>4, <1>5 DEF Fits, q

\* The account could not be fetched.
LEMMA FitsFailed ==
    ASSUME NEW t, NEW v, NEW p \in Tab, NEW c, Fits(t, v, p, c)
    PROVE  Fits(t, v, [p EXCEPT !.failed = TRUE], c)
<1> DEFINE q == [p EXCEPT !.failed = TRUE]
<1>1. /\ q.me = p.me /\ q.at = p.at /\ q.required = p.required
      /\ q.cleared = p.cleared /\ q.step = p.step /\ q.failed = TRUE
    BY DEF Tab
<1> HIDE DEF q
<1>2. Unset(v, q, c)
    BY <1>1 DEF Fits, Unset
<1>3. SlotsFit(q, c)
    BY <1>1 DEF Fits, SlotsFit, InWizard
<1>4. Completes(v, q, c)
    BY <1>1 DEF Fits, Completes, InWizard
<1>5. Agrees(t, v, q, c)
    BY <1>1 DEF Fits, Agrees, MeRight
<1> QED
    BY <1>2, <1>3, <1>4, <1>5 DEF Fits, q

\* The cache is emptied.
LEMMA FitsCleared ==
    ASSUME NEW t, NEW v, NEW p \in Tab, NEW c, Fits(t, v, p, c)
    PROVE  Fits(t, v, [p EXCEPT !.cleared = TRUE], c)
<1> DEFINE q == [p EXCEPT !.cleared = TRUE]
<1>1. /\ q.me = p.me /\ q.at = p.at /\ q.required = p.required
      /\ q.cleared = TRUE /\ q.step = p.step
    BY DEF Tab
<1> HIDE DEF q
<1>2. Unset(v, q, c)
    BY <1>1 DEF Fits, Unset
<1>3. SlotsFit(q, c)
    BY <1>1 DEF Fits, SlotsFit, InWizard
<1>4. Completes(v, q, c)
    BY <1>1 DEF Fits, Completes, InWizard
<1>5. Agrees(t, v, q, c)
    BY <1>1 DEF Fits, Agrees
<1> QED
    BY <1>2, <1>3, <1>4, <1>5 DEF Fits, q

\* The setup status is known, or the wizard goes on.
LEMMA FitsStatus ==
    ASSUME NEW t, NEW v, NEW p \in Tab, NEW c, Fits(t, v, p, c),
           NEW r \in {"none", "yes", "no"}, v.required => r = p.required \/ r = "yes",
           \A s \in Slots : Completed(c[s]) =>
               (r = "yes" => p.required = "yes") /\ c["setup"].at = "none"
    PROVE  Fits(t, v, [p EXCEPT !.required = r], c)
<1> DEFINE q == [p EXCEPT !.required = r]
<1>1. /\ q.me = p.me /\ q.at = p.at /\ q.failed = p.failed
      /\ q.cleared = p.cleared /\ q.step = p.step /\ q.required = r
    BY DEF Tab
<1> HIDE DEF q
<1>2. Unset(v, q, c)
    BY <1>1 DEF Fits, Unset
<1>3. SlotsFit(q, c)
    BY <1>1 DEF Fits, SlotsFit, InWizard
<1>4. Completes(v, q, c)
    BY <1>1 DEF Fits, Completes, InWizard, SaysUnset, Ok
<1>5. Agrees(t, v, q, c)
    BY <1>1 DEF Fits, Agrees, MeRight
<1> QED
    BY <1>2, <1>3, <1>4, <1>5 DEF Fits, q

LEMMA FitsWizard ==
    ASSUME NEW t, NEW v, NEW p \in Tab, NEW c, Fits(t, v, p, c),
           NEW e \in {"account", "totp", "done"}, p.at = "setup" => c["act"].do \in Wizards
    PROVE  Fits(t, v, [p EXCEPT !.step = e], c)
<1> DEFINE q == [p EXCEPT !.step = e]
<1>1. /\ q.me = p.me /\ q.at = p.at /\ q.failed = p.failed
      /\ q.cleared = p.cleared /\ q.required = p.required /\ q.step = e
    BY DEF Tab
<1> HIDE DEF q
<1>2. Unset(v, q, c)
    BY <1>1 DEF Fits, Unset
<1>3. SlotsFit(q, c)
    BY <1>1 DEF Fits, SlotsFit, InWizard
<1>4. Completes(v, q, c)
    BY <1>1 DEF Fits, Completes, InWizard
<1>5. Agrees(t, v, q, c)
    BY <1>1 DEF Fits, Agrees, MeRight
<1> QED
    BY <1>2, <1>3, <1>4, <1>5 DEF Fits, q

\* A tab that starts anew, whose query of the account is gone.
LEMMA FitsNewTab ==
    ASSUME NEW t, NEW v, NEW p, NEW c, Fits(t, v, p, c),
           c["me"].at = "none", c["setup"].at = "none", NEW place, MayLeave(v, p, c, place)
    PROVE  Fits(t, v, NewTab, c)
<1>1. /\ NewTab.at = "none" /\ NewTab.me = "none" /\ NewTab.required = "none"
      /\ ~InWizard(NewTab)
    BY DEF NewTab, InWizard
<1>2. Unset(v, NewTab, c)
    BY <1>1 DEF Fits, Unset
<1>3. SlotsFit(NewTab, c)
    BY <1>1 DEF Fits, SlotsFit
<1>4. Completes(v, NewTab, c)
    BY <1>1 DEF Fits, Completes, MayLeave, SaysUnset, Ok
<1>5. Agrees(t, v, NewTab, c)
    BY <1>1 DEF Fits, Agrees, MeRight, Ok
<1> QED
    BY <1>2, <1>3, <1>4, <1>5 DEF Fits

\* A query of the account that is replaced tells nobody anything.
LEMMA FitsReplaced ==
    ASSUME NEW t, NEW v, NEW p, NEW c \in [Slots -> Call], Fits(t, v, p, c)
    PROVE  Fits(t, v, p, [c EXCEPT !["query"] = [c["me"] EXCEPT !.do = "query"]])
<1> DEFINE x == [c["me"] EXCEPT !.do = "query"]
<1>1. "me" \in Slots /\ "query" \in Slots /\ c["me"] \in Call
    BY DEF Slots
<1>2. x.do = "query" /\ x.at = c["me"].at /\ x.result = c["me"].result
    BY <1>1 DEF Call
<1>3. x.at = "waiting" => x.result = "unauthorized"
    BY <1>1, <1>2 DEF Fits, SlotsFit
<1> HIDE DEF x
<1>4. SlotFits(t, v, p, c, "query", x)
    BY <1>2, <1>3 DEF SlotFits, Kinds, Tells
<1>5. Fits(t, v, p, [c EXCEPT !["query"] = x])
    BY <1>1, <1>4, FitsCall
<1> QED
    BY <1>5 DEF x

\* invalidateQueries, and with it the end of the request that called for it.
LEMMA FitsInvalidated ==
    ASSUME NEW t, NEW v, NEW p, NEW c \in [Slots -> Call], Fits(t, v, p, c),
           NEW jar \in Sessions0
    PROVE  Fits(t, v, p, [Disowned([c EXCEPT !["act"] = NoCall])
                             EXCEPT !["me"] = Asked("me", FALSE, jar)])
<1> DEFINE y == Asked("me", FALSE, jar)
           x == [c["me"] EXCEPT !.do = "query"]
           d == IF c["me"].at = "none" THEN c ELSE [c EXCEPT !["query"] = x]
           e == [d EXCEPT !["me"] = y]
           f == [e EXCEPT !["act"] = NoCall]
           g == [Disowned([c EXCEPT !["act"] = NoCall]) EXCEPT !["me"] = y]
<1>1. "me" \in Slots /\ "query" \in Slots /\ "act" \in Slots /\ c["me"] \in Call
    BY DEF Slots
<1>2. y \in Call /\ y.do = "me" /\ y.at = "sent"
  <2>1. y \in Call /\ y.do = "me"
      BY AskedCall
  <2>2. y.at = "sent"
      BY DEF Asked, NoCall
  <2> QED
      BY <2>1, <2>2
<1>3. x \in Call
    BY <1>1 DEF Call
<1>4. d \in [Slots -> Call] /\ Fits(t, v, p, d)
    BY <1>1, <1>3, FitsReplaced
<1> HIDE DEF y
<1>5. SlotFits(t, v, p, d, "me", y)
    BY <1>2 DEF SlotFits, Kinds, Ok
<1> HIDE DEF d
<1>6. e \in [Slots -> Call] /\ Fits(t, v, p, e) /\ e["me"].at = "sent"
    BY <1>1, <1>2, <1>4, <1>5, FitsCall
<1> HIDE DEF e
<1>7. Fits(t, v, p, f)
    BY <1>6, FitsDone
<1>8. f = g
  <2> DEFINE a == [c EXCEPT !["act"] = NoCall]
  <2>1. a["me"] = c["me"] /\ a \in [Slots -> Call]
      BY <1>1, NoCallFields
  <2>2. Disowned(a) = IF c["me"].at = "none" THEN a
                      ELSE [a EXCEPT !["query"] = x, !["me"] = NoCall]
      BY <2>1 DEF Disowned
  <2>3. \A s \in Slots :
          g[s] = IF s = "me" THEN y ELSE IF s = "act" THEN NoCall
                 ELSE IF s = "query" /\ c["me"].at # "none" THEN x ELSE c[s]
      BY <1>1, <2>1, <2>2
  <2>4. \A s \in Slots :
          f[s] = IF s = "me" THEN y ELSE IF s = "act" THEN NoCall
                 ELSE IF s = "query" /\ c["me"].at # "none" THEN x ELSE c[s]
      BY <1>1, <1>4, <1>6 DEF d, e
  <2>5. f \in [Slots -> Call] /\ g \in [Slots -> Call]
      BY <1>1, <1>2, <1>3, <1>6, <2>1, <2>2, NoCallFields
  <2> HIDE DEF f, g
  <2> QED
      BY <2>3, <2>4, <2>5
<1> QED
    BY <1>7, <1>8 DEF y

\* The cache is emptied and the tab starts anew.
LEMMA FitsForgotten ==
    ASSUME NEW t, NEW v, NEW p \in Tab, NEW c \in [Slots -> Call], Fits(t, v, p, c),
           NEW place, MayLeave(v, p, c, place)
    PROVE  /\ Forgotten(c) \in [Slots -> Call]
           /\ Fits(t, v, NewTab, Forgotten(c)) /\ MayLeave(v, NewTab, Forgotten(c), place)
<1> DEFINE q == [p EXCEPT !.cleared = TRUE]
           x == [c["me"] EXCEPT !.do = "query"]
           d == IF c["me"].at = "none" THEN c ELSE [c EXCEPT !["query"] = x]
           e == IF c["me"].at = "none" THEN d ELSE [d EXCEPT !["me"] = NoCall]
           f == [e EXCEPT !["setup"] = NoCall]
<1>1. "me" \in Slots /\ "query" \in Slots /\ "setup" \in Slots /\ c["me"] \in Call
    BY DEF Slots
<1>2. x \in Call /\ x.do = "query"
    BY <1>1 DEF Call
<1>3. Fits(t, v, q, c) /\ q.cleared = TRUE
    BY FitsCleared DEF Tab
<1>4. d \in [Slots -> Call] /\ Fits(t, v, q, d)
    BY <1>1, <1>2, <1>3, FitsReplaced
<1>5. NoCall \in Call /\ NoCall.do = "none" /\ NoCall.at = "none" /\ ~Ok(NoCall)
    BY NoCallFields DEF NoCall, Ok
<1>6. SlotFits(t, v, q, d, "me", NoCall)
    BY <1>3, <1>5 DEF SlotFits, Kinds
<1> HIDE DEF q
<1>7. e \in [Slots -> Call] /\ e["me"].at = "none" /\ Fits(t, v, q, e)
  <2>1. CASE c["me"].at = "none"
      BY <1>4, <2>1
  <2>2. CASE c["me"].at # "none"
    <3> HIDE DEF d
    <3>1. Fits(t, v, q, [d EXCEPT !["me"] = NoCall])
        BY <1>1, <1>4, <1>6, FitsCall
    <3> QED
        BY <1>1, <1>4, <1>5, <2>2, <3>1
  <2> QED
      BY <2>1, <2>2
<1>8. \A s \in Slots : e[s].do = "complete" => e[s] = c[s]
    BY <1>1, <1>2, <1>5
<1>9. Forgotten(c) = f
  <2>1. Disowned(c) = e
      BY <1>1, <1>2 DEF Disowned
  <2> QED
      BY <2>1 DEF Forgotten
<1> HIDE DEF e
<1>10. f \in [Slots -> Call] /\ f["me"].at = "none" /\ f["setup"].at = "none"
    BY <1>1, <1>5, <1>7
<1>11. Fits(t, v, q, f)
    BY <1>7, FitsDone
<1>12. \A s \in Slots : f[s].do = "complete" => f[s] = c[s]
    BY <1>1, <1>5, <1>7, <1>8
<1> HIDE DEF f
<1>13. q.required = p.required /\ NewTab.required = "none"
    BY DEF q, Tab, NewTab
<1>14. MayLeave(v, q, f, place) /\ MayLeave(v, NewTab, f, place)
    BY <1>12, <1>13 DEF MayLeave
<1>15. Fits(t, v, NewTab, f)
    BY <1>10, <1>11, <1>14, FitsNewTab
<1> QED
    BY <1>9, <1>10, <1>14, <1>15

\* A mount asks for the queries of the gates.
LEMMA FitsMount ==
    ASSUME IInv, NEW t \in Tabs, NEW v, NEW p \in Tab, NEW c \in [Slots -> Call],
           NEW place \in {"app", "login", "setup"}, NEW jar \in Sessions0, NEW n,
           Fits(t, v, p, c), MayLeave(v, p, c, place),
           Mount(t, p, c, place, jar, n)
    PROVE  Fits(t, v, tab'[t], call'[t]) /\ Closed(tab'[t], call'[t])
<1>1. PICK f \in SUBSET {"me", "setup"} :
        /\ call' = [call EXCEPT ![t] = [s \in Slots |-> IF s \in f THEN Asked(s, FALSE, jar) ELSE c[s]]]
        /\ tab' = [tab EXCEPT ![t] = [p EXCEPT
              !.at = place, !.failed = @ /\ ~("me" \in f /\ p.me = "none"),
              !.step = IF place = p.at THEN @ ELSE "token"]]
    BY DEF Mount
<1> DEFINE d == [s \in Slots |-> IF s \in f THEN Asked(s, FALSE, jar) ELSE c[s]]
           q == [p EXCEPT !.at = place, !.failed = @ /\ ~("me" \in f /\ p.me = "none"),
                          !.step = IF place = p.at THEN @ ELSE "token"]
<1>2. tab'[t] = q /\ call'[t] = d
    BY <1>1, Types DEF IInv
<1>3. /\ q.at = place /\ q.me = p.me /\ q.required = p.required /\ q.cleared = p.cleared
      /\ q.failed = (p.failed /\ ~("me" \in f /\ p.me = "none"))
      /\ q.step = IF place = p.at THEN p.step ELSE "token"
    BY DEF Tab
<1>4. \A s \in f : /\ s \in {"me", "setup"}
                   /\ Asked(s, FALSE, jar).do = s /\ Asked(s, FALSE, jar).at = "sent"
  <2> TAKE s \in f
  <2>1. s \in {"me", "setup"}
      OBVIOUS
  <2>2. Asked(s, FALSE, jar).do = s
      BY <2>1, AskedCall
  <2>3. Asked(s, FALSE, jar).at = "sent"
      BY DEF Asked, NoCall
  <2> QED
      BY <2>1, <2>2, <2>3
<1>5. \A s \in Slots : IF s \in f THEN d[s].do = s /\ d[s].at = "sent" ELSE d[s] = c[s]
    BY <1>4
<1> HIDE DEF d, q
<1>6. "me" \in Slots /\ "setup" \in Slots /\ "act" \in Slots /\ "act" \notin f
    BY <1>4 DEF Slots
<1>7. Unset(v, q, d)
    BY <1>3, <1>5, <1>6 DEF Fits, Unset, Ok
<1>8. SlotsFit(q, d)
  <2>1. \A s \in Slots : d[s].do \in Kinds(s)
      BY <1>4, <1>5 DEF Fits, SlotsFit, Kinds
  <2>2. \A s \in Slots : d[s].at = "waiting" => d[s].result = "unauthorized"
      BY <1>5 DEF Fits, SlotsFit
  <2>3. InWizard(q) => InWizard(p)
      BY <1>3 DEF InWizard
  <2>4. InWizard(q) => d["act"].do \in Wizards
      BY <1>5, <1>6, <2>3 DEF Fits, SlotsFit
  <2> QED
      BY <2>1, <2>2, <2>4 DEF SlotsFit
<1>9. Completes(v, q, d)
  <2>1. \A s \in Slots : d[s].do = "complete" => d[s] = c[s]
      BY <1>4, <1>5
  <2>2. \A s \in Slots : d[s].do = "complete" => ~v.required
      BY <2>1 DEF MayLeave
  <2>3. \A s \in Slots : Completed(d[s]) =>
          Completed(c[s]) /\ q.at # "setup" /\ q.required # "yes" /\ p.required # "yes"
      BY <1>3, <2>1 DEF MayLeave, Completed
  <2>4. SaysUnset(d) => SaysUnset(c)
      BY <1>5, <1>6 DEF SaysUnset, Ok
  <2>5. \A s \in Slots : Completed(c[s]) /\ p.required # "yes" => ~SaysUnset(c)
      BY DEF Fits, Completes
  <2>6. \A r, s \in Slots : Completed(c[r]) /\ Completed(c[s]) => r = s
      BY DEF Fits, Completes
  <2> QED
      BY <2>2, <2>3, <2>4, <2>5, <2>6 DEF Completes
<1>10. Agrees(t, v, q, d)
  <2>1. \A s \in Slots : Ok(d[s]) => d[s] = c[s]
      BY <1>5 DEF Ok
  <2>2. Changing(d) <=> Changing(c)
      BY <1>5, <1>6 DEF Changing
  <2>3. d["me"].at = "none" => c["me"].at = "none" /\ "me" \notin f
      BY <1>5, <1>6
  <2>4. "me" \notin f => (MeRight(v, p) => MeRight(v, q))
      BY <1>3 DEF MeRight
  <2>5. \A s \in Slots : (Ok(d[s]) /\ d[s].do = "complete") => q.at # "setup"
      BY <1>3, <2>1 DEF MayLeave
  <2> QED
      BY <1>3, <1>6, <2>1, <2>2, <2>3, <2>4, <2>5 DEF Fits, Agrees
<1>11. Closed(q, d)
    BY <1>3 DEF Closed
<1> QED
    BY <1>2, <1>7, <1>8, <1>9, <1>10, <1>11 DEF Fits

-----------------------------------------------------------------------------
\* The steps.

TabFits(t) == Closed(tab[t], call[t]) /\ Fits(t, server, tab[t], call[t])

ServerKeptBy(u) == ServerKept(u, server, server')

LEMMA SameServer == ASSUME UNCHANGED server, NEW u PROVE ServerKeptBy(u)
BY DEF ServerKeptBy, ServerKept

\* A step of tab t leaves the others alone.
LEMMA OthersFit ==
    ASSUME TabsFit, NEW t \in Tabs, TabFits(t)',
           \A u \in Tabs \ {t} : tab'[u] = tab[u] /\ call'[u] = call[u] /\ ServerKeptBy(u)
    PROVE  TabsFit'
<1> SUFFICES ASSUME NEW u \in Tabs PROVE TabFits(u)'
    BY DEF TabsFit, TabFits
<1>1. CASE u = t
    BY <1>1
<1>2. CASE u # t
  <2>1. tab'[u] = tab[u] /\ call'[u] = call[u] /\ ServerKept(u, server, server')
      BY <1>2 DEF ServerKeptBy
  <2>2. Closed(tab[u], call[u]) /\ Fits(u, server, tab[u], call[u])
      BY DEF TabsFit
  <2>3. Fits(u, server', tab[u], call[u])
      BY <2>1, <2>2, FitsServer
  <2> QED
      BY <2>1, <2>2, <2>3 DEF TabFits
<1> QED
    BY <1>1, <1>2

\* A step that changes the tab and its requests only.
LEMMA OwnStep ==
    ASSUME IInv, TabsFit, NEW t \in Tabs, NEW p, NEW c,
           tab' = [tab EXCEPT ![t] = p], call' = [call EXCEPT ![t] = c], UNCHANGED server,
           Closed(p, c), Fits(t, server, p, c)
    PROVE  TabsFit'
<1>1. tab'[t] = p /\ call'[t] = c
    BY Types DEF IInv
<1>2. \A u \in Tabs \ {t} : tab'[u] = tab[u] /\ call'[u] = call[u] /\ ServerKeptBy(u)
    BY Types, SameServer DEF IInv
<1>3. TabFits(t)'
    BY <1>1 DEF TabFits
<1> QED
    BY <1>2, <1>3, OthersFit

\* A step that changes one request.
LEMMA OneRequest ==
    ASSUME IInv, TabsFit, NEW t \in Tabs, NEW s \in Slots, NEW x,
           call' = [call EXCEPT ![t] = [call[t] EXCEPT ![s] = x]], UNCHANGED tab,
           \A u \in Tabs : ServerKeptBy(u), tab[t].at # "none",
           SlotFits(t, server', tab[t], call[t], s, x)
    PROVE  TabsFit'
<1>1. /\ call'[t] = [call[t] EXCEPT ![s] = x] /\ call[t] \in [Slots -> Call]
      /\ \A u \in Tabs \ {t} : tab'[u] = tab[u] /\ call'[u] = call[u] /\ ServerKeptBy(u)
    BY Types DEF IInv
<1>2. Fits(t, server', tab[t], call[t])
    BY FitsServer DEF TabsFit, ServerKeptBy
<1>3. Fits(t, server', tab[t], [call[t] EXCEPT ![s] = x])
    BY <1>1, <1>2, FitsCall
<1>4. TabFits(t)'
    BY <1>1, <1>3 DEF TabFits, Closed
<1> QED
    BY <1>1, <1>4, OthersFit

\* Where a tab is that shows something else than the wizard or a splash.
LEMMA ShownWhere ==
    ASSUME TypeOK, NEW t \in Tabs
    PROVE  /\ Shown(t) = "app" => tab[t].at = "app"
           /\ Shown(t) = "login" => tab[t].at = "login"
           /\ Shown(t) = "setup" => tab[t].at = "setup" /\ tab[t].required = "yes"
           /\ Shown(t) = "to setup" => tab[t].at # "setup" /\ tab[t].required = "yes"
           /\ Shown(t) \in {"to app", "to setup", "to login"} =>
                tab[t].at # "none" /\ (tab[t].at # "setup" \/ tab[t].required # "yes")
<1>1. tab[t].at \in {"none", "app", "login", "setup"}
    BY Types DEF Tab
<1>2. CASE tab[t].at = "none"
    BY <1>2 DEF Shown
<1>3. CASE tab[t].at = "app"
  <2>1. Shown(t) = AuthGate(t)
      BY <1>3 DEF Shown
  <2>2. AuthGate(t) \in {"splash", "to setup", "to login", "app"}
      BY DEF AuthGate
  <2>3. AuthGate(t) = "to setup" => tab[t].required = "yes"
      BY DEF AuthGate
  <2> QED
      BY <1>3, <2>1, <2>2, <2>3
<1>4. CASE tab[t].at = "login"
  <2>1. Shown(t) = LoginGate(t)
      BY <1>4 DEF Shown
  <2>2. LoginGate(t) \in {"splash", "to setup", "to app", "login"}
      BY DEF LoginGate
  <2>3. LoginGate(t) = "to setup" => tab[t].required = "yes"
      BY DEF LoginGate
  <2> QED
      BY <1>4, <2>1, <2>2, <2>3
<1>5. CASE tab[t].at = "setup"
  <2>1. Shown(t) = SetupGate(t)
      BY <1>5 DEF Shown
  <2>2. CASE tab[t].required = "yes"
      BY <1>5, <2>1, <2>2 DEF SetupGate, SetupLoading
  <2>3. CASE tab[t].required # "yes"
      BY <1>5, <2>1, <2>3 DEF SetupGate, SetupLoading
  <2> QED
      BY <2>2, <2>3
<1> QED
    BY <1>1, <1>2, <1>3, <1>4, <1>5

LEMMA AskedSent ==
    ASSUME NEW jar \in Sessions0, NEW good \in BOOLEAN,
           NEW do \in Submits \cup {"me", "setup", "query"}
    PROVE  Asked(do, good, jar).do = do /\ Asked(do, good, jar).at = "sent"
<1>1. Asked(do, good, jar).do = do
    BY AskedCall
<1>2. Asked(do, good, jar).at = "sent"
    BY DEF Asked, NoCall
<1> QED
    BY <1>1, <1>2

LEMMA SendsFit ==
    ASSUME IInv, TabsFit, NEW t \in Tabs, NEW s \in {"act", "query"}, NEW good \in BOOLEAN,
           NEW do \in Submits \cup {"query"}, Sends(t, s, do, good),
           do \in Kinds(s), tab[t].at # "none",
           InWizard(tab[t]) => do \in Wizards,
           do = "complete" => InWizard(tab[t]) /\ tab[t].required = "yes"
    PROVE  TabsFit'
<1> DEFINE x == Asked(do, good, cookie)
<1>1. x.do = do /\ x.at = "sent" /\ s \in Slots
    BY Types, AskedSent DEF IInv, Slots
<1> HIDE DEF x
<1>2. call' = [call EXCEPT ![t] = [call[t] EXCEPT ![s] = x]] /\ UNCHANGED <<tab, server>>
    BY Types DEF IInv, Sends, x
<1>3. s = "act" => ~Changing(call[t])
    BY DEF Sends, Busy, Changing, Ok
<1>4. SlotFits(t, server', tab[t], call[t], s, x)
    BY <1>1, <1>3 DEF SlotFits, Ok
<1> QED
    BY <1>1, <1>2, <1>4, SameServer, OneRequest

LEMMA SubmitsFit ==
    ASSUME IInv, TabsFit, NEW t \in Tabs,
           \/ Poll(t) \/ Login(t) \/ Logout(t) \/ Verify(t) \/ TokenStep(t) \/ TotpStep(t)
           \/ \E good \in BOOLEAN : ChangePassword(t, good) \/ Disable(t, good)
    PROVE  TabsFit'
<1> USE DEF IInv
<1>1. /\ Submits \subseteq Kinds("act") /\ "query" \in Kinds("query")
      /\ "complete" \in Kinds("query")
    BY DEF Kinds
<1>2. ASSUME NEW good \in BOOLEAN, NEW do \in Submits \ {"complete"},
             tab[t].at \in {"app", "login"}, Sends(t, "act", do, good)
      PROVE  TabsFit'
    BY <1>1, <1>2, SendsFit DEF InWizard
<1>3. CASE Poll(t)
    BY <1>1, <1>3, SendsFit, ShownWhere DEF Poll, Submit, InWizard
<1>4. CASE Login(t)
    BY <1>2, <1>4, ShownWhere DEF Login, Submit, Submits
<1>5. CASE Logout(t) \/ Verify(t)
    BY <1>2, <1>5, ShownWhere DEF Logout, Verify, Submit, Submits
<1>6. ASSUME NEW good \in BOOLEAN, ChangePassword(t, good) \/ Disable(t, good)
      PROVE  TabsFit'
    BY <1>2, <1>6, ShownWhere DEF ChangePassword, Disable, Submit, Submits
<1>7. CASE TokenStep(t)
    BY <1>1, <1>7, SendsFit, ShownWhere DEF TokenStep, InWizard, Wizards, Submits
<1>8. CASE TotpStep(t)
  <2>1. PICK s \in {"act", "query"} : Sends(t, s, "complete", TRUE)
      BY <1>8 DEF TotpStep, Submit
  <2>2. InWizard(tab[t]) /\ tab[t].required = "yes"
      BY <1>8, ShownWhere DEF TotpStep, InWizard
  <2>3. "complete" \in Kinds(s) /\ "complete" \in Wizards /\ "complete" \in Submits
      BY <1>1 DEF Wizards, Submits
  <2> QED
      BY <2>1, <2>2, <2>3, SendsFit DEF InWizard
<1> QED
    BY <1>3, <1>4, <1>5, <1>6, <1>7, <1>8

\* An answer, or what the caller gets for one.
LEMMA AnswersFit ==
    ASSUME IInv, TabsFit, NEW t \in Tabs, NEW s \in Slots, NEW n, NEW value,
           NEW result \in {"ok", "unauthorized", "error"},
           Answers(t, s, result, n, value), UNCHANGED tab, call[t][s].at # "none",
           \A u \in Tabs : ServerKeptBy(u),
           result = "ok" => /\ call[t][s].do # "complete"
                            /\ (call[t][s].do \in Tells \/ s = "me") =>
                                  ~server'.required /\ value = server'.totp
                            /\ s = "setup" => value = server'.required,
           (s = "act" /\ Changing(call[t])) => server'.by # t
    PROVE  TabsFit'
<1> DEFINE x == [call[t][s] EXCEPT !.at = "answered", !.cookie = 0, !.result = result,
                                   !.sets = n, !.value = value]
<1>1. call \in [Tabs -> [Slots -> Call]] /\ call[t][s] \in Call
    BY Types DEF IInv
<1>2. /\ x.do = call[t][s].do /\ x.at = "answered" /\ x.result = result /\ x.value = value
    BY <1>1 DEF Call
<1>3. call' = [call EXCEPT ![t] = [call[t] EXCEPT ![s] = x]]
    BY <1>1 DEF Answers
<1> HIDE DEF x
<1>4. Closed(tab[t], call[t]) /\ Fits(t, server, tab[t], call[t]) /\ ServerKept(t, server, server')
    BY DEF TabsFit, ServerKeptBy
<1>5. SlotFits(t, server', tab[t], call[t], s, x)
  <2>1. x.do \in Kinds(s) /\ x.at # "waiting" /\ x.at # "none"
      BY <1>2, <1>4 DEF Fits, SlotsFit
  <2>2. (s = "act" /\ InWizard(tab[t])) => x.do \in Wizards
      BY <1>2, <1>4 DEF Fits, SlotsFit
  <2>3. x.do = "complete" =>
          ~Ok(x) /\ (server'.required => InWizard(tab[t]) /\ tab[t].required = "yes")
    <3>1. Ok(x) => x.do # "complete"
        BY <1>2 DEF Ok
    <3>2. server'.required => server.required
        BY <1>4 DEF ServerKept
    <3> QED
        BY <1>2, <1>4, <3>1, <3>2 DEF Fits, Completes
  <2>4. (s = "setup" /\ Ok(x)) => x.value = server'.required
      BY <1>2 DEF Ok
  <2>5. Ok(x) /\ (x.do \in Tells \/ s = "me") => ~server'.required /\ x.value = server'.totp
      BY <1>2 DEF Ok
  <2> QED
      BY <2>1, <2>2, <2>3, <2>4, <2>5 DEF SlotFits
<1>6. tab[t].at # "none"
    BY <1>4 DEF Closed
<1> QED
    BY <1>3, <1>5, <1>6, OneRequest

-----------------------------------------------------------------------------
\* The server.

LEMMA AuthorizedAccount ==
    ASSUME IInv, NoSessions, NEW t \in Tabs, NEW s \in Slots, Authorized(call[t][s])
    PROVE  ~server.required
<1>1. call[t][s].cookie \in Sessions0 /\ call[t][s].cookie # 0
    BY Numbers DEF IInv, Authorized
<1>2. call[t][s].cookie \in 1..MaxSessions
    BY <1>1, ClientAssumption DEF Sessions0
<1> QED
    BY <1>2 DEF NoSessions, Authorized

LEMMA SlotKinds ==
    ASSUME TabsFit, NEW t \in Tabs, NEW s \in Slots
    PROVE  call[t][s].do \in Kinds(s)
BY DEF TabsFit, Fits, SlotsFit

\* The answers that tell of an account tell of it as it is.
LEMMA ServesFit ==
    ASSUME IInv, NoSessions, TabsFit, NEW t \in Tabs, NEW s \in Slots,
           \/ ServeStatus(t, s) \/ ServeMe(t, s) \/ ServeLogin(t, s) \/ ServeLogout(t, s)
           \/ ServePassword(t, s) \/ ServeVerifyToken(t, s)
    PROVE  TabsFit'
<1>1. server \in Server /\ call[t][s].do \in Kinds(s)
    BY Types, SlotKinds DEF IInv, Server
<1>2. /\ s = "me" => call[t][s].do \in {"none", "me"}
      /\ s = "setup" => call[t][s].do \in {"none", "setup"}
    BY <1>1 DEF Kinds
<1>3. call[t][s].at = "sent" /\ UNCHANGED <<tab, server>>
    BY DEF ServeStatus, ServeMe, ServeLogin, ServeLogout, ServePassword, ServeVerifyToken, Asks
<1>4. s = "act" => ~Changing(call[t])
    BY <1>3 DEF Changing, Ok
<1>5. \A u \in Tabs : ServerKeptBy(u)
    BY <1>3, SameServer
<1>6. ASSUME NEW n, NEW value, NEW result \in {"ok", "unauthorized", "error"},
             Answers(t, s, result, n, value),
             result = "ok" => /\ call[t][s].do # "complete"
                              /\ (call[t][s].do \in Tells \/ s = "me") =>
                                    ~server.required /\ value = server.totp
                              /\ s = "setup" => value = server.required
      PROVE  TabsFit'
    BY <1>3, <1>4, <1>5, <1>6, AnswersFit
<1>7. CASE ServeStatus(t, s)
    BY <1>2, <1>6, <1>7 DEF ServeStatus, Asks, Tells
<1>8. CASE ServeMe(t, s)
  <2> DEFINE value == server.totp /\ call[t][s].do = "me"
             result == IF Authorized(call[t][s]) THEN "ok" ELSE "unauthorized"
  <2>1. Answers(t, s, result, 0, value) /\ call[t][s].do \in {"me", "query"}
      BY <1>8 DEF ServeMe, Asks
  <2>2. result = "ok" => ~server.required
      BY AuthorizedAccount
  <2>3. call[t][s].do = "me" => value = server.totp
      BY <1>1 DEF Server
  <2>4. result \in {"ok", "unauthorized", "error"}
      OBVIOUS
  <2> HIDE DEF value, result
  <2> QED
      BY <1>2, <1>6, <2>1, <2>2, <2>3, <2>4 DEF Tells
<1>9. CASE ServeLogin(t, s)
  <2>1. CASE ~server.required
    <3>1. PICK n \in 1..MaxSessions : Answers(t, s, "ok", n, server.totp)
        BY <1>9, <2>1 DEF ServeLogin
    <3> QED
        BY <1>2, <1>6, <1>9, <2>1, <3>1 DEF ServeLogin, Asks
  <2>2. CASE server.required
      BY <1>6, <1>9, <2>2 DEF ServeLogin
  <2> QED
      BY <2>1, <2>2
<1>10. CASE ServeLogout(t, s)
    BY <1>2, <1>6, <1>10 DEF ServeLogout, Asks, Tells
<1>11. CASE ServePassword(t, s)
    BY <1>2, <1>6, <1>11 DEF ServePassword, Asks, Tells
<1>12. CASE ServeVerifyToken(t, s)
  <2> DEFINE result == IF server.required THEN "ok" ELSE "unauthorized"
  <2>1. Answers(t, s, result, 0, FALSE) /\ call[t][s].do = "verifyToken"
      BY <1>12 DEF ServeVerifyToken, Asks
  <2> QED
      BY <1>2, <1>6, <2>1 DEF Tells
<1> QED
    BY <1>7, <1>8, <1>9, <1>10, <1>11, <1>12

\* What an answer leaves to prove when it changes the account.
LEMMA OwnAnswer ==
    ASSUME IInv, TabsFit, NEW t \in Tabs, NEW s \in Slots, NEW n, NEW value,
           Answers(t, s, "ok", n, value), UNCHANGED tab, call[t][s].at # "none"
    PROVE  /\ Ok(call'[t][s]) /\ call'[t][s].do = call[t][s].do /\ call'[t][s].value = value
           /\ \A r \in Slots : r # s => call'[t][r] = call[t][r]
           /\ \A u \in Tabs \ {t} : tab'[u] = tab[u] /\ call'[u] = call[u]
           /\ SlotsFit(tab'[t], call'[t]) /\ Closed(tab'[t], call'[t])
<1> DEFINE x == [call[t][s] EXCEPT !.at = "answered", !.cookie = 0, !.result = "ok",
                                   !.sets = n, !.value = value]
<1>1. call \in [Tabs -> [Slots -> Call]] /\ call[t][s] \in Call
    BY Types DEF IInv
<1>2. /\ x.do = call[t][s].do /\ x.at = "answered" /\ x.result = "ok" /\ x.value = value
    BY <1>1 DEF Call
<1>3. call' = [call EXCEPT ![t] = [call[t] EXCEPT ![s] = x]]
    BY <1>1 DEF Answers
<1> HIDE DEF x
<1>4. /\ call'[t][s] = x /\ \A r \in Slots : r # s => call'[t][r] = call[t][r]
      /\ \A u \in Tabs \ {t} : tab'[u] = tab[u] /\ call'[u] = call[u]
    BY <1>1, <1>3
<1>5. Closed(tab[t], call[t]) /\ SlotsFit(tab[t], call[t])
    BY DEF TabsFit, Fits
<1>6. "setup" \in Slots /\ "act" \in Slots
    BY DEF Slots
<1>7. \A r \in Slots : call'[t][r].do = call[t][r].do
    BY <1>2, <1>4
<1>8. SlotsFit(tab[t], call'[t])
  <2>1. \A r \in Slots : call'[t][r].do \in Kinds(r)
      BY <1>5, <1>7 DEF SlotsFit
  <2>2. \A r \in Slots : call'[t][r].at = "waiting" => call'[t][r].result = "unauthorized"
      BY <1>2, <1>4, <1>5 DEF SlotsFit
  <2>3. InWizard(tab[t]) => call'[t]["act"].do \in Wizards
      BY <1>5, <1>6, <1>7 DEF SlotsFit
  <2> QED
      BY <2>1, <2>2, <2>3 DEF SlotsFit
<1>9. Closed(tab[t], call'[t])
    BY <1>5 DEF Closed
<1> QED
    BY <1>2, <1>4, <1>8, <1>9 DEF Ok

\* 2FA is enabled or disabled.
LEMMA TwoFactorFits ==
    ASSUME IInv, NoSessions, TabsFit, NEW t \in Tabs, NEW s \in Slots, ServeTwoFactor(t, s)
    PROVE  TabsFit'
<1>1. server \in Server /\ call[t][s].do \in Kinds(s)
    BY Types, SlotKinds DEF IInv, Server
<1>2. s = "act" /\ call[t][s].at = "sent" /\ UNCHANGED tab /\ call[t][s].do \in {"verify", "disable"}
    BY <1>1 DEF ServeTwoFactor, Asks, Kinds, Slots
<1>3. CASE UNCHANGED server
  <2>1. PICK result \in {"unauthorized", "error"} : Answers(t, s, result, 0, FALSE)
    <3>1. CASE /\ Authorized(call[t][s]) /\ call[t][s].good
               /\ server.totp # (call[t][s].do = "verify")
      <4>1. server' = [server EXCEPT !.totp = call[t][s].do = "verify", !.by = t]
          BY <3>1 DEF ServeTwoFactor
      <4>2. server'.totp # server.totp
          BY <1>1, <3>1, <4>1 DEF Server
      <4> QED
          BY <1>3, <4>2
    <3>2. CASE ~(/\ Authorized(call[t][s]) /\ call[t][s].good
                 /\ server.totp # (call[t][s].do = "verify"))
      <4>1. Answers(t, s, IF \/ ~Authorized(call[t][s])
                             \/ ~(call[t][s].do = "verify") /\ server.totp
                          THEN "unauthorized" ELSE "error", 0, FALSE)
          BY <3>2 DEF ServeTwoFactor
      <4> QED
          BY <4>1
    <3> QED
        BY <3>1, <3>2
  <2>2. ~Changing(call[t])
      BY <1>2 DEF Changing, Ok
  <2> QED
      BY <1>2, <1>3, <2>1, <2>2, SameServer, AnswersFit
<1>4. CASE ~UNCHANGED server
  <2>1. /\ Authorized(call[t][s])
        /\ server' = [server EXCEPT !.totp = call[t][s].do = "verify", !.by = t]
        /\ Answers(t, s, "ok", 0, FALSE)
      BY <1>4 DEF ServeTwoFactor
  <2>2. server'.required = FALSE /\ server'.by = t /\ ~server.required
      BY <1>1, <2>1, AuthorizedAccount DEF Server
  <2>3. /\ Ok(call'[t][s]) /\ call'[t][s].do = call[t][s].do
        /\ \A r \in Slots : r # s => call'[t][r] = call[t][r]
        /\ \A u \in Tabs \ {t} : tab'[u] = tab[u] /\ call'[u] = call[u]
        /\ SlotsFit(tab'[t], call'[t]) /\ Closed(tab'[t], call'[t])
      BY <1>2, <2>1, OwnAnswer
  <2>4. \A r \in Slots : Completed(call'[t][r]) => Completed(call[t][r])
      BY <1>2, <2>3 DEF Completed
  <2>5. \A r \in Slots : Completed(call'[t][r]) => tab[t].at # "setup"
    <3>1. ~InWizard(tab[t])
        BY <1>2 DEF TabsFit, Fits, SlotsFit, Wizards
    <3> QED
        BY <2>4, <3>1 DEF TabsFit, Fits, Completes
  <2>6. \A r \in Slots : ~(Ok(call'[t][r]) /\ call'[t][r].do = "login")
    <3> SUFFICES ASSUME NEW r \in Slots, call'[t][r].do = "login" PROVE r = "act"
        BY <1>2, <2>3
    <3> QED
        BY <2>3 DEF SlotsFit, Kinds, Submits, Slots
  <2>7. Unset(server', tab'[t], call'[t])
      BY <2>2 DEF Unset
  <2>8. Completes(server', tab'[t], call'[t])
    <3>1. call'[t]["setup"] = call[t]["setup"]
        BY <1>2, <2>3 DEF Slots
    <3>2. SaysUnset(call'[t]) => SaysUnset(call[t])
        BY <3>1 DEF SaysUnset
    <3> QED
        BY <1>2, <2>2, <2>4, <3>2 DEF TabsFit, Fits, Completes
  <2>9. Changing(call'[t])
      BY <1>2, <2>3 DEF Changing
  <2>10. Agrees(t, server', tab'[t], call'[t])
      BY <1>2, <2>5, <2>6, <2>9 DEF Agrees, Completed
  <2>11. TabFits(t)'
      BY <2>3, <2>7, <2>8, <2>10 DEF TabFits, Fits
  <2>12. \A u \in Tabs \ {t} : ServerKeptBy(u)
      BY <2>2 DEF ServerKeptBy, ServerKept
  <2> QED
      BY <2>3, <2>11, <2>12, OthersFit
<1> QED
    BY <1>3, <1>4

\* The first account is made.
LEMMA CompleteFits ==
    ASSUME IInv, TabsFit, NEW t \in Tabs, NEW s \in Slots, ServeComplete(t, s)
    PROVE  TabsFit'
<1>1. server \in Server /\ call[t][s].do \in Kinds(s)
    BY Types, SlotKinds DEF IInv, Server
<1>2. call[t][s].at = "sent" /\ UNCHANGED tab /\ call[t][s].do = "complete"
    BY DEF ServeComplete, Asks
<1>3. CASE ~server.required
  <2>1. Answers(t, s, "error", 0, FALSE) /\ UNCHANGED server
      BY <1>3 DEF ServeComplete
  <2>2. s = "act" => ~Changing(call[t])
      BY <1>2 DEF Changing, Ok
  <2> QED
      BY <1>2, <2>1, <2>2, SameServer, AnswersFit
<1>4. CASE server.required
  <2>1. PICK n \in 1..MaxSessions, totp \in BOOLEAN :
          /\ Answers(t, s, "ok", n, totp)
          /\ server' = [required |-> FALSE, totp |-> totp, by |-> t]
      BY <1>4 DEF ServeComplete
  <2>2. server'.required = FALSE /\ server'.by = t /\ server'.totp = totp
      BY <2>1
  <2>3. /\ Ok(call'[t][s]) /\ call'[t][s].do = "complete" /\ call'[t][s].value = totp
        /\ \A r \in Slots : r # s => call'[t][r] = call[t][r]
        /\ \A u \in Tabs \ {t} : tab'[u] = tab[u] /\ call'[u] = call[u]
        /\ SlotsFit(tab'[t], call'[t]) /\ Closed(tab'[t], call'[t])
      BY <1>2, <2>1, OwnAnswer
  <2>4. /\ tab[t].me = "none"
        /\ \A r \in Slots : Ok(call[t][r]) => call[t][r].do \notin Tells /\ r # "me"
        /\ InWizard(tab[t]) /\ tab[t].required = "yes"
      BY <1>2, <1>4 DEF TabsFit, Fits, Unset, Completes
  <2>5. \A r \in Slots : Ok(call'[t][r]) => r = s \/ (call'[t][r].do \notin Tells /\ r # "me")
      BY <2>3, <2>4
  <2>6. s # "me" /\ "me" \in Slots
      BY <1>1, <1>2 DEF Kinds, Slots
  <2>7. Unset(server', tab'[t], call'[t])
      BY <2>2 DEF Unset
  <2>8. Completes(server', tab'[t], call'[t])
    <3>1. \A r \in Slots : Completed(call'[t][r]) => r = s
        BY <2>5 DEF Tells, Completed
    <3> QED
        BY <1>2, <2>2, <2>4, <3>1 DEF Completes
  <2>9. Agrees(t, server', tab'[t], call'[t])
    <3>1. \A r \in Slots : (Ok(call'[t][r]) /\ call'[t][r].do \in {"login", "complete"}) =>
            call'[t][r].value = totp
        BY <2>3, <2>5 DEF Tells
    <3>2. ~Ok(call'[t]["me"]) /\ MeRight(server', tab'[t])
        BY <1>2, <2>4, <2>5, <2>6 DEF MeRight
    <3> QED
        BY <2>2, <3>1, <3>2 DEF Agrees
  <2>10. TabFits(t)'
      BY <2>3, <2>7, <2>8, <2>9 DEF TabFits, Fits
  <2>11. \A u \in Tabs \ {t} : ServerKeptBy(u)
      BY <2>2 DEF ServerKeptBy, ServerKept
  <2> QED
      BY <2>3, <2>10, <2>11, OthersFit
<1> QED
    BY <1>3, <1>4

-----------------------------------------------------------------------------
\* What fails, waits or is given up.

\* Nothing a tab knows or asks for changes.
LEMMA ElsewhereFits ==
    ASSUME TabsFit, UNCHANGED <<tab, call, server>>
    PROVE  TabsFit'
BY DEF TabsFit

LEMMA FailFits ==
    ASSUME IInv, TabsFit, NEW t \in Tabs, NEW s \in Slots, Fail(t, s)
    PROVE  TabsFit'
<1>1. /\ call[t][s].at # "none" /\ Answers(t, s, "error", 0, FALSE) /\ UNCHANGED tab
      /\ server' = [server EXCEPT !.by = IF @ = t /\ s = "act" THEN NoTab ELSE @]
    BY DEF Fail
<1>2. /\ server'.required = server.required /\ server'.totp = server.totp
      /\ server'.by = IF server.by = t /\ s = "act" THEN NoTab ELSE server.by
    BY <1>1, Types DEF IInv
<1>3. \A u \in Tabs : ServerKeptBy(u)
    BY <1>2, ClientAssumption DEF ServerKeptBy, ServerKept
<1>4. s = "act" => server'.by # t
    BY <1>2, ClientAssumption
<1> QED
    BY <1>1, <1>3, <1>4, AnswersFit

LEMMA UnauthorizedFits ==
    ASSUME IInv, TabsFit, NEW t \in Tabs, NEW s \in Slots, Unauthorized(t, s)
    PROVE  TabsFit'
<1> DEFINE x == [call[t][s] EXCEPT !.at = "waiting"]
<1>1. call \in [Tabs -> [Slots -> Call]] /\ call[t][s] \in Call
    BY Types DEF IInv
<1>2. /\ call[t][s].at = "answered" /\ call[t][s].result = "unauthorized"
      /\ UNCHANGED <<tab, server>>
    BY DEF Unauthorized, Retries
<1>3. x.do = call[t][s].do /\ x.at = "waiting" /\ x.result = "unauthorized" /\ ~Ok(x)
    BY <1>1, <1>2 DEF Call, Ok
<1>4. call' = [call EXCEPT ![t] = [call[t] EXCEPT ![s] = x]]
    BY <1>1 DEF Unauthorized
<1> HIDE DEF x
<1>5. Closed(tab[t], call[t]) /\ Fits(t, server, tab[t], call[t])
    BY DEF TabsFit
<1>6. SlotFits(t, server', tab[t], call[t], s, x)
  <2>1. x.do \in Kinds(s)
      BY <1>2, <1>3, <1>5 DEF Fits, SlotsFit
  <2>2. (s = "act" /\ InWizard(tab[t])) => x.do \in Wizards
      BY <1>3, <1>5 DEF Fits, SlotsFit
  <2>3. (server'.required /\ x.do = "complete") => InWizard(tab[t]) /\ tab[t].required = "yes"
      BY <1>2, <1>3, <1>5 DEF Fits, Completes
  <2>4. ~(s = "act" /\ Changing(call[t]))
      BY <1>2 DEF Changing, Ok
  <2> QED
      BY <1>3, <2>1, <2>2, <2>3, <2>4 DEF SlotFits
<1>7. tab[t].at # "none"
    BY <1>2, <1>5 DEF Closed
<1> QED
    BY <1>2, <1>4, <1>6, <1>7, SameServer, OneRequest

\* The request of a slot is over, and the tab none the wiser.
LEMMA DoneFits ==
    ASSUME IInv, TabsFit, NEW t \in Tabs, NEW s \in {"setup", "act", "query"},
           (s = "act" /\ server.by = t /\ ~tab[t].cleared /\ Changing(call[t])) =>
              call[t]["me"].at = "sent"
    PROVE  /\ Done(t, s) \in [Slots -> Call] /\ Fits(t, server, tab[t], Done(t, s))
           /\ Closed(tab[t], Done(t, s))
<1>1. call[t] \in [Slots -> Call] /\ tab[t] \in Tab /\ s \in Slots
    BY Types DEF IInv, Slots
<1>2. Closed(tab[t], call[t]) /\ Fits(t, server, tab[t], call[t])
    BY DEF TabsFit
<1>3. Fits(t, server, tab[t], Done(t, s))
    BY <1>1, <1>2, FitsDone DEF Done
<1>4. Done(t, s) \in [Slots -> Call]
    BY <1>1, NoCallFields DEF Done
<1>5. Closed(tab[t], Done(t, s))
    BY <1>1, <1>2 DEF Closed, Done, NoCall
<1> QED
    BY <1>3, <1>4, <1>5

LEMMA ShrugFits ==
    ASSUME IInv, TabsFit, NEW t \in Tabs, NEW s \in Slots, Shrug(t, s)
    PROVE  TabsFit'
<1>1. call[t][s].do = "query" \/ (call[t][s].do \in Submits /\ call[t][s].result # "ok")
    BY DEF Shrug
<1>2. s \in {"setup", "act", "query"}
  <2>1. call[t][s].do \in Kinds(s)
      BY SlotKinds
  <2> QED
      BY <1>1, <2>1 DEF Kinds, Submits, Slots
<1>3. s = "act" => ~Changing(call[t])
    BY <1>1 DEF Changing, Ok
<1>4. Fits(t, server, tab[t], Done(t, s)) /\ Closed(tab[t], Done(t, s))
    BY <1>2, <1>3, DoneFits
<1>5. /\ call' = [call EXCEPT ![t] = Done(t, s)] /\ UNCHANGED server
      /\ tab' = [tab EXCEPT ![t] = tab[t]]
    BY Types DEF Shrug, IInv
<1> QED
    BY <1>4, <1>5, OwnStep

\* A request that waited for a refresh has told the tab nothing.
LEMMA RefreshArrivesFits ==
    ASSUME IInv, TabsFit, NEW t \in Tabs, RefreshArrives(t)
    PROVE  TabsFit'
<1> DEFINE c == call[t]
           d == [s \in Slots |-> Resumed(call[t][s], refresh[t].result = "ok", cookie')]
<1>1. call \in [Tabs -> [Slots -> Call]] /\ c \in [Slots -> Call]
    BY Types DEF IInv
<1>2. Closed(tab[t], c) /\ Fits(t, server, tab[t], c)
    BY DEF TabsFit
<1>3. \A s \in Slots :
        /\ d[s].do = c[s].do
        /\ c[s].at # "waiting" => d[s] = c[s]
        /\ c[s].at = "waiting" => d[s].at \in {"sent", "answered"} /\ d[s].result = "unauthorized"
  <2> TAKE s \in Slots
  <2> DEFINE x == call[t][s]
  <2>1. x \in Call /\ (x.at = "waiting" => x.result = "unauthorized")
      BY <1>1, <1>2 DEF Fits, SlotsFit
  <2>2. d[s] = Resumed(x, refresh[t].result = "ok", cookie')
      OBVIOUS
  <2> HIDE DEF d, x
  <2>3. CASE x.at # "waiting"
      BY <2>2, <2>3 DEF Resumed, x
  <2>4. CASE x.at = "waiting" /\ refresh[t].result = "ok"
    <3>1. d[s] = [x EXCEPT !.at = "sent", !.again = TRUE, !.cookie = cookie']
        BY <2>2, <2>4 DEF Resumed
    <3> QED
        BY <2>1, <2>4, <3>1 DEF Call, x
  <2>5. CASE x.at = "waiting" /\ refresh[t].result # "ok"
    <3>1. d[s] = [x EXCEPT !.at = "answered", !.again = TRUE]
        BY <2>2, <2>5 DEF Resumed
    <3> QED
        BY <2>1, <2>5, <3>1 DEF Call, x
  <2> QED
      BY <2>3, <2>4, <2>5
<1>4. /\ call' = [call EXCEPT ![t] = d] /\ UNCHANGED <<tab, server>>
      /\ tab' = [tab EXCEPT ![t] = tab[t]]
    BY Types DEF RefreshArrives, IInv
<1> HIDE DEF c, d
<1>5. \A s \in Slots : /\ Ok(d[s]) => d[s] = c[s]
                       /\ Ok(c[s]) => d[s] = c[s]
                       /\ d[s].at = "none" <=> c[s].at = "none"
                       /\ d[s].at # "waiting"
    BY <1>3 DEF Ok
<1>6. "me" \in Slots /\ "setup" \in Slots /\ "act" \in Slots
    BY DEF Slots
<1>7. Unset(server, tab[t], d)
    BY <1>2, <1>5, <1>6 DEF Fits, Unset
<1>8. SlotsFit(tab[t], d)
    BY <1>2, <1>3, <1>5, <1>6 DEF Fits, SlotsFit
<1>9. Completes(server, tab[t], d)
    BY <1>2, <1>3, <1>5, <1>6 DEF Fits, Completes, Completed, SaysUnset
<1>10. Agrees(t, server, tab[t], d)
  <2>1. Changing(c) <=> Changing(d)
      BY <1>5, <1>6 DEF Changing
  <2> QED
      BY <1>2, <1>5, <1>6, <2>1 DEF Fits, Agrees
<1>11. Fits(t, server, tab[t], d) /\ Closed(tab[t], d)
    BY <1>2, <1>5, <1>7, <1>8, <1>9, <1>10 DEF Fits, Closed
<1> QED
    BY <1>4, <1>11, OwnStep

\* A tab is closed: whatever it had under way, it asks for nothing more.
LEMMA CloseTabFits ==
    ASSUME IInv, TabsFit, NEW t \in Tabs, CloseTab(t)
    PROVE  TabsFit'
<1> DEFINE d == [s \in Slots |-> NoCall]
<1>1. /\ tab' = [tab EXCEPT ![t] = NewTab] /\ call' = [call EXCEPT ![t] = d]
      /\ server' = [server EXCEPT !.by = IF @ = t /\ call[t]["act"].at # "none" THEN NoTab ELSE @]
    BY DEF CloseTab
<1>2. /\ server'.required = server.required /\ server'.totp = server.totp
      /\ server'.by \in {server.by, NoTab}
    BY <1>1, Types DEF IInv
<1>3. \A u \in Tabs : ServerKeptBy(u)
    BY <1>2, ClientAssumption DEF ServerKeptBy, ServerKept
<1>4. \A s \in Slots : d[s].do = "none" /\ d[s].at = "none" /\ ~Ok(d[s])
    BY DEF NoCall, Ok
<1>5. tab'[t] = NewTab /\ call'[t] = d /\ \A u \in Tabs \ {t} : tab'[u] = tab[u] /\ call'[u] = call[u]
    BY <1>1, Types DEF IInv
<1> HIDE DEF d
<1>6. NewTab.me = "none" /\ ~NewTab.cleared /\ ~InWizard(NewTab)
    BY DEF NewTab, InWizard
<1>7. "me" \in Slots /\ "setup" \in Slots /\ "act" \in Slots
    BY DEF Slots
<1>8. Unset(server', NewTab, d)
    BY <1>4, <1>6, <1>7 DEF Unset
<1>9. SlotsFit(NewTab, d)
  <2>1. \A s \in Slots : d[s].do \in Kinds(s)
      BY <1>4 DEF Kinds, Slots
  <2> QED
      BY <1>4, <1>6, <1>7, <2>1 DEF SlotsFit
<1>10. Completes(server', NewTab, d)
    BY <1>4 DEF Completes, Completed
<1>11. Agrees(t, server', NewTab, d)
    BY <1>4, <1>6, <1>7 DEF Agrees, MeRight
<1>12. TabFits(t)'
    BY <1>4, <1>5, <1>6, <1>8, <1>9, <1>10, <1>11 DEF TabFits, Fits, Closed
<1> QED
    BY <1>3, <1>5, <1>12, OthersFit

-----------------------------------------------------------------------------
\* The gates.

LEMMA MountFits ==
    ASSUME IInv, TabsFit, NEW t \in Tabs, NEW p \in Tab, NEW c \in [Slots -> Call],
           NEW place \in {"app", "login", "setup"}, NEW jar \in Sessions0,
           NEW n, Fits(t, server, p, c), MayLeave(server, p, c, place),
           Mount(t, p, c, place, jar, n), UNCHANGED server
    PROVE  TabsFit'
<1>1. TabFits(t)'
    BY FitsMount DEF TabFits
<1>2. \A u \in Tabs \ {t} : tab'[u] = tab[u] /\ call'[u] = call[u]
    BY Types DEF IInv, Mount
<1> QED
    BY <1>1, <1>2, SameServer, OthersFit

LEMMA MountAgainFits ==
    ASSUME IInv, TabsFit, NEW t \in Tabs, NEW place \in {"app", "login", "setup"}, NEW n,
           tab[t].at # "setup" \/ tab[t].required # "yes",
           place = "setup" => tab[t].required = "yes" /\ tab[t].at # "setup",
           MountAgain(t, call[t], place, n), UNCHANGED server
    PROVE  TabsFit'
<1>1. tab[t] \in Tab /\ call[t] \in [Slots -> Call] /\ cookie \in Sessions0 /\ NewTab \in Tab
    BY Types, Constants DEF IInv
<1>2. Fits(t, server, tab[t], call[t])
    BY DEF TabsFit
<1>3. MayLeave(server, tab[t], call[t], place)
    BY <1>2, OutsideWizard
<1>4. CASE tab[t].cleared
  <2>1. Mount(t, NewTab, Forgotten(call[t]), place, cookie, n)
      BY <1>4 DEF MountAgain
  <2>2. /\ Forgotten(call[t]) \in [Slots -> Call]
        /\ Fits(t, server, NewTab, Forgotten(call[t]))
        /\ MayLeave(server, NewTab, Forgotten(call[t]), place)
      BY <1>1, <1>2, <1>3, FitsForgotten
  <2> QED
      BY <1>1, <2>1, <2>2, MountFits
<1>5. CASE ~tab[t].cleared
    BY <1>1, <1>2, <1>3, <1>5, MountFits DEF MountAgain
<1> QED
    BY <1>4, <1>5

LEMMA NavigateFits ==
    ASSUME IInv, TabsFit, NEW t \in Tabs, Navigate(t)
    PROVE  TabsFit'
<1>1. /\ Shown(t) \in {"to app", "to setup", "to login"} /\ UNCHANGED server
    BY DEF Navigate
<1>2. PICK place \in {"app", "login", "setup"} :
        MountAgain(t, call[t], place, 0) /\ (place = "setup" => Shown(t) = "to setup")
    BY DEF Navigate
<1>3. tab[t].at # "setup" \/ tab[t].required # "yes"
    BY <1>1, ShownWhere DEF IInv
<1>4. place = "setup" => tab[t].required = "yes" /\ tab[t].at # "setup"
    BY <1>2, ShownWhere DEF IInv
<1> QED
    BY <1>1, <1>2, <1>3, <1>4, MountAgainFits

LEMMA BrowseFits ==
    ASSUME IInv, TabsFit, NEW t \in Tabs, Browse(t)
    PROVE  TabsFit'
<1>1. tab[t].at = "app"
    BY ShownWhere DEF IInv, Browse
<1> QED
    BY <1>1, MountAgainFits DEF Browse

LEMMA OpenTabFits ==
    ASSUME IInv, TabsFit, NEW t \in Tabs, OpenTab(t)
    PROVE  TabsFit'
<1>1. tab[t].at = "none" /\ UNCHANGED server
    BY DEF OpenTab
<1>2. PICK place \in {"app", "login"} : Mount(t, NewTab, call[t], place, cookie, 1)
    BY DEF OpenTab
<1>3. /\ Fits(t, server, tab[t], call[t])
      /\ call[t]["me"].at = "none" /\ call[t]["setup"].at = "none"
      /\ \A s \in Slots : ~Ok(call[t][s])
    BY <1>1 DEF TabsFit, Closed, Slots, Ok
<1>4. MayLeave(server, tab[t], call[t], place) /\ MayLeave(server, NewTab, call[t], place)
  <2>1. MayLeave(server, tab[t], call[t], place)
      BY <1>1, <1>3, OutsideWizard
  <2> QED
      BY <1>3, <2>1 DEF MayLeave
<1>5. Fits(t, server, NewTab, call[t])
    BY <1>3, <1>4, FitsNewTab
<1>6. NewTab \in Tab /\ call[t] \in [Slots -> Call] /\ cookie \in Sessions0
    BY Types, Constants DEF IInv
<1> QED
    BY <1>1, <1>2, <1>4, <1>5, <1>6, MountFits

LEMMA AccountStepFits ==
    ASSUME IInv, TabsFit, NEW t \in Tabs, AccountStep(t)
    PROVE  TabsFit'
<1> DEFINE p == [tab[t] EXCEPT !.step = "totp"]
<1>1. /\ tab' = [tab EXCEPT ![t] = p] /\ UNCHANGED server
      /\ call' = [call EXCEPT ![t] = call[t]]
    BY Types DEF AccountStep, IInv
<1>2. tab[t] \in Tab /\ Fits(t, server, tab[t], call[t]) /\ tab[t].at = "setup"
    BY Types, ShownWhere DEF IInv, TabsFit, AccountStep
<1>3. call[t]["act"].do \in Wizards
    BY <1>2 DEF Fits, SlotsFit, InWizard, AccountStep
<1>4. Fits(t, server, p, call[t])
    BY <1>2, <1>3, FitsWizard
<1>5. Closed(p, call[t])
    BY <1>2 DEF Closed, Tab
<1> HIDE DEF p
<1> QED
    BY <1>1, <1>4, <1>5, OwnStep

-----------------------------------------------------------------------------
\* The answers.

LEMMA MeArrivesFits ==
    ASSUME IInv, TabsFit, NEW t \in Tabs, MeArrives(t)
    PROVE  TabsFit'
<1> DEFINE x == call[t]["me"]
           q == IF x.result = "ok" THEN Known(t, x.value) ELSE [tab[t] EXCEPT !.failed = TRUE]
<1>1. "me" \in Slots /\ call[t] \in [Slots -> Call] /\ tab[t] \in Tab /\ x \in Call
    BY Types DEF IInv, Slots
<1>2. Closed(tab[t], call[t]) /\ Fits(t, server, tab[t], call[t])
    BY DEF TabsFit
<1>3. x.at = "answered" /\ tab[t].at # "none"
    BY <1>1, <1>2 DEF MeArrives, Settled, Closed
<1>4. /\ Fits(t, server, q, call[t]) /\ q.at = tab[t].at /\ q.cleared = tab[t].cleared
      /\ (server.by = t /\ ~q.cleared /\ ~Changing(call[t])) => MeRight(server, q)
  <2>1. CASE x.result = "ok"
    <3>1. Ok(call[t]["me"]) /\ x.value \in BOOLEAN
        BY <1>1, <1>3, <2>1 DEF Ok, Call
    <3>2. ~server.required
        BY <1>1, <1>2, <3>1 DEF Fits, Unset
    <3>3. (server.by = t /\ ~tab[t].cleared /\ ~Changing(call[t])) => x.value = server.totp
        BY <1>2, <3>1 DEF Fits, Agrees
    <3>4. q = [tab[t] EXCEPT !.me = Flag(x.value), !.failed = FALSE]
        BY <2>1 DEF Known
    <3>5. q.me = Flag(x.value) /\ q.at = tab[t].at /\ q.cleared = tab[t].cleared
        BY <1>1, <3>4 DEF Tab
    <3> HIDE DEF q, x
    <3>6. Fits(t, server, q, call[t])
        BY <1>1, <1>2, <3>1, <3>2, <3>3, <3>4, FitsKnown
    <3> QED
        BY <3>3, <3>5, <3>6 DEF MeRight
  <2>2. CASE x.result # "ok"
    <3>1. q = [tab[t] EXCEPT !.failed = TRUE]
        BY <2>2
    <3>2. q.failed = TRUE /\ q.at = tab[t].at /\ q.cleared = tab[t].cleared
        BY <1>1, <3>1 DEF Tab
    <3> HIDE DEF q, x
    <3>3. Fits(t, server, q, call[t])
        BY <1>1, <1>2, <3>1, FitsFailed
    <3> QED
        BY <3>2, <3>3 DEF MeRight
  <2> QED
      BY <2>1, <2>2
<1>5. tab' = [tab EXCEPT ![t] = q] /\ call' = [call EXCEPT ![t] = Done(t, "me")] /\ UNCHANGED server
    BY DEF MeArrives
<1> HIDE DEF q, x
<1>6. NoCall.do = "none" /\ NoCall.at = "none" /\ ~Ok(NoCall)
    BY DEF NoCall, Ok
<1>7. SlotFits(t, server, q, call[t], "me", NoCall)
    BY <1>4, <1>6 DEF SlotFits, Kinds
<1>8. Fits(t, server, q, Done(t, "me"))
    BY <1>1, <1>4, <1>7, FitsCall DEF Done
<1>9. Closed(q, Done(t, "me"))
    BY <1>3, <1>4 DEF Closed
<1> QED
    BY <1>5, <1>8, <1>9, OwnStep

LEMMA StatusArrivesFits ==
    ASSUME IInv, TabsFit, NEW t \in Tabs, StatusArrives(t)
    PROVE  TabsFit'
<1> DEFINE d == Done(t, "setup")
           r == IF call[t]["setup"].result # "ok" THEN tab[t].required
                ELSE IF call[t]["setup"].value THEN "yes" ELSE "no"
           q == [tab[t] EXCEPT !.required = r]
<1>1. tab[t] \in Tab /\ "setup" \in Slots /\ call[t] \in [Slots -> Call]
    BY Types DEF IInv, Slots
<1>2. Closed(tab[t], call[t]) /\ Fits(t, server, tab[t], call[t])
    BY DEF TabsFit
<1>3. tab[t].at # "none" /\ call[t]["setup"].at = "answered"
    BY <1>1, <1>2 DEF Closed, StatusArrives, Settled
<1>4. Fits(t, server, tab[t], d)
    BY DoneFits
<1>5. d["setup"].at = "none"
    BY <1>1 DEF Done, NoCall
<1>6. tab' = [tab EXCEPT ![t] = q] /\ call' = [call EXCEPT ![t] = d] /\ UNCHANGED server
    BY DEF StatusArrives
<1>7. r \in {"none", "yes", "no"} /\ (server.required => r = tab[t].required \/ r = "yes")
  <2>1. r \in {"none", "yes", "no"}
      BY <1>1 DEF Tab
  <2>2. (Ok(call[t]["setup"]) /\ server.required) => call[t]["setup"].value
      BY <1>2 DEF Fits, Unset
  <2> QED
      BY <1>3, <2>1, <2>2 DEF Ok
<1>8. \A s \in Slots : Completed(d[s]) => (r = "yes" => tab[t].required = "yes")
  <2> TAKE s \in Slots
  <2>1. Completed(d[s]) => Completed(call[t][s])
      BY <1>1 DEF Done, NoCall, Completed, Ok
  <2>2. (Completed(call[t][s]) /\ tab[t].required # "yes") => ~SaysUnset(call[t])
      BY <1>2 DEF Fits, Completes
  <2> QED
      BY <1>3, <2>1, <2>2 DEF SaysUnset, Ok
<1> HIDE DEF d, r
<1>9. Fits(t, server, q, d)
    BY <1>1, <1>4, <1>5, <1>7, <1>8, FitsStatus
<1>10. Closed(q, d)
    BY <1>1, <1>3 DEF Closed, Tab
<1> HIDE DEF q
<1> QED
    BY <1>6, <1>9, <1>10, OwnStep

LEMMA VerifyTokenArrivesFits ==
    ASSUME IInv, TabsFit, NEW t \in Tabs, VerifyTokenArrives(t)
    PROVE  TabsFit'
<1> DEFINE d == Done(t, "act")
           q == [tab[t] EXCEPT !.step = IF tab[t].at = "setup" THEN "account" ELSE @]
<1>1. tab[t] \in Tab /\ "act" \in Slots /\ call[t] \in [Slots -> Call]
    BY Types DEF IInv, Slots
<1>2. ~Changing(call[t])
    BY DEF VerifyTokenArrives, Changing
<1>3. Fits(t, server, tab[t], d) /\ Closed(tab[t], d)
    BY <1>2, DoneFits
<1>4. d["act"].do \in Wizards
    BY <1>1 DEF Done, NoCall, Wizards
<1>5. tab' = [tab EXCEPT ![t] = q] /\ call' = [call EXCEPT ![t] = d] /\ UNCHANGED server
    BY DEF VerifyTokenArrives
<1> HIDE DEF d
<1>6. Fits(t, server, q, d)
  <2>1. CASE tab[t].at = "setup"
    <3>1. q = [tab[t] EXCEPT !.step = "account"]
        BY <2>1
    <3> HIDE DEF q
    <3> QED
        BY <1>1, <1>3, <1>4, <3>1, FitsWizard
  <2>2. CASE tab[t].at # "setup"
    <3>1. q = tab[t]
        BY <1>1, <2>2 DEF Tab
    <3> QED
        BY <1>3, <3>1
  <2> QED
      BY <2>1, <2>2
<1>7. Closed(q, d)
    BY <1>1, <1>3 DEF Closed, Tab
<1> HIDE DEF q
<1> QED
    BY <1>5, <1>6, <1>7, OwnStep

\* Signing in tells of the account.
LEMMA LoginArrivesFits ==
    ASSUME IInv, TabsFit, NEW t \in Tabs, LoginArrives(t)
    PROVE  TabsFit'
<1> DEFINE value == call[t]["act"].value
           d == Done(t, "act")
           q == Known(t, value)
<1>1. /\ "act" \in Slots /\ call[t] \in [Slots -> Call] /\ tab[t] \in Tab /\ q \in Tab
      /\ call[t]["act"] \in Call
    BY Types, KnownTab DEF IInv, Slots
<1>2. Fits(t, server, tab[t], call[t])
    BY DEF TabsFit
<1>3. Ok(call[t]["act"]) /\ call[t]["act"].do = "login"
    BY DEF LoginArrives, Settled, Ok
<1>4. value \in BOOLEAN /\ ~server.required /\ (server.by = t => value = server.totp)
  <2>1. value \in BOOLEAN
      BY <1>1 DEF Call
  <2>2. ~server.required
      BY <1>1, <1>2, <1>3 DEF Fits, Unset, Tells
  <2>3. server.by = t => value = server.totp
      BY <1>1, <1>2, <1>3 DEF Fits, Agrees
  <2> QED
      BY <2>1, <2>2, <2>3
<1>5. d \in [Slots -> Call] /\ Fits(t, server, tab[t], d)
    BY <1>3, DoneFits DEF Changing
<1>6. MayLeave(server, q, d, "app")
  <2>1. MayLeave(server, tab[t], call[t], "app")
      BY <1>2, <1>3, OutsideWizard DEF Wizards
  <2>2. q.required = tab[t].required
      BY <1>1 DEF Known, Tab
  <2> QED
      BY <1>1, <2>1, <2>2 DEF MayLeave, Done, NoCall
<1>7. /\ Mount(t, q, d, "app", cookie', 0) /\ UNCHANGED server /\ cookie' \in Sessions0
    BY Numbers, <1>1 DEF LoginArrives, IInv
<1>8. q = [tab[t] EXCEPT !.me = Flag(value), !.failed = FALSE]
    BY DEF Known
<1> HIDE DEF value, d, q
<1>9. Fits(t, server, q, d)
    BY <1>1, <1>4, <1>5, <1>8, FitsKnown
<1> QED
    BY <1>1, <1>5, <1>6, <1>7, <1>9, MountFits

LEMMA LogoutArrivesFits ==
    ASSUME IInv, TabsFit, NEW t \in Tabs, LogoutArrives(t)
    PROVE  TabsFit'
<1> DEFINE d == Done(t, "act")
<1>1. "act" \in Slots /\ call[t] \in [Slots -> Call] /\ tab[t] \in Tab
    BY Types DEF IInv, Slots
<1>2. Closed(tab[t], call[t]) /\ Fits(t, server, tab[t], call[t])
    BY DEF TabsFit
<1>3. call[t]["act"].do = "logout" /\ call[t]["act"].at = "answered" /\ UNCHANGED server
    BY DEF LogoutArrives, Settled
<1>4. d \in [Slots -> Call] /\ Fits(t, server, tab[t], d)
    BY <1>3, DoneFits DEF Changing
<1>5. MayLeave(server, tab[t], d, "login")
  <2>1. MayLeave(server, tab[t], call[t], "login")
      BY <1>2, <1>3, OutsideWizard DEF Wizards
  <2> QED
      BY <1>1, <2>1 DEF MayLeave, Done, NoCall
<1>6. CASE call[t]["act"].result = "ok"
  <2>1. cookie' = 0 /\ Mount(t, NewTab, Forgotten(d), "login", cookie', 0)
      BY <1>6 DEF LogoutArrives
  <2> HIDE DEF d
  <2>2. /\ Forgotten(d) \in [Slots -> Call] /\ Fits(t, server, NewTab, Forgotten(d))
        /\ MayLeave(server, NewTab, Forgotten(d), "login")
      BY <1>1, <1>4, <1>5, FitsForgotten
  <2> QED
      BY <1>3, <2>1, <2>2, Constants, MountFits
<1>7. CASE call[t]["act"].result # "ok"
  <2> DEFINE q == [tab[t] EXCEPT !.cleared = TRUE]
  <2>1. tab' = [tab EXCEPT ![t] = q] /\ call' = [call EXCEPT ![t] = d]
      BY <1>7 DEF LogoutArrives
  <2>2. tab[t].at # "none"
      BY <1>1, <1>2, <1>3 DEF Closed
  <2>3. Closed(q, d)
      BY <1>1, <2>2 DEF Closed, Tab
  <2> HIDE DEF d
  <2>4. Fits(t, server, q, d)
      BY <1>1, <1>4, FitsCleared
  <2> HIDE DEF q
  <2> QED
      BY <1>3, <2>1, <2>3, <2>4, OwnStep
<1> QED
    BY <1>6, <1>7

\* The answer to a change sends for the account once more, unless its first answer is
\* still waited for.
LEMMA ChangeArrivesFits ==
    ASSUME IInv, TabsFit, NEW t \in Tabs, ChangeArrives(t)
    PROVE  TabsFit'
<1> DEFINE p == tab[t]
           c == call[t]
           d == [c EXCEPT !["act"] = NoCall]
<1>1. /\ "act" \in Slots /\ "me" \in Slots /\ c \in [Slots -> Call] /\ p \in Tab
      /\ server \in Server /\ cookie \in Sessions0
    BY Types DEF IInv, Slots, Server
<1>2. Closed(p, c) /\ Fits(t, server, p, c)
    BY DEF TabsFit
<1>3. p.at # "none"
    BY <1>1, <1>2 DEF ChangeArrives, Settled, Closed
<1>4. /\ call' = [call EXCEPT ![t] = Invalidated(p, d)] /\ UNCHANGED tab
      /\ server' = [server EXCEPT !.by = IF FirstAwaited(p, c) THEN NoTab ELSE @]
    BY DEF ChangeArrives, Done
<1>5. /\ server'.required = server.required /\ server'.totp = server.totp
      /\ server'.by = IF FirstAwaited(p, c) THEN NoTab ELSE server.by
    BY <1>1, <1>4 DEF Server
<1>6. \A u \in Tabs : ServerKeptBy(u)
    BY <1>5, ClientAssumption DEF ServerKeptBy, ServerKept
<1>7. d["me"] = c["me"]
    BY <1>1
<1>8. /\ call'[t] = Invalidated(p, d) /\ tab'[t] = p
      /\ \A u \in Tabs \ {t} : tab'[u] = tab[u] /\ call'[u] = call[u]
    BY <1>4, Types DEF IInv
<1> HIDE DEF p, c
<1>9. Fits(t, server', p, c)
    BY <1>2, <1>6, FitsServer DEF ServerKeptBy
<1>10. Fits(t, server', p, Invalidated(p, d))
  <2>1. CASE p.cleared \/ FirstAwaited(p, c)
    <3>1. Invalidated(p, d) = d
        BY <1>7, <2>1 DEF Invalidated, FirstAwaited
    <3>2. server'.by = t => p.cleared
        BY <1>5, <2>1, ClientAssumption
    <3>3. Fits(t, server', p, [c EXCEPT !["act"] = NoCall])
        BY <1>1, <1>9, <3>2, FitsDone
    <3> QED
        BY <3>1, <3>3
  <2>2. CASE ~(p.cleared \/ FirstAwaited(p, c))
    <3>1. Invalidated(p, d) = [Disowned(d) EXCEPT !["me"] = Asked("me", FALSE, cookie)]
        BY <1>7, <2>2 DEF Invalidated, FirstAwaited
    <3>2. Fits(t, server', p, [Disowned([c EXCEPT !["act"] = NoCall])
                                 EXCEPT !["me"] = Asked("me", FALSE, cookie)])
        BY <1>1, <1>9, FitsInvalidated
    <3> QED
        BY <3>1, <3>2
  <2> QED
      BY <2>1, <2>2
<1>11. TabFits(t)'
    BY <1>3, <1>8, <1>10 DEF TabFits, Closed
<1> QED
    BY <1>6, <1>8, <1>11, OthersFit

\* The wizard's last request tells the tab of the account it has made.
LEMMA CompleteArrivesFits ==
    ASSUME IInv, TabsFit, NEW t \in Tabs, NEW s \in Slots, CompleteArrives(t, s)
    PROVE  TabsFit'
<1> DEFINE value == call[t][s].value
           d == Done(t, s)
           q == Known(t, value)
           r == [q EXCEPT !.required = "no"]
<1>1. /\ call[t] \in [Slots -> Call] /\ tab[t] \in Tab /\ q \in Tab /\ call[t][s] \in Call
      /\ "act" \in Slots /\ "setup" \in Slots
    BY Types, KnownTab DEF IInv, Slots
<1>2. Fits(t, server, tab[t], call[t])
    BY DEF TabsFit
<1>3. Ok(call[t][s]) /\ call[t][s].do = "complete"
    BY DEF CompleteArrives, Settled, Ok
<1>4. s \in {"setup", "act", "query"}
  <2>1. call[t][s].do \in Kinds(s)
      BY SlotKinds
  <2> QED
      BY <1>3, <2>1 DEF Kinds, Slots
<1>5. /\ server'.required = server.required /\ server'.totp = server.totp
      /\ server'.by = IF server.by = t /\ tab[t].at # "setup" THEN NoTab ELSE server.by
    BY Types DEF CompleteArrives, IInv
<1>6. /\ value \in BOOLEAN /\ ~server'.required /\ (server'.by = t => value = server'.totp)
      /\ tab[t].at = "setup" => InWizard(tab[t])
  <2>1. value \in BOOLEAN
      BY <1>1 DEF Call
  <2>2. ~server.required
      BY <1>2, <1>3 DEF Fits, Unset, Tells
  <2>3. server'.by = t => server.by = t /\ tab[t].at = "setup"
      BY <1>5, ClientAssumption
  <2>4. server'.by = t => value = server'.totp
      BY <1>2, <1>3, <1>5, <2>3 DEF Fits, Agrees
  <2>5. tab[t].at = "setup" => InWizard(tab[t])
      BY <1>2, <1>3 DEF Fits, Completes, Completed
  <2> QED
      BY <1>5, <2>1, <2>2, <2>4, <2>5
<1>7. \A u \in Tabs : ServerKeptBy(u)
    BY <1>5, ClientAssumption DEF ServerKeptBy, ServerKept
<1>8. d \in [Slots -> Call] /\ Fits(t, server', tab[t], d)
  <2>1. d \in [Slots -> Call] /\ Fits(t, server, tab[t], d)
      BY <1>3, <1>4, DoneFits DEF Changing
  <2> HIDE DEF d
  <2> QED
      BY <1>7, <2>1, FitsServer DEF ServerKeptBy
<1>9. \A u \in Slots : ~Completed(d[u])
  <2>1. \A u \in Slots : u # s => ~Completed(call[t][u])
      BY <1>2, <1>3 DEF Fits, Completes, Completed
  <2>2. \A u \in Slots : d[u] = IF u = s THEN NoCall ELSE call[t][u]
      BY <1>1 DEF Done
  <2>3. ~Completed(NoCall)
      BY DEF NoCall, Completed
  <2> HIDE DEF d
  <2> QED
      BY <2>1, <2>2, <2>3
<1>10. tab[t].at = "setup" => d["act"].do \in Wizards
    BY <1>6, <1>8 DEF Fits, SlotsFit
<1>11. /\ tab'[t] = [r EXCEPT !.step = "done"] /\ call'[t] = d
       /\ \A u \in Tabs \ {t} : tab'[u] = tab[u] /\ call'[u] = call[u]
    BY Types DEF CompleteArrives, IInv
<1>12. q = [tab[t] EXCEPT !.me = Flag(value), !.failed = FALSE]
    BY DEF Known
<1>13. /\ r \in Tab /\ r.at = tab[t].at /\ [r EXCEPT !.step = "done"].at = tab[t].at
       /\ tab[t].at # "none"
  <2>1. q.at = tab[t].at
      BY <1>1, <1>12 DEF Tab
  <2>2. tab[t].at # "none"
      BY <1>3 DEF TabsFit, Closed, Ok
  <2> HIDE DEF q
  <2> QED
      BY <1>1, <2>1, <2>2 DEF Tab
<1> HIDE DEF value, d, q
<1>14. Fits(t, server', q, d)
    BY <1>1, <1>6, <1>8, <1>12, FitsKnown
<1>15. Fits(t, server', r, d)
    BY <1>1, <1>6, <1>9, <1>14, FitsStatus
<1> HIDE DEF r
<1>16. Fits(t, server', [r EXCEPT !.step = "done"], d)
    BY <1>10, <1>13, <1>15, FitsWizard
<1>17. TabFits(t)'
    BY <1>11, <1>13, <1>16 DEF TabFits, Closed
<1> QED
    BY <1>7, <1>11, <1>17, OthersFit

-----------------------------------------------------------------------------
\* The invariant.

\* Most steps leave the table of sessions alone.
SessionsKept == UNCHANGED session /\ (server'.required => server.required)

LEMMA KeptSessions == NoSessions /\ SessionsKept => NoSessions'
BY DEF NoSessions, SessionsKept

LEMMA NoAuthority ==
    ASSUME IInv, NoSessions, server.required, NEW t \in Tabs, NEW s \in Slots
    PROVE  ~Authorized(call[t][s])
BY AuthorizedAccount

LEMMA ServeNoSessions ==
    ASSUME IInv, NoSessions, NEW t \in Tabs, NEW s \in Slots, Serve(t, s)
    PROVE  NoSessions'
<1>1. server \in Server
    BY Types DEF IInv, Server
<1>2. CASE ServeStatus(t, s) \/ ServeMe(t, s) \/ ServeVerifyToken(t, s)
    BY <1>2, KeptSessions DEF SessionsKept, ServeStatus, ServeMe, ServeVerifyToken
<1>3. CASE ServeLogin(t, s)
    BY <1>3, KeptSessions DEF SessionsKept, ServeLogin, NoSessions
<1>4. CASE ServeLogout(t, s) \/ ServePassword(t, s)
  <2>1. UNCHANGED server
      BY <1>4 DEF ServeLogout, ServePassword
  <2>2. server.required => UNCHANGED session
      BY <1>4, NoAuthority DEF ServeLogout, ServePassword
  <2> QED
      BY <2>1, <2>2 DEF NoSessions
<1>5. CASE ServeTwoFactor(t, s)
  <2>1. server'.required = server.required
      BY <1>1, <1>5 DEF ServeTwoFactor, Server
  <2>2. UNCHANGED session
      BY <1>5 DEF ServeTwoFactor
  <2> QED
      BY <2>1, <2>2, KeptSessions DEF SessionsKept
<1>6. CASE ServeComplete(t, s)
  <2>1. CASE server.required
    <3>1. ~server'.required
        BY <1>6, <2>1 DEF ServeComplete
    <3> QED
        BY <3>1 DEF NoSessions
  <2>2. CASE ~server.required
      BY <1>6, <2>2 DEF ServeComplete, NoSessions
  <2> QED
      BY <2>1, <2>2
<1> QED
    BY <1>2, <1>3, <1>4, <1>5, <1>6 DEF Serve

\* A refresh rotates a session that exists.
LEMMA RefreshNoSessions ==
    ASSUME IInv, NoSessions, NEW t \in Tabs, ServeRefresh(t)
    PROVE  NoSessions'
<1>1. UNCHANGED server
    BY DEF ServeRefresh
<1>2. ASSUME server.required PROVE UNCHANGED session
  <2>1. refresh[t].cookie \in Sessions0 /\ Known0(refresh[t].cookie)
      BY Numbers DEF IInv, References
  <2>2. refresh[t].cookie # 0 => refresh[t].cookie \in 1..MaxSessions
      BY <2>1, ClientAssumption DEF Sessions0
  <2>3. refresh[t].cookie = 0
      BY <1>2, <2>1, <2>2 DEF NoSessions, Known0
  <2> QED
      BY <2>3 DEF ServeRefresh
<1> QED
    BY <1>1, <1>2 DEF NoSessions

LEMMA UserNoSessions ==
    ASSUME IInv, NoSessions, NEW t \in Tabs, User(t) \/ Navigate(t)
    PROVE  NoSessions'
<1>1. server \in Server
    BY Types DEF IInv, Server
<1>2. CASE \/ OpenTab(t) \/ Browse(t) \/ AccountStep(t) \/ Navigate(t)
    BY <1>2, KeptSessions DEF SessionsKept, OpenTab, Browse, AccountStep, Navigate
<1>3. CASE CloseTab(t)
  <2>1. server'.required = server.required
      BY <1>1, <1>3 DEF CloseTab, Server
  <2> QED
      BY <1>3, <2>1, KeptSessions DEF SessionsKept, CloseTab
<1>4. ASSUME NEW s \in Slots, NEW do, NEW good, Sends(t, s, do, good)
      PROVE  NoSessions'
    BY <1>4, KeptSessions DEF SessionsKept, Sends
<1>5. CASE TokenStep(t) \/ TotpStep(t) \/ Poll(t)
    BY <1>4, <1>5 DEF TokenStep, TotpStep, Poll, Submit, Slots
<1>6. CASE Login(t) \/ Logout(t) \/ Verify(t)
    BY <1>4, <1>6 DEF Login, Logout, Verify, Submit, Slots
<1>7. ASSUME NEW good \in BOOLEAN, ChangePassword(t, good) \/ Disable(t, good)
      PROVE  NoSessions'
    BY <1>4, <1>7 DEF ChangePassword, Disable, Submit, Slots
<1> QED
    BY <1>2, <1>3, <1>5, <1>6, <1>7 DEF User

LEMMA ArriveNoSessions ==
    ASSUME IInv, NoSessions, NEW t \in Tabs, NEW s \in Slots, Arrive(t, s) \/ Fail(t, s)
    PROVE  NoSessions'
<1>1. server \in Server
    BY Types DEF IInv, Server
<1>2. CASE MeArrives(t) \/ StatusArrives(t) \/ LoginArrives(t) \/ LogoutArrives(t)
    BY <1>2, KeptSessions DEF SessionsKept, MeArrives, StatusArrives, LoginArrives, LogoutArrives
<1>3. CASE VerifyTokenArrives(t) \/ Shrug(t, s) \/ Unauthorized(t, s)
    BY <1>3, KeptSessions DEF SessionsKept, VerifyTokenArrives, Shrug, Unauthorized
<1>4. CASE ChangeArrives(t) \/ CompleteArrives(t, s) \/ Fail(t, s)
  <2>1. server'.required = server.required
      BY <1>1, <1>4 DEF ChangeArrives, CompleteArrives, Fail, Server
  <2> QED
      BY <1>4, <2>1, KeptSessions DEF SessionsKept, ChangeArrives, CompleteArrives, Fail
<1> QED
    BY <1>2, <1>3, <1>4 DEF Arrive

LEMMA NextNoSessions == IInv /\ NoSessions /\ [Next]_vars => NoSessions'
<1> SUFFICES ASSUME IInv, NoSessions, [Next]_vars PROVE NoSessions'
    OBVIOUS
<1>1. ASSUME NEW t \in Tabs, User(t) \/ Navigate(t)
      PROVE  NoSessions'
    BY <1>1, UserNoSessions
<1>2. ASSUME NEW t \in Tabs, Network(t)
      PROVE  NoSessions'
  <2>1. CASE ServeRefresh(t)
      BY <2>1, RefreshNoSessions
  <2>2. CASE FailRefresh(t) \/ RefreshArrives(t)
      BY <2>2, KeptSessions DEF SessionsKept, FailRefresh, RefreshArrives
  <2>3. ASSUME NEW s \in Slots, Serve(t, s) \/ Fail(t, s) \/ Arrive(t, s)
        PROVE  NoSessions'
      BY <2>3, ServeNoSessions, ArriveNoSessions
  <2> QED
      BY <1>2, <2>1, <2>2, <2>3 DEF Network
<1>3. ASSUME NEW n \in 1..MaxSessions, Expire(n)
      PROVE  NoSessions'
  <2>1. session[n].at = "live" /\ UNCHANGED server
      BY <1>3 DEF Expire
  <2> QED
      BY <2>1 DEF NoSessions
<1>4. CASE UNCHANGED vars
    BY <1>4, KeptSessions DEF SessionsKept, vars
<1> QED
    BY <1>1, <1>2, <1>3, <1>4 DEF Next

LEMMA UserFits ==
    ASSUME IInv, TabsFit, NEW t \in Tabs, User(t) \/ Navigate(t)
    PROVE  TabsFit'
<1>1. CASE OpenTab(t) \/ CloseTab(t) \/ Browse(t)
    BY <1>1, OpenTabFits, CloseTabFits, BrowseFits
<1>2. CASE AccountStep(t) \/ Navigate(t)
    BY <1>2, AccountStepFits, NavigateFits
<1>3. CASE \/ Poll(t) \/ Login(t) \/ Logout(t) \/ Verify(t) \/ TokenStep(t) \/ TotpStep(t)
           \/ \E good \in BOOLEAN : ChangePassword(t, good) \/ Disable(t, good)
    BY <1>3, SubmitsFit
<1> QED
    BY <1>1, <1>2, <1>3 DEF User

LEMMA ArriveFits ==
    ASSUME IInv, TabsFit, NEW t \in Tabs, NEW s \in Slots, Arrive(t, s)
    PROVE  TabsFit'
<1>1. CASE MeArrives(t) \/ StatusArrives(t)
    BY <1>1, MeArrivesFits, StatusArrivesFits
<1>2. CASE LoginArrives(t) \/ LogoutArrives(t) \/ ChangeArrives(t) \/ VerifyTokenArrives(t)
    BY <1>2, LoginArrivesFits, LogoutArrivesFits, ChangeArrivesFits, VerifyTokenArrivesFits
<1>3. CASE CompleteArrives(t, s) \/ Shrug(t, s) \/ Unauthorized(t, s)
    BY <1>3, CompleteArrivesFits, ShrugFits, UnauthorizedFits
<1> QED
    BY <1>1, <1>2, <1>3 DEF Arrive

LEMMA NetworkFits ==
    ASSUME IInv, NoSessions, TabsFit, NEW t \in Tabs, Network(t)
    PROVE  TabsFit'
<1>1. CASE ServeRefresh(t) \/ FailRefresh(t)
    BY <1>1, ElsewhereFits DEF ServeRefresh, FailRefresh
<1>2. CASE RefreshArrives(t)
    BY <1>2, RefreshArrivesFits
<1>3. ASSUME NEW s \in Slots, Serve(t, s)
      PROVE  TabsFit'
    BY <1>3, ServesFit, TwoFactorFits, CompleteFits DEF Serve
<1>4. ASSUME NEW s \in Slots, Fail(t, s) \/ Arrive(t, s)
      PROVE  TabsFit'
    BY <1>4, FailFits, ArriveFits
<1> QED
    BY <1>1, <1>2, <1>3, <1>4 DEF Network

LEMMA NextFits == IInv /\ ShownInv /\ [Next]_vars => TabsFit'
<1> SUFFICES ASSUME IInv, NoSessions, TabsFit, [Next]_vars PROVE TabsFit'
    BY DEF ShownInv
<1>1. ASSUME NEW t \in Tabs, User(t) \/ Navigate(t)
      PROVE  TabsFit'
    BY <1>1, UserFits
<1>2. ASSUME NEW t \in Tabs, Network(t)
      PROVE  TabsFit'
    BY <1>2, NetworkFits
<1>3. ASSUME NEW n \in 1..MaxSessions, Expire(n)
      PROVE  TabsFit'
    BY <1>3, ElsewhereFits DEF Expire
<1>4. CASE UNCHANGED vars
    BY <1>4, ElsewhereFits DEF vars
<1> QED
    BY <1>1, <1>2, <1>3, <1>4 DEF Next

LEMMA InitShown == Init => ShownInv
<1> SUFFICES ASSUME Init PROVE NoSessions /\ TabsFit
    BY DEF ShownInv
<1>1. server.by = NoTab /\ server.required = (cookie = 0) /\ cookie \in {0, 1}
    BY DEF Init
<1>2. NoSessions
  <2>1. \A n \in 1..MaxSessions : n # cookie => session[n] = NoSession
      BY DEF Init
  <2>2. NoSession.at = "none"
      BY DEF NoSession
  <2>3. server.required => cookie = 0
      BY <1>1, Zenon DEF Init
  <2> QED
      BY <2>1, <2>2, <2>3, ClientAssumption DEF NoSessions
<1>3. ASSUME NEW t \in Tabs PROVE Closed(tab[t], call[t]) /\ Fits(t, server, tab[t], call[t])
  <2>1. \A s \in Slots : call[t][s] = NoCall
      BY DEF Init
  <2>2. NoCall.do = "none" /\ NoCall.at = "none" /\ ~Ok(NoCall)
      BY DEF NoCall, Ok
  <2>3. \A s \in Slots : call[t][s].do = "none" /\ call[t][s].at = "none" /\ ~Ok(call[t][s])
      BY <2>1, <2>2
  <2>4. tab[t] = IF cookie = 0 THEN NewTab
                 ELSE [NewTab EXCEPT !.at = "app", !.me = "off", !.required = "no"]
      BY DEF Init
  <2>5. (cookie = 0 => tab[t].me = "none") /\ tab[t].step = "token" /\ ~tab[t].cleared
      BY <2>4 DEF NewTab
  <2>6. "me" \in Slots /\ "setup" \in Slots /\ "act" \in Slots
      BY DEF Slots
  <2>7. Unset(server, tab[t], call[t])
      BY <1>1, <2>3, <2>5, <2>6 DEF Unset
  <2>8. SlotsFit(tab[t], call[t])
    <3>1. \A s \in Slots : call[t][s].do \in Kinds(s)
        BY <2>3 DEF Kinds, Slots
    <3> QED
        BY <2>3, <2>5, <2>6, <3>1 DEF SlotsFit, InWizard
  <2>9. Completes(server, tab[t], call[t])
      BY <2>3 DEF Completes, Completed
  <2>10. Agrees(t, server, tab[t], call[t])
      BY <1>1, ClientAssumption DEF Agrees
  <2> QED
      BY <2>3, <2>5, <2>7, <2>8, <2>9, <2>10 DEF Fits, Closed
<1> QED
    BY <1>2, <1>3 DEF TabsFit

\* The tab that has changed 2FA, and whose requests have ended, shows it as it is,
\* whatever was being fetched, polled, refreshed or lost meanwhile: an answer from
\* before the change is disowned when the card invalidates the query of the account
\* (Settings.tsx: TwoFactorCard).
THEOREM TwoFactorHolds == Spec => []TwoFactorShown
<1>1. Init => IInv /\ ShownInv
    BY InitInv, InitShown
<1>2. IInv /\ ShownInv /\ [Next]_vars => (IInv /\ ShownInv)'
    BY NextInv, NextNoSessions, NextFits DEF ShownInv
<1>3. IInv /\ ShownInv => TwoFactorShown
    BY ShownEnough
<1> QED
    BY <1>1, <1>2, <1>3, PTL DEF Spec
=============================================================================
