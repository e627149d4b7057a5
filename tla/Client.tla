-------------------------------- MODULE Client --------------------------------
(***************************************************************************)
(* The browser's side of signing in: tabs that share their cookies, each   *)
(* with the fetch wrapper of web/src/lib/api.ts, the queries and mutations *)
(* of lib/auth.ts and lib/settings.ts, and the gates and forms of          *)
(* routes/Gates.tsx, Login.tsx, Setup.tsx and Settings.tsx.                *)
(*                                                                         *)
(* Abstractions: the server answers each request in one step (Sessions and *)
(* FirstRun have the steps in between).  The access, refresh and CSRF      *)
(* cookies are set and cleared together: cookie is the session they are    *)
(* of.  What the user types is right or wrong.                             *)
(***************************************************************************)
EXTENDS Naturals

CONSTANTS
    Tabs, NoTab,
    MaxSessions,   \* bound: sessions the server creates
    MaxUser,       \* bound: what users and polls do, and statuses that grow old
    MaxFaults      \* bound: requests that fail

ASSUME ClientAssumption ==
    NoTab \notin Tabs /\ MaxSessions \in Nat \ {0} /\ MaxUser \in Nat /\ MaxFaults \in Nat

VARIABLES
    server,    \* the account, and whose change of 2FA was the last (history)
    session,   \* the table of sessions
    cookie,
    tab,       \* the route of each tab, the state of its components and its cache
    call,      \* its requests
    refresh,   \* refreshInFlight
    burnt,     \* a family was revoked because of a replayed token; why that may be
    count      \* of what is bounded

vars == <<server, session, cookie, tab, call, refresh, burnt, count>>

-----------------------------------------------------------------------------
Sessions0 == 0..MaxSessions

\* expired: the access token is; the refresh token lasts.
Session == [at: {"none", "live", "revoked"}, family: Sessions0, parent: Sessions0,
            expired: BOOLEAN]
NoSession == [at |-> "none", family |-> 0, parent |-> 0, expired |-> FALSE]

\* The query of the account, that of the setup status, the mutation of a form or
\* button, and any other query.
Slots == {"me", "setup", "act", "query"}

Submits == {"login", "logout", "password", "verify", "disable", "verifyToken", "complete"}

\* sets: the session of the cookies in the answer.  good: what was typed is right.
Call == [do: Submits \cup {"none", "me", "setup", "query"},
         at: {"none", "sent", "answered", "waiting"},
         cookie: Sessions0, good: BOOLEAN, again: BOOLEAN,
         result: {"ok", "unauthorized", "error"}, sets: Sessions0, value: BOOLEAN]
NoCall == [do |-> "none", at |-> "none", cookie |-> 0, good |-> FALSE, again |-> FALSE,
           result |-> "error", sets |-> 0, value |-> FALSE]

Refresh == [at: {"none", "sent", "answered"}, cookie: Sessions0,
            result: {"ok", "unauthorized", "error"}, sets: Sessions0]
NoRefresh == [at |-> "none", cookie |-> 0, result |-> "error", sets |-> 0]

\* me, required: data of the two queries (me is on if the account has 2FA); failed:
\* the last request of the first did.  step: of the wizard.
\* cleared: the cache was emptied, but the components shown still have what they had.
Tab == [at: {"none", "app", "login", "setup"},
        me: {"none", "off", "on"}, failed: BOOLEAN,
        required: {"none", "yes", "no"}, cleared: BOOLEAN,
        step: {"token", "account", "totp", "done"}]
NewTab == [at |-> "none", me |-> "none", failed |-> FALSE, required |-> "none",
           cleared |-> FALSE, step |-> "token"]

TypeOK ==
    /\ server \in [required: BOOLEAN, totp: BOOLEAN, by: Tabs \cup {NoTab}]
    /\ session \in [1..MaxSessions -> Session]
    /\ cookie \in Sessions0
    /\ tab \in [Tabs -> Tab]
    /\ call \in [Tabs -> [Slots -> Call]]
    /\ refresh \in [Tabs -> Refresh]
    /\ burnt \in [done: BOOLEAN, excused: BOOLEAN]
    /\ count \in [user: 0..MaxUser, faults: 0..MaxFaults]

\* Before the first account, or some time after somebody has signed in here.
Init ==
    /\ server \in [required: BOOLEAN, totp: {FALSE}, by: {NoTab}]
    /\ cookie \in {0, 1} /\ server.required = (cookie = 0)
    /\ session = [n \in 1..MaxSessions |->
          IF n = cookie THEN [NoSession EXCEPT !.at = "live", !.family = n] ELSE NoSession]
    /\ tab = [t \in Tabs |-> IF cookie = 0 THEN NewTab ELSE
          [NewTab EXCEPT !.at = "app", !.me = "off", !.required = "no"]]
    /\ call = [t \in Tabs |-> [s \in Slots |-> NoCall]]
    /\ refresh = [t \in Tabs |-> NoRefresh]
    /\ burnt = [done |-> FALSE, excused |-> FALSE]
    /\ count = [user |-> 0, faults |-> 0]

-----------------------------------------------------------------------------
\* Requests.

Busy(t, s) == call[t][s].at # "none"

\* fetch: the browser adds the cookies it has.
Asked(do, good, jar) == [NoCall EXCEPT !.do = do, !.at = "sent", !.cookie = jar, !.good = good]

\* A query of the account that is replaced goes on, and its answer comes to nothing.
Disowned(c) ==
    IF c["me"].at = "none" THEN c
    ELSE [c EXCEPT !["query"] = [c["me"] EXCEPT !.do = "query"], !["me"] = NoCall]

\* The queries that have been removed from the cache.
Forgotten(c) == [Disowned(c) EXCEPT !["setup"] = NoCall]

-----------------------------------------------------------------------------
\* Gates.tsx.

\* Mutant: what could not be fetched is not asked for again.
MustFetchMissing(p) ==
    {s \in {"me", "setup"} : IF s = "me" THEN p.me = "none" ELSE p.required = "none"}

\* What a component that is mounted asks for: what is not in the cache, and what could
\* not be fetched; and what is older than its staleTime of 30 s (Mount: stale).
MustFetch(p) ==
    {s \in {"me", "setup"} :
        IF s = "me" THEN p.me = "none" \/ p.failed ELSE p.required = "none"}

\* Tab t goes to place, with cache p, requests c and the cookies of session jar.  An
\* error is forgotten when a query without data is sent again.  A status that has grown
\* old is counted with the n moves of the user.
Mount(t, p, c, place, jar, n) ==
    LET idle == {s \in {"me", "setup"} :
                    c[s].at = "none" /\ (s = "me" => place # "setup")}
    IN \E stale \in SUBSET {"me", "setup"} :
          LET f == (MustFetch(p) \cup stale) \cap idle
              m == IF "setup" \in f \ MustFetch(p) THEN n + 1 ELSE n
          IN /\ call' = [call EXCEPT ![t] =
                   [s \in Slots |-> IF s \in f THEN Asked(s, FALSE, jar) ELSE c[s]]]
             /\ tab' = [tab EXCEPT ![t] = [p EXCEPT
                   !.at = place, !.failed = @ /\ ~("me" \in f /\ p.me = "none"),
                   !.step = IF place = p.at THEN @ ELSE "token"]]
             /\ count.user + m <= MaxUser /\ count' = [count EXCEPT !.user = @ + m]

\* The same, unless the cache was emptied before.
MountAgain(t, c, place, n) ==
    IF tab[t].cleared THEN Mount(t, NewTab, Forgotten(c), place, cookie, n)
    ELSE Mount(t, tab[t], c, place, cookie, n)

SetupLoading(t) == tab[t].required = "none" /\ Busy(t, "setup")
MeLoading(t) == tab[t].me = "none" /\ ~tab[t].failed /\ Busy(t, "me")

\* What a gate renders: its page, a splash or a redirect.
AuthGate(t) ==
    IF SetupLoading(t) THEN "splash"
    ELSE IF tab[t].required = "yes" THEN "to setup"
    ELSE IF MeLoading(t) THEN "splash"
    ELSE IF tab[t].failed THEN "to login" ELSE "app"

SetupGate(t) ==
    IF SetupLoading(t) THEN "splash"
    ELSE IF tab[t].required # "yes" THEN "to app" ELSE "setup"

LoginGate(t) ==
    IF SetupLoading(t) THEN "splash"
    ELSE IF tab[t].required = "yes" THEN "to setup"
    ELSE IF MeLoading(t) THEN "splash"
    ELSE IF tab[t].me # "none" THEN "to app" ELSE "login"

Shown(t) ==
    CASE tab[t].at = "none" -> "nothing"
      [] tab[t].at = "app" -> AuthGate(t)
      [] tab[t].at = "setup" -> SetupGate(t)
      [] tab[t].at = "login" -> LoginGate(t)

Navigate(t) ==
    /\ \/ Shown(t) = "to app" /\ MountAgain(t, call[t], "app", 0)
       \/ Shown(t) = "to setup" /\ MountAgain(t, call[t], "setup", 0)
       \/ Shown(t) = "to login" /\ MountAgain(t, call[t], "login", 0)
    /\ UNCHANGED <<server, session, cookie, refresh, burnt>>

-----------------------------------------------------------------------------
\* The user.

Counted ==
    /\ count.user < MaxUser
    /\ count' = [count EXCEPT !.user = @ + 1]

OpenTab(t) ==
    /\ tab[t].at = "none"
    /\ \E place \in {"app", "login"} : Mount(t, NewTab, call[t], place, cookie, 1)
    /\ UNCHANGED <<server, session, cookie, refresh, burnt>>

\* Its requests are given up, whether the server has acted on them or not.
CloseTab(t) ==
    /\ tab[t].at # "none" /\ Counted
    /\ tab' = [tab EXCEPT ![t] = NewTab]
    /\ call' = [call EXCEPT ![t] = [s \in Slots |-> NoCall]]
    /\ refresh' = [refresh EXCEPT ![t] = NoRefresh]
    /\ burnt' = [burnt EXCEPT !.excused = @ \/ refresh[t].sets # 0]
    /\ server' = [server EXCEPT !.by = IF @ = t /\ call[t]["act"].at # "none" THEN NoTab ELSE @]
    /\ UNCHANGED <<session, cookie>>

\* Another page of the app, whose components use the query of the account, too; or the
\* network comes back.
Browse(t) ==
    /\ Shown(t) = "app"
    /\ MountAgain(t, call[t], "app", 1)
    /\ UNCHANGED <<server, session, cookie, refresh, burnt>>

Sends(t, s, do, good) ==
    /\ ~Busy(t, s)
    /\ call' = [call EXCEPT ![t][s] = Asked(do, good, cookie)]
    /\ UNCHANGED <<server, session, cookie, tab, refresh, burnt>>

Submit(t, s, do, good) == Counted /\ Sends(t, s, do, good)

\* The pages poll.
Poll(t) == Shown(t) = "app" /\ Submit(t, "query", "query", TRUE)

\* Wrong credentials, codes and tokens come back as an error: Fail.
Login(t) == Shown(t) = "login" /\ Submit(t, "act", "login", TRUE)

Logout(t) == Shown(t) = "app" /\ Submit(t, "act", "logout", TRUE)

ChangePassword(t, good) == Shown(t) = "app" /\ Submit(t, "act", "password", good)

\* TwoFactorCard.  The panel of an enrolment that was begun before stays open.
Verify(t) == Shown(t) = "app" /\ Submit(t, "act", "verify", TRUE)

Disable(t, good) ==
    Shown(t) = "app" /\ tab[t].me = "on" /\ Submit(t, "act", "disable", good)

TokenStep(t) ==
    /\ Shown(t) = "setup" /\ tab[t].step = "token"
    /\ Sends(t, "act", "verifyToken", TRUE)
    /\ UNCHANGED count

AccountStep(t) ==
    /\ Shown(t) = "setup" /\ tab[t].step = "account"
    /\ tab' = [tab EXCEPT ![t].step = "totp"]
    /\ UNCHANGED <<server, session, cookie, call, refresh, burnt, count>>

\* The buttons are not disabled while an answer is waited for.
TotpStep(t) ==
    /\ Shown(t) = "setup" /\ tab[t].step = "totp"
    /\ \E s \in {"act", "query"} : Submit(t, s, "complete", TRUE)

-----------------------------------------------------------------------------
\* The server.

Unused == {n \in 1..MaxSessions : session[n].at = "none"}

Authorized(c) ==
    c.cookie # 0 /\ session[c.cookie].at = "live" /\ ~session[c.cookie].expired

Answers(t, s, result, n, value) ==
    call' = [call EXCEPT ![t][s] = [@ EXCEPT !.at = "answered", !.cookie = 0,
                                             !.result = result, !.sets = n, !.value = value]]

Asks(t, s, kinds) == call[t][s].at = "sent" /\ call[t][s].do \in kinds

Revoked(x) == [x EXCEPT !.at = "revoked", !.expired = FALSE]

\* Issue, the ids in ascending order.
Issue(n) ==
    /\ n \in Unused /\ \A m \in Unused : n <= m
    /\ session' = [session EXCEPT ![n] =
          [at |-> "live", family |-> n, parent |-> 0, expired |-> FALSE]]

ServeStatus(t, s) ==
    /\ Asks(t, s, {"setup"})
    /\ Answers(t, s, "ok", 0, server.required)
    /\ UNCHANGED <<server, session, cookie, tab, refresh, burnt, count>>

ServeMe(t, s) ==
    /\ Asks(t, s, {"me", "query"})
    /\ Answers(t, s, IF Authorized(call[t][s]) THEN "ok" ELSE "unauthorized",
               0, server.totp /\ call[t][s].do = "me")
    /\ UNCHANGED <<server, session, cookie, tab, refresh, burnt, count>>

ServeLogin(t, s) ==
    /\ Asks(t, s, {"login"})
    /\ IF ~server.required
       THEN \E n \in 1..MaxSessions : Issue(n) /\ Answers(t, s, "ok", n, server.totp)
       ELSE Answers(t, s, "unauthorized", 0, FALSE) /\ UNCHANGED session
    /\ UNCHANGED <<server, cookie, tab, refresh, burnt, count>>

ServeLogout(t, s) ==
    /\ Asks(t, s, {"logout"})
    /\ IF Authorized(call[t][s])
       THEN /\ session' = [session EXCEPT ![call[t][s].cookie] = Revoked(@)]
            /\ Answers(t, s, "ok", 0, FALSE)
       ELSE Answers(t, s, "unauthorized", 0, FALSE) /\ UNCHANGED session
    /\ UNCHANGED <<server, cookie, tab, refresh, burnt, count>>

\* A wrong current password is a 401, too.
ServePassword(t, s) ==
    /\ Asks(t, s, {"password"})
    /\ IF Authorized(call[t][s]) /\ call[t][s].good
       THEN /\ session' = [n \in 1..MaxSessions |->
                  IF session[n].at = "live" THEN Revoked(session[n]) ELSE session[n]]
            /\ Answers(t, s, "ok", 0, FALSE)
       ELSE Answers(t, s, "unauthorized", 0, FALSE) /\ UNCHANGED session
    /\ UNCHANGED <<server, cookie, tab, refresh, burnt, count>>

ServeTwoFactor(t, s) ==
    /\ Asks(t, s, {"verify", "disable"})
    /\ LET c == call[t][s]
           on == c.do = "verify"
       IN IF Authorized(c) /\ server.totp # on /\ c.good
          THEN /\ server' = [server EXCEPT !.totp = on, !.by = t]
               /\ Answers(t, s, "ok", 0, FALSE)
          ELSE /\ Answers(t, s, IF ~Authorized(c) \/ (~on /\ server.totp) THEN "unauthorized"
                                ELSE "error", 0, FALSE)
               /\ UNCHANGED server
    /\ UNCHANGED <<session, cookie, tab, refresh, burnt, count>>

ServeVerifyToken(t, s) ==
    /\ Asks(t, s, {"verifyToken"})
    /\ Answers(t, s, IF server.required THEN "ok" ELSE "unauthorized",
               0, FALSE)
    /\ UNCHANGED <<server, session, cookie, tab, refresh, burnt, count>>

\* With 2FA or without.
ServeComplete(t, s) ==
    /\ Asks(t, s, {"complete"})
    /\ IF server.required
       THEN \E n \in 1..MaxSessions, totp \in BOOLEAN :
               /\ Issue(n) /\ Answers(t, s, "ok", n, totp)
               /\ server' = [required |-> FALSE, totp |-> totp, by |-> t]
       ELSE Answers(t, s, "error", 0, FALSE) /\ UNCHANGED <<server, session>>
    /\ UNCHANGED <<cookie, tab, refresh, burnt, count>>

\* refreshHandler and Rotate; a session that cannot be stored is an error.
ServeRefresh(t) ==
    LET c == refresh[t].cookie
        Refuses == refresh' = [refresh EXCEPT ![t].at = "answered", ![t].result = "unauthorized"]
        Breaks  == refresh' = [refresh EXCEPT ![t].at = "answered", ![t].result = "error"]
    IN
    /\ refresh[t].at = "sent"
    /\ IF c = 0 THEN Refuses /\ UNCHANGED <<session, burnt>>
       ELSE IF session[c].at = "revoked"
       THEN /\ Refuses
            /\ IF \E n \in 1..MaxSessions : session[n].parent = c
               THEN /\ session' = [n \in 1..MaxSessions |->
                          IF session[n].family = session[c].family
                          THEN Revoked(session[n]) ELSE session[n]]
                    /\ burnt' = [burnt EXCEPT !.done = TRUE]
               ELSE UNCHANGED <<session, burnt>>
       ELSE IF Unused = {} THEN Breaks /\ UNCHANGED <<session, burnt>>
       ELSE /\ \E n \in Unused :
                  /\ \A m \in Unused : n <= m
                  /\ session' = [session EXCEPT ![c] = Revoked(@), ![n] =
                        [at |-> "live", family |-> session[c].family, parent |-> c,
                         expired |-> FALSE]]
                  /\ refresh' = [refresh EXCEPT ![t].at = "answered", ![t].result = "ok",
                                                ![t].sets = n]
            /\ UNCHANGED burnt
    /\ UNCHANGED <<server, cookie, tab, call, count>>

\* After 15 minutes.
Expire(n) ==
    /\ session[n].at = "live" /\ ~session[n].expired
    /\ session' = [session EXCEPT ![n].expired = TRUE]
    /\ UNCHANGED <<server, cookie, tab, call, refresh, burnt, count>>

-----------------------------------------------------------------------------
\* Anything fails: before the server acts, or the answer is lost.

Faulty ==
    /\ count.faults < MaxFaults
    /\ count' = [count EXCEPT !.faults = @ + 1]

Fail(t, s) ==
    /\ call[t][s].at = "sent" \/ (call[t][s].at = "answered" /\ call[t][s].result = "ok")
    /\ Faulty
    /\ Answers(t, s, "error", 0, FALSE)
    /\ server' = [server EXCEPT !.by = IF @ = t /\ s = "act" THEN NoTab ELSE @]
    /\ UNCHANGED <<session, cookie, tab, refresh, burnt>>

FailRefresh(t) ==
    /\ refresh[t].at = "sent" \/ (refresh[t].at = "answered" /\ refresh[t].result = "ok")
    /\ Faulty
    /\ refresh' = [refresh EXCEPT ![t].at = "answered", ![t].result = "error", ![t].sets = 0]
    /\ burnt' = [burnt EXCEPT !.excused = @ \/ refresh[t].sets # 0]
    /\ UNCHANGED <<server, session, cookie, tab, call>>

-----------------------------------------------------------------------------
\* apiFetch.

\* Mutant: each 401 refreshes on its own account.
RefreshUnshared(t) ==
    /\ refresh' = [refresh EXCEPT ![t] = [NoRefresh EXCEPT !.at = "sent", !.cookie = cookie]]
    /\ burnt' = [burnt EXCEPT !.excused = @ \/ \E u \in Tabs \ {t} : refresh[u].at # "none"]

\* tryRefresh.
TryRefresh(t) ==
    IF refresh[t].at # "none" THEN UNCHANGED <<refresh, burnt>>
    ELSE /\ refresh' = [refresh EXCEPT ![t] = [NoRefresh EXCEPT !.at = "sent", !.cookie = cookie]]
         /\ burnt' = [burnt EXCEPT !.excused = @ \/ \E u \in Tabs \ {t} : refresh[u].at # "none"]

Retries(c) ==
    /\ c.result = "unauthorized" /\ ~c.again
    /\ c.do \notin {"login", "setup", "verifyToken", "complete"}

Unauthorized(t, s) ==
    /\ call[t][s].at = "answered" /\ Retries(call[t][s])
    /\ call' = [call EXCEPT ![t][s].at = "waiting"]
    /\ TryRefresh(t)
    /\ UNCHANGED <<server, session, cookie, tab, count>>

\* Mutant: a refresh that fails wakes nobody.
ResumedOnSuccess(c, ok, new) ==
    IF c.at = "waiting" /\ ok THEN [c EXCEPT !.at = "sent", !.again = TRUE, !.cookie = new]
    ELSE c

\* The request that waited is sent again, once, or its 401 is what the caller gets.
Resumed(c, ok, new) ==
    IF c.at # "waiting" THEN c
    ELSE IF ok THEN [c EXCEPT !.at = "sent", !.again = TRUE, !.cookie = new]
    ELSE [c EXCEPT !.at = "answered", !.again = TRUE]

\* A refused token is cleared, a missing one is not.
RefreshArrives(t) ==
    LET r == refresh[t] IN
    /\ r.at = "answered"
    /\ cookie' = IF r.result = "ok" THEN r.sets
                 ELSE IF r.result = "unauthorized" /\ r.cookie # 0 THEN 0 ELSE cookie
    /\ call' = [call EXCEPT ![t] = [s \in Slots |-> Resumed(@[s], r.result = "ok", cookie')]]
    /\ refresh' = [refresh EXCEPT ![t] = NoRefresh]
    /\ UNCHANGED <<server, session, tab, burnt, count>>

-----------------------------------------------------------------------------
\* The answer reaches the code that asked: auth.ts, settings.ts and the forms.

Flag(value) == IF value THEN "on" ELSE "off"

Settled(t, s) == call[t][s].at = "answered" /\ ~Retries(call[t][s])
Done(t, s) == [call[t] EXCEPT ![s] = NoCall]
Known(t, value) == [tab[t] EXCEPT !.me = Flag(value), !.failed = FALSE]

MeArrives(t) ==
    /\ Settled(t, "me")
    /\ call' = [call EXCEPT ![t] = Done(t, "me")]
    /\ tab' = [tab EXCEPT ![t] = IF call[t]["me"].result = "ok" THEN Known(t, call[t]["me"].value)
                                 ELSE [@ EXCEPT !.failed = TRUE]]
    /\ UNCHANGED <<server, session, cookie, refresh, burnt, count>>

StatusArrives(t) ==
    /\ Settled(t, "setup")
    /\ call' = [call EXCEPT ![t] = Done(t, "setup")]
    /\ tab' = [tab EXCEPT ![t].required =
          IF call[t]["setup"].result # "ok" THEN @
          ELSE IF call[t]["setup"].value THEN "yes" ELSE "no"]
    /\ UNCHANGED <<server, session, cookie, refresh, burnt, count>>

\* Polls, and what has failed: a message at most.
Shrug(t, s) ==
    LET c == call[t][s] IN
    /\ Settled(t, s)
    /\ c.do = "query" \/ (c.do \in Submits \ {"logout"} /\ c.result # "ok")
    /\ call' = [call EXCEPT ![t] = Done(t, s)]
    /\ UNCHANGED <<server, session, cookie, tab, refresh, burnt, count>>

LoginArrives(t) ==
    /\ Settled(t, "act") /\ call[t]["act"].do = "login" /\ call[t]["act"].result = "ok"
    /\ cookie' = call[t]["act"].sets
    /\ Mount(t, Known(t, call[t]["act"].value), Done(t, "act"), "app", cookie', 0)
    /\ UNCHANGED <<server, session, refresh, burnt>>

\* onSettled empties the cache; only without an error the page is left.
LogoutArrives(t) ==
    /\ Settled(t, "act") /\ call[t]["act"].do = "logout"
    /\ IF call[t]["act"].result = "ok"
       THEN cookie' = 0 /\ Mount(t, NewTab, Forgotten(Done(t, "act")), "login", cookie', 0)
       ELSE /\ call' = [call EXCEPT ![t] = Done(t, "act")]
            /\ tab' = [tab EXCEPT ![t].cleared = TRUE]
            /\ UNCHANGED <<cookie, count>>
    /\ UNCHANGED <<server, session, refresh, burnt>>

\* Mutant: a request that is under way will do.
InvalidatedJoins(p, c) ==
    IF p.cleared \/ c["me"].at # "none" THEN c
    ELSE [c EXCEPT !["me"] = Asked("me", FALSE, cookie)]

\* After a logout that failed the first answer may be waited for once more.
FirstAwaited(p, c) == p.me = "none" /\ c["me"].at # "none"

\* invalidateQueries asks anew, but goes on waiting for the first answer.
Invalidated(p, c) ==
    IF p.cleared \/ FirstAwaited(p, c) THEN c
    ELSE [Disowned(c) EXCEPT !["me"] = Asked("me", FALSE, cookie)]

ChangeArrives(t) ==
    /\ Settled(t, "act") /\ call[t]["act"].result = "ok"
    /\ call[t]["act"].do \in {"password", "verify", "disable"}
    /\ call' = [call EXCEPT ![t] = Invalidated(tab[t], Done(t, "act"))]
    /\ server' = [server EXCEPT !.by = IF FirstAwaited(tab[t], call[t]) THEN NoTab ELSE @]
    /\ UNCHANGED <<session, cookie, tab, refresh, burnt, count>>

VerifyTokenArrives(t) ==
    /\ Settled(t, "act") /\ call[t]["act"].result = "ok" /\ call[t]["act"].do = "verifyToken"
    /\ call' = [call EXCEPT ![t] = Done(t, "act")]
    /\ tab' = [tab EXCEPT ![t].step = IF tab[t].at = "setup" THEN "account" ELSE @]
    /\ UNCHANGED <<server, session, cookie, refresh, burnt, count>>

\* The wizard may have been left before: a status that was asked for again has said
\* that it is no longer required.
CompleteArrives(t, s) ==
    /\ Settled(t, s) /\ call[t][s].result = "ok" /\ call[t][s].do = "complete"
    /\ cookie' = call[t][s].sets
    /\ call' = [call EXCEPT ![t] = Done(t, s)]
    /\ tab' = [tab EXCEPT ![t] = [Known(t, call[t][s].value) EXCEPT
                                    !.required = "no", !.step = "done"]]
    /\ server' = [server EXCEPT !.by = IF @ = t /\ tab[t].at # "setup" THEN NoTab ELSE @]
    /\ UNCHANGED <<session, refresh, burnt, count>>

-----------------------------------------------------------------------------
User(t) ==
    \/ OpenTab(t) \/ CloseTab(t) \/ Browse(t) \/ Poll(t) \/ Logout(t) \/ AccountStep(t)
    \/ Login(t) \/ Verify(t) \/ TokenStep(t) \/ TotpStep(t)
    \/ \E good \in BOOLEAN : ChangePassword(t, good) \/ Disable(t, good)

Serve(t, s) ==
    \/ ServeStatus(t, s) \/ ServeMe(t, s) \/ ServeLogin(t, s) \/ ServeLogout(t, s)
    \/ ServePassword(t, s) \/ ServeTwoFactor(t, s) \/ ServeVerifyToken(t, s)
    \/ ServeComplete(t, s)

Arrive(t, s) ==
    \/ s = "me" /\ MeArrives(t)
    \/ s = "setup" /\ StatusArrives(t)
    \/ s = "act" /\ (\/ LoginArrives(t) \/ LogoutArrives(t) \/ ChangeArrives(t)
                     \/ VerifyTokenArrives(t))
    \/ CompleteArrives(t, s) \/ Shrug(t, s) \/ Unauthorized(t, s)

Network(t) ==
    \/ ServeRefresh(t) \/ FailRefresh(t) \/ RefreshArrives(t)
    \/ \E s \in Slots : Serve(t, s) \/ Fail(t, s) \/ Arrive(t, s)

Next ==
    \/ \E t \in Tabs : User(t) \/ Navigate(t) \/ Network(t)
    \/ \E n \in 1..MaxSessions : Expire(n)

\* Redirects are followed, and some request of a tab that has any is answered or fails.
Spec ==
    /\ Init /\ [][Next]_vars
    /\ \A t \in Tabs : WF_vars(Navigate(t)) /\ WF_vars(Network(t))

-----------------------------------------------------------------------------
\* A family of sessions is revoked for a replayed token only if the answer to a refresh
\* was lost, or two tabs have refreshed at the same time: "Concurrent 401s share the
\* same in-flight refresh promise" (api.ts:9), whatever is polled and clicked.
PunishedWithCause == burnt.done => burnt.excused

\* The tab that has changed 2FA shows it as it is, whatever was being fetched meanwhile;
\* but not if that was the first answer, nor if the answer to the wizard's last request
\* has come after the wizard was left (auth.ts:50, for whom that answer is always news).
TwoFactorShown ==
    \A t \in Tabs :
        /\ server.by = t /\ tab[t].me # "none" /\ ~tab[t].failed /\ ~tab[t].cleared
        /\ ~Busy(t, "me") /\ ~Busy(t, "act") /\ ~Busy(t, "query")
        => tab[t].me = Flag(server.totp)

\* No splash lasts for ever.
SplashEnds == \A t \in Tabs : Shown(t) = "splash" ~> Shown(t) # "splash"

Usable == cookie # 0 /\ session[cookie].at = "live" /\ ~session[cookie].expired

\* Nobody who stays signed in is kept from the page they were on, by an answer that was
\* lost or a retry that came too late: the way to the login page leads back.
SignedInComesBack ==
    \A t \in Tabs :
        <>[]Usable => []<>(Shown(t) = "app" \/ tab[t].me = "none" \/ tab[t].required = "yes")

\* "else /login if no session" (Gates.tsx:7).
SignedOutComesToLogin ==
    \A t \in Tabs :
        Shown(t) = "to login" ~> Shown(t) \in {"login", "nothing"} \/ cookie # 0 \/ tab[t].required = "yes"
=============================================================================
