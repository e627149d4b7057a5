------------------------------ MODULE RateLimit ------------------------------
(***************************************************************************)
(* The brakes on POST /api/auth/login: the token bucket per address and    *)
(* the backoff per username of internal/auth/ratelimit.go, in the order in *)
(* which the login handler asks them.                                      *)
(*                                                                         *)
(* Each limiter reads the clock before it takes its mutex, so requests     *)
(* reach the state in another order than they read the time in: `now' is   *)
(* the reading a request waits with.  A password check takes any time.     *)
(*                                                                         *)
(* Abstractions: time is a number of ticks.  Tokens are counted in ticks   *)
(* as well, the time it takes to refill them, so that one tick refills     *)
(* one; a request costs Cost of them (12 s at 5 per minute) and a full     *)
(* bucket holds Capacity (60 s).  lastFill and touched are always assigned *)
(* together and are one field.  What happens to the session is in          *)
(* Sessions.                                                               *)
(***************************************************************************)
EXTENDS Integers, FiniteSets

CONSTANTS
    IPs,          \* addresses
    Users,        \* usernames, known or not
    Workers,      \* requests the server handles at the same time
    None,         \* no address, no username
    Cost,         \* one token
    Capacity,     \* a full bucket
    MaxBuckets,   \* buckets from which on idle ones are deleted (1024)
    ExpireDur,    \* how long a bucket must be idle for that
    BackoffBase, BackoffMax,
    MaxStall,     \* longest wait for a mutex
    MaxTime       \* bound: the clock stops there

ASSUME RateLimitAssumption ==
    /\ None \notin IPs /\ None \notin Users
    /\ Cost \in Nat \ {0}
    /\ Capacity \in Nat /\ Capacity >= Cost
    /\ MaxStall \in Nat
    /\ ExpireDur \in Nat /\ ExpireDur >= Capacity + 2 * MaxStall
    /\ BackoffBase \in Nat /\ BackoffMax \in Nat
    /\ MaxTime \in Nat

VARIABLES
    clock,
    bucket,   \* IPLimiter.buckets
    backoff,  \* UserBackoff.state
    req,      \* the login requests
    watch,    \* history: what one address was granted since one moment
    guesses   \* history: failures recorded in the current lockout, by username

vars == <<clock, bucket, backoff, req, watch, guesses>>

-----------------------------------------------------------------------------
Bucket == [present : BOOLEAN, tokens : Int, last : Nat]

NoBucket == [present |-> FALSE, tokens |-> 0, last |-> 0]

Backoff == [failures : Nat, nextAllow : Nat]   \* no failures: no entry

NoBackoff == [failures |-> 0, nextAllow |-> 0]

\* "allow", "can" and "fail" wait for a mutex with a reading of the clock;
\* "verify" looks the user up and hashes.
Request == [at : {"idle", "allow", "can", "verify", "fail"},
            ip : IPs \cup {None}, user : Users \cup {None}, now : Nat]

IdleRequest == [at |-> "idle", ip |-> None, user |-> None, now |-> 0]

TypeOK ==
    /\ clock \in Nat
    /\ bucket \in [IPs -> Bucket]
    /\ \A k \in IPs : bucket[k].tokens <= Capacity /\ bucket[k].last <= clock
    /\ backoff \in [Users -> Backoff]
    /\ req \in [Workers -> Request]
    /\ watch \in [ip : IPs, from : Nat, used : Nat]
    /\ guesses \in [Users -> Nat]

Init ==
    /\ clock = 0
    /\ bucket = [k \in IPs |-> NoBucket]
    /\ backoff = [u \in Users |-> NoBackoff]
    /\ req = [w \in Workers |-> IdleRequest]
    /\ \E k \in IPs : watch = [ip |-> k, from |-> 0, used |-> 0]
    /\ guesses = [u \in Users |-> 0]

-----------------------------------------------------------------------------
Lesser(a, b) == IF a <= b THEN a ELSE b

\* Mutant: lastFill is left at its first value.
RefilledTwice(b, now) == [b EXCEPT !.tokens = Lesser(Capacity, @ + (now - b.last))]

\* The time may have been read before that of the last refill: then tokens are
\* taken back, and may fall below 0.
Refilled(b, now) ==
    [b EXCEPT !.tokens = Lesser(Capacity, @ + (now - b.last)), !.last = now]

\* expireLocked
Expired(now) ==
    IF Cardinality({k \in IPs : bucket[k].present}) < MaxBuckets
    THEN bucket
    ELSE [k \in IPs |-> IF bucket[k].present /\ now - bucket[k].last > ExpireDur
                        THEN NoBucket ELSE bucket[k]]

\* The bucket of k after the refill that Allow begins with.
Filled(k, now) ==
    IF Expired(now)[k].present
    THEN Refilled(Expired(now)[k], now)
    ELSE [present |-> TRUE, tokens |-> Capacity, last |-> now]

Grants(k, now) == Filled(k, now).tokens >= Cost

Spent(k, now) ==
    IF Grants(k, now) THEN [Filled(k, now) EXCEPT !.tokens = @ - Cost] ELSE Filled(k, now)

\* backoffBase << minInt(failures-1, 8), at most backoffMax
Shifted == <<1, 2, 4, 8, 16, 32, 64, 128, 256>>

Delay(n) == Lesser(BackoffMax, BackoffBase * Shifted[1 + Lesser(n - 1, 8)])

-----------------------------------------------------------------------------
\* A login request reaches IPLimiter.Allow.
Begin(w, k, u) ==
    /\ req[w].at = "idle"
    /\ req' = [req EXCEPT ![w] = [at |-> "allow", ip |-> k, user |-> u, now |-> clock]]
    /\ UNCHANGED <<clock, bucket, backoff, watch, guesses>>

\* Allow's critical section.  Granted, the request goes on to CanAttempt;
\* refused, or with an unusable body, it is answered.
Allow(w) ==
    LET k == req[w].ip
        now == req[w].now
    IN  /\ req[w].at = "allow"
        /\ bucket' = [Expired(now) EXCEPT ![k] = Spent(k, now)]
        /\ watch' = IF Grants(k, now) /\ watch.ip = k /\ watch.from <= now
                    THEN [watch EXCEPT !.used = @ + Cost] ELSE watch
        /\ \/ req' = [req EXCEPT ![w] = IdleRequest]
           \/ Grants(k, now) /\ req' = [req EXCEPT ![w].at = "can", ![w].ip = None,
                                                     ![w].now = clock]
        /\ UNCHANGED <<clock, backoff, guesses>>

\* Mutant: now is compared with touched, the time of the last failure.
CanAttemptTouched(w) ==
    LET b == backoff[req[w].user]
        touched == b.nextAllow - Delay(IF b.failures = 0 THEN 1 ELSE b.failures)
    IN  /\ req[w].at = "can"
        /\ \/ /\ b.failures = 0 \/ req[w].now > touched
              /\ req' = [req EXCEPT ![w].at = "verify", ![w].now = 0]
           \/ /\ b.failures > 0 /\ req[w].now <= touched
              /\ req' = [req EXCEPT ![w] = IdleRequest]
        /\ UNCHANGED <<clock, bucket, backoff, watch, guesses>>

CanAttempt(w) ==
    LET b == backoff[req[w].user]
    IN  /\ req[w].at = "can"
        /\ \/ /\ b.failures = 0 \/ req[w].now > b.nextAllow
              /\ req' = [req EXCEPT ![w].at = "verify", ![w].now = 0]
           \/ /\ b.failures > 0 /\ req[w].now <= b.nextAllow
              /\ req' = [req EXCEPT ![w] = IdleRequest]
        /\ UNCHANGED <<clock, bucket, backoff, watch, guesses>>

\* UserByUsername and the checks of password and TOTP code: a wrong one goes to
\* Failure, a missing TOTP code is answered outright, and Success forgets the
\* failures.
Verify(w) ==
    LET u == req[w].user
    IN  /\ req[w].at = "verify"
        /\ \/ /\ req' = [req EXCEPT ![w].at = "fail", ![w].now = clock]
              /\ UNCHANGED <<backoff, guesses>>
           \/ /\ req' = [req EXCEPT ![w] = IdleRequest]
              /\ UNCHANGED <<backoff, guesses>>
           \/ /\ req' = [req EXCEPT ![w] = IdleRequest]
              /\ backoff' = [backoff EXCEPT ![u] = NoBackoff]
              /\ guesses' = [guesses EXCEPT ![u] = 0]
        /\ UNCHANGED <<clock, bucket, watch>>

Locked(u) == backoff[u].failures > 0 /\ clock <= backoff[u].nextAllow

\* Failure's critical section.
Failure(w) ==
    LET u == req[w].user
        n == backoff[u].failures + 1
    IN  /\ req[w].at = "fail"
        /\ backoff' = [backoff EXCEPT ![u] = [failures |-> n,
                                              nextAllow |-> req[w].now + Delay(n)]]
        /\ guesses' = [guesses EXCEPT ![u] = IF Locked(u) THEN @ + 1 ELSE 1]
        /\ req' = [req EXCEPT ![w] = IdleRequest]
        /\ UNCHANGED <<clock, bucket, watch>>

Waiting(w) == req[w].at \in {"allow", "can", "fail"}

\* Time passes; no request waits for a mutex longer than MaxStall.
Tick ==
    /\ clock < MaxTime
    /\ \A w \in Workers : Waiting(w) => clock < req[w].now + MaxStall
    /\ clock' = clock + 1
    /\ UNCHANGED <<bucket, backoff, req, watch, guesses>>

\* From now on, the grants of another address, or of the same, are counted.
Watch(k) ==
    /\ watch' = [ip |-> k, from |-> clock, used |-> 0]
    /\ UNCHANGED <<clock, bucket, backoff, req, guesses>>

Next ==
    \/ \E w \in Workers, k \in IPs, u \in Users : Begin(w, k, u)
    \/ \E w \in Workers : Allow(w)
    \/ \E w \in Workers : CanAttempt(w)
    \/ \E w \in Workers : Verify(w)
    \/ \E w \in Workers : Failure(w)
    \/ Tick
    \/ \E k \in IPs : Watch(k)

Spec == Init /\ [][Next]_vars

-----------------------------------------------------------------------------
\* An address is granted no more than a full bucket and what is refilled in the
\* meantime, from any moment on: whatever the order in which requests get the
\* mutex, and although idle buckets are deleted and start full (ratelimit.go:
\* 40-76).  Counted are the requests that read the clock at that moment or later.
WindowBound == watch.used <= Capacity + (clock - watch.from)

\* Passwords can be tried during a lockout only by requests that were let in
\* before it, which is one per worker: CanAttempt and Failure are two critical
\* sections, and nothing is reserved between them (auth.go:71-109).
LockoutBounded == \A u \in Users : guesses[u] <= Cardinality(Workers)

-----------------------------------------------------------------------------
\* The strengthening of WindowBound (RateLimitProofs).

\* A request that waits has a reading that is at most MaxStall old.
RequestsOK ==
    \A w \in Workers :
        /\ Waiting(w) => req[w].now <= clock /\ clock <= req[w].now + MaxStall
        /\ req[w].at = "allow" => req[w].ip \in IPs
        /\ req[w].at # "idle" => req[w].user \in Users

\* What is left in the bucket, less the time of its last refill, and what has
\* been granted add up to no more than a bucket that was full when the count
\* began: a refill of any sign leaves the sum alone, or lowers it at the brim.
\* A deleted bucket is one that time would have filled.
Conserved ==
    LET b == bucket[watch.ip]
    IN  /\ watch.from <= clock
        /\ watch.used > 0 =>
            IF b.present
            THEN /\ watch.used + b.tokens - b.last <= Capacity - watch.from
                 /\ watch.used <= Capacity + MaxStall + b.last - watch.from
            ELSE watch.used + MaxStall <= clock - watch.from

IInv == TypeOK /\ RequestsOK /\ Conserved /\ WindowBound
=============================================================================
