--------------------------- MODULE RateLimitProofs ---------------------------
(***************************************************************************)
(* WindowBound holds for every number of addresses and requests, every     *)
(* cost, capacity and stall.  The invariant says that refills and grants   *)
(* conserve what was in the bucket, see Conserved.                         *)
(* LockoutBounded holds for every finite set of requests, see LockoutOf.   *)
(***************************************************************************)
EXTENDS RateLimit, FiniteSetTheorems, TLAPS

USE RateLimitAssumption

-----------------------------------------------------------------------------
\* The delay of a backoff is a number of ticks.
LEMMA DelayType == \A n \in Nat \ {0} : Delay(n) \in Nat
<1> SUFFICES ASSUME NEW n \in Nat \ {0} PROVE Delay(n) \in Nat
  OBVIOUS
<1> DEFINE e == 1 + Lesser(n - 1, 8)
           d == BackoffBase * Shifted[e]
<1>1. e \in 1..9
  BY DEF Lesser
<1>2. Shifted[e] \in Nat
  BY <1>1 DEF Shifted
<1>3. d \in Nat
  BY <1>2
<1>4. Delay(n) = Lesser(BackoffMax, d)
  BY DEF Delay
<1> QED
  BY <1>3, <1>4 DEF Lesser

\* What expireLocked leaves of a bucket: it is there unchanged, or it is gone
\* and was idle for longer than ExpireDur.
LEMMA ExpiredBucket ==
  ASSUME TypeOK, NEW now \in Nat, NEW k \in IPs
  PROVE  /\ Expired(now) \in [IPs -> Bucket]
         /\ \/ Expired(now)[k] = bucket[k]
            \/ /\ bucket[k].present
               /\ now > bucket[k].last + ExpireDur
               /\ Expired(now)[k] = NoBucket
<1>1. NoBucket \in Bucket
  BY DEF NoBucket, Bucket
<1>2. bucket \in [IPs -> Bucket]
  BY DEF TypeOK
<1>3. \A i \in IPs : bucket[i].last \in Nat
  BY <1>2 DEF Bucket
<1> QED
  BY <1>1, <1>2, <1>3 DEF Expired

\* What Allow makes of the bucket it asks: the refill starts from a bucket that
\* is there, or from a full one, and never fills it beyond Capacity.
LEMMA FilledBucket ==
  ASSUME TypeOK, NEW now \in Nat, NEW k \in IPs
  PROVE  /\ Filled(k, now) \in Bucket
         /\ Filled(k, now).present
         /\ Filled(k, now).last = now
         /\ Filled(k, now).tokens <= Capacity
         /\ \/ /\ bucket[k].present
               /\ Filled(k, now).tokens <= bucket[k].tokens + (now - bucket[k].last)
            \/ /\ bucket[k].present
               /\ now > bucket[k].last + ExpireDur
            \/ ~bucket[k].present
<1> DEFINE e == Expired(now)[k]
<1>1. /\ e \in Bucket
      /\ \/ e = bucket[k]
         \/ bucket[k].present /\ now > bucket[k].last + ExpireDur /\ e = NoBucket
  BY ExpiredBucket
<1>2. bucket[k] \in Bucket
  BY DEF TypeOK
<1>3. CASE ~e.present
  <2>1. Filled(k, now) = [present |-> TRUE, tokens |-> Capacity, last |-> now]
    BY <1>3 DEF Filled
  <2>2. ~bucket[k].present \/ (bucket[k].present /\ now > bucket[k].last + ExpireDur)
    BY <1>1, <1>3
  <2> QED
    BY <2>1, <2>2 DEF Bucket
<1>4. CASE e.present
  <2>1. e = bucket[k]
    BY <1>1, <1>4 DEF NoBucket
  <2>2. Filled(k, now) = Refilled(bucket[k], now)
    BY <1>4, <2>1 DEF Filled
  <2>3. bucket[k].present
    BY <1>4, <2>1
  <2> DEFINE b == bucket[k]
             t == b.tokens + (now - b.last)
  <2>4. b \in [present : BOOLEAN, tokens : Int, last : Nat] /\ t \in Int
    BY <1>2 DEF Bucket
  <2>5. Refilled(b, now) = [b EXCEPT !.tokens = Lesser(Capacity, t), !.last = now]
    BY DEF Refilled
  <2>6. Lesser(Capacity, t) \in Int /\ Lesser(Capacity, t) <= Capacity /\ Lesser(Capacity, t) <= t
    BY <2>4 DEF Lesser
  <2> HIDE DEF b, t
  <2>7. /\ Refilled(b, now) \in Bucket
        /\ Refilled(b, now).present = b.present
        /\ Refilled(b, now).last = now
        /\ Refilled(b, now).tokens = Lesser(Capacity, t)
    BY <2>4, <2>5, <2>6 DEF Bucket
  <2> QED
    BY <2>2, <2>3, <2>6, <2>7 DEF b, t
<1> QED
  BY <1>3, <1>4

\* A grant takes Cost from a bucket that holds it, a refusal takes nothing.
LEMMA SpentBucket ==
  ASSUME TypeOK, NEW now \in Nat, NEW k \in IPs
  PROVE  /\ Spent(k, now) \in Bucket
         /\ Spent(k, now).present
         /\ Spent(k, now).last = now
         /\ Spent(k, now).tokens <= Capacity
         /\ Grants(k, now) =>
              /\ Spent(k, now).tokens = Filled(k, now).tokens - Cost
              /\ Spent(k, now).tokens >= 0
         /\ ~Grants(k, now) => Spent(k, now).tokens = Filled(k, now).tokens
<1> DEFINE f == Filled(k, now)
<1>1. /\ f \in [present : BOOLEAN, tokens : Int, last : Nat]
      /\ f.present /\ f.last = now /\ f.tokens <= Capacity
  BY FilledBucket DEF Bucket
<1>2. Grants(k, now) <=> f.tokens >= Cost
  BY DEF Grants
<1>3. Spent(k, now) = IF Grants(k, now) THEN [f EXCEPT !.tokens = @ - Cost] ELSE f
  BY DEF Spent
<1> HIDE DEF f
<1> QED
  <2>1. CASE Grants(k, now)
    <3>1. Spent(k, now) = [f EXCEPT !.tokens = f.tokens - Cost]
      BY <1>3, <2>1
    <3>2. f.tokens \in Int /\ f.tokens >= Cost
      BY <1>1, <1>2, <2>1
    <3>3. /\ Spent(k, now).tokens = f.tokens - Cost
          /\ Spent(k, now).present /\ Spent(k, now).last = now
          /\ Spent(k, now) \in [present : BOOLEAN, tokens : Int, last : Nat]
      BY <1>1, <3>1, <3>2
    <3> QED
      BY <1>1, <2>1, <3>2, <3>3 DEF f, Bucket
  <2>2. CASE ~Grants(k, now)
    BY <1>1, <1>3, <2>2 DEF f, Bucket
  <2> QED
    BY <2>1, <2>2

-----------------------------------------------------------------------------
\* The state before the first step satisfies the invariant.
LEMMA InitIInv == Init => IInv
<1> SUFFICES ASSUME Init PROVE IInv
  OBVIOUS
<1>1. TypeOK
  BY DEF Init, TypeOK, Bucket, NoBucket, Backoff, NoBackoff, Request, IdleRequest
<1>2. RequestsOK
  BY DEF Init, RequestsOK, Waiting, IdleRequest
<1>3. Conserved /\ WindowBound
  BY DEF Init, Conserved, WindowBound
<1> QED
  BY <1>1, <1>2, <1>3 DEF IInv

\* The count of a watch, before and after one request of the watched address:
\* what the request finds in the bucket bounds what it may still take.
LEMMA FilledConserves ==
  ASSUME IInv, NEW w \in Workers, req[w].at = "allow", watch.used > 0,
         req[w].ip = watch.ip
  PROVE  watch.used + Filled(watch.ip, req[w].now).tokens - req[w].now
            <= Capacity - watch.from
<1> DEFINE k == watch.ip
           now == req[w].now
           f == Filled(k, now)
           b == bucket[k]
<1>1. TypeOK /\ RequestsOK /\ Conserved
  BY DEF IInv
<1>2. /\ k \in IPs /\ now \in Nat /\ clock \in Nat
      /\ watch.from \in Nat /\ watch.used \in Nat
  BY <1>1 DEF TypeOK, Request
<1>3. b \in [present : BOOLEAN, tokens : Int, last : Nat]
  BY <1>1, <1>2 DEF TypeOK, Bucket
<1>4. now <= clock /\ clock <= now + MaxStall
  BY <1>1 DEF RequestsOK, Waiting
<1>5. /\ f.tokens \in Int /\ f.tokens <= Capacity
      /\ \/ b.present /\ f.tokens <= b.tokens + (now - b.last)
         \/ b.present /\ now > b.last + ExpireDur
         \/ ~b.present
  BY <1>1, <1>2, FilledBucket DEF Bucket
<1>6. IF b.present
      THEN /\ watch.used + b.tokens - b.last <= Capacity - watch.from
           /\ watch.used <= Capacity + MaxStall + b.last - watch.from
      ELSE watch.used + MaxStall <= clock - watch.from
  BY <1>1 DEF Conserved
<1> HIDE DEF f, b, now, k
<1>7. CASE b.present /\ f.tokens <= b.tokens + (now - b.last)
  BY <1>2, <1>3, <1>5, <1>6, <1>7 DEF now, f, k
<1>8. CASE b.present /\ now > b.last + ExpireDur
  <2>1. watch.used <= now - watch.from
    BY <1>2, <1>3, <1>6, <1>8
  <2> QED
    BY <2>1, <1>2, <1>5 DEF now, f, k
<1>9. CASE ~b.present
  <2>1. watch.used <= now - watch.from
    BY <1>2, <1>4, <1>6, <1>9
  <2> QED
    BY <2>1, <1>2, <1>5 DEF now, f, k
<1> QED
  BY <1>5, <1>7, <1>8, <1>9

\* A step of Allow that concerns the watched address.
LEMMA AllowWatched ==
  ASSUME IInv, NEW w \in Workers, Allow(w), req[w].ip = watch.ip, TypeOK'
  PROVE  Conserved' /\ WindowBound'
<1> DEFINE k == watch.ip
           now == req[w].now
           f == Filled(k, now)
           s == Spent(k, now)
<1>1. TypeOK /\ RequestsOK /\ Conserved /\ WindowBound
  BY DEF IInv
<1>2. /\ k \in IPs /\ now \in Nat /\ clock \in Nat
      /\ watch \in [ip : IPs, from : Nat, used : Nat]
  BY <1>1 DEF TypeOK, Request
<1>3. req[w].at = "allow" /\ clock' = clock
  BY DEF Allow
<1>4. now <= clock /\ clock <= now + MaxStall /\ watch.from <= clock
  BY <1>1, <1>3 DEF RequestsOK, Waiting, Conserved
<1>5. /\ f.tokens \in Int /\ f.tokens <= Capacity
      /\ s \in [present : BOOLEAN, tokens : Int, last : Nat] /\ s.present /\ s.last = now
      /\ Grants(k, now) => s.tokens = f.tokens - Cost /\ s.tokens >= 0
      /\ ~Grants(k, now) => s.tokens = f.tokens
  BY <1>1, <1>2, FilledBucket, SpentBucket DEF Bucket
<1>6. bucket'[k] = s
  BY <1>1, <1>2, ExpiredBucket DEF Allow
<1>7. watch.used > 0 => watch.used + f.tokens - now <= Capacity - watch.from
  BY <1>3, FilledConserves
<1>8. watch' = IF Grants(k, now) /\ watch.from <= now
               THEN [watch EXCEPT !.used = @ + Cost] ELSE watch
  BY DEF Allow
<1>9. watch.used <= Capacity + (clock - watch.from)
  BY <1>1 DEF WindowBound
<1>10. watch'.ip = k /\ watch'.from = watch.from
  BY <1>2, <1>8
<1> DEFINE Goal(used) ==
      /\ used > 0 =>
            /\ used + s.tokens - s.last <= Capacity - watch.from
            /\ used <= Capacity + MaxStall + s.last - watch.from
      /\ used <= Capacity + (clock - watch.from)
<1>11. Goal(watch'.used)
  <2> HIDE DEF f, s, now, k
  <2>1. CASE Grants(k, now) /\ watch.from <= now
    <3>1. watch'.used = watch.used + Cost
      BY <1>2, <1>8, <2>1
    <3>2. watch.used + f.tokens - now <= Capacity - watch.from
      BY <1>2, <1>5, <1>7, <2>1
    <3> QED
      BY <1>2, <1>4, <1>5, <2>1, <3>1, <3>2
  <2>2. CASE ~(Grants(k, now) /\ watch.from <= now)
    <3>1. watch'.used = watch.used
      BY <1>8, <2>2
    <3>2. s.tokens <= f.tokens
      BY <1>5
    <3> QED
      BY <1>2, <1>4, <1>5, <1>7, <1>9, <3>1, <3>2
  <2> QED
    BY <2>1, <2>2
<1>12. Conserved'
  BY <1>3, <1>4, <1>5, <1>6, <1>10, <1>11 DEF Conserved
<1>13. WindowBound'
  BY <1>3, <1>10, <1>11 DEF WindowBound
<1> QED
  BY <1>12, <1>13

\* A step of Allow that concerns another address may delete the watched bucket.
LEMMA AllowOther ==
  ASSUME IInv, NEW w \in Workers, Allow(w), req[w].ip # watch.ip
  PROVE  Conserved' /\ WindowBound'
<1> DEFINE k == watch.ip
           now == req[w].now
           b == bucket[k]
<1>1. TypeOK /\ RequestsOK /\ Conserved /\ WindowBound
  BY DEF IInv
<1>2. req[w].at = "allow" /\ clock' = clock /\ watch' = watch
  BY DEF Allow
<1>3. /\ k \in IPs /\ now \in Nat /\ clock \in Nat
      /\ watch.from \in Nat /\ watch.used \in Nat
      /\ req[w].ip \in IPs
  BY <1>1, <1>2 DEF TypeOK, Request, RequestsOK
<1>4. now <= clock
  BY <1>1, <1>2 DEF RequestsOK, Waiting
<1>5. /\ Expired(now) \in [IPs -> Bucket]
      /\ \/ Expired(now)[k] = b
         \/ b.present /\ now > b.last + ExpireDur /\ Expired(now)[k] = NoBucket
  BY <1>1, <1>3, ExpiredBucket
<1>6. bucket'[k] = Expired(now)[k]
  BY <1>3, <1>5 DEF Allow
<1>7. b.last \in Nat
  BY <1>1, <1>3 DEF TypeOK, Bucket
<1>8. CASE bucket'[k] = b
  BY <1>1, <1>2, <1>8 DEF Conserved, WindowBound
<1>9. CASE b.present /\ now > b.last + ExpireDur /\ bucket'[k] = NoBucket
  <2>1. watch.used > 0 => watch.used <= Capacity + MaxStall + b.last - watch.from
    BY <1>1, <1>9 DEF Conserved
  <2> HIDE DEF now, b
  <2>2. watch.used > 0 => watch.used + MaxStall <= clock - watch.from
    BY <1>3, <1>4, <1>7, <1>9, <2>1
  <2>3. ~bucket'[k].present
    BY <1>9 DEF NoBucket
  <2> QED
    BY <1>1, <1>2, <2>2, <2>3 DEF Conserved, WindowBound
<1> QED
  BY <1>5, <1>6, <1>8, <1>9

-----------------------------------------------------------------------------
\* Every step keeps the variables in their types, and the buckets within
\* Capacity.
LEMMA NextTypeOK == IInv /\ [Next]_vars => TypeOK'
<1> SUFFICES ASSUME IInv, [Next]_vars PROVE TypeOK'
  OBVIOUS
<1> USE DEF IInv
<1>1. ASSUME NEW w \in Workers, NEW k \in IPs, NEW u \in Users, Begin(w, k, u)
      PROVE  TypeOK'
  BY <1>1 DEF TypeOK, Begin, Request
<1>2. ASSUME NEW w \in Workers, Allow(w)
      PROVE  TypeOK'
  <2> DEFINE k == req[w].ip
             now == req[w].now
  <2>1. k \in IPs /\ now \in Nat /\ now <= clock /\ clock \in Nat
    BY <1>2 DEF TypeOK, RequestsOK, Allow, Waiting, Request
  <2>2. /\ Spent(k, now) \in Bucket
        /\ Spent(k, now).tokens <= Capacity /\ Spent(k, now).last = now
    BY <2>1, SpentBucket
  <2>3. Expired(now) \in [IPs -> Bucket]
    BY <2>1, ExpiredBucket
  <2>4. \A i \in IPs : Expired(now)[i].tokens <= Capacity /\ Expired(now)[i].last <= clock
    <3> SUFFICES ASSUME NEW i \in IPs
                 PROVE  Expired(now)[i].tokens <= Capacity /\ Expired(now)[i].last <= clock
      OBVIOUS
    <3>1. Expired(now)[i] = bucket[i] \/ Expired(now)[i] = NoBucket
      BY <2>1, ExpiredBucket
    <3> QED
      BY <2>1, <3>1 DEF TypeOK, NoBucket
  <2>5. bucket' = [Expired(now) EXCEPT ![k] = Spent(k, now)] /\ clock' = clock
    BY <1>2 DEF Allow
  <2>6. /\ bucket' \in [IPs -> Bucket]
        /\ \A i \in IPs : bucket'[i].tokens <= Capacity /\ bucket'[i].last <= clock'
    <3> HIDE DEF k, now
    <3> QED
      BY <2>1, <2>2, <2>3, <2>4, <2>5
  <2>7. watch' \in [ip : IPs, from : Nat, used : Nat]
    BY <1>2 DEF TypeOK, Allow
  <2>8. req' \in [Workers -> Request]
    BY <1>2 DEF TypeOK, Allow, Request, IdleRequest
  <2> QED
    BY <1>2, <2>6, <2>7, <2>8 DEF TypeOK, Allow
<1>3. ASSUME NEW w \in Workers, CanAttempt(w)
      PROVE  TypeOK'
  BY <1>3 DEF TypeOK, CanAttempt, Request, IdleRequest
<1>4. ASSUME NEW w \in Workers, Verify(w)
      PROVE  TypeOK'
  <2>1. req' \in [Workers -> Request]
    BY <1>4 DEF TypeOK, Verify, Request, IdleRequest
  <2>2. backoff' \in [Users -> Backoff] /\ guesses' \in [Users -> Nat]
    BY <1>4 DEF TypeOK, Verify, Backoff, NoBackoff
  <2> QED
    BY <1>4, <2>1, <2>2 DEF TypeOK, Verify
<1>5. ASSUME NEW w \in Workers, Failure(w)
      PROVE  TypeOK'
  <2> DEFINE u == req[w].user
             n == backoff[u].failures + 1
             g == IF Locked(u) THEN guesses[u] + 1 ELSE 1
  <2>1. u \in Users /\ req[w].now \in Nat
    BY <1>5 DEF TypeOK, RequestsOK, Failure, Request
  <2>2. n \in Nat \ {0}
    BY <2>1 DEF TypeOK, Backoff
  <2>3. Delay(n) \in Nat
    BY <2>2, DelayType
  <2>4. [failures |-> n, nextAllow |-> req[w].now + Delay(n)] \in Backoff
    BY <2>1, <2>2, <2>3 DEF Backoff
  <2>5. g \in Nat
    BY <2>1 DEF TypeOK
  <2>6. /\ backoff' = [backoff EXCEPT ![u] = [failures |-> n,
                                              nextAllow |-> req[w].now + Delay(n)]]
        /\ guesses' = [guesses EXCEPT ![u] = g]
        /\ UNCHANGED <<clock, bucket, watch>>
    BY <1>5 DEF Failure
  <2>7. backoff' \in [Users -> Backoff] /\ guesses' \in [Users -> Nat]
    <3> HIDE DEF u, n, g
    <3> QED
      BY <2>1, <2>4, <2>5, <2>6 DEF TypeOK
  <2>8. req' \in [Workers -> Request]
    BY <1>5 DEF TypeOK, Failure, Request, IdleRequest
  <2> QED
    BY <2>6, <2>7, <2>8 DEF TypeOK
<1>6. ASSUME Tick
      PROVE  TypeOK'
  <2>1. clock' = clock + 1 /\ clock \in Nat /\ UNCHANGED <<bucket, backoff, req, watch, guesses>>
    BY <1>6 DEF Tick, TypeOK
  <2>2. \A k \in IPs : bucket[k].last \in Nat /\ bucket[k].last <= clock
    BY DEF TypeOK, Bucket
  <2> QED
    BY <2>1, <2>2 DEF TypeOK
<1>7. ASSUME NEW k \in IPs, Watch(k)
      PROVE  TypeOK'
  BY <1>7 DEF TypeOK, Watch
<1>8. CASE UNCHANGED vars
  BY <1>8 DEF vars, TypeOK
<1> QED
  BY <1>1, <1>2, <1>3, <1>4, <1>5, <1>6, <1>7, <1>8 DEF Next

\* Every step keeps the readings fresh: a request that starts to wait has just
\* read the clock, and the clock waits for it.
LEMMA NextRequestsOK == IInv /\ [Next]_vars => RequestsOK'
<1> SUFFICES ASSUME IInv, [Next]_vars PROVE RequestsOK'
  OBVIOUS
<1> USE DEF IInv
<1>0. clock \in Nat /\ req \in [Workers -> Request] /\ RequestsOK
  BY DEF TypeOK
<1>1. ASSUME NEW w \in Workers, NEW k \in IPs, NEW u \in Users, Begin(w, k, u)
      PROVE  RequestsOK'
  BY <1>0, <1>1 DEF Begin, RequestsOK, Waiting
<1>2. ASSUME NEW w \in Workers, Allow(w)
      PROVE  RequestsOK'
  BY <1>0, <1>2 DEF Allow, RequestsOK, Waiting, Request, IdleRequest
<1>3. ASSUME NEW w \in Workers, CanAttempt(w)
      PROVE  RequestsOK'
  BY <1>0, <1>3 DEF CanAttempt, RequestsOK, Waiting, Request, IdleRequest
<1>4. ASSUME NEW w \in Workers, Verify(w)
      PROVE  RequestsOK'
  BY <1>0, <1>4 DEF Verify, RequestsOK, Waiting, Request, IdleRequest
<1>5. ASSUME NEW w \in Workers, Failure(w)
      PROVE  RequestsOK'
  BY <1>0, <1>5 DEF Failure, RequestsOK, Waiting, Request, IdleRequest
<1>6. ASSUME Tick
      PROVE  RequestsOK'
  BY <1>0, <1>6 DEF Tick, RequestsOK, Waiting, Request
<1>7. ASSUME NEW k \in IPs, Watch(k)
      PROVE  RequestsOK'
  BY <1>0, <1>7 DEF Watch, RequestsOK, Waiting
<1>8. CASE UNCHANGED vars
  BY <1>0, <1>8 DEF vars, RequestsOK, Waiting
<1> QED
  BY <1>1, <1>2, <1>3, <1>4, <1>5, <1>6, <1>7, <1>8 DEF Next

\* Only Allow changes a bucket or the count; time can only help, and a new watch
\* starts with nothing granted.
LEMMA NextConserved == IInv /\ [Next]_vars => Conserved' /\ WindowBound'
<1> SUFFICES ASSUME IInv, [Next]_vars PROVE Conserved' /\ WindowBound'
  OBVIOUS
<1>0. TypeOK /\ RequestsOK /\ Conserved /\ WindowBound /\ TypeOK'
  BY NextTypeOK DEF IInv
<1>1. ASSUME NEW w \in Workers, Allow(w)
      PROVE  Conserved' /\ WindowBound'
  BY <1>0, <1>1, AllowWatched, AllowOther
<1>2. ASSUME UNCHANGED <<clock, bucket, watch>>
      PROVE  Conserved' /\ WindowBound'
  BY <1>0, <1>2 DEF Conserved, WindowBound
<1>3. ASSUME Tick
      PROVE  Conserved' /\ WindowBound'
  <2>1. clock' = clock + 1 /\ UNCHANGED <<bucket, watch>>
    BY <1>3 DEF Tick
  <2>2. clock \in Nat /\ watch.from \in Nat /\ watch.used \in Nat /\ watch.ip \in IPs
    BY <1>0 DEF TypeOK
  <2>3. Conserved'
    BY <1>0, <2>1, <2>2 DEF Conserved
  <2>4. WindowBound'
    BY <1>0, <2>1, <2>2 DEF WindowBound
  <2> QED
    BY <2>3, <2>4
<1>4. ASSUME NEW k \in IPs, Watch(k)
      PROVE  Conserved' /\ WindowBound'
  <2>1. /\ watch'.from = clock /\ watch'.used = 0 /\ clock' = clock /\ clock \in Nat
    BY <1>0, <1>4 DEF Watch, TypeOK
  <2> QED
    BY <2>1 DEF Conserved, WindowBound
<1> QED
  <2>1. CASE \E w \in Workers, k \in IPs, u \in Users : Begin(w, k, u)
    BY <1>2, <2>1 DEF Begin
  <2>2. CASE \E w \in Workers : CanAttempt(w) \/ Verify(w) \/ Failure(w)
    BY <1>2, <2>2 DEF CanAttempt, Verify, Failure
  <2>3. CASE UNCHANGED vars
    BY <1>2, <2>3 DEF vars
  <2> QED
    BY <1>1, <1>3, <1>4, <2>1, <2>2, <2>3 DEF Next

\* The invariant of the specification.
LEMMA Invariance == Spec => []IInv
<1>1. Init => IInv
  BY InitIInv
<1>2. IInv /\ [Next]_vars => IInv'
  BY NextTypeOK, NextRequestsOK, NextConserved DEF IInv
<1> QED
  BY <1>1, <1>2, PTL DEF Spec

-----------------------------------------------------------------------------
\* The variables stay in their types, and no bucket holds more than Capacity.
THEOREM TypeCorrect == Spec => []TypeOK
<1>1. IInv => TypeOK
  BY DEF IInv
<1> QED
  BY <1>1, Invariance, PTL

\* No address is granted more than a full bucket and the refill of the time that
\* has passed, from any moment on (IPLimiter.Allow).
THEOREM GrantsBounded == Spec => []WindowBound
<1>1. IInv => WindowBound
  BY DEF IInv
<1> QED
  BY <1>1, Invariance, PTL
-----------------------------------------------------------------------------
(***************************************************************************)
(* The backoff of a username                                               *)
(***************************************************************************)
\* The requests that were let in to check a password of u.
Trying(u) == {w \in Workers : req[w].at \in {"verify", "fail"} /\ req[w].user = u}

\* During a lockout nobody is let in, so the failures recorded in it and the
\* requests that may still record one are no more than the requests that the
\* lockout found.
LockoutOf(u) ==
    /\ guesses[u] <= Cardinality(Workers)
    /\ Locked(u) => guesses[u] + Cardinality(Trying(u)) <= Cardinality(Workers)

LEMMA TryingFinite ==
    ASSUME IsFiniteSet(Workers), NEW S \in SUBSET Workers
    PROVE  /\ IsFiniteSet(S)
           /\ Cardinality(S) \in Nat
           /\ Cardinality(Workers) \in Nat
           /\ Cardinality(S) <= Cardinality(Workers)
BY FS_Subset, FS_CardinalityType

\* A step that records no failure of u, and lets nobody in while u is locked.
LEMMA LockoutKept ==
    ASSUME IsFiniteSet(Workers), TypeOK, NEW u \in Users, LockoutOf(u),
           guesses'[u] = guesses[u],
           Locked(u)' => Locked(u) /\ Trying(u)' \subseteq Trying(u)
    PROVE  LockoutOf(u)'
<1>1. CASE Locked(u)'
  <2>1. Trying(u) \in SUBSET Workers /\ IsFiniteSet(Trying(u))
    BY TryingFinite DEF Trying
  <2>2. PICK n \in Nat, m \in Nat, c \in Nat :
          /\ n = Cardinality(Trying(u)) /\ m = Cardinality(Trying(u)')
          /\ c = Cardinality(Workers) /\ m <= n
    <3>1. Trying(u)' \in SUBSET Trying(u)
      BY <1>1
    <3>2. Trying(u)' \in SUBSET Workers
      BY DEF Trying
    <3>3. /\ Cardinality(Trying(u)) \in Nat /\ Cardinality(Trying(u)') \in Nat
          /\ Cardinality(Workers) \in Nat
      BY <2>1, <3>2, TryingFinite
    <3>4. Cardinality(Trying(u)') <= Cardinality(Trying(u))
      BY <2>1, <3>1, FS_Subset
    <3>5. QED
      BY <3>3, <3>4
  <2>3. guesses[u] \in Nat /\ guesses[u] <= c /\ guesses[u] + n <= c
    BY <1>1, <2>2 DEF LockoutOf, TypeOK
  <2>4. guesses'[u] <= c /\ guesses'[u] + m <= c
    BY <2>2, <2>3
  <2>5. QED
    BY <2>2, <2>4 DEF LockoutOf
<1>2. CASE ~Locked(u)'
  BY <1>2 DEF LockoutOf
<1>3. QED
  BY <1>1, <1>2

\* Failure moves one request from those that may guess to those that have.
LEMMA FailureCounted ==
    ASSUME IsFiniteSet(Workers), TypeOK, NEW w \in Workers, Failure(w),
           NEW u \in Users, req[w].user = u, LockoutOf(u)
    PROVE  LockoutOf(u)'
<1>1. /\ w \in Trying(u) /\ Trying(u) \in SUBSET Workers
      /\ Trying(u)' = Trying(u) \ {w}
  BY DEF Failure, Trying, TypeOK, IdleRequest
<1>2. PICK n \in Nat, m \in Nat, c \in Nat :
        /\ n = Cardinality(Trying(u)) /\ m = Cardinality(Trying(u)')
        /\ c = Cardinality(Workers) /\ m = n - 1 /\ n <= c
  <2>1. IsFiniteSet(Trying(u)) /\ IsFiniteSet(Trying(u)')
    BY <1>1, TryingFinite
  <2>2. Cardinality(Trying(u)') = Cardinality(Trying(u)) - 1
    BY <1>1, <2>1, FS_RemoveElement
  <2>3. QED
    BY <1>1, <2>1, <2>2, TryingFinite, FS_CardinalityType
<1>3. guesses'[u] = IF Locked(u) THEN guesses[u] + 1 ELSE 1
  BY DEF Failure, TypeOK
<1>4. /\ guesses[u] \in Nat
      /\ Locked(u) => guesses[u] + n <= c
  BY <1>2 DEF LockoutOf, TypeOK
<1>5. guesses'[u] <= c /\ guesses'[u] + m <= c
  <2>1. CASE Locked(u)
    BY <1>2, <1>3, <1>4, <2>1
  <2>2. CASE ~Locked(u)
    BY <1>2, <1>3, <2>2
  <2>3. QED
    BY <2>1, <2>2
<1>6. QED
  BY <1>2, <1>5 DEF LockoutOf

LEMMA LockoutStep ==
    ASSUME IsFiniteSet(Workers), IInv, [Next]_vars, NEW u \in Users, LockoutOf(u)
    PROVE  LockoutOf(u)'
<1>0. TypeOK /\ clock \in Nat /\ req \in [Workers -> Request]
  BY DEF IInv, TypeOK
<1>1. ASSUME UNCHANGED <<backoff, guesses>>, clock' >= clock, clock' \in Nat,
             Locked(u) => Trying(u)' \subseteq Trying(u)
      PROVE  LockoutOf(u)'
  <2>1. Locked(u)' => Locked(u)
    <3>1. backoff[u].nextAllow \in Nat
      BY <1>0 DEF TypeOK, Backoff
    <3>2. QED
      BY <1>0, <1>1, <3>1 DEF Locked
  <2>2. QED
    BY <1>0, <1>1, <2>1, LockoutKept
<1>2. ASSUME NEW w \in Workers, NEW r, req' = [req EXCEPT ![w] = r],
             r.at \notin {"verify", "fail"}
      PROVE  Trying(u)' \subseteq Trying(u)
  BY <1>0, <1>2 DEF Trying
<1>11. ASSUME NEW w \in Workers, NEW r, req' = [req EXCEPT ![w] = r],
              r.at \notin {"verify", "fail"}, UNCHANGED <<clock, backoff, guesses>>
       PROVE  LockoutOf(u)'
  <2>1. Trying(u)' \subseteq Trying(u)
    BY <1>2, <1>11
  <2>2. clock' >= clock /\ clock' \in Nat /\ UNCHANGED <<backoff, guesses>>
    BY <1>0, <1>11
  <2>3. QED
    BY <1>1, <2>1, <2>2
<1>12. IdleRequest.at = "idle"
  BY DEF IdleRequest
<1>3. ASSUME NEW w \in Workers, NEW k \in IPs, NEW v \in Users, Begin(w, k, v)
      PROVE  LockoutOf(u)'
  <2> DEFINE r == [at |-> "allow", ip |-> k, user |-> v, now |-> clock]
  <2>1. /\ req' = [req EXCEPT ![w] = r] /\ r.at = "allow"
        /\ UNCHANGED <<clock, backoff, guesses>>
    BY <1>3 DEF Begin
  <2> HIDE DEF r
  <2>2. QED
    BY <1>11, <2>1
<1>4. ASSUME NEW w \in Workers, Allow(w)
      PROVE  LockoutOf(u)'
  <2>1. req[w] \in Request /\ UNCHANGED <<clock, backoff, guesses>>
    BY <1>0, <1>4 DEF Allow
  <2>2. CASE req' = [req EXCEPT ![w] = IdleRequest]
    BY <1>11, <1>12, <2>1, <2>2
  <2>3. CASE req' = [req EXCEPT ![w].at = "can", ![w].ip = None, ![w].now = clock]
    <3> DEFINE r == [req[w] EXCEPT !.at = "can", !.ip = None, !.now = clock]
    <3>1. req' = [req EXCEPT ![w] = r] /\ r.at = "can"
      BY <1>0, <2>1, <2>3 DEF Request
    <3> HIDE DEF r
    <3>2. QED
      BY <1>11, <2>1, <3>1
  <2>4. QED
    BY <1>4, <2>2, <2>3 DEF Allow
<1>5. ASSUME NEW w \in Workers, CanAttempt(w)
      PROVE  LockoutOf(u)'
  <2>1. req[w] \in Request /\ req[w].at = "can" /\ req[w].now <= clock /\ req[w].now \in Nat
    BY <1>0, <1>5 DEF CanAttempt, IInv, RequestsOK, Waiting, Request
  <2>2. CASE req' = [req EXCEPT ![w] = IdleRequest]
    BY <1>5, <1>11, <1>12, <2>2 DEF CanAttempt
  <2>3. CASE /\ req' = [req EXCEPT ![w].at = "verify", ![w].now = 0]
             /\ \/ backoff[req[w].user].failures = 0
                \/ req[w].now > backoff[req[w].user].nextAllow
    <3>1. CASE req[w].user = u
      <4>1. ~Locked(u)
        <5>1. backoff[u].nextAllow \in Nat
          BY <1>0 DEF TypeOK, Backoff
        <5>2. QED
          BY <1>0, <2>1, <2>3, <3>1, <5>1 DEF Locked
      <4>2. QED
        BY <1>0, <1>1, <1>5, <4>1 DEF CanAttempt
    <3>2. CASE req[w].user # u
      <4>1. Trying(u)' \subseteq Trying(u)
        BY <1>0, <2>1, <2>3, <3>2 DEF Trying, Request
      <4>2. QED
        BY <1>0, <1>1, <1>5, <4>1 DEF CanAttempt
    <3>3. QED
      BY <3>1, <3>2
  <2>4. QED
    BY <1>5, <2>2, <2>3 DEF CanAttempt
<1>6. ASSUME NEW w \in Workers, Verify(w)
      PROVE  LockoutOf(u)'
  <2>1. req[w] \in Request /\ req[w].at = "verify" /\ clock' = clock
    BY <1>0, <1>6 DEF Verify
  <2>2. ASSUME req' = [req EXCEPT ![w].at = "fail", ![w].now = clock]
        PROVE  Trying(u)' \subseteq Trying(u)
    BY <1>0, <2>1, <2>2 DEF Trying, Request
  <2>3. ASSUME req' = [req EXCEPT ![w] = IdleRequest]
        PROVE  Trying(u)' \subseteq Trying(u)
    BY <1>2, <2>3 DEF IdleRequest
  <2>4. CASE UNCHANGED <<backoff, guesses>>
    BY <1>0, <1>1, <1>6, <2>1, <2>2, <2>3, <2>4 DEF Verify
  <2>5. CASE /\ req' = [req EXCEPT ![w] = IdleRequest]
             /\ backoff' = [backoff EXCEPT ![req[w].user] = NoBackoff]
             /\ guesses' = [guesses EXCEPT ![req[w].user] = 0]
    <3>1. CASE req[w].user = u
      <4>1. guesses'[u] = 0 /\ backoff'[u].failures = 0
        BY <1>0, <2>5, <3>1 DEF TypeOK, NoBackoff
      <4>2. Cardinality(Workers) \in Nat
        BY FS_CardinalityType
      <4>3. QED
        BY <4>1, <4>2 DEF LockoutOf, Locked
    <3>2. CASE req[w].user # u
      <4>1. guesses'[u] = guesses[u] /\ backoff'[u] = backoff[u]
        BY <1>0, <2>5, <3>2 DEF TypeOK
      <4>2. Locked(u)' => Locked(u)
        BY <2>1, <4>1 DEF Locked
      <4>3. QED
        BY <1>0, <2>3, <2>5, <4>1, <4>2, LockoutKept
    <3>3. QED
      BY <3>1, <3>2
  <2>6. QED
    BY <1>6, <2>4, <2>5 DEF Verify
<1>7. ASSUME NEW w \in Workers, Failure(w)
      PROVE  LockoutOf(u)'
  <2>1. CASE req[w].user = u
    BY <1>0, <1>7, <2>1, FailureCounted
  <2>2. CASE req[w].user # u
    <3>1. guesses'[u] = guesses[u] /\ backoff'[u] = backoff[u] /\ clock' = clock
      BY <1>0, <1>7, <2>2 DEF Failure, TypeOK
    <3>2. Trying(u)' \subseteq Trying(u)
      BY <1>0, <1>2, <1>7 DEF Failure, IdleRequest
    <3>3. Locked(u)' => Locked(u)
      BY <3>1 DEF Locked
    <3>4. QED
      BY <1>0, <3>1, <3>2, <3>3, LockoutKept
  <2>3. QED
    BY <2>1, <2>2
<1>8. CASE Tick
  BY <1>0, <1>1, <1>8 DEF Tick, Trying
<1>9. CASE (\E k \in IPs : Watch(k)) \/ UNCHANGED vars
  BY <1>0, <1>1, <1>9 DEF Watch, Trying, vars
<1>10. QED
  BY <1>3, <1>4, <1>5, <1>6, <1>7, <1>8, <1>9 DEF Next

\* The failures that are recorded during one lockout are at most as many as the
\* requests the server handles at a time: a lockout lets nobody in, so they all
\* come from requests that it found between CanAttempt and Failure (auth.go:
\* 71-109, ratelimit.go:100-132).  The server handles finitely many requests.
THEOREM LockoutHolds ==
    ASSUME IsFiniteSet(Workers)
    PROVE  Spec => []LockoutBounded
<1> DEFINE Inv == \A u \in Users : LockoutOf(u)
<1>1. Init => Inv
  <2>1. Cardinality(Workers) \in Nat
    BY FS_CardinalityType
  <2>2. QED
    BY <2>1 DEF Init, LockoutOf, Locked, NoBackoff
<1>2. IInv /\ Inv /\ [Next]_vars => Inv'
  BY LockoutStep
<1>3. Inv => LockoutBounded
  BY DEF LockoutOf, LockoutBounded
<1> HIDE DEF Inv
<1>4. QED
  BY <1>1, <1>2, <1>3, Invariance, PTL DEF Spec
=============================================================================
