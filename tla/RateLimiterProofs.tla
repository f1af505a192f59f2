--------------------------- MODULE RateLimiterProofs ---------------------------
(* The limit holds for any number of clients, any limit and any window, when a
   bucket outlives the requests that may still count in it.  The argument is
   TimelyInv: a bucket that has lost grants belongs to a window so long over
   that no request counts in it any more. *)
EXTENDS RateLimiter, TLAPS

-----------------------------------------------------------------------------
(* Arithmetic. *)

\* A remainder is smaller than the divisor and no larger than the number.
LEMMA Remainder ==
  ASSUME NEW t \in Nat, NEW d \in Nat, d > 0
  PROVE  t % d \in Nat /\ t % d < d /\ t % d <= t
<1>1. t % d \in Nat /\ t % d < d
  OBVIOUS
<1>2. CASE t >= d
  BY <1>1, <1>2
<1>3. CASE t < d
  <2>1. t \div d = 0
    BY <1>3
  <2> QED
    BY <2>1
<1> QED
  BY <1>1, <1>2, <1>3

(* Truncating and adding one is long enough, and a whole unit too long only when
   nothing is truncated. *)
LEMMA TruncatedPlusOne ==
  ASSUME NEW t \in Nat, NEW e \in Nat, NEW d \in Nat, d > 0, t < e
  PROVE  LET s == (e - t) \div d + 1 IN
         /\ s \in Nat
         /\ s >= 1
         /\ t + s * d > e
         /\ IF (e - t) % d = 0 THEN t + s * d - d = e ELSE t + s * d - d < e
<1> DEFINE q == (e - t) \div d
           m == (e - t) % d
<1>1. e - t \in Nat
  OBVIOUS
<1>2. q \in Nat /\ m \in 0 .. d - 1 /\ e - t = d * q + m
  BY <1>1
<1>3. (q + 1) * d = d * q + d
  BY <1>2
<1> HIDE DEF q, m
<1>4. /\ q + 1 \in Nat /\ q + 1 >= 1
      /\ t + (q + 1) * d > e
      /\ IF m = 0 THEN t + (q + 1) * d - d = e ELSE t + (q + 1) * d - d < e
  BY <1>2, <1>3
<1> QED
  BY <1>4 DEF q, m

\* A time lies in its window.
LEMMA InWindow ==
  ASSUME NEW t \in Time
  PROVE  /\ WindowStart(t) \in Time
         /\ WindowEnd(t) \in Nat
         /\ WindowEnd(t) = WindowStart(t) + Length
         /\ WindowStart(t) <= t
         /\ t < WindowEnd(t)
<1>1. Length \in Nat /\ Length > 0
  BY LimiterAssumption DEF Length
<1>2. t \in Nat /\ t <= MaxTime
  BY LimiterAssumption DEF Time
<1> DEFINE q == t % Length
<1>3. q \in Nat /\ q < Length /\ q <= t
  BY <1>1, <1>2, Remainder
<1>4. WindowStart(t) = t - q /\ WindowEnd(t) = WindowStart(t) + Length
  BY DEF WindowStart, WindowEnd
<1> HIDE DEF q
<1>5. WindowStart(t) \in Nat /\ WindowStart(t) <= t /\ t < WindowStart(t) + Length
  BY <1>1, <1>2, <1>3, <1>4
<1> QED
  BY <1>1, <1>2, <1>4, <1>5, LimiterAssumption DEF Time

\* What a refused client is told.
LEMMA RetryAfter ==
  ASSUME NEW t \in Time
  PROVE  /\ retry_after(t) \in Nat
         /\ LeadsOut(t, retry_after(t), WindowEnd(t))
<1> DEFINE e == WindowEnd(t)
           s == (e - t) \div Sub + 1
<1>1. t \in Nat /\ e \in Nat /\ t < e /\ Sub \in Nat /\ Sub > 0
  BY InWindow, LimiterAssumption DEF Time
<1> HIDE DEF e
<1>2. /\ s \in Nat
      /\ s >= 1
      /\ LeadsOut(t, s, e)
  BY <1>1, TruncatedPlusOne DEF LeadsOut
<1>3. retry_after(t) = s
  BY <1>2 DEF retry_after, e
<1> QED
  BY <1>2, <1>3 DEF e
-----------------------------------------------------------------------------
(* Initial states and steps. *)

\* Nothing is counted at first.
LEMMA InitInv == Init => IInv
<1> SUFFICES ASSUME Init PROVE IInv
  OBVIOUS
<1>1. 0 \in Time /\ NoBucket \in Bucket
  BY LimiterAssumption DEF Time, Bucket, NoBucket
<1>2. TypeOK
  BY <1>1 DEF Init, TypeOK, Request
<1>3. \A c \in Client : req[c].pc = "idle"
  BY DEF Init
<1>4. \A s \in Time : granted[s] = 0 /\ bucket[s] = NoBucket /\ bucket[s].count = 0
  BY DEF Init, NoBucket
<1>5. LimiterInv
  BY <1>2, <1>3, <1>4 DEF LimiterInv, RefusedWhenFull, RetryAfterLeadsOut
<1>6. TimelyInv
  BY <1>3, <1>4, LimiterAssumption DEF TimelyInv, WindowLimit
<1> QED
  BY <1>5, <1>6 DEF IInv

\* What counting does to the row and the request of client c.
LEMMA Counted ==
  ASSUME TypeOK, NEW c \in Client, Count(c)
  PROVE  LET t == req[c].at
             s == WindowStart(t) IN
         /\ t \in Time /\ s \in Time
         /\ bucket[s].count \in Nat /\ granted[s] \in Nat
         /\ bucket[s].count + 1 <= MaxCount
         /\ bucket'[s].count = bucket[s].count + 1
         /\ bucket'[s].expires = WindowEnd(t)
         /\ \A u \in Time \ {s} : bucket'[u] = bucket[u] /\ granted'[u] = granted[u]
         /\ \A d \in Client \ {c} : req'[d] = req[d]
         /\ req'[c].at = t
         /\ \/ /\ bucket[s].count + 1 <= Limit
               /\ req'[c].pc = "allowed"
               /\ granted'[s] = granted[s] + 1
            \/ /\ bucket[s].count + 1 > Limit
               /\ req'[c].pc = "refused"
               /\ req'[c].retry = retry_after(t)
               /\ granted'[s] = granted[s]
<1> DEFINE t == req[c].at
           s == WindowStart(t)
<1>1. /\ bucket \in [Time -> Bucket]
      /\ req \in [Client -> Request]
      /\ granted \in [Time -> Nat]
      /\ req[c] \in Request
  BY DEF TypeOK
<1>2. t \in Time
  BY <1>1 DEF Request
<1>3. s \in Time
  BY <1>2, InWindow
<1>4. bucket[s].count \in Nat
  BY <1>1, <1>3, LimiterAssumption DEF Bucket
<1>5. /\ bucket[s].count + 1 <= MaxCount
      /\ bucket' = [bucket EXCEPT ![s] =
                      [count |-> bucket[s].count + 1, expires |-> WindowEnd(t)]]
      /\ \/ /\ Allows(bucket[s].count + 1)
            /\ req' = [req EXCEPT ![c].pc = "allowed"]
            /\ granted' = [granted EXCEPT ![s] = @ + 1]
         \/ /\ ~Allows(bucket[s].count + 1)
            /\ req' = [req EXCEPT ![c].pc = "refused", ![c].retry = retry_after(t)]
            /\ granted' = granted
  BY DEF Count
<1> HIDE DEF s
<1>6. CASE Allows(bucket[s].count + 1)
  <2>1. /\ req' = [req EXCEPT ![c].pc = "allowed"]
        /\ granted' = [granted EXCEPT ![s] = @ + 1]
    BY <1>5, <1>6
  <2>2. /\ req'[c].pc = "allowed"
        /\ req'[c].at = t
        /\ \A d \in Client \ {c} : req'[d] = req[d]
    BY <1>1, <2>1 DEF Request
  <2>3. bucket[s].count + 1 <= Limit
    BY <1>6 DEF Allows
  <2> QED
    BY <1>1, <1>2, <1>3, <1>4, <1>5, <2>1, <2>2, <2>3 DEF s
<1>7. CASE ~Allows(bucket[s].count + 1)
  <2>1. /\ req' = [req EXCEPT ![c].pc = "refused", ![c].retry = retry_after(t)]
        /\ granted' = granted
    BY <1>5, <1>7
  <2>2. /\ req'[c].pc = "refused"
        /\ req'[c].retry = retry_after(t)
        /\ req'[c].at = t
        /\ \A d \in Client \ {c} : req'[d] = req[d]
    BY <1>1, <2>1 DEF Request
  <2>3. bucket[s].count + 1 > Limit
    BY <1>4, <1>7, LimiterAssumption DEF Allows
  <2> QED
    BY <1>1, <1>2, <1>3, <1>4, <1>5, <2>1, <2>2, <2>3 DEF s
<1> QED
  BY <1>6, <1>7

\* A cleanup changes rows to no rows, expired ones only.
LEMMA Cleaned ==
  ASSUME TypeOK, Cleanup
  PROVE  /\ bucket' \in [Time -> Bucket]
         /\ \A s \in Time :
              \/ bucket'[s] = bucket[s]
              \/ bucket'[s] = NoBucket /\ bucket[s] # NoBucket /\ Expired(s)
<1>1. PICK old \in SUBSET {s \in Time : bucket[s] # NoBucket /\ Expired(s)} :
        bucket' = [s \in Time |-> IF s \in old THEN NoBucket ELSE bucket[s]]
  BY DEF Cleanup
<1>2. NoBucket \in Bucket
  BY LimiterAssumption DEF NoBucket, Bucket
<1> QED
  BY <1>1, <1>2 DEF TypeOK

\* Every step keeps the types.
LEMMA TypeStep ==
  ASSUME TypeOK, [Next]_vars
  PROVE  TypeOK'
<1>1. CASE Cleanup
  BY <1>1, Cleaned DEF TypeOK, Cleanup
<1>2. ASSUME NEW c \in Client, Read(c)
      PROVE  TypeOK'
  <2>1. [pc |-> "counting", at |-> now, retry |-> 0] \in Request
    BY DEF TypeOK, Request
  <2> QED
    BY <1>2, <2>1 DEF TypeOK, Read
<1>3. ASSUME NEW c \in Client, Count(c)
      PROVE  TypeOK'
  <2> DEFINE t == req[c].at
             s == WindowStart(t)
  <2>1. t \in Time /\ s \in Time /\ bucket[s].count \in Nat /\ bucket[s].count + 1 <= MaxCount
    BY <1>3, Counted
  <2>2. [count |-> bucket[s].count + 1, expires |-> WindowEnd(t)] \in Bucket
    BY <2>1, InWindow, LimiterAssumption DEF Bucket
  <2>3. bucket' \in [Time -> Bucket]
    BY <1>3, <2>1, <2>2 DEF Count, TypeOK
  <2>4. req' \in [Client -> Request]
    BY <1>3, <2>1, RetryAfter DEF Count, TypeOK, Request
  <2>5. granted' \in [Time -> Nat]
    BY <1>3, <2>1 DEF Count, TypeOK
  <2>6. now' \in Time
    BY <1>3 DEF Count, TypeOK
  <2> QED
    BY <2>3, <2>4, <2>5, <2>6 DEF TypeOK
<1>4. CASE Tick
  BY <1>4, LimiterAssumption DEF TypeOK, Tick, Time
<1>5. CASE UNCHANGED vars
  BY <1>5 DEF TypeOK, vars
<1> QED
  BY <1>1, <1>2, <1>3, <1>4, <1>5 DEF Next, Step

\* A request that reads the clock is neither counted nor refused yet.
LEMMA ReadOnly ==
  ASSUME TypeOK, NEW c \in Client, Read(c)
  PROVE  /\ UNCHANGED <<now, bucket, granted>>
         /\ req'[c].pc = "counting"
         /\ req'[c].at = now
         /\ \A d \in Client \ {c} : req'[d] = req[d]
BY DEF TypeOK, Read

\* Counts, refusals and Retry-After, under any delays.
LEMMA LimiterStep ==
  ASSUME LimiterInv, [Next]_vars
  PROVE  LimiterInv'
<1> USE DEF LimiterInv
<1>1. TypeOK'
  BY TypeStep
<1>2. CASE Cleanup
  <2>1. UNCHANGED <<now, req, granted>>
    BY <1>2 DEF Cleanup
  <2>2. ASSUME NEW s \in Time
        PROVE  granted'[s] >= bucket'[s].count \/ granted'[s] >= Limit
    <3>1. bucket'[s] = bucket[s] \/ bucket'[s] = NoBucket
      BY <1>2, Cleaned
    <3>2. granted[s] \in Nat
      BY DEF TypeOK
    <3> QED
      BY <2>1, <3>1, <3>2 DEF NoBucket
  <2>3. RefusedWhenFull' /\ RetryAfterLeadsOut'
    BY <2>1 DEF RefusedWhenFull, RetryAfterLeadsOut, LeadsOut, WindowEnd, WindowStart
  <2> QED
    BY <1>1, <2>2, <2>3
<1>3. ASSUME NEW c \in Client, Read(c)
      PROVE  LimiterInv'
  <2>1. /\ UNCHANGED <<now, bucket, granted>>
        /\ req'[c].pc = "counting"
        /\ \A d \in Client \ {c} : req'[d] = req[d]
    BY <1>3, ReadOnly
  <2>2. RefusedWhenFull' /\ RetryAfterLeadsOut'
    BY <2>1 DEF RefusedWhenFull, RetryAfterLeadsOut, LeadsOut, WindowEnd, WindowStart
  <2> QED
    BY <1>1, <2>1, <2>2
<1>4. ASSUME NEW c \in Client, Count(c)
      PROVE  LimiterInv'
  <2> DEFINE t == req[c].at
             w == WindowStart(t)
  <2>1. /\ t \in Time /\ w \in Time
        /\ bucket[w].count \in Nat /\ granted[w] \in Nat
        /\ bucket'[w].count = bucket[w].count + 1
        /\ \A u \in Time \ {w} : bucket'[u] = bucket[u] /\ granted'[u] = granted[u]
        /\ \A d \in Client \ {c} : req'[d] = req[d]
        /\ req'[c].at = t
        /\ \/ /\ bucket[w].count + 1 <= Limit
              /\ req'[c].pc = "allowed"
              /\ granted'[w] = granted[w] + 1
           \/ /\ bucket[w].count + 1 > Limit
              /\ req'[c].pc = "refused"
              /\ req'[c].retry = retry_after(t)
              /\ granted'[w] = granted[w]
    BY <1>4, Counted
  <2>2. Limit \in Nat
    BY LimiterAssumption
  <2>3. granted[w] >= bucket[w].count \/ granted[w] >= Limit
    BY <2>1
  <2> HIDE DEF t, w
  <2>4. granted'[w] >= bucket'[w].count \/ granted'[w] >= Limit
    BY <2>1, <2>2, <2>3
  <2>5. ASSUME NEW s \in Time
        PROVE  granted'[s] >= bucket'[s].count \/ granted'[s] >= Limit
    BY <2>1, <2>4
  <2>6. req'[c].pc = "refused" => granted'[w] >= Limit
    BY <2>1, <2>2, <2>3
  <2>7. \A s \in Time : granted'[s] >= granted[s]
    <3>1. \A s \in Time : granted[s] \in Nat
      BY DEF TypeOK
    <3> QED
      BY <2>1, <3>1
  <2>8. RefusedWhenFull'
    <3> SUFFICES ASSUME NEW d \in Client, req'[d].pc = "refused"
                 PROVE  granted'[WindowStart(req'[d].at)] >= Limit
      BY DEF RefusedWhenFull, WindowStart
    <3>1. CASE d = c
      BY <2>1, <2>6, <3>1 DEF w
    <3>2. CASE d # c
      <4>1. req'[d] = req[d] /\ req[d].at \in Time
        BY <2>1, <3>2 DEF TypeOK, Request
      <4> DEFINE u == WindowStart(req[d].at)
      <4>2. u \in Time /\ granted[u] >= Limit
        BY <4>1, InWindow DEF RefusedWhenFull
      <4> HIDE DEF u
      <4>3. granted'[u] \in Nat /\ granted[u] \in Nat
        BY <1>1, <4>2 DEF TypeOK
      <4>4. granted'[u] >= Limit
        BY <2>2, <2>7, <4>2, <4>3
      <4> QED
        BY <4>1, <4>4 DEF u
    <3> QED
      BY <3>1, <3>2
  <2>9. RetryAfterLeadsOut'
    <3> SUFFICES ASSUME NEW d \in Client, req'[d].pc = "refused"
                 PROVE  LeadsOut(req'[d].at, req'[d].retry, WindowEnd(req'[d].at))
      BY DEF RetryAfterLeadsOut, LeadsOut, WindowEnd, WindowStart
    <3>1. CASE d = c
      <4>1. req'[d].at = t /\ req'[d].retry = retry_after(t)
        BY <2>1, <3>1
      <4>2. LeadsOut(t, retry_after(t), WindowEnd(t))
        BY <2>1, RetryAfter
      <4> QED
        BY ONLY <4>1, <4>2
    <3>2. CASE d # c
      BY <2>1, <3>2 DEF RetryAfterLeadsOut
    <3> QED
      BY <3>1, <3>2
  <2> QED
    BY <1>1, <2>5, <2>8, <2>9
<1>5. CASE Tick \/ UNCHANGED vars
  <2>1. UNCHANGED <<bucket, req, granted>>
    BY <1>5 DEF Tick, vars
  <2> QED
    BY <1>1, <2>1 DEF RefusedWhenFull, RetryAfterLeadsOut, LeadsOut, WindowEnd, WindowStart
<1> QED
  BY <1>2, <1>3, <1>4, <1>5 DEF Next, Step

\* Grants and counts, when requests are on time.
LEMMA TimelyStep ==
  ASSUME IInv, Delay <= Retention + 1, [Step \/ TimelyTick]_vars
  PROVE  TimelyInv'
<1> USE DEF IInv, LimiterInv, TimelyInv
<1>0. /\ now \in Nat /\ Length \in Nat /\ Retention \in Nat /\ Delay \in Nat /\ Limit \in Nat
      /\ \A s \in Time : s \in Nat /\ granted[s] \in Nat /\ bucket[s].count \in Nat
      /\ \A c \in Client : req[c].at \in Time
  BY LimiterAssumption DEF TypeOK, Time, Length, Bucket, Request
<1>1. CASE Cleanup
  <2>1. UNCHANGED <<now, req, granted>>
    BY <1>1 DEF Cleanup
  <2>2. ASSUME NEW s \in Time
        PROVE  /\ bucket'[s] # NoBucket => bucket'[s].expires = s + Length
               /\ granted'[s] <= bucket'[s].count \/ s + Length + Retention < now'
    <3>1. CASE bucket'[s] = bucket[s]
      BY <2>1, <3>1
    <3>2. CASE bucket'[s] = NoBucket /\ bucket[s] # NoBucket /\ Expired(s)
      <4>1. s + Length + Retention < now
        BY <1>0, <3>2 DEF Expired
      <4> QED
        BY <2>1, <3>2, <4>1
    <3> QED
      BY <1>1, <3>1, <3>2, Cleaned
  <2>3. WindowLimit'
    BY <2>1 DEF WindowLimit
  <2> QED
    BY <2>1, <2>2, <2>3
<1>2. ASSUME NEW c \in Client, Read(c)
      PROVE  TimelyInv'
  <2>1. /\ UNCHANGED <<now, bucket, granted>>
        /\ req'[c].at = now
        /\ \A d \in Client \ {c} : req'[d] = req[d]
    BY <1>2, ReadOnly
  <2>2. WindowLimit'
    BY <2>1 DEF WindowLimit
  <2>3. \A d \in Client : req'[d].pc = "counting" => now' - req'[d].at <= Delay
    BY <1>0, <2>1
  <2> QED
    BY <2>1, <2>2, <2>3
<1>3. ASSUME NEW c \in Client, Count(c)
      PROVE  TimelyInv'
  <2> DEFINE t == req[c].at
             w == WindowStart(t)
  <2>1. /\ t \in Time /\ w \in Time
        /\ bucket'[w].count = bucket[w].count + 1
        /\ bucket'[w].expires = WindowEnd(t)
        /\ \A u \in Time \ {w} : bucket'[u] = bucket[u] /\ granted'[u] = granted[u]
        /\ \A d \in Client \ {c} : req'[d] = req[d]
        /\ req'[c].pc # "counting"
        /\ \/ /\ bucket[w].count + 1 <= Limit
              /\ granted'[w] = granted[w] + 1
           \/ granted'[w] = granted[w]
    BY <1>3, Counted
  <2>2. now' = now
    BY <1>3 DEF Count
  <2>3. WindowEnd(t) = w + Length /\ t < w + Length
    BY <2>1, InWindow
  <2>4. now - t <= Delay
    BY <1>3 DEF Count
  <2> HIDE DEF t, w
  <2>5. ~(w + Length + Retention < now)
    BY <1>0, <2>1, <2>3, <2>4
  <2>6. granted[w] <= bucket[w].count
    BY <2>1, <2>5
  <2>7. granted'[w] <= bucket'[w].count
    BY <1>0, <2>1, <2>6
  <2>8. granted'[w] <= Limit
    BY <1>0, <2>1, <2>6 DEF WindowLimit
  <2>9. WindowLimit'
    BY <2>1, <2>8 DEF WindowLimit
  <2>10. \A d \in Client : req'[d].pc = "counting" => now' - req'[d].at <= Delay
    BY <2>1, <2>2
  <2>11. ASSUME NEW s \in Time
         PROVE  /\ bucket'[s] # NoBucket => bucket'[s].expires = s + Length
                /\ granted'[s] <= bucket'[s].count \/ s + Length + Retention < now'
    BY <2>1, <2>2, <2>3, <2>7
  <2> QED
    BY <2>9, <2>10, <2>11
<1>4. CASE TimelyTick
  <2>1. /\ now' = now + 1
        /\ UNCHANGED <<bucket, req, granted>>
        /\ \A c \in Client : req[c].pc = "counting" => now - req[c].at < Delay
    BY <1>4 DEF TimelyTick, Tick, OnTime
  <2>2. ASSUME NEW c \in Client, req'[c].pc = "counting"
        PROVE  now' - req'[c].at <= Delay
    <3>1. now - req[c].at < Delay /\ req[c].at \in Nat
      BY <1>0, <2>1, <2>2 DEF Time
    <3> QED
      BY <1>0, <2>1, <3>1
  <2>3. \A s \in Time : granted'[s] <= bucket'[s].count \/ s + Length + Retention < now'
    BY <1>0, <2>1
  <2>4. WindowLimit'
    BY <2>1 DEF WindowLimit
  <2> QED
    BY <2>1, <2>2, <2>3, <2>4
<1>5. CASE UNCHANGED vars
  BY <1>5 DEF vars, WindowLimit
<1> QED
  BY <1>1, <1>2, <1>3, <1>4, <1>5 DEF Step
-----------------------------------------------------------------------------
(* The invariant of the limiter when requests may be held up for ever. *)
THEOREM LimiterInvariance == Spec => []LimiterInv
<1>1. Init => LimiterInv
  BY InitInv DEF IInv
<1>2. LimiterInv /\ [Next]_vars => LimiterInv'
  BY LimiterStep
<1> QED
  BY <1>1, <1>2, PTL DEF Spec

(* Variables keep their types. *)
THEOREM TypeCorrect == Spec => []TypeOK
<1>1. LimiterInv => TypeOK
  BY DEF LimiterInv
<1> QED
  BY LimiterInvariance, <1>1, PTL

(* Nobody is refused before the limit is used up (rate_limit.py:65). *)
THEOREM RefusalsAreDue == Spec => []RefusedWhenFull
<1>1. LimiterInv => RefusedWhenFull
  BY DEF LimiterInv
<1> QED
  BY LimiterInvariance, <1>1, PTL

(* Retry-After leads out of the window for every window length and clock
   resolution, and no further than it says (rate_limit.py:64). *)
THEOREM RetryAfterIsRight == Spec => []RetryAfterLeadsOut
<1>1. LimiterInv => RetryAfterLeadsOut
  BY DEF LimiterInv
<1> QED
  BY LimiterInvariance, <1>1, PTL

(* The invariant of the limiter when buckets are kept for as long as requests can be
   held up (rate_limit.py:38, retention.py:33). *)
THEOREM TimelyLimiterInvariance ==
  ASSUME Delay <= Retention + 1 PROVE TimelySpec => []IInv
<1>1. IInv /\ [Step \/ TimelyTick]_vars => IInv'
  <2> SUFFICES ASSUME IInv, [Step \/ TimelyTick]_vars PROVE IInv'
    OBVIOUS
  <2>1. [Next]_vars
    BY DEF Next, TimelyTick
  <2>2. LimiterInv'
    BY <2>1, LimiterStep DEF IInv
  <2>3. TimelyInv'
    BY TimelyStep
  <2> QED
    BY <2>2, <2>3 DEF IInv
<1> QED
  BY InitInv, <1>1, PTL DEF TimelySpec

(* The limit of a window holds across processes then, whatever bucket the cleanup
   deletes and when (rate_limit.py:65). *)
THEOREM LimitIsShared ==
  ASSUME Delay <= Retention + 1 PROVE TimelySpec => []WindowLimit
<1>1. IInv => WindowLimit
  BY DEF IInv, TimelyInv
<1> QED
  BY TimelyLimiterInvariance, <1>1, PTL
=============================================================================
