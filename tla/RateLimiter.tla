----------------------------- MODULE RateLimiter -----------------------------
(* The fixed-window limiter of submissions and logins (app/services/rate_limit.py)
   for one scope and one client address; buckets of other scopes or addresses have
   other keys and never meet these.  Requests are handled by several processes.

   Atomicity.  check_rate_limit reads the clock and then counts by one upsert, in
   the path for PostgreSQL; between the two the process may be held up.  The
   cleanup deletes expired buckets in one statement.

   Time is counted in ticks, Sub of them in a second, so that the truncations
   of the code can be seen; windows start at whole seconds. *)
EXTENDS Integers

CONSTANTS
  Client,      \* requests handled at the same time
  Limit,       \* requests allowed in a window
  Window,      \* window length in seconds
  Sub,         \* ticks in a second
  Retention,   \* RATE_LIMIT_RETENTION_HOURS, in ticks
  Delay,       \* TimelySpec only: ticks from reading the clock to the upsert
  MaxTime,     \* bound: the clock stops there
  MaxCount     \* bound: requests counted in a bucket

ASSUME LimiterAssumption == /\ Limit \in Nat \ {0}
                            /\ Window \in Nat \ {0}
                            /\ Sub \in Nat \ {0}
                            /\ Retention \in Nat
                            /\ Delay \in Nat
                            /\ MaxTime \in Nat
                            /\ MaxCount \in Nat

VARIABLES
  now,
  bucket,     \* bucket[s]: the row of rate_limit_buckets whose window starts at s
  req,        \* req[c]: a request
  granted     \* history: granted[s] requests of window s were let through

vars == <<now, bucket, req, granted>>
-----------------------------------------------------------------------------
Time == 0 .. MaxTime
Length == Window * Sub

NoBucket == [count |-> 0, expires |-> 0]      \* a row has a count of at least 1
Bucket == [count : 0 .. MaxCount, expires : Nat]

Request == [pc : {"idle", "counting", "allowed", "refused"},
            at : Time,        \* the clock as the request read it
            retry : Nat]      \* the Retry-After it was answered, in seconds

TypeOK == /\ now \in Time
          /\ bucket \in [Time -> Bucket]
          /\ req \in [Client -> Request]
          /\ granted \in [Time -> Nat]

Init == /\ now = 0
        /\ bucket = [s \in Time |-> NoBucket]
        /\ req = [c \in Client |-> [pc |-> "idle", at |-> 0, retry |-> 0]]
        /\ granted = [s \in Time |-> 0]
-----------------------------------------------------------------------------
\* Wrong variant: windows open at the first request and slide with it.
OwnWindow(t) == t - (t % Sub)

\* _window: whole seconds, rounded down to a multiple of the window length.
WindowStart(t) == t - (t % Length)
WindowEnd(t) == WindowStart(t) + Length

\* Wrong variant: the rest of the window in whole seconds.
RestOfWindow(t) == IF WindowEnd(t) - t < Sub THEN 1 ELSE (WindowEnd(t) - t) \div Sub

\* max(1, int((end - now).total_seconds()) + 1)
retry_after(t) == LET seconds == (WindowEnd(t) - t) \div Sub + 1
                  IN IF seconds > 1 THEN seconds ELSE 1

\* Wrong variants: an off-by-one in either direction.
AllowsOneMore(count) == count <= Limit + 1
AllowsOneLess(count) == count < Limit

Allows(count) == count <= Limit

(* A request arrives and reads the clock. *)
Read(c) ==
  /\ req[c].pc # "counting"
  /\ req' = [req EXCEPT ![c] = [pc |-> "counting", at |-> now, retry |-> 0]]
  /\ UNCHANGED <<now, bucket, granted>>

(* INSERT ... ON CONFLICT DO UPDATE ... RETURNING request_count, committed. *)
Count(c) ==
  LET t == req[c].at
      s == WindowStart(t)
      count == bucket[s].count + 1 IN
  /\ req[c].pc = "counting"
  /\ count <= MaxCount     \* bound
  /\ bucket' = [bucket EXCEPT ![s] = [count |-> count, expires |-> WindowEnd(t)]]
  /\ \/ /\ Allows(count)
        /\ req' = [req EXCEPT ![c].pc = "allowed"]
        /\ granted' = [granted EXCEPT ![s] = @ + 1]
     \/ /\ ~Allows(count)
        /\ req' = [req EXCEPT ![c].pc = "refused", ![c].retry = retry_after(t)]
        /\ UNCHANGED granted
  /\ UNCHANGED now

\* Wrong variant: the bucket may go when its window has begun to age.
ExpiredHalfway(s) == bucket[s].expires - Sub < now - Retention

Expired(s) == bucket[s].expires < now - Retention

(* cleanup_expired_data, which may use a clock it read a while ago and then
   deletes less. *)
Cleanup ==
  /\ \E old \in SUBSET {s \in Time : bucket[s] # NoBucket /\ Expired(s)} :
       bucket' = [s \in Time |-> IF s \in old THEN NoBucket ELSE bucket[s]]
  /\ UNCHANGED <<now, req, granted>>

Tick == /\ now < MaxTime     \* bound
        /\ now' = now + 1
        /\ UNCHANGED <<bucket, req, granted>>

Step == Cleanup \/ \E c \in Client : Read(c) \/ Count(c)

Next == Step \/ Tick

Spec == Init /\ [][Next]_vars

(* Every request counts within Delay ticks of reading the clock. *)
OnTime(c) == req[c].pc = "counting" => now - req[c].at < Delay

TimelyTick == (\A c \in Client : OnTime(c)) /\ Tick

TimelySpec == Init /\ [][Step \/ TimelyTick]_vars
-----------------------------------------------------------------------------
(* No window lets more than Limit requests through, whatever processes they
   come to (README.md:200: one race-safe limit), as long as no request takes longer
   to count than an expired bucket is kept. *)
WindowLimit == \A s \in Time : granted[s] <= Limit

(* A request is refused only if its window has let Limit requests through. *)
RefusedWhenFull ==
  \A c \in Client : req[c].pc = "refused" => granted[WindowStart(req[c].at)] >= Limit

\* A client that waits so many seconds from t is past the end of the window.
LeadsOut(t, seconds, end) ==
  LET back == t + seconds * Sub IN
  /\ back > end
  /\ IF (end - t) % Sub = 0 THEN back - Sub = end ELSE back - Sub < end

(* Who was refused and waits as told meets another window, whatever fraction
   of a second it asked at.  No shorter wait in whole seconds would do, unless it
   asked whole seconds before the end: then it waits one second more than it
   would have to (rate_limit.py:64). *)
RetryAfterLeadsOut ==
  \A c \in Client : req[c].pc = "refused" =>
    LeadsOut(req[c].at, req[c].retry, WindowEnd(req[c].at))

(* What the properties rest on.  Of Spec: a row never counts more than was let
   through, up to the limit. *)
LimiterInv ==
  /\ TypeOK
  /\ \A s \in Time : granted[s] >= bucket[s].count \/ granted[s] >= Limit
  /\ RefusedWhenFull
  /\ RetryAfterLeadsOut

(* Of TimelySpec: the row of a window that requests may still count in has
   counted all that were let through. *)
TimelyInv ==
  /\ \A c \in Client : req[c].pc = "counting" => now - req[c].at <= Delay
  /\ \A s \in Time : bucket[s] # NoBucket => bucket[s].expires = s + Length
  /\ \A s \in Time : granted[s] <= bucket[s].count \/ s + Length + Retention < now
  /\ WindowLimit

IInv == LimiterInv /\ TimelyInv
=============================================================================
