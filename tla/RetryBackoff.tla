---------------------------- MODULE RetryBackoff ----------------------------
(* The delay between two delivery attempts, retry_backoff_seconds of
   app/services/delivery_queue.py.  The base delay and the cap are parameters;
   the deployed values are 15 seconds and one hour.  The exponent is clamped
   to [0, 20] as in the source, so the power is computed for small numbers
   only. *)
EXTENDS Integers

Least(a, b) == IF a <= b THEN a ELSE b
Most(a, b) == IF a >= b THEN a ELSE b

MaxExponent == 20

BackoffExponent(attempts) == Most(0, Least(attempts - 1, MaxExponent))

\* min(cap, base * 2 ** max(0, min(attempts - 1, 20)))
retry_backoff(base, cap, attempts) == Least(cap, base * 2 ^ BackoffExponent(attempts))

retry_backoff_seconds(attempts) == retry_backoff(15, 3600, attempts)
=============================================================================
