--------------------------- MODULE MCDeliveryQueue ---------------------------
(* Instances of the queue for TLC.  Delays are in ticks; Backoff has the shape
   of retry_backoff_seconds with a base of one tick. *)
EXTENDS TimelyDelivery, RetryBackoff, TLC

CONSTANTS w1, w2, j1, j2

OneJob == {j1}
TwoJobs == {j1, j2}
TwoWorkers == {w1, w2}

NoFaults == {}
AllFaults == Fault

ShortBackoff(attempts) == retry_backoff(1, 2, attempts)
LongBackoff(attempts) == retry_backoff(2, 3, attempts)

Symmetry == Permutations(Worker) \cup Permutations(Job)
=============================================================================
