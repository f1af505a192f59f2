------------------------- MODULE DeliveryQueueSafety -------------------------
(* What must hold of the queue whatever the clocks, the scheduler, the mail
   server and the crashes do, and the refinement of JobLedger. *)
EXTENDS DeliveryQueue

(* Past the commit of claim_job and not yet done with the job. *)
Processing(w) == wk[w].pc \in {"claimed", "sending", "stopping", "finalize"}

\* The session has read the row back; att is what fail_job will use.
Loaded(w) == wk[w].pc \in {"sending", "stopping", "finalize"}

(* A worker that passes the ownership check holds the newest claim of the job,
   and the attempts it cached before sending are still the row's: fail_job
   decides on retry and back-off from a cached value without re-reading it
   (delivery_queue.py:232-250). *)
OwnerHoldsLatestClaim ==
  \A w \in Worker : \A j \in Job :
    Processing(w) /\ wk[w].job = j /\ Owns(w, j) =>
      /\ wk[w].claim = row[j].attempts
      /\ Loaded(w) => wk[w].att = row[j].attempts

(* A job is recorded as delivered only if the mail server took the message
   under the very claim that was current: not on the word of a superseded
   worker (complete_job, delivery_queue.py:209-224). *)
DeliveredWasMailed ==
  \A j \in Job : row[j].status = "delivered" => row[j].attempts \in mailed[j]

(* The encrypted snapshot exists exactly as long as the job is pending: a
   retry always finds it, a finished job never keeps it (README.md:190). *)
SnapshotLifetime ==
  \A j \in Job : row[j].payload <=> row[j].status \in Pending

(* A job that is back in the queue has an attempt left, although the attempts
   fail_job compares were read before the SMTP dialogue. *)
RetriesWithinLimit ==
  \A j \in Job : row[j].status = "queued" => row[j].attempts = 0 \/ row[j].attempts < MaxAttempts

(* The delivery log, written in a second transaction by workers that need not
   own the job any more, never reports an end the job has not come to. *)
LogNeverAheadOfJob ==
  \A j \in Job : log[j] # None =>
    /\ log[j].delivery_status = "delivered" =>
         row[j].status \in {"delivered", "purged"} /\ row[j].attempts \in mailed[j]
    /\ log[j].delivery_status = "failed" => row[j].status \in {"failed", "purged"}

(* A claim ends only by the hand of the worker that made it, after its send
   returned and unless it found its ownership lost (README.md:186: completion
   and failure transitions verify the expected worker still owns the claim). *)
HolderEndsClaim ==
  \A j \in Job :
    row[j].status = "processing" /\ row'[j].status # "processing" =>
      \E w \in Worker : /\ wk[w].job = j /\ wk[w].pc = "finalize"
                        /\ row[j].locked_by = w
                        /\ wk[w].claim = row[j].attempts
                        /\ ~wk[w].lost
OnlyHolderEndsClaim == [][HolderEndsClaim]_vars
-----------------------------------------------------------------------------
(* The inductive invariant.  RowOK ties the columns of a row to its status and
   the mail history to its attempts; WorkerOK says what a worker may rely on
   at each pc, given that its row can be taken, finished and purged meanwhile;
   OneSelector is the row lock; LogOK is LogNeverAheadOfJob for one job. *)
RowOK(j) ==
  /\ row[j].status = "absent" => row[j].attempts = 0
  /\ row[j].locked_by # None <=> row[j].status = "processing"
  /\ row[j].payload <=> row[j].status \in Pending
  /\ row[j].terminal_age # None => row[j].status \in Terminal
  /\ mailed[j] \subseteq 1 .. row[j].attempts
  /\ row[j].status = "delivered" => row[j].attempts \in mailed[j]
  /\ row[j].status = "queued" => row[j].attempts = 0 \/ row[j].attempts < MaxAttempts

LogOK(j) ==
  log[j] # None =>
    /\ log[j].delivery_status = "delivered" =>
         row[j].status \in {"delivered", "purged"} /\ row[j].attempts \in mailed[j]
    /\ log[j].delivery_status = "failed" => row[j].status \in {"failed", "purged"}

\* What holds of the worker alone.
ControlOK(w) ==
  /\ Busy(w) => wk[w].job \in Job
  /\ wk[w].hb # "off" => wk[w].pc \in {"sending", "stopping"}
  /\ wk[w].pc \in {"stopping", "finalize"} => wk[w].result \in {"ok", "temp", "perm"}
  /\ wk[w].pc = "logging" => wk[w].result \in {"queued"} \cup Terminal
  /\ wk[w].pc \in {"selected", "claimed", "finalize"} => ~wk[w].lost

\* What holds of the worker and the row of job j, its job.
HoldsOK(w, j) ==
  /\ wk[w].pc = "selected" => row[j].status \in Pending /\ row[j].attempts < MaxClaims
  /\ Processing(w) \/ wk[w].pc = "logging" => wk[w].claim \in 1 .. row[j].attempts
  /\ Processing(w) /\ Owns(w, j) =>
       /\ wk[w].claim = row[j].attempts
       /\ Loaded(w) => wk[w].att = row[j].attempts
  /\ wk[w].pc \in {"stopping", "finalize"} /\ wk[w].result = "ok" => wk[w].claim \in mailed[j]
  /\ wk[w].pc = "logging" /\ wk[w].result = "delivered" =>
       row[j].status \in {"delivered", "purged"} /\ row[j].attempts \in mailed[j]
  /\ wk[w].pc = "logging" /\ wk[w].result = "failed" => row[j].status \in {"failed", "purged"}

WorkerOK(w) ==
  /\ ControlOK(w)
  /\ Busy(w) => HoldsOK(w, wk[w].job)

OneSelector ==
  \A u, w \in Worker :
    wk[u].pc = "selected" /\ wk[w].pc = "selected" /\ wk[u].job = wk[w].job => u = w

IInv == /\ TypeOK
        /\ \A j \in Job : RowOK(j) /\ LogOK(j)
        /\ \A w \in Worker : WorkerOK(w)
        /\ OneSelector
-----------------------------------------------------------------------------
(* The ledger's phase of a row. *)
LedgerPhase == [queued |-> "waiting", processing |-> "held", purged |-> "gone",
                absent |-> "absent", delivered |-> "delivered", failed |-> "failed"]

Ledger == INSTANCE JobLedger
            WITH phase <- [j \in Job |-> LedgerPhase[row[j].status]],
                 epoch <- [j \in Job |-> row[j].attempts]

(* The rows and workers implement the ledger: every transaction of the queue
   is a step of the ledger or invisible to it. *)
LedgerSpec == Ledger!Spec
=============================================================================
