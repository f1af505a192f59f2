---------------------------- MODULE DeliveryQueue ----------------------------
(* The e-mail queue of Billson's Forms: rows of email_delivery_jobs and of
   endpoint_delivery_logs, the worker processes that claim and deliver jobs
   (app/services/delivery_queue.py, app/services/worker.py), the heartbeat task
   each worker runs while its SMTP thread is sending, and the cleanup process
   (app/services/retention.py).

   Atomicity.  One action is one database transaction or one resumption of
   the worker's event loop.  claim_job is three steps: the SELECT ... FOR UPDATE
   SKIP LOCKED that takes the row lock, the commit, and the refresh that reads
   the row again without a lock.  complete_job, refresh_job_heartbeat and
   fail_job lock the row in their first statement and commit before they
   return, so each is one action; while another transaction holds the row lock
   they wait (a guard), where the claiming SELECT skips the row.

   Time.  A timestamp column is kept as its distance from the present, which
   Tick changes for every row and worker at once: locked_age is now - locked_at,
   available_in is available_at - now, terminal_age is now - terminal_at.  The
   distances saturate where no comparison can tell them apart any more, except
   that jobs overdue by Horizon or more are not ordered by available_at.  All
   hosts share one clock.

   History.  claim and mailed are history variables: the program has no claim
   number and does not know what the mail server accepted. *)
EXTENDS Integers

CONSTANTS
  Job,                \* jobs that can be enqueued
  Worker,             \* worker processes
  None,               \* SQL NULL, Python None
  MaxAttempts,        \* QUEUE_MAX_ATTEMPTS, copied to max_attempts of every row
  LockTimeout,        \* QUEUE_LOCK_TIMEOUT_SECONDS, in ticks
  HeartbeatInterval,  \* QUEUE_HEARTBEAT_SECONDS, in ticks
  TerminalRetention,  \* QUEUE_TERMINAL_RETENTION_DAYS, in ticks
  Backoff(_),         \* retry_backoff_seconds, in ticks
  Latency,            \* TimelySpec only: ticks a busy worker takes for a step
  Horizon,            \* bound: available_in is not counted below -Horizon
  MaxClaims,          \* bound: a job is claimed at most this often
  MaxCrashes,         \* bound: worker crashes in a behaviour
  Faults              \* subset of Fault: what may go wrong besides crashes

Fault == {"hberror",     \* a heartbeat transaction raises
          "ambiguous",   \* the SMTP dialogue fails after the message was accepted
          "decode",      \* a stored snapshot does not decrypt or validate
          "logpurge"}    \* the cleanup finds log rows past their retention

ASSUME NoneAssumption == None \notin Job /\ None \notin Worker /\ None \notin Int
ASSUME MaxAttemptsAssumption == MaxAttempts \in Nat
\* positive_values and validate_queue_timing of app/core/config.py
ASSUME TimingAssumption == /\ LockTimeout \in Nat
                           /\ HeartbeatInterval \in Nat \ {0}
                           /\ HeartbeatInterval < LockTimeout
                           /\ TerminalRetention \in Nat
                           /\ Latency \in Nat
ASSUME BoundAssumption == /\ Horizon \in Nat
                          /\ MaxClaims \in Nat
                          /\ MaxCrashes \in Nat
ASSUME BackoffAssumption == \A a \in 0 .. MaxClaims : Backoff(a) \in Nat
ASSUME FaultAssumption == Faults \subseteq Fault

VARIABLES
  row,      \* row[j]: the row of email_delivery_jobs
  log,      \* log[j]: the row of endpoint_delivery_logs written with the job
  mailed,   \* mailed[j]: the claims under which the mail server took the message
  wk,       \* wk[w]: what worker process w is doing
  crashes   \* crashes so far

vars == <<row, log, mailed, wk, crashes>>
-----------------------------------------------------------------------------
Pending == {"queued", "processing"}
Terminal == {"delivered", "failed"}
Status == {"absent", "purged"} \cup Pending \cup Terminal

Row == [status : Status,
        attempts : 0 .. MaxClaims,
        payload : BOOLEAN,              \* encrypted_payload is present
        available_in : Int,
        locked_age : Nat \cup {None},
        locked_by : Worker \cup {None},
        terminal_age : Nat \cup {None}]

Log == [success : BOOLEAN, delivery_status : {"queued"} \cup Terminal]

\* NULL is no row.
ASSUME NullAssumption == None \notin Log

(* pc of a worker:
     idle       asleep or between two calls of process_one
     selected   claim_job holds the row lock, not committed
     claimed    claim_job has committed, the row not read back yet
     sending    send_submission_email runs in its thread
     stopping   stop_heartbeat waits for the heartbeat task
     finalize   about to call complete_job or fail_job
     logging    about to call update_delivery_log
     down       the process is gone
   hb, the heartbeat task: off, wait (asleep), inflight (its transaction is
   running), done (returned after a refresh that failed). *)
WorkerState ==
  [pc : {"idle", "selected", "claimed", "sending", "stopping", "finalize", "logging", "down"},
   job : Job \cup {None},
   claim : 0 .. MaxClaims,              \* history: the attempt this claim made
   att : 0 .. MaxClaims,                \* job.attempts as the session cached it
   hb : {"off", "wait", "inflight", "done"},
   lost : BOOLEAN,                      \* ownership_lost is set
   timer : Nat,                         \* ticks since the worker last read the clock
   result : {"none", "ok", "temp", "perm", "queued"} \cup Terminal]

Idle == [pc |-> "idle", job |-> None, claim |-> 0, att |-> 0, hb |-> "off",
         lost |-> FALSE, timer |-> 0, result |-> "none"]

Down == [Idle EXCEPT !.pc = "down"]

AbsentRow == [status |-> "absent", attempts |-> 0, payload |-> FALSE, available_in |-> 0,
              locked_age |-> None, locked_by |-> None, terminal_age |-> None]

TypeOK == /\ row \in [Job -> Row]
          /\ log \in [Job -> Log \cup {None}]
          /\ mailed \in [Job -> SUBSET (1 .. MaxClaims)]
          /\ wk \in [Worker -> WorkerState]
          /\ crashes \in 0 .. MaxCrashes

Init == /\ row = [j \in Job |-> AbsentRow]
        /\ log = [j \in Job |-> None]
        /\ mailed = [j \in Job |-> {}]
        /\ wk = [w \in Worker |-> Idle]
        /\ crashes = 0
-----------------------------------------------------------------------------
Becomes(w, state) == wk' = [wk EXCEPT ![w] = state]
RowBecomes(j, r) == row' = [row EXCEPT ![j] = r]

Busy(w) == wk[w].pc \notin {"idle", "down"}

\* Wrong variants of the ownership check: without locked_by, or the id alone.
OwnsByStatus(w, j) == row[j].status = "processing"
OwnsById(w, j) == row[j].status \in Pending \cup Terminal

\* The UPDATE and SELECT conditions of the owner: id, status and locked_by.
Owns(w, j) == row[j].status = "processing" /\ row[j].locked_by = w

RowLocked(j) == \E w \in Worker : wk[w].pc = "selected" /\ wk[w].job = j

\* Wrong variant: the heartbeat interval taken for the lock timeout.
StaleEarly(j) == row[j].locked_age # None /\ row[j].locked_age > HeartbeatInterval

Stale(j) == \/ row[j].locked_age = None
            \/ row[j].locked_age > LockTimeout

\* Wrong variant: abandoned jobs are not looked for.
ClaimableQueued(j) == /\ row[j].available_in <= 0
                      /\ row[j].status = "queued"
                      /\ ~RowLocked(j)
                      /\ row[j].attempts < MaxClaims

\* The WHERE clause of claim_job; a locked row is skipped.
Claimable(j) == /\ row[j].available_in <= 0
                /\ \/ row[j].status = "queued"
                   \/ row[j].status = "processing" /\ Stale(j)
                /\ ~RowLocked(j)
                /\ row[j].attempts < MaxClaims     \* bound

NewRow == [AbsentRow EXCEPT !.status = "queued", !.payload = TRUE]

\* attempts is history once the row is gone.
PurgedRow(r) == [AbsentRow EXCEPT !.status = "purged", !.attempts = r.attempts]

Claimed(r, w, age) ==
  [r EXCEPT !.status = "processing", !.attempts = @ + 1, !.locked_age = age, !.locked_by = w]

\* Wrong variants: the snapshot survives, the retry has no delay.
TerminatedKeepingSnapshot(r, status) ==
  [r EXCEPT !.status = status, !.available_in = 0, !.terminal_age = 0,
            !.locked_age = None, !.locked_by = None]
ReleasedNow(r, delay) ==
  [r EXCEPT !.status = "queued", !.available_in = 0, !.locked_age = None, !.locked_by = None]

Terminated(r, status) ==
  [r EXCEPT !.status = status, !.payload = FALSE, !.available_in = 0, !.terminal_age = 0,
            !.locked_age = None, !.locked_by = None]

Released(r, delay) ==
  [r EXCEPT !.status = "queued", !.available_in = delay,
            !.locked_age = None, !.locked_by = None]
-----------------------------------------------------------------------------
(* submit_form: the job and its delivery log are inserted in one transaction. *)
Enqueue(j) ==
  /\ row[j].status = "absent"
  /\ RowBecomes(j, NewRow)
  /\ log' = [log EXCEPT ![j] = [success |-> TRUE, delivery_status |-> "queued"]]
  /\ UNCHANGED <<mailed, wk, crashes>>

(* claim_job up to the SELECT: the oldest claimable row, ties left open. *)
ClaimSelect(w) ==
  /\ wk[w].pc = "idle"
  /\ \E j \in Job :
       /\ Claimable(j)
       /\ \A k \in Job : Claimable(k) => row[j].available_in <= row[k].available_in
       /\ Becomes(w, [Idle EXCEPT !.pc = "selected", !.job = j])
  /\ UNCHANGED <<row, log, mailed, crashes>>

(* claim_job's commit; locked_at is the time read before the SELECT. *)
ClaimCommit(w) ==
  LET j == wk[w].job IN
  /\ wk[w].pc = "selected"
  /\ RowBecomes(j, Claimed(row[j], w, wk[w].timer))
  /\ Becomes(w, [wk[w] EXCEPT !.pc = "claimed", !.claim = row[j].attempts + 1])
  /\ UNCHANGED <<log, mailed, crashes>>

(* db.refresh raises when the row has been purged meanwhile: nothing catches
   it and the process ends. *)
RefreshFails(w) ==
  /\ wk[w].pc = "claimed"
  /\ row[wk[w].job].status = "purged"
  /\ Becomes(w, Down)
  /\ UNCHANGED <<row, log, mailed, crashes>>

\* decrypt_job_snapshot raises: the payload read back is gone, or unreadable.
DecryptFails(j) == ~row[j].payload \/ "decode" \in Faults

(* Without a snapshot fail_job with retryable=False is next, no heartbeat. *)
SnapshotInvalid(w) ==
  LET j == wk[w].job IN
  /\ wk[w].pc = "claimed"
  /\ row[j].status # "purged"
  /\ DecryptFails(j)
  /\ Becomes(w, [wk[w] EXCEPT !.pc = "finalize", !.att = row[j].attempts, !.result = "perm"])
  /\ UNCHANGED <<row, log, mailed, crashes>>

(* The SMTP thread and the heartbeat task start; the first heartbeat is due. *)
StartSending(w) ==
  LET j == wk[w].job IN
  /\ wk[w].pc = "claimed"
  /\ row[j].payload
  /\ Becomes(w, [wk[w] EXCEPT !.pc = "sending", !.att = row[j].attempts,
                              !.hb = "wait", !.timer = HeartbeatInterval])
  /\ UNCHANGED <<row, log, mailed, crashes>>
-----------------------------------------------------------------------------
(* The heartbeat task wakes up, finds stop_event unset and reads the clock. *)
HeartbeatStart(w) ==
  /\ wk[w].pc = "sending"
  /\ wk[w].hb = "wait"
  /\ wk[w].timer >= HeartbeatInterval
  /\ Becomes(w, [wk[w] EXCEPT !.hb = "inflight", !.timer = 0])
  /\ UNCHANGED <<row, log, mailed, crashes>>

\* The heartbeat task sets ownership_lost and returns.
GivesUp(state) == [state EXCEPT !.hb = "done", !.timer = 0, !.lost = TRUE]

(* refresh_job_heartbeat: one UPDATE under the owner's conditions. *)
HeartbeatRefresh(w) ==
  LET j == wk[w].job IN
  /\ wk[w].hb = "inflight"
  /\ ~RowLocked(j)
  /\ \/ /\ Owns(w, j)
        /\ RowBecomes(j, [row[j] EXCEPT !.locked_age = wk[w].timer])
        /\ Becomes(w, [wk[w] EXCEPT !.hb = "wait", !.timer = 0])
     \/ /\ ~Owns(w, j)
        /\ Becomes(w, GivesUp(wk[w]))
        /\ UNCHANGED row
  /\ UNCHANGED <<log, mailed, crashes>>

(* The heartbeat transaction raises, before or after its commit took effect:
   heartbeat_job treats any exception as a lost claim. *)
HeartbeatError(w) ==
  LET j == wk[w].job IN
  /\ "hberror" \in Faults
  /\ wk[w].hb = "inflight"
  /\ \/ UNCHANGED row
     \/ /\ Owns(w, j) /\ ~RowLocked(j)
        /\ RowBecomes(j, [row[j] EXCEPT !.locked_age = wk[w].timer])
  /\ Becomes(w, GivesUp(wk[w]))
  /\ UNCHANGED <<log, mailed, crashes>>

(* The mail server accepts the message (end of DATA in send_message). *)
SmtpAccept(w) ==
  /\ wk[w].pc = "sending"
  /\ wk[w].claim \notin mailed[wk[w].job]
  /\ mailed' = [mailed EXCEPT ![wk[w].job] = @ \cup {wk[w].claim}]
  /\ UNCHANGED <<row, log, wk, crashes>>

(* What send_submission_email can do: return only after the server took the
   message; raise PermanentEmailError only before; raise anything else before,
   or after when the dialogue breaks on the way to the end of QUIT. *)
SendResult(w) ==
  IF wk[w].claim \in mailed[wk[w].job]
  THEN {"ok"} \cup (IF "ambiguous" \in Faults THEN {"temp"} ELSE {})
  ELSE {"temp", "perm"}

(* The send thread is done and the worker sets stop_event. *)
SendEnd(w) ==
  /\ wk[w].pc = "sending"
  /\ \E res \in SendResult(w) :
       Becomes(w, [wk[w] EXCEPT !.pc = "stopping", !.result = res])
  /\ UNCHANGED <<row, log, mailed, crashes>>

\* With ownership_lost the result is dropped, whatever it is.
AfterStop(state) == IF state.lost THEN Idle
                    ELSE [state EXCEPT !.pc = "finalize", !.hb = "off", !.timer = 0]

(* stop_heartbeat has joined the task. *)
StopHeartbeat(w) ==
  /\ wk[w].pc = "stopping"
  /\ wk[w].hb # "inflight"
  /\ Becomes(w, AfterStop(wk[w]))
  /\ UNCHANGED <<row, log, mailed, crashes>>
-----------------------------------------------------------------------------
\* Wrong variant: the log is not updated.
ThenForget(w, status) == Becomes(w, Idle)

(* The transition was written: update_delivery_log is next, in a transaction
   of its own. *)
ThenLog(w, status) == Becomes(w, [wk[w] EXCEPT !.pc = "logging", !.result = status])

(* complete_job or fail_job found no row it owns. *)
NotOwner(w) ==
  LET j == wk[w].job IN
  /\ wk[w].pc = "finalize"
  /\ ~RowLocked(j)
  /\ ~Owns(w, j)
  /\ Becomes(w, Idle)
  /\ UNCHANGED <<row, log, mailed, crashes>>

CompleteJob(w) ==
  LET j == wk[w].job IN
  /\ wk[w].pc = "finalize"
  /\ wk[w].result = "ok"
  /\ ~RowLocked(j)
  /\ Owns(w, j)
  /\ RowBecomes(j, Terminated(row[j], "delivered"))
  /\ ThenLog(w, "delivered")
  /\ UNCHANGED <<log, mailed, crashes>>

\* Wrong variant: one attempt too many.
MayRetryOnceMore(w) == wk[w].result = "temp" /\ wk[w].att <= MaxAttempts

\* retryable and job.attempts < job.max_attempts, on the cached attempts
MayRetry(w) == wk[w].result = "temp" /\ wk[w].att < MaxAttempts

FailJob(w) ==
  LET j == wk[w].job IN
  /\ wk[w].pc = "finalize"
  /\ wk[w].result \in {"temp", "perm"}
  /\ ~RowLocked(j)
  /\ Owns(w, j)
  /\ \/ /\ MayRetry(w)
        /\ RowBecomes(j, Released(row[j], Backoff(wk[w].att)))
        /\ ThenLog(w, "queued")
     \/ /\ ~MayRetry(w)
        /\ RowBecomes(j, Terminated(row[j], "failed"))
        /\ ThenLog(w, "failed")
  /\ UNCHANGED <<log, mailed, crashes>>

(* update_delivery_log: filtered by the job id alone.  A log row that the
   cleanup removed matches nothing; job.id of a purged job cannot be reloaded
   after the commit and ends the process. *)
WriteLog(w) ==
  LET j == wk[w].job
      outcome == wk[w].result IN
  /\ wk[w].pc = "logging"
  /\ \/ /\ row[j].status = "purged"
        /\ Becomes(w, Down)
        /\ UNCHANGED log
     \/ /\ row[j].status # "purged"
        /\ log' = [log EXCEPT ![j] =
                     IF @ = None THEN None
                     ELSE [success |-> (outcome = "delivered"), delivery_status |-> outcome]]
        /\ Becomes(w, Idle)
  /\ UNCHANGED <<row, mailed, crashes>>
-----------------------------------------------------------------------------
(* The process dies: killed, or by an exception nothing in run_worker catches.
   An open transaction rolls back.  An idle worker's death changes no state
   and is left out. *)
Crash(w) ==
  /\ Busy(w)
  /\ crashes < MaxCrashes     \* bound
  /\ crashes' = crashes + 1
  /\ Becomes(w, Down)
  /\ UNCHANGED <<row, log, mailed>>

(* restart: unless-stopped.  The new process has a fresh worker id; giving it
   the old name changes nothing: the new process acts on no row before it has
   claimed it itself. *)
Restart(w) ==
  /\ wk[w].pc = "down"
  /\ Becomes(w, Idle)
  /\ UNCHANGED <<row, log, mailed, crashes>>

Expired(j) == row[j].terminal_age # None /\ row[j].terminal_age > TerminalRetention

(* cleanup_expired_data, in one transaction.  Log rows age by created_at and
   for a year; which of them have is left open. *)
Cleanup ==
  /\ row' = [j \in Job |-> IF Expired(j) THEN PurgedRow(row[j]) ELSE row[j]]
  /\ \E old \in SUBSET (IF "logpurge" \in Faults THEN Job ELSE {}) :
       log' = [j \in Job |-> IF j \in old THEN None ELSE log[j]]
  /\ UNCHANGED <<mailed, wk, crashes>>

Older(age, bound) == IF age = None \/ age > bound THEN age ELSE age + 1

\* No timer is read while a worker is idle, down, or sending without heartbeat.
Timed(w) == Busy(w) /\ wk[w].hb # "done"

(* One unit of time passes. *)
Tick ==
  /\ row' = [j \in Job |->
               [row[j] EXCEPT
                  !.available_in = IF row[j].status \in Pending /\ @ > -Horizon THEN @ - 1 ELSE @,
                  !.locked_age = Older(@, LockTimeout),
                  !.terminal_age = Older(@, TerminalRetention)]]
  /\ wk' = [w \in Worker |-> IF Timed(w) THEN [wk[w] EXCEPT !.timer = Older(@, LockTimeout)]
                             ELSE wk[w]]
  /\ UNCHANGED <<log, mailed, crashes>>
-----------------------------------------------------------------------------
ProcessStep(w) == \/ ClaimSelect(w) \/ ClaimCommit(w)
                  \/ RefreshFails(w) \/ SnapshotInvalid(w) \/ StartSending(w)
                  \/ HeartbeatStart(w) \/ HeartbeatRefresh(w) \/ HeartbeatError(w)
                  \/ SendEnd(w) \/ StopHeartbeat(w)
                  \/ NotOwner(w) \/ CompleteJob(w) \/ FailJob(w) \/ WriteLog(w)

Step == \/ \E j \in Job : Enqueue(j)
        \/ \E w \in Worker : ProcessStep(w) \/ SmtpAccept(w) \/ Crash(w) \/ Restart(w)
        \/ Cleanup

Next == Step \/ Tick

Spec == Init /\ [][Next]_vars
=============================================================================
