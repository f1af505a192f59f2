----------------------------- MODULE TimelyProofs -----------------------------
(* The queue whose processes keep up with the clock, for any jobs, workers and
   settings: its heartbeats keep live claims, so that only crashes cost attempts
   and copies, and what a worker logs is still true when it logs it.

   The argument is TimelyInv.  Each part of it rests on IInv and on the parts before
   it, and is proved under the conditions it needs and no others: Secure needs a
   lock timeout of an interval and two latencies, Reporting a delay longer than a
   latency, Remembered a retention as long as one.  First comes what each step
   does to the columns and fields that the parts look at. *)
EXTENDS TimelyDelivery, RetryBackoff, DeliveryQueueProofs, FiniteSetTheorems

USE NoneAssumption, NullAssumption, MaxAttemptsAssumption, TimingAssumption, BoundAssumption, FaultAssumption

\* A step of worker w alone, which touches no row but that of its job.
Alone(w) ==
  /\ \A u \in Worker \ {w} : wk'[u] = wk[u]
  /\ \A j \in Job : j # wk[w].job => row'[j] = row[j]
  /\ UNCHANGED mailed

\* The fields of a worker that does not change its job.
Same(w) == /\ wk'[w].job = wk[w].job
           /\ wk'[w].claim = wk[w].claim
-----------------------------------------------------------------------------
(* What the steps do. *)

\* Only the acting worker changes.
LEMMA Becoming ==
  ASSUME IInv, NEW w \in Worker, NEW s, Becomes(w, s)
  PROVE  wk'[w] = s /\ \A u \in Worker \ {w} : wk'[u] = wk[u]
BY DEF IInv, TypeOK, Becomes

\* Only the row of the job changes.
LEMMA RowBecoming ==
  ASSUME IInv, NEW j \in Job, NEW r, RowBecomes(j, r)
  PROVE  row'[j] = r /\ \A k \in Job : k # j => row'[k] = row[k]
BY DEF IInv, TypeOK, RowBecomes

\* A busy worker has a job, its row and its fields have their types.
LEMMA Working ==
  ASSUME IInv, NEW w \in Worker, Busy(w)
  PROVE  /\ wk[w] \in WorkerState /\ wk[w].timer \in Nat
         /\ wk[w].job \in Job /\ row[wk[w].job] \in Row
         /\ row[wk[w].job].attempts \in 0 .. MaxClaims
         /\ RowOK(wk[w].job) /\ ControlOK(w) /\ HoldsOK(w, wk[w].job)
<1>1. wk[w] \in WorkerState /\ WorkerOK(w)
  BY DEF IInv, TypeOK
<1>2. wk[w].job \in Job /\ ControlOK(w) /\ HoldsOK(w, wk[w].job)
  BY <1>1 DEF WorkerOK, ControlOK
<1>3. row[wk[w].job] \in Row /\ RowOK(wk[w].job)
  BY <1>2 DEF IInv, TypeOK
<1> QED
  BY <1>1, <1>2, <1>3 DEF WorkerState, Row

\* ClaimSelect.
LEMMA Selecting ==
  ASSUME IInv, NEW w \in Worker, ClaimSelect(w)
  PROVE  /\ Alone(w) /\ UNCHANGED <<row, log, crashes>>
         /\ wk[w].pc = "idle"
         /\ wk'[w].pc = "selected" /\ wk'[w].job \in Job /\ Claimable(wk'[w].job)
         /\ wk'[w].hb = "off" /\ wk'[w].timer = 0 /\ ~wk'[w].lost
<1> PICK j \in Job : Claimable(j) /\ Becomes(w, [Idle EXCEPT !.pc = "selected", !.job = j])
  BY DEF ClaimSelect
<1>1. /\ wk'[w] = [Idle EXCEPT !.pc = "selected", !.job = j]
      /\ \A u \in Worker \ {w} : wk'[u] = wk[u]
  BY Becoming
<1> QED
  BY <1>1 DEF ClaimSelect, Alone, Idle

\* ClaimCommit.
LEMMA Committing ==
  ASSUME IInv, NEW w \in Worker, NEW j \in Job, j = wk[w].job, ClaimCommit(w)
  PROVE  /\ Alone(w) /\ wk'[w].job = j /\ UNCHANGED <<log, crashes>>
         /\ wk[w].pc = "selected" /\ wk'[w].pc = "claimed" /\ wk'[w].hb = "off" /\ ~wk'[w].lost
         /\ wk'[w].timer = wk[w].timer /\ wk'[w].claim = row[j].attempts + 1
         /\ row'[j].status = "processing" /\ row'[j].attempts = row[j].attempts + 1
         /\ row'[j].locked_by = w /\ row'[j].locked_age = wk[w].timer
         /\ row'[j].available_in = row[j].available_in
         /\ row'[j].terminal_age = row[j].terminal_age
<1>1. /\ wk[w] \in WorkerState /\ row[j] \in Row /\ wk[w].timer \in Nat /\ row[j].attempts \in Nat
      /\ wk[w].pc = "selected" /\ wk[w].hb = "off" /\ ~wk[w].lost
  BY Working DEF ClaimCommit, Busy, ControlOK, Row
<1>2. /\ wk'[w] = [wk[w] EXCEPT !.pc = "claimed", !.claim = row[j].attempts + 1]
      /\ \A u \in Worker \ {w} : wk'[u] = wk[u]
  BY Becoming DEF ClaimCommit
<1>3. /\ row'[j] = Claimed(row[j], w, wk[w].timer)
      /\ \A k \in Job : k # j => row'[k] = row[k]
  BY RowBecoming DEF ClaimCommit
<1>4. wk'[w].pc = "claimed" /\ wk'[w].claim = row[j].attempts + 1 /\ wk'[w].hb = "off"
      /\ ~wk'[w].lost /\ wk'[w].timer = wk[w].timer /\ wk'[w].job = j
  BY <1>1, <1>2 DEF WorkerState
<1>5. /\ row'[j].status = "processing" /\ row'[j].attempts = row[j].attempts + 1
      /\ row'[j].locked_by = w /\ row'[j].locked_age = wk[w].timer
      /\ row'[j].available_in = row[j].available_in
      /\ row'[j].terminal_age = row[j].terminal_age
  BY <1>1, <1>3 DEF Claimed, Row
<1>6. UNCHANGED <<log, mailed, crashes>>
  BY DEF ClaimCommit
<1>7. Alone(w)
  BY <1>2, <1>3, <1>6 DEF Alone
<1> QED
  BY <1>1, <1>4, <1>5, <1>6, <1>7

\* The steps after which a worker is idle or gone.
LEMMA Leaving ==
  ASSUME IInv, NEW w \in Worker,
         \/ RefreshFails(w) \/ NotOwner(w) \/ WriteLog(w) \/ Crash(w) \/ Restart(w)
         \/ StopHeartbeat(w) /\ wk[w].lost
  PROVE  /\ Alone(w) /\ UNCHANGED row
         /\ wk'[w] \in {Idle, Down} /\ wk'[w].pc \in {"idle", "down"} /\ wk'[w].hb = "off"
         /\ crashes' = IF Crash(w) THEN crashes + 1 ELSE crashes
         /\ ~WriteLog(w) => UNCHANGED log
<1>2. \E s \in {Idle, Down} : Becomes(w, s)
  BY DEF RefreshFails, NotOwner, WriteLog, Crash, Restart, StopHeartbeat, AfterStop
<1>3. wk'[w] \in {Idle, Down} /\ \A u \in Worker \ {w} : wk'[u] = wk[u]
  BY <1>2, Becoming
<1>4. UNCHANGED <<row, mailed>> /\ (~WriteLog(w) => UNCHANGED log)
  BY DEF RefreshFails, NotOwner, WriteLog, Crash, Restart, StopHeartbeat
<1>5. crashes' = IF Crash(w) THEN crashes + 1 ELSE crashes
  BY DEF RefreshFails, NotOwner, WriteLog, Crash, Restart, StopHeartbeat
<1> QED
  BY <1>3, <1>4, <1>5, IdleFields DEF Alone

\* SnapshotInvalid.
LEMMA Invalidating ==
  ASSUME IInv, NEW w \in Worker, SnapshotInvalid(w)
  PROVE  /\ Alone(w) /\ Same(w) /\ UNCHANGED <<row, log, crashes>>
         /\ wk[w].pc = "claimed" /\ wk'[w].pc = "finalize" /\ wk'[w].hb = "off"
         /\ ~wk'[w].lost /\ ~wk[w].lost
         /\ wk'[w].timer = wk[w].timer /\ wk'[w].result = "perm"
<1>1. wk[w] \in WorkerState /\ ControlOK(w) /\ wk[w].timer \in Nat
  BY Working DEF SnapshotInvalid, Busy
<1>2. /\ wk'[w] = [wk[w] EXCEPT !.pc = "finalize", !.att = row[wk[w].job].attempts,
                               !.result = "perm"]
      /\ \A u \in Worker \ {w} : wk'[u] = wk[u]
  BY Becoming DEF SnapshotInvalid
<1> QED
  BY <1>1, <1>2 DEF SnapshotInvalid, Alone, Same, WorkerState, ControlOK

\* StartSending.
LEMMA Starting ==
  ASSUME IInv, NEW w \in Worker, StartSending(w)
  PROVE  /\ Alone(w) /\ Same(w) /\ UNCHANGED <<row, log, crashes>>
         /\ wk[w].pc = "claimed" /\ wk'[w].pc = "sending" /\ wk'[w].hb = "wait"
         /\ ~wk'[w].lost /\ ~wk[w].lost
         /\ wk'[w].timer = HeartbeatInterval
<1>1. wk[w] \in WorkerState /\ ControlOK(w) /\ wk[w].timer \in Nat
  BY Working DEF StartSending, Busy
<1>2. /\ wk'[w] = [wk[w] EXCEPT !.pc = "sending", !.att = row[wk[w].job].attempts,
                               !.hb = "wait", !.timer = HeartbeatInterval]
      /\ \A u \in Worker \ {w} : wk'[u] = wk[u]
  BY Becoming DEF StartSending
<1> QED
  BY <1>1, <1>2 DEF StartSending, Alone, Same, WorkerState, ControlOK

\* HeartbeatStart.
LEMMA Waking ==
  ASSUME IInv, NEW w \in Worker, HeartbeatStart(w)
  PROVE  /\ Alone(w) /\ Same(w) /\ UNCHANGED <<row, log, crashes>>
         /\ wk[w].pc = "sending" /\ wk'[w].pc = "sending"
         /\ wk[w].hb = "wait" /\ wk'[w].hb = "inflight"
         /\ wk'[w].lost = wk[w].lost /\ wk'[w].timer = 0
<1>1. wk[w] \in WorkerState /\ ControlOK(w) /\ wk[w].timer \in Nat
  BY Working DEF HeartbeatStart, Busy
<1>2. /\ wk'[w] = [wk[w] EXCEPT !.hb = "inflight", !.timer = 0]
      /\ \A u \in Worker \ {w} : wk'[u] = wk[u]
  BY Becoming DEF HeartbeatStart
<1> QED
  BY <1>1, <1>2 DEF HeartbeatStart, Alone, Same, WorkerState, ControlOK

\* The heartbeat transaction refreshes the row.
Refreshes(w) == /\ HeartbeatRefresh(w)
                /\ Owns(w, wk[w].job)

LEMMA Refreshing ==
  ASSUME IInv, NEW w \in Worker, NEW j \in Job, j = wk[w].job, Refreshes(w)
  PROVE  /\ Alone(w) /\ Same(w) /\ UNCHANGED <<log, crashes>>
         /\ wk[w].pc \in {"sending", "stopping"} /\ wk'[w].pc = wk[w].pc
         /\ wk[w].hb = "inflight" /\ wk'[w].hb = "wait"
         /\ wk'[w].lost = wk[w].lost /\ wk'[w].timer = 0 /\ wk'[w].result = wk[w].result
         /\ row'[j] = [row[j] EXCEPT !.locked_age = wk[w].timer]
         /\ row'[j].locked_age = wk[w].timer
<1>1. Busy(w)
  BY DEF IInv, WorkerOK, ControlOK, Busy, Refreshes, HeartbeatRefresh, TypeOK, WorkerState
<1>2. /\ wk[w] \in WorkerState /\ ControlOK(w) /\ wk[w].timer \in Nat
      /\ j \in Job /\ row[j] \in Row
  BY <1>1, Working
<1>3. /\ wk'[w] = [wk[w] EXCEPT !.hb = "wait", !.timer = 0]
      /\ \A u \in Worker \ {w} : wk'[u] = wk[u]
  BY Becoming DEF Refreshes, HeartbeatRefresh
<1>4. /\ row'[j] = [row[j] EXCEPT !.locked_age = wk[w].timer]
      /\ \A k \in Job : k # j => row'[k] = row[k]
  BY RowBecoming DEF Refreshes, HeartbeatRefresh
<1>5. row'[j].locked_age = wk[w].timer
  BY <1>2, <1>4 DEF Row
<1> QED
  BY <1>2, <1>3, <1>4, <1>5 DEF Refreshes, HeartbeatRefresh, Alone, Same, WorkerState, ControlOK

\* The heartbeat transaction finds its claim lost, or raises.
GivingUp(w) == \/ HeartbeatError(w)
               \/ HeartbeatRefresh(w) /\ ~Owns(w, wk[w].job)

LEMMA Surrendering ==
  ASSUME IInv, NEW w \in Worker, NEW j \in Job, j = wk[w].job, GivingUp(w)
  PROVE  /\ Alone(w) /\ Same(w) /\ UNCHANGED <<log, crashes>>
         /\ wk[w].pc \in {"sending", "stopping"} /\ wk'[w].pc = wk[w].pc
         /\ wk[w].hb = "inflight" /\ wk'[w].hb = "done"
         /\ wk'[w].lost /\ wk'[w].timer = 0 /\ wk'[w].result = wk[w].result
         /\ \/ UNCHANGED row
            \/ Owns(w, j) /\ row'[j] = [row[j] EXCEPT !.locked_age = wk[w].timer]
<1>1. Busy(w)
  BY DEF IInv, WorkerOK, ControlOK, Busy, GivingUp, HeartbeatRefresh, HeartbeatError, TypeOK, WorkerState
<1>2. /\ wk[w] \in WorkerState /\ ControlOK(w) /\ j \in Job
  BY <1>1, Working
<1>3. /\ wk'[w] = [wk[w] EXCEPT !.hb = "done", !.timer = 0, !.lost = TRUE]
      /\ \A u \in Worker \ {w} : wk'[u] = wk[u]
  BY Becoming DEF GivingUp, HeartbeatRefresh, HeartbeatError, GivesUp
<1>4. \/ UNCHANGED row
      \/ /\ Owns(w, j) /\ row'[j] = [row[j] EXCEPT !.locked_age = wk[w].timer]
         /\ \A k \in Job : k # j => row'[k] = row[k]
  BY <1>2, RowBecoming DEF GivingUp, HeartbeatRefresh, HeartbeatError
<1>5. /\ wk'[w].pc = wk[w].pc /\ wk'[w].hb = "done" /\ wk'[w].lost /\ wk'[w].timer = 0
      /\ wk'[w].result = wk[w].result /\ Same(w)
  BY <1>2, <1>3 DEF WorkerState, Same
<1>6. /\ wk[w].hb = "inflight" /\ UNCHANGED <<log, mailed, crashes>>
      /\ wk[w].pc \in {"sending", "stopping"}
  BY <1>2 DEF GivingUp, HeartbeatRefresh, HeartbeatError, ControlOK
<1> QED
  BY <1>3, <1>4, <1>5, <1>6 DEF Alone

\* SendEnd.
LEMMA Returning ==
  ASSUME IInv, NEW w \in Worker, SendEnd(w)
  PROVE  /\ Alone(w) /\ Same(w) /\ UNCHANGED <<row, log, crashes>>
         /\ wk[w].pc = "sending" /\ wk'[w].pc = "stopping"
         /\ wk'[w].hb = wk[w].hb /\ wk'[w].lost = wk[w].lost /\ wk'[w].timer = wk[w].timer
         /\ wk'[w].result \in SendResult(w)
<1> PICK res \in SendResult(w) : Becomes(w, [wk[w] EXCEPT !.pc = "stopping", !.result = res])
  BY DEF SendEnd
<1>1. wk[w] \in WorkerState
  BY DEF IInv, TypeOK
<1>2. /\ wk'[w] = [wk[w] EXCEPT !.pc = "stopping", !.result = res]
      /\ \A u \in Worker \ {w} : wk'[u] = wk[u]
  BY Becoming
<1> QED
  BY <1>1, <1>2 DEF SendEnd, Alone, Same, WorkerState

\* StopHeartbeat, with the claim still held.
LEMMA Stopping ==
  ASSUME IInv, NEW w \in Worker, StopHeartbeat(w), ~wk[w].lost
  PROVE  /\ Alone(w) /\ Same(w) /\ UNCHANGED <<row, log, crashes>>
         /\ wk[w].pc = "stopping" /\ wk[w].hb # "inflight"
         /\ wk'[w].pc = "finalize" /\ wk'[w].hb = "off" /\ ~wk'[w].lost
         /\ wk'[w].timer = 0 /\ wk'[w].result = wk[w].result
<1>1. wk[w] \in WorkerState /\ ControlOK(w) /\ wk[w].timer \in Nat
  BY Working DEF StopHeartbeat, Busy
<1>2. /\ wk'[w] = [wk[w] EXCEPT !.pc = "finalize", !.hb = "off", !.timer = 0]
      /\ \A u \in Worker \ {w} : wk'[u] = wk[u]
  BY Becoming DEF StopHeartbeat, AfterStop
<1> QED
  BY <1>1, <1>2 DEF StopHeartbeat, Alone, Same, WorkerState, ControlOK, AfterStop

\* The transitions at the end of a claim.
Ends(w) == CompleteJob(w) \/ FailJob(w)

LEMMA Ending ==
  ASSUME IInv, NEW w \in Worker, NEW j \in Job, j = wk[w].job, Ends(w)
  PROVE  /\ Alone(w) /\ Same(w) /\ UNCHANGED <<log, crashes>>
         /\ wk[w].pc = "finalize" /\ wk'[w].pc = "logging" /\ wk'[w].hb = "off"
         /\ wk'[w].timer = wk[w].timer /\ wk'[w].lost = wk[w].lost
         /\ Owns(w, j) /\ ~RowLocked(j)
         /\ row'[j].status = wk'[w].result /\ wk'[w].result \in {"queued"} \cup Terminal
         /\ row'[j].attempts = row[j].attempts /\ row'[j].locked_by = None
         /\ \/ /\ wk'[w].result = "queued" /\ wk[w].result = "temp"
               /\ row'[j].available_in = Backoff(wk[w].att) /\ row'[j].terminal_age = None
            \/ wk'[w].result \in Terminal /\ row'[j].terminal_age = 0
<1>1. /\ wk[w] \in WorkerState /\ ControlOK(w) /\ wk[w].pc = "finalize"
      /\ j \in Job /\ row[j] \in Row /\ wk[w].att \in 0 .. MaxClaims
      /\ Owns(w, j) /\ ~RowLocked(j) /\ row[j].terminal_age = None
      /\ UNCHANGED <<log, mailed, crashes>>
  <2>1. Busy(w) /\ wk[w].pc = "finalize" /\ Owns(w, j) /\ ~RowLocked(j)
        /\ UNCHANGED <<log, mailed, crashes>>
    BY DEF Ends, CompleteJob, FailJob, Busy
  <2> QED
    BY <2>1, Working DEF WorkerState, RowOK, Owns, Terminal
<1>2. PICK st \in {"queued"} \cup Terminal :
        /\ ThenLog(w, st)
        /\ \/ /\ st = "queued" /\ wk[w].result = "temp"
              /\ RowBecomes(j, Released(row[j], Backoff(wk[w].att)))
           \/ st \in Terminal /\ RowBecomes(j, Terminated(row[j], st))
  BY DEF Ends, CompleteJob, FailJob, MayRetry, Terminal
<1>3. /\ wk'[w] = [wk[w] EXCEPT !.pc = "logging", !.result = st]
      /\ \A u \in Worker \ {w} : wk'[u] = wk[u]
  BY <1>2, Becoming DEF ThenLog
<1>4. /\ wk'[w].pc = "logging" /\ wk'[w].hb = "off" /\ wk'[w].timer = wk[w].timer
      /\ wk'[w].lost = wk[w].lost /\ wk'[w].result = st /\ Same(w)
  BY <1>1, <1>3 DEF WorkerState, ControlOK, Same
<1>5. CASE st = "queued" /\ wk[w].result = "temp"
           /\ RowBecomes(j, Released(row[j], Backoff(wk[w].att)))
  <2>1. /\ row'[j] = Released(row[j], Backoff(wk[w].att))
        /\ \A k \in Job : k # j => row'[k] = row[k]
    BY <1>1, <1>5, RowBecoming
  <2>2. /\ row'[j].status = "queued" /\ row'[j].attempts = row[j].attempts
        /\ row'[j].locked_by = None /\ row'[j].available_in = Backoff(wk[w].att)
        /\ row'[j].terminal_age = None
    BY <1>1, <2>1 DEF Released, Row
  <2> QED
    BY <1>1, <1>3, <1>4, <1>5, <2>1, <2>2 DEF Alone
<1>6. CASE st \in Terminal /\ RowBecomes(j, Terminated(row[j], st))
  <2>1. /\ row'[j] = Terminated(row[j], st)
        /\ \A k \in Job : k # j => row'[k] = row[k]
    BY <1>1, <1>6, RowBecoming
  <2>2. /\ row'[j].status = st /\ row'[j].attempts = row[j].attempts
        /\ row'[j].locked_by = None /\ row'[j].terminal_age = 0
    BY <1>1, <2>1 DEF Terminated, Row
  <2> QED
    BY <1>1, <1>3, <1>4, <1>6, <2>1, <2>2 DEF Alone
<1> QED
  BY <1>2, <1>5, <1>6

\* The steps of a worker.
LEMMA WorkerSteps ==
  ASSUME NEW w \in Worker, ProcessStep(w) \/ Crash(w) \/ Restart(w)
  PROVE  \/ ClaimSelect(w) \/ ClaimCommit(w) \/ SnapshotInvalid(w) \/ StartSending(w)
         \/ HeartbeatStart(w) \/ Refreshes(w) \/ GivingUp(w) \/ SendEnd(w)
         \/ StopHeartbeat(w) /\ ~wk[w].lost
         \/ Ends(w)
         \/ RefreshFails(w) \/ NotOwner(w) \/ WriteLog(w) \/ Crash(w) \/ Restart(w)
         \/ StopHeartbeat(w) /\ wk[w].lost
BY DEF ProcessStep, Refreshes, GivingUp, Ends, HeartbeatRefresh


\* A worker with a heartbeat, or at the end of its claim, has a job.
LEMMA HasJob ==
  ASSUME IInv, NEW w \in Worker,
         ClaimCommit(w) \/ Refreshes(w) \/ GivingUp(w) \/ Ends(w)
  PROVE  wk[w].job \in Job
<1>1. ClaimCommit(w) \/ Ends(w) => wk[w].job \in Job
  BY Working DEF ClaimCommit, Ends, CompleteJob, FailJob, Busy
<1>2. Refreshes(w) \/ GivingUp(w) => wk[w].job \in Job
  BY DEF IInv, WorkerOK, ControlOK, Busy, Refreshes, GivingUp, HeartbeatRefresh,
         HeartbeatError, TypeOK, WorkerState
<1> QED
  BY <1>1, <1>2

\* Whatever a worker does, it does alone.
LEMMA WorkersActAlone ==
  ASSUME IInv, NEW w \in Worker, ProcessStep(w) \/ Crash(w) \/ Restart(w)
  PROVE  Alone(w)
<1>1. CASE ClaimCommit(w) \/ Refreshes(w) \/ GivingUp(w) \/ Ends(w)
  BY <1>1, HasJob, Committing, Refreshing, Surrendering, Ending
<1>2. CASE ~(ClaimCommit(w) \/ Refreshes(w) \/ GivingUp(w) \/ Ends(w))
  BY <1>2, WorkerSteps, Selecting, Leaving, Invalidating, Starting, Waking, Returning, Stopping
<1> QED
  BY <1>1, <1>2

\* Who writes a row has it selected or owns it.
LEMMA RowWriters ==
  ASSUME IInv, NEW w \in Worker, ProcessStep(w) \/ Crash(w) \/ Restart(w),
         NEW j \in Job, row'[j] # row[j]
  PROVE  /\ wk[w].job = j
         /\ wk[w].pc = "selected" \/ Owns(w, j)
<1>1. wk[w].job = j
  BY WorkersActAlone DEF Alone
<1>2. row' # row
  OBVIOUS
<1>3. CASE ClaimCommit(w)
  BY <1>1, <1>3 DEF ClaimCommit
<1>4. CASE Refreshes(w) \/ Ends(w)
  BY <1>1, <1>4 DEF Refreshes, Ends, CompleteJob, FailJob
<1>5. CASE GivingUp(w)
  BY <1>1, <1>2, <1>5 DEF GivingUp, HeartbeatError, HeartbeatRefresh
<1>6. CASE \/ ClaimSelect(w) \/ SnapshotInvalid(w) \/ StartSending(w) \/ HeartbeatStart(w)
           \/ SendEnd(w) \/ StopHeartbeat(w) \/ RefreshFails(w) \/ NotOwner(w) \/ WriteLog(w)
           \/ Crash(w) \/ Restart(w)
  BY <1>2, <1>6 DEF ClaimSelect, SnapshotInvalid, StartSending, HeartbeatStart, SendEnd,
                    StopHeartbeat, RefreshFails, NotOwner, WriteLog, Crash, Restart
<1> QED
  BY <1>3, <1>4, <1>5, <1>6, WorkerSteps

\* A row is selected by claim_job alone.
LEMMA Selectors ==
  ASSUME IInv, NEW w \in Worker, ProcessStep(w) \/ Crash(w) \/ Restart(w),
         wk'[w].pc = "selected"
  PROVE  ClaimSelect(w)
<1>1. CASE ClaimCommit(w) \/ Refreshes(w) \/ GivingUp(w) \/ Ends(w)
  <2> PICK j \in Job : j = wk[w].job
    BY <1>1, HasJob
  <2> QED
    BY <1>1, Committing, Refreshing, Surrendering, Ending
<1>2. CASE SnapshotInvalid(w) \/ StartSending(w) \/ HeartbeatStart(w) \/ SendEnd(w)
  BY <1>2, Invalidating, Starting, Waking, Returning
<1>3. CASE \/ RefreshFails(w) \/ NotOwner(w) \/ WriteLog(w) \/ Crash(w) \/ Restart(w)
           \/ StopHeartbeat(w)
  BY <1>3, Leaving, Stopping
<1> QED
  BY <1>1, <1>2, <1>3, WorkerSteps

\* The steps of the queue.
LEMMA Steps ==
  ASSUME [Step \/ TimelyTick]_vars
  PROVE  \/ \E j \in Job : Enqueue(j)
         \/ \E w \in Worker : ProcessStep(w) \/ Crash(w) \/ Restart(w)
         \/ \E w \in Worker : SmtpAccept(w)
         \/ Cleanup
         \/ TimelyTick
         \/ UNCHANGED vars
BY DEF Step

\* SmtpAccept.
LEMMA Accepting ==
  ASSUME IInv, NEW w \in Worker, SmtpAccept(w)
  PROVE  /\ UNCHANGED <<row, log, wk, crashes>>
         /\ wk[w].pc = "sending" /\ wk[w].job \in Job /\ wk[w].claim \notin mailed[wk[w].job]
         /\ mailed'[wk[w].job] = mailed[wk[w].job] \cup {wk[w].claim}
         /\ \A j \in Job : j # wk[w].job => mailed'[j] = mailed[j]
<1>1. wk[w].job \in Job
  BY Working DEF SmtpAccept, Busy
<1> QED
  BY <1>1 DEF SmtpAccept, IInv, TypeOK

\* Enqueue.
LEMMA Enqueuing ==
  ASSUME IInv, NEW j \in Job, Enqueue(j)
  PROVE  /\ UNCHANGED <<mailed, wk, crashes>>
         /\ row[j].status = "absent" /\ mailed[j] = {}
         /\ row'[j].status = "queued" /\ row'[j].attempts = 0
         /\ \A k \in Job : k # j => row'[k] = row[k] /\ log'[k] = log[k]
         /\ log'[j] # None
         /\ \A w \in Worker : Busy(w) => wk[w].job # j
<1>1. row'[j] = NewRow /\ \A k \in Job : k # j => row'[k] = row[k]
  BY RowBecoming DEF Enqueue
<1>2. row[j].status = "absent" /\ row[j].attempts = 0 /\ mailed[j] = {}
  BY DEF IInv, RowOK, Enqueue
<1>3. [success |-> TRUE, delivery_status |-> "queued"] \in Log
  BY DEF Log
<1>4. log'[j] # None /\ \A k \in Job : k # j => log'[k] = log[k]
  <2>1. log'[j] = [success |-> TRUE, delivery_status |-> "queued"]
        /\ \A k \in Job : k # j => log'[k] = log[k]
    BY DEF IInv, TypeOK, Enqueue
  <2>2. log[j] \in Log \cup {None}
    BY DEF IInv, TypeOK
  <2> QED
    BY <2>1, <1>3
<1>5. ASSUME NEW w \in Worker, Busy(w) PROVE wk[w].job # j
  BY <1>2, <1>5 DEF IInv, WorkerOK, HoldsOK, Busy, Processing, TypeOK, WorkerState, Pending
<1> QED
  BY <1>1, <1>2, <1>4, <1>5, NewRowFields DEF Enqueue

\* Cleanup.
LEMMA Cleaning ==
  ASSUME IInv, Cleanup, NEW j \in Job
  PROVE  /\ UNCHANGED <<mailed, wk, crashes>>
         /\ log'[j] \in {None, log[j]} /\ ("logpurge" \notin Faults => log'[j] = log[j])
         /\ row'[j].attempts = row[j].attempts
         /\ \/ row'[j] = row[j]
            \/ /\ Expired(j) /\ row[j].status \in Terminal
               /\ row'[j].status = "purged" /\ row'[j].terminal_age = None
<1>1. row[j] \in Row /\ RowOK(j)
  BY DEF IInv, TypeOK
<1>2. row'[j] = IF Expired(j) THEN PurgedRow(row[j]) ELSE row[j]
  BY DEF Cleanup
<1>3. PICK old \in SUBSET (IF "logpurge" \in Faults THEN Job ELSE {}) :
        log' = [k \in Job |-> IF k \in old THEN None ELSE log[k]]
  BY DEF Cleanup
<1>4. log'[j] \in {None, log[j]} /\ ("logpurge" \notin Faults => log'[j] = log[j])
  BY <1>3
<1>5. Expired(j) => row[j].status \in Terminal
  BY <1>1 DEF Expired, RowOK
<1> QED
  BY <1>1, <1>2, <1>4, <1>5, PurgedRowFields DEF Cleanup

\* A tick of processes that are on time.
LEMMA Ticking ==
  ASSUME IInv, TimelyTick
  PROVE  /\ UNCHANGED <<log, mailed, crashes>>
         /\ \A w \in Worker :
              /\ OnTime(w)
              /\ wk'[w].pc = wk[w].pc /\ wk'[w].job = wk[w].job /\ wk'[w].claim = wk[w].claim
              /\ wk'[w].hb = wk[w].hb /\ wk'[w].lost = wk[w].lost /\ wk'[w].result = wk[w].result
              /\ wk'[w].timer = IF Timed(w) THEN Older(wk[w].timer, LockTimeout) ELSE wk[w].timer
         /\ \A j \in Job :
              /\ row'[j].status = row[j].status /\ row'[j].attempts = row[j].attempts
              /\ row'[j].locked_by = row[j].locked_by
              /\ row'[j].locked_age = Older(row[j].locked_age, LockTimeout)
              /\ row'[j].terminal_age = Older(row[j].terminal_age, TerminalRetention)
              /\ row'[j].available_in = IF row[j].status \in Pending /\ row[j].available_in > -Horizon
                                        THEN row[j].available_in - 1 ELSE row[j].available_in
<1>1. ASSUME NEW w \in Worker
      PROVE  /\ wk'[w].pc = wk[w].pc /\ wk'[w].job = wk[w].job /\ wk'[w].claim = wk[w].claim
             /\ wk'[w].hb = wk[w].hb /\ wk'[w].lost = wk[w].lost /\ wk'[w].result = wk[w].result
             /\ wk'[w].timer = IF Timed(w) THEN Older(wk[w].timer, LockTimeout) ELSE wk[w].timer
  <2>1. wk[w] \in WorkerState
    BY DEF IInv, TypeOK
  <2>2. wk'[w] = IF Timed(w) THEN [wk[w] EXCEPT !.timer = Older(wk[w].timer, LockTimeout)] ELSE wk[w]
    BY <2>1 DEF TimelyTick, Tick, WorkerState
  <2>3. CASE Timed(w)
    <3> DEFINE t == Older(wk[w].timer, LockTimeout)
    <3>1. wk'[w] = [wk[w] EXCEPT !.timer = t]
      BY <2>2, <2>3
    <3> HIDE DEF t
    <3>2. /\ wk'[w].pc = wk[w].pc /\ wk'[w].job = wk[w].job /\ wk'[w].claim = wk[w].claim
          /\ wk'[w].hb = wk[w].hb /\ wk'[w].lost = wk[w].lost /\ wk'[w].result = wk[w].result
          /\ wk'[w].timer = t
      BY <2>1, <3>1 DEF WorkerState
    <3> QED
      BY <2>3, <3>2 DEF t
  <2>4. CASE ~Timed(w)
    BY <2>2, <2>4
  <2> QED
    BY <2>3, <2>4
<1>2. ASSUME NEW j \in Job
      PROVE  /\ row'[j].status = row[j].status /\ row'[j].attempts = row[j].attempts
             /\ row'[j].locked_by = row[j].locked_by
             /\ row'[j].locked_age = Older(row[j].locked_age, LockTimeout)
             /\ row'[j].terminal_age = Older(row[j].terminal_age, TerminalRetention)
             /\ row'[j].available_in = IF row[j].status \in Pending /\ row[j].available_in > -Horizon
                                       THEN row[j].available_in - 1 ELSE row[j].available_in
  <2>1. row[j] \in Row
    BY DEF IInv, TypeOK
  <2> DEFINE d == IF row[j].status \in Pending /\ row[j].available_in > -Horizon
                  THEN row[j].available_in - 1 ELSE row[j].available_in
             l == Older(row[j].locked_age, LockTimeout)
             t == Older(row[j].terminal_age, TerminalRetention)
  <2>2. row'[j] = [row[j] EXCEPT !.available_in = d, !.locked_age = l, !.terminal_age = t]
    BY <2>1 DEF TimelyTick, Tick, Row
  <2> HIDE DEF d, l, t
  <2>3. /\ row'[j].status = row[j].status /\ row'[j].attempts = row[j].attempts
        /\ row'[j].locked_by = row[j].locked_by
        /\ row'[j].locked_age = l /\ row'[j].terminal_age = t /\ row'[j].available_in = d
    BY <2>1, <2>2 DEF Row
  <2> QED
    BY <2>3 DEF d, l, t
<1> QED
  BY <1>1, <1>2 DEF TimelyTick, Tick

\* One tick later, on a clock that has not come to its end.
LEMMA OneOlder ==
  ASSUME NEW age \in Nat, NEW bound \in Nat
  PROVE  /\ Older(age, bound) \in Nat
         /\ Older(age, bound) \in {age, age + 1}
         /\ age <= bound => Older(age, bound) = age + 1
BY DEF Older

\* Whoever does not act keeps his state, but for his timer.
LEMMA Bystanders ==
  ASSUME IInv, [Step \/ TimelyTick]_vars, NEW w \in Worker,
         ~(ProcessStep(w) \/ Crash(w) \/ Restart(w))
  PROVE  /\ wk'[w].pc = wk[w].pc /\ wk'[w].job = wk[w].job /\ wk'[w].claim = wk[w].claim
         /\ wk'[w].hb = wk[w].hb /\ wk'[w].lost = wk[w].lost /\ wk'[w].result = wk[w].result
         /\ ~TimelyTick => wk'[w].timer = wk[w].timer
<1>1. CASE TimelyTick
  BY <1>1, Ticking
<1>2. CASE ~TimelyTick
  BY <1>2, Steps, WorkersActAlone DEF Alone, Enqueue, SmtpAccept, Cleanup, vars
<1> QED
  BY <1>1, <1>2

\* What writes rows.
LEMMA RowWriting ==
  ASSUME IInv, NEW w \in Worker, ProcessStep(w) \/ Crash(w) \/ Restart(w)
  PROVE  row' = row \/ ClaimCommit(w) \/ Refreshes(w) \/ GivingUp(w) \/ Ends(w)
BY WorkerSteps
DEF ClaimSelect, SnapshotInvalid, StartSending, HeartbeatStart, SendEnd, StopHeartbeat,
    RefreshFails, NotOwner, WriteLog, Crash, Restart

\* Between its claim and the end of it, no worker changes the state of a job.
LEMMA StatusKept ==
  ASSUME IInv, NEW w \in Worker, ProcessStep(w) \/ Crash(w) \/ Restart(w),
         ~ClaimCommit(w), ~Ends(w), NEW j \in Job
  PROVE  row'[j].status = row[j].status /\ row'[j].attempts = row[j].attempts
<1>1. CASE row'[j] = row[j]
  BY <1>1
<1>2. CASE row'[j] # row[j] /\ (Refreshes(w) \/ GivingUp(w))
  <2>1. wk[w].job = j /\ row[j] \in Row
    BY <1>2, RowWriters DEF IInv, TypeOK
  <2>2. row'[j] = [row[j] EXCEPT !.locked_age = wk[w].timer]
    BY <1>2, <2>1, Refreshing, Surrendering
  <2> QED
    BY <2>1, <2>2 DEF Row
<1>3. row' = row \/ Refreshes(w) \/ GivingUp(w)
  BY RowWriting
<1> QED
  BY <1>1, <1>2, <1>3

\* Only the end of a claim leads to the log, only claim_job's commit to a claim.
LEMMA Arrivals ==
  ASSUME IInv, NEW w \in Worker, ProcessStep(w) \/ Crash(w) \/ Restart(w)
  PROVE  /\ wk'[w].pc = "logging" => Ends(w)
         /\ wk[w].pc = "logging" => WriteLog(w) \/ Crash(w)
         /\ Processing(w)' => ClaimCommit(w) \/ (Processing(w) /\ Same(w))
<1>1. CASE ClaimCommit(w) \/ Refreshes(w) \/ GivingUp(w) \/ Ends(w)
  <2> PICK j \in Job : j = wk[w].job
    BY <1>1, HasJob
  <2>1. CASE ClaimCommit(w)
    <3>1. wk[w].pc # "logging" /\ wk'[w].pc # "logging"
      BY <2>1, Committing
    <3> QED
      BY <2>1, <3>1
  <2>2. CASE Refreshes(w)
    <3>1. wk[w].pc \in {"sending", "stopping"} /\ wk'[w].pc = wk[w].pc /\ Same(w)
      BY <2>2, Refreshing
    <3> QED
      BY <3>1 DEF Processing
  <2>3. CASE GivingUp(w)
    <3>1. wk[w].pc \in {"sending", "stopping"} /\ wk'[w].pc = wk[w].pc /\ Same(w)
      BY <2>3, Surrendering
    <3> QED
      BY <3>1 DEF Processing
  <2>4. CASE Ends(w)
    BY <2>4, Ending DEF Processing
  <2> QED
    BY <1>1, <2>1, <2>2, <2>3, <2>4
<1>2. CASE ClaimSelect(w) \/ SnapshotInvalid(w) \/ StartSending(w) \/ HeartbeatStart(w) \/ SendEnd(w)
  BY <1>2, Selecting, Invalidating, Starting, Waking, Returning DEF Processing
<1>3. CASE StopHeartbeat(w)
  <2>1. wk[w].pc = "stopping"
    BY <1>3 DEF StopHeartbeat
  <2>2. CASE wk[w].lost
    BY <1>3, <2>1, <2>2, Leaving DEF Processing
  <2>3. CASE ~wk[w].lost
    BY <1>3, <2>1, <2>3, Stopping DEF Processing
  <2> QED
    BY <2>2, <2>3
<1>4. CASE RefreshFails(w) \/ NotOwner(w) \/ WriteLog(w) \/ Crash(w) \/ Restart(w)
  <2>1. wk'[w].pc \in {"idle", "down"}
    BY <1>4, Leaving
  <2>2. wk[w].pc = "logging" => WriteLog(w) \/ Crash(w)
    BY <1>4 DEF RefreshFails, NotOwner, Restart
  <2> QED
    BY <2>1, <2>2 DEF Processing
<1> QED
  BY <1>1, <1>2, <1>3, <1>4, WorkerSteps

\* How a step may change the state of a job.
LEMMA JobSteps ==
  ASSUME IInv, [Step \/ TimelyTick]_vars, NEW j \in Job
  PROVE  \/ row'[j].status = row[j].status /\ row'[j].attempts = row[j].attempts
         \/ Enqueue(j)
         \/ \E w \in Worker : wk[w].job = j /\ (ClaimCommit(w) \/ Ends(w))
         \/ /\ Cleanup /\ Expired(j) /\ row[j].status \in Terminal
            /\ row'[j].status = "purged" /\ row'[j].attempts = row[j].attempts
<1>1. ASSUME NEW k \in Job, Enqueue(k), k # j PROVE row'[j] = row[j]
  BY <1>1, Enqueuing
<1>2. ASSUME NEW w \in Worker, ProcessStep(w) \/ Crash(w) \/ Restart(w)
      PROVE  \/ row'[j].status = row[j].status /\ row'[j].attempts = row[j].attempts
             \/ wk[w].job = j /\ (ClaimCommit(w) \/ Ends(w))
  BY <1>2, StatusKept, WorkersActAlone DEF Alone
<1>3. CASE Cleanup
  BY <1>3, Cleaning
<1>4. CASE TimelyTick
  BY <1>4, Ticking
<1>5. CASE (\E w \in Worker : SmtpAccept(w)) \/ UNCHANGED vars
  BY <1>5, Accepting DEF vars
<1> QED
  BY <1>1, <1>2, <1>3, <1>4, <1>5, Steps

\* Who dies costs a crash, and nothing else does.
LEMMA Crashes ==
  ASSUME IInv, [Step \/ TimelyTick]_vars
  PROVE  /\ crashes' \in Nat /\ crashes \in Nat /\ crashes' >= crashes
         /\ \A w \in Worker : Crash(w) => crashes' = crashes + 1
<1>1. crashes \in Nat
  BY DEF IInv, TypeOK
<1>2. ASSUME NEW w \in Worker, Crash(w) PROVE crashes' = crashes + 1
  BY <1>2 DEF Crash
<1>3. crashes' = crashes \/ \E w \in Worker : Crash(w)
  BY DEF Step, ProcessStep, Enqueue, Cleanup, TimelyTick, Tick, vars, ClaimSelect, ClaimCommit,
         RefreshFails, SnapshotInvalid, StartSending, HeartbeatStart, HeartbeatRefresh,
         HeartbeatError, SendEnd, StopHeartbeat, NotOwner, CompleteJob, FailJob, WriteLog,
         SmtpAccept, Restart
<1> QED
  BY <1>1, <1>2, <1>3
-----------------------------------------------------------------------------
(* The timers. *)

\* Timers start within their bounds.
LEMMA InitInTime == ASSUME Init, NEW w \in Worker PROVE InTime(w)
BY IdleFields DEF Init, InTime, Idle

\* And stay there, since clocks wait for the workers.
LEMMA StepInTime ==
  ASSUME IInv, \A w \in Worker : InTime(w), [Step \/ TimelyTick]_vars, NEW w \in Worker
  PROVE  InTime(w)'
<1>1. CASE wk'[w] = wk[w]
  BY <1>1 DEF InTime
<1>2. CASE TimelyTick
  <2>1. /\ wk'[w].pc = wk[w].pc /\ wk'[w].hb = wk[w].hb /\ wk'[w].lost = wk[w].lost
        /\ wk'[w].timer \in {wk[w].timer, wk[w].timer + 1}
        /\ wk[w].hb = "off" \/ wk[w].pc \in {"sending", "stopping"}
        /\ OnTime(w) /\ InTime(w) /\ wk[w].timer \in Nat
    <3>1. wk[w] \in WorkerState /\ WorkerOK(w)
      BY DEF IInv, TypeOK
    <3>2. wk[w].timer \in Nat /\ (wk[w].hb = "off" \/ wk[w].pc \in {"sending", "stopping"})
      BY <3>1 DEF WorkerOK, ControlOK, WorkerState
    <3> QED
      BY <1>2, <3>2, Ticking, OneOlder
  <2> QED
    BY <2>1 DEF InTime, OnTime, Busy
<1>3. ASSUME ProcessStep(w) \/ Crash(w) \/ Restart(w) PROVE InTime(w)'
  <2>1. CASE ClaimSelect(w)
    BY <2>1, Selecting DEF InTime
  <2>2. CASE ClaimCommit(w)
    <3> QED
      BY <2>2, HasJob, Committing DEF InTime
  <2>3. CASE SnapshotInvalid(w)
    BY <2>3, Invalidating DEF InTime
  <2>4. CASE StartSending(w)
    BY <2>4, Starting DEF InTime
  <2>5. CASE HeartbeatStart(w)
    BY <2>5, Waking DEF InTime
  <2>6. CASE Refreshes(w) \/ GivingUp(w)
    <3>1. wk[w].job \in Job
      BY <2>6, HasJob
    <3>2. CASE Refreshes(w)
      <4>1. /\ wk'[w].pc \in {"sending", "stopping"}
            /\ wk'[w].hb = "wait" /\ wk'[w].timer = 0
        BY <3>1, <3>2, Refreshing
      <4> QED
        BY <4>1 DEF InTime
    <3>3. CASE GivingUp(w)
      BY <3>1, <3>3, Surrendering DEF InTime
    <3> QED
      BY <2>6, <3>2, <3>3
  <2>7. CASE SendEnd(w)
    BY <2>7, Returning DEF InTime
  <2>8. CASE StopHeartbeat(w) /\ ~wk[w].lost
    BY <2>8, Stopping DEF InTime
  <2>9. CASE Ends(w)
    <3> QED
      BY <2>9, HasJob, Ending DEF InTime
  <2>10. CASE \/ RefreshFails(w) \/ NotOwner(w) \/ WriteLog(w) \/ Crash(w) \/ Restart(w)
              \/ StopHeartbeat(w) /\ wk[w].lost
    BY <2>10, Leaving DEF InTime
  <2> QED
    BY <1>3, <2>1, <2>2, <2>3, <2>4, <2>5, <2>6, <2>7, <2>8, <2>9, <2>10, WorkerSteps
<1>4. wk'[w] = wk[w] \/ TimelyTick \/ ProcessStep(w) \/ Crash(w) \/ Restart(w)
  BY Steps, WorkersActAlone DEF Alone, Enqueue, SmtpAccept, Cleanup, vars
<1> QED
  BY <1>1, <1>2, <1>3, <1>4
-----------------------------------------------------------------------------
(* The claims of live workers. *)

\* The lock timeout leaves room for a heartbeat that is late at both ends.
HeartbeatsFit == HeartbeatInterval + 2 * Latency <= LockTimeout

\* A row that is held securely is not stale.
LEMMA NotStale ==
  ASSUME HeartbeatsFit, IInv, NEW w \in Worker, InTime(w), Secure(w), Live(w)
  PROVE  /\ wk[w].job \in Job /\ wk[w].timer \in Nat
         /\ row[wk[w].job].locked_age \in Nat
         /\ row[wk[w].job].locked_age <= LockTimeout
         /\ ~Claimable(wk[w].job)
<1>1. Busy(w)
  BY DEF Live, Processing, Busy
<1> PICK j \in Job : j = wk[w].job
  BY <1>1, Working
<1>2. wk[w].timer \in Nat /\ row[j].locked_age \in Nat \cup {None} /\ ControlOK(w)
  BY <1>1, Working DEF Row
<1>3. Owns(w, j) /\ row[j].locked_age \in Nat /\ row[j].locked_age <= wk[w].timer + Margin(w)
  BY <1>2 DEF Secure
<1>4. wk[w].timer + Margin(w) <= HeartbeatInterval + 2 * Latency
  <2>1. CASE wk[w].hb = "off"
    BY <1>2, <2>1 DEF InTime, Live, Processing, Margin
  <2>2. CASE wk[w].hb = "wait"
    BY <1>2, <2>2 DEF InTime, Live, Processing, Margin, ControlOK
  <2>3. CASE wk[w].hb = "inflight"
    BY <1>2, <2>3 DEF InTime, Live, Processing, Margin, ControlOK
  <2>4. wk[w].hb \in {"off", "wait", "inflight"}
    BY <1>1, Working DEF InTime, Live, WorkerState
  <2> QED
    BY <2>1, <2>2, <2>3, <2>4
<1>5. row[j].locked_age <= LockTimeout
  <2>1. Margin(w) \in Nat
    BY DEF Margin
  <2> QED
    BY <1>2, <1>3, <1>4, <2>1 DEF HeartbeatsFit
<1> QED
  BY <1>2, <1>3, <1>5 DEF Claimable, Owns, Stale

\* What other workers do is no harm.
LEMMA OthersDoNoHarm ==
  ASSUME HeartbeatsFit, IInv, NEW w \in Worker, InTime(w), Secure(w), Live(w),
         NEW j \in Job, j = wk[w].job,
         NEW u \in Worker, u # w, ProcessStep(u) \/ Crash(u) \/ Restart(u)
  PROVE  row'[j] = row[j] /\ ~RowLocked(j)'
<1>1. Owns(w, j) /\ ~RowLocked(j)
  BY DEF Secure
<1>2. row'[j] = row[j]
  BY <1>1, RowWriters DEF RowLocked, Owns
<1>3. ASSUME NEW v \in Worker, wk'[v].pc = "selected", wk'[v].job = j PROVE FALSE
  <2>1. CASE v # u
    BY <1>1, <1>3, <2>1, WorkersActAlone DEF Alone, RowLocked
  <2>2. CASE v = u
    BY <1>3, <2>2, Selectors, Selecting, NotStale
  <2> QED
    BY <2>1, <2>2
<1> QED
  BY <1>2, <1>3 DEF RowLocked

LEMMA InitSecure == ASSUME Init, NEW w \in Worker PROVE Secure(w)
BY IdleFields DEF Init, Secure, Live, Processing

\* The worker itself keeps its claim secure.
LEMMA OwnStepSecure ==
  ASSUME HeartbeatsFit, IInv, \A w \in Worker : InTime(w) /\ Secure(w), IInv',
         NEW w \in Worker, ProcessStep(w) \/ Crash(w) \/ Restart(w), Live(w)'
  PROVE  Secure(w)'
<1>0. /\ InTime(w) /\ Secure(w) /\ Alone(w)
      /\ wk[w] \in WorkerState /\ wk[w].timer \in Nat
  BY WorkersActAlone DEF IInv, TypeOK, WorkerState
\* Nobody else selects.
<1>1. ASSUME NEW j \in Job, ~RowLocked(j), wk'[w].pc # "selected" PROVE ~RowLocked(j)'
  BY <1>0, <1>1 DEF RowLocked, Alone
<1>2. CASE ClaimSelect(w)
  BY <1>2, Selecting DEF Live, Processing
<1>3. CASE ClaimCommit(w)
  <2> PICK j \in Job : j = wk[w].job
    BY <1>3, HasJob
  <2>1. /\ wk[w].pc = "selected" /\ wk'[w].pc = "claimed" /\ wk'[w].job = j
        /\ wk'[w].timer = wk[w].timer /\ row'[j].status = "processing"
        /\ row'[j].locked_by = w /\ row'[j].locked_age = wk[w].timer
    BY <1>3, Committing
  <2>2. ~RowLocked(j)'
    BY <1>0, <2>1 DEF IInv, OneSelector, RowLocked, Alone
  <2> QED
    BY <1>0, <2>1, <2>2 DEF Secure, Owns, Margin
<1>4. CASE SnapshotInvalid(w) \/ StartSending(w)
  <2>1. Live(w)
    BY <1>4, Invalidating, Starting DEF Live, Processing
  <2> PICK j \in Job : j = wk[w].job
    BY <1>0, <2>1, NotStale
  <2>2. /\ wk[w].pc = "claimed" /\ row' = row /\ wk'[w].job = j
        /\ \/ wk'[w].pc = "finalize" /\ wk'[w].hb = "off" /\ wk'[w].timer = wk[w].timer
           \/ wk'[w].pc = "sending" /\ wk'[w].hb = "wait" /\ wk'[w].timer = HeartbeatInterval
    BY <1>4, Invalidating, Starting DEF Same
  <2>3. /\ Owns(w, j)' /\ ~RowLocked(j)' /\ row'[j].locked_age \in Nat
        /\ row'[j].locked_age <= wk[w].timer /\ wk[w].timer <= Latency
    BY <1>0, <1>1, <2>1, <2>2, NotStale DEF Secure, Owns, Margin, InTime
  <2> QED
    BY <1>0, <2>2, <2>3 DEF Secure, Margin
<1>5. CASE HeartbeatStart(w)
  <2>1. Live(w)
    BY <1>5, Waking DEF Live, Processing
  <2> PICK j \in Job : j = wk[w].job
    BY <1>0, <2>1, NotStale
  <2>2. /\ wk[w].pc = "sending" /\ wk[w].hb = "wait" /\ row' = row /\ wk'[w].job = j
        /\ wk'[w].pc = "sending" /\ wk'[w].hb = "inflight" /\ wk'[w].timer = 0
    BY <1>5, Waking DEF Same
  <2>3. /\ Owns(w, j)' /\ ~RowLocked(j)' /\ row'[j].locked_age \in Nat
        /\ row'[j].locked_age <= wk[w].timer + Latency /\ wk[w].timer <= HeartbeatInterval
    BY <1>0, <1>1, <2>1, <2>2, NotStale DEF Secure, Owns, Margin, InTime
  <2> QED
    BY <1>0, <2>2, <2>3 DEF Secure, Margin
<1>6. CASE Refreshes(w)
  <2> PICK j \in Job : j = wk[w].job
    BY <1>6, HasJob
  <2>1. /\ wk[w].pc \in {"sending", "stopping"} /\ wk'[w].pc = wk[w].pc /\ wk'[w].job = j
        /\ wk[w].hb = "inflight" /\ wk'[w].hb = "wait" /\ wk'[w].timer = 0
        /\ row'[j] = [row[j] EXCEPT !.locked_age = wk[w].timer]
        /\ row'[j].locked_age = wk[w].timer
    BY <1>6, Refreshing DEF Same
  <2>2. Owns(w, j) /\ ~RowLocked(j) /\ row[j] \in Row
    BY <1>6 DEF Refreshes, HeartbeatRefresh, IInv, TypeOK
  <2>3. Owns(w, j)' /\ ~RowLocked(j)'
    BY <1>1, <2>1, <2>2 DEF Owns, Row
  <2>4. wk[w].timer <= Latency
    BY <1>0, <2>1 DEF InTime
  <2> QED
    BY <1>0, <2>1, <2>3, <2>4 DEF Secure, Margin
<1>7. CASE GivingUp(w)
  BY <1>7, HasJob, Surrendering DEF Live
<1>8. CASE SendEnd(w)
  <2>1. Live(w)
    BY <1>8, Returning DEF Live, Processing
  <2> PICK j \in Job : j = wk[w].job
    BY <1>0, <2>1, NotStale
  <2>2. /\ wk[w].pc = "sending" /\ wk'[w].pc = "stopping" /\ row' = row /\ wk'[w].job = j
        /\ wk'[w].hb = wk[w].hb /\ wk'[w].timer = wk[w].timer
    BY <1>8, Returning DEF Same
  <2>3. Owns(w, j)' /\ ~RowLocked(j)' /\ row[j].locked_age # None
        /\ row[j].locked_age <= wk[w].timer + Margin(w)
    BY <1>0, <1>1, <2>1, <2>2 DEF Secure, Owns
  <2>4. Margin(w)' = Margin(w)
    BY <2>2 DEF Margin
  <2> QED
    BY <2>2, <2>3, <2>4 DEF Secure
<1>9. CASE StopHeartbeat(w) /\ ~wk[w].lost
  <2>1. Live(w)
    BY <1>9, Stopping DEF Live, Processing
  <2> PICK j \in Job : j = wk[w].job
    BY <1>0, <2>1, NotStale
  <2>2. /\ wk[w].pc = "stopping" /\ wk[w].hb # "inflight" /\ ~wk[w].lost /\ row' = row
        /\ wk'[w].job = j /\ wk'[w].pc = "finalize" /\ wk'[w].hb = "off" /\ wk'[w].timer = 0
    BY <1>9, Stopping DEF Same
  <2>3. wk[w].hb = "wait" /\ wk[w].timer <= HeartbeatInterval
    BY <1>0, <2>2 DEF InTime, WorkerState
  <2>4. /\ Owns(w, j)' /\ ~RowLocked(j)' /\ row'[j].locked_age \in Nat
        /\ row'[j].locked_age <= wk[w].timer + Latency
    BY <1>0, <1>1, <2>1, <2>2, <2>3, NotStale DEF Secure, Owns, Margin
  <2> QED
    BY <1>0, <2>2, <2>3, <2>4 DEF Secure, Margin
<1>10. CASE Ends(w)
  BY <1>10, HasJob, Ending DEF Live, Processing
<1>11. CASE \/ RefreshFails(w) \/ NotOwner(w) \/ WriteLog(w) \/ Crash(w) \/ Restart(w)
            \/ StopHeartbeat(w) /\ wk[w].lost
  BY <1>11, Leaving DEF Live, Processing
<1> QED
  BY <1>2, <1>3, <1>4, <1>5, <1>6, <1>7, <1>8, <1>9, <1>10, <1>11, WorkerSteps

\* Every step keeps the claims of live workers secure.
LEMMA StepSecure ==
  ASSUME HeartbeatsFit, IInv, \A w \in Worker : InTime(w) /\ Secure(w),
         [Step \/ TimelyTick]_vars, IInv', NEW w \in Worker
  PROVE  Secure(w)'
<1> SUFFICES ASSUME Live(w)' PROVE Secure(w)'
  BY DEF Secure
<1>1. CASE ProcessStep(w) \/ Crash(w) \/ Restart(w)
  BY <1>1, OwnStepSecure
<1>2. CASE wk'[w] = wk[w] /\ ~TimelyTick /\ ~(ProcessStep(w) \/ Crash(w) \/ Restart(w))
  <2>1. Live(w) /\ InTime(w) /\ Secure(w)
    BY <1>2 DEF Live, Processing
  <2> PICK j \in Job : j = wk[w].job
    BY <2>1, NotStale
  <2>2. Owns(w, j) /\ ~RowLocked(j) /\ row[j] \in Row /\ RowOK(j)
    BY <2>1 DEF Secure, IInv, TypeOK
  <2>3. row'[j] = row[j] /\ ~RowLocked(j)'
    <3>1. CASE \E u \in Worker : SmtpAccept(u)
      BY <2>2, <3>1, Accepting DEF RowLocked
    <3>2. ASSUME NEW k \in Job, Enqueue(k) PROVE row'[j] = row[j] /\ ~RowLocked(j)'
      BY <2>2, <3>2, Enqueuing DEF RowLocked, Owns
    <3>3. CASE Cleanup
      BY <2>2, <3>3, Cleaning DEF RowLocked, Owns, Terminal
    <3>4. CASE UNCHANGED vars
      BY <2>2, <3>4 DEF vars, RowLocked
    <3>5. ASSUME NEW u \in Worker, u # w, ProcessStep(u) \/ Crash(u) \/ Restart(u)
          PROVE  row'[j] = row[j] /\ ~RowLocked(j)'
      BY <2>1, <3>5, OthersDoNoHarm
    <3> QED
      BY <1>2, <3>1, <3>2, <3>3, <3>4, <3>5, Steps
  <2> QED
    BY <1>2, <2>1, <2>3 DEF Secure, Owns, Margin
<1>3. CASE TimelyTick
  <2>1. /\ wk'[w].pc = wk[w].pc /\ wk'[w].job = wk[w].job /\ wk'[w].hb = wk[w].hb
        /\ wk'[w].lost = wk[w].lost /\ OnTime(w)
        /\ wk'[w].timer = IF Timed(w) THEN Older(wk[w].timer, LockTimeout) ELSE wk[w].timer
    BY <1>3, Ticking
  <2>2. Live(w) /\ InTime(w) /\ Secure(w)
    BY <2>1 DEF Live, Processing
  <2> PICK j \in Job : j = wk[w].job
    BY <2>2, NotStale
  <2>3. Owns(w, j)' /\ ~RowLocked(j)' /\ row'[j].locked_age = Older(row[j].locked_age, LockTimeout)
    BY <1>3, <2>2, Ticking DEF Secure, Owns, RowLocked
  <2>4. wk[w].timer \in Nat /\ row[j].locked_age \in Nat /\ row[j].locked_age <= wk[w].timer + Margin(w)
    BY <2>2, NotStale DEF Secure
  <2>5. wk'[w].timer = wk[w].timer + 1
    <3>1. Timed(w)
      BY <2>2 DEF Timed, Live, Processing, Busy, InTime
    <3>2. wk[w].timer <= LockTimeout
      BY <2>2, <2>4 DEF Live, Processing, InTime, HeartbeatsFit, IInv, WorkerOK, ControlOK, TypeOK, WorkerState
    <3> QED
      BY <2>1, <2>4, <3>1, <3>2, OneOlder
  <2>6. Margin(w)' = Margin(w) /\ Margin(w) \in Nat
    BY <2>1 DEF Margin
  <2>7. row'[j].locked_age \in Nat /\ row'[j].locked_age <= row[j].locked_age + 1
    <3> PICK a \in Nat : a = row[j].locked_age
      BY <2>4
    <3>1. Older(a, LockTimeout) \in Nat /\ Older(a, LockTimeout) <= a + 1
      BY DEF Older
    <3> QED
      BY <2>3, <3>1
  <2> QED
    BY <2>1, <2>3, <2>4, <2>5, <2>6, <2>7 DEF Secure
<1>4. \/ ProcessStep(w) \/ Crash(w) \/ Restart(w)
      \/ wk'[w] = wk[w] /\ ~TimelyTick /\ ~(ProcessStep(w) \/ Crash(w) \/ Restart(w))
      \/ TimelyTick
  BY Steps, WorkersActAlone DEF Alone, Enqueue, SmtpAccept, Cleanup, vars
<1> QED
  BY <1>1, <1>2, <1>3, <1>4

(* The timely queue is the queue: what holds whatever the clocks do holds when the
   processes keep up with them, the refinement of the ledger included
   (app/services/delivery_queue.py, app/services/worker.py). *)
THEOREM TimelyIsSafe == TimelySpec => Spec
<1>1. [Step \/ TimelyTick]_vars => [Next]_vars
  BY DEF Next, TimelyTick
<1> QED
  BY <1>1, PTL DEF TimelySpec, Spec

THEOREM TimelyImplementsLedger == TimelySpec => LedgerSpec
BY TimelyIsSafe, QueueImplementsLedger

\* The queue's invariant and the timers, whatever the settings.
Punctual == IInv /\ \A w \in Worker : InTime(w)

LEMMA Timing == TimelySpec => []Punctual
<1>1. Init => Punctual
  BY InitEstablishes, InitInTime DEF Punctual
<1>2. Punctual /\ [Step \/ TimelyTick]_vars => Punctual'
  <2> SUFFICES ASSUME Punctual, [Step \/ TimelyTick]_vars PROVE Punctual'
    OBVIOUS
  <2>1. IInv'
    BY NextPreserves DEF Next, TimelyTick, Punctual
  <2>2. ASSUME NEW w \in Worker PROVE InTime(w)'
    BY StepInTime DEF Punctual
  <2> QED
    BY <2>1, <2>2 DEF Punctual
<1> QED
  BY <1>1, <1>2, PTL DEF TimelySpec

\* Live workers hold their claims if the lock timeout leaves room.
AllSecure == \A w \in Worker : Secure(w)

LEMMA Security ==
  ASSUME HeartbeatsFit PROVE TimelySpec => [](Punctual /\ AllSecure)
<1>1. Init => AllSecure
  BY InitSecure DEF AllSecure
<1>2. Punctual /\ Punctual' /\ AllSecure /\ [Step \/ TimelyTick]_vars => AllSecure'
  BY StepSecure DEF Punctual, AllSecure
<1> QED
  BY <1>1, <1>2, Timing, PTL DEF TimelySpec

(* README.md:186, a live heartbeat prevents reclaim: with room for a late heartbeat
   in the lock timeout no step takes a job from a worker that is alive and has not
   given it up, whatever else goes wrong (claim_job, refresh_job_heartbeat). *)
THEOREM HeartbeatsPreventReclaim ==
  ASSUME HeartbeatsFit PROVE TimelySpec => LiveHeartbeatPreventsReclaim
<1> DEFINE Act == \A w \in Worker : \A j \in Job :
                    Processing(w) /\ ~wk[w].lost /\ wk[w].job = j /\ Owns(w, j) =>
                      row'[j].locked_by \in {w, None}
<1>1. Punctual /\ AllSecure /\ [Step \/ TimelyTick]_vars => [Act]_vars
  <2> SUFFICES ASSUME Punctual, AllSecure, [Step \/ TimelyTick]_vars, NEW w \in Worker, NEW j \in Job,
                      Live(w), wk[w].job = j, Owns(w, j)
               PROVE  row'[j].locked_by \in {w, None}
    BY DEF Live
  <2>0. IInv /\ InTime(w) /\ Secure(w)
    BY DEF Punctual, AllSecure
  <2>1. row[j].locked_by = w /\ row[j] \in Row /\ ~RowLocked(j)
    BY <2>0 DEF Owns, IInv, TypeOK, Secure
  <2>2. ASSUME NEW u \in Worker, ProcessStep(u) \/ Crash(u) \/ Restart(u)
        PROVE  row'[j].locked_by \in {w, None}
    <3>1. CASE row'[j] = row[j]
      BY <2>1, <3>1
    <3>2. CASE row'[j] # row[j]
      <4>1. wk[u].job = j /\ Owns(u, j)
        BY <2>0, <2>1, <2>2, <3>2, RowWriters DEF RowLocked
      <4>2. u = w
        BY <2>1, <4>1 DEF Owns
      <4>3. CASE Ends(w)
        BY <2>0, <4>3, Ending
      <4>4. CASE Refreshes(w) \/ GivingUp(w)
        <5>1. row'[j] = row[j] \/ row'[j] = [row[j] EXCEPT !.locked_age = wk[w].timer]
          BY <2>0, <4>4, Refreshing, Surrendering
        <5> QED
          BY <2>1, <5>1 DEF Row
      <4>5. CASE ClaimCommit(w)
        BY <2>1, <4>1, <4>2, <4>5 DEF ClaimCommit, RowLocked
      <4> QED
        BY <2>0, <2>2, <3>2, <4>2, <4>3, <4>4, <4>5, RowWriting
    <3> QED
      BY <3>1, <3>2
  <2>3. ASSUME NEW k \in Job, Enqueue(k) PROVE row'[j].locked_by \in {w, None}
    BY <2>0, <2>1, <2>3, Enqueuing DEF Owns
  <2>4. CASE Cleanup
    BY <2>0, <2>1, <2>4, Cleaning DEF Owns, Terminal
  <2>5. CASE TimelyTick
    BY <2>0, <2>1, <2>5, Ticking
  <2>6. CASE UNCHANGED vars \/ \E u \in Worker : SmtpAccept(u)
    BY <2>0, <2>1, <2>6, Accepting DEF vars
  <2> QED
    BY <2>2, <2>3, <2>4, <2>5, <2>6, Steps
<1> QED
  BY <1>1, Security, PTL DEF TimelySpec, LiveHeartbeatPreventsReclaim

(* At any time at most one worker is at work on a job that has not been told of the
   loss of its claim, whatever heartbeats fail (README.md:186; worker.py:41). *)
THEOREM OneLiveClaimPerJob ==
  ASSUME HeartbeatsFit
  PROVE  TimelySpec => [](\A u, w \in Worker : Live(u) /\ Live(w) /\ wk[u].job = wk[w].job => u = w)
<1>1. AllSecure => \A u, w \in Worker : Live(u) /\ Live(w) /\ wk[u].job = wk[w].job => u = w
  BY DEF AllSecure, Secure, Owns
<1> QED
  BY <1>1, Security, PTL
-----------------------------------------------------------------------------
(* What is about to be logged. *)

\* A retry is due later than a worker needs to log it.
DelaysFit == /\ Latency <= LockTimeout
             /\ \A a \in 0 .. MaxClaims : Backoff(a) > Latency

LEMMA InitReporting == ASSUME Init, NEW w \in Worker PROVE Reporting(w)
BY IdleFields DEF Init, Reporting

\* The end of the claim is what the log will tell.
LEMMA EndReporting ==
  ASSUME DelaysFit, IInv, NEW w \in Worker, Ends(w) PROVE Reporting(w)'
<1> PICK j \in Job : j = wk[w].job
  BY HasJob
<1>1. /\ Alone(w) /\ wk'[w].job = j /\ wk'[w].claim = wk[w].claim /\ wk'[w].timer = wk[w].timer
      /\ wk[w].pc = "finalize" /\ wk'[w].pc = "logging" /\ Owns(w, j) /\ ~RowLocked(j)
      /\ row'[j].status = wk'[w].result /\ row'[j].attempts = row[j].attempts
      /\ \/ /\ wk'[w].result = "queued"
            /\ row'[j].available_in = Backoff(wk[w].att) /\ row'[j].terminal_age = None
         \/ wk'[w].result \in Terminal /\ row'[j].terminal_age = 0
  BY Ending DEF Same
<1>2. wk[w].claim = row[j].attempts /\ wk[w].timer \in Nat /\ wk[w].att \in 0 .. MaxClaims
  BY <1>1, Working DEF Busy, HoldsOK, Processing, WorkerState
<1>3. Backoff(wk[w].att) > Latency /\ Backoff(wk[w].att) \in Nat
  BY <1>2, BackoffAssumption DEF DelaysFit
<1>4. ~RowLocked(j)'
  BY <1>1 DEF RowLocked, Alone
<1>5. CASE wk'[w].result = "queued"
  BY <1>1, <1>2, <1>3, <1>4, <1>5 DEF Reporting, Terminal
<1>6. CASE wk'[w].result # "queued"
  BY <1>1, <1>2, <1>6 DEF Reporting, Terminal
<1> QED
  BY <1>5, <1>6

\* Nobody takes the job while its worker is about to write the log.
LEMMA StepReporting ==
  ASSUME DelaysFit, Punctual, \A w \in Worker : Reporting(w),
         [Step \/ TimelyTick]_vars, NEW w \in Worker
  PROVE  Reporting(w)'
<1> SUFFICES ASSUME wk'[w].pc = "logging" PROVE Reporting(w)'
  BY DEF Reporting
<1>0. IInv /\ InTime(w) /\ Reporting(w)
  BY DEF Punctual
<1>1. CASE ProcessStep(w) \/ Crash(w) \/ Restart(w)
  BY <1>0, <1>1, Arrivals, EndReporting
<1>2. CASE ~(ProcessStep(w) \/ Crash(w) \/ Restart(w))
  <2>1. /\ wk[w].pc = "logging" /\ wk'[w].job = wk[w].job /\ wk'[w].claim = wk[w].claim
        /\ wk[w].hb = wk'[w].hb /\ wk'[w].result = wk[w].result
        /\ ~TimelyTick => wk'[w].timer = wk[w].timer
    BY <1>0, <1>2, Bystanders
  <2>2. Busy(w)
    BY <2>1 DEF Busy
  <2> PICK j \in Job : j = wk[w].job
    BY <1>0, <2>2, Working
  <2>3. /\ wk[w].timer \in Nat /\ row[j] \in Row /\ wk[w].result \in {"queued"} \cup Terminal
        /\ wk[w].result # "queued" => row[j].status \in Terminal \cup {"purged"}
        /\ wk[w].claim >= 1 /\ row[j].attempts >= 1
    BY <1>0, <2>1, <2>2, Working DEF ControlOK, HoldsOK, Terminal, Row, WorkerState
  <2>4. /\ wk[w].claim = row[j].attempts /\ wk[w].timer <= Latency
        /\ wk[w].result = "queued" => /\ row[j].status = "queued" /\ ~RowLocked(j)
                                      /\ row[j].available_in + wk[w].timer > Latency
        /\ row[j].terminal_age # None => row[j].terminal_age <= wk[w].timer
    BY <1>0, <2>1 DEF Reporting, InTime
  <2>5. row[j].status # "processing" /\ row[j].status # "absent"
    BY <2>3, <2>4 DEF Terminal
  <2>6. ~Claimable(j)
    BY <2>3, <2>4 DEF Claimable, Row, Terminal
  <2>7. ~RowLocked(j)
    BY <1>0, <2>3, <2>4 DEF RowLocked, IInv, WorkerOK, HoldsOK, Busy, Pending, Terminal
  <2>8. CASE TimelyTick
    <3>1. /\ OnTime(w) /\ wk'[w].timer = IF Timed(w) THEN Older(wk[w].timer, LockTimeout)
                                         ELSE wk[w].timer
          /\ row'[j].status = row[j].status /\ row'[j].attempts = row[j].attempts
          /\ row'[j].terminal_age = Older(row[j].terminal_age, TerminalRetention)
          /\ row'[j].available_in \in {row[j].available_in - 1, row[j].available_in}
          /\ ~RowLocked(j)'
      BY <1>0, <2>7, <2>8, Ticking DEF RowLocked
    <3>2. wk[w].hb = "off"
      BY <1>0, <2>1 DEF IInv, WorkerOK, ControlOK, TypeOK, WorkerState
    <3>3. wk'[w].timer = wk[w].timer + 1
      <4>1. Timed(w)
        BY <2>2, <3>2 DEF Timed
      <4>2. wk[w].timer <= LockTimeout
        BY <2>3, <2>4 DEF DelaysFit
      <4> QED
        BY <2>3, <3>1, <4>1, <4>2, OneOlder
    <3>4. row'[j].terminal_age # None => row'[j].terminal_age <= wk'[w].timer
      BY <2>3, <2>4, <3>1, <3>3 DEF Older, Row
    <3>5. wk[w].result = "queued" => row'[j].available_in + wk'[w].timer > Latency
      BY <2>3, <2>4, <3>1, <3>3 DEF Row
    <3> QED
      BY <2>1, <2>4, <3>1, <3>4, <3>5 DEF Reporting
  <2>9. CASE ~TimelyTick
    <3>1. /\ row'[j] = row[j] \/ /\ row'[j].attempts = row[j].attempts
                                 /\ row'[j].terminal_age = None /\ wk[w].result # "queued"
          /\ ~RowLocked(j)'
      <4>1. ASSUME NEW u \in Worker, u # w, ProcessStep(u) \/ Crash(u) \/ Restart(u)
            PROVE  row'[j] = row[j] /\ ~RowLocked(j)'
        <5>1. row'[j] = row[j]
          BY <1>0, <2>5, <2>7, <4>1, RowWriters DEF RowLocked, Owns
        <5>2. ASSUME NEW v \in Worker, wk'[v].pc = "selected", wk'[v].job = j PROVE FALSE
          <6>1. CASE v # u
            BY <1>0, <2>7, <4>1, <5>2, <6>1, WorkersActAlone DEF Alone, RowLocked
          <6>2. CASE v = u
            BY <1>0, <2>6, <4>1, <5>2, <6>2, Selectors, Selecting
          <6> QED
            BY <6>1, <6>2
        <5> QED
          BY <5>1, <5>2 DEF RowLocked
      <4>2. ASSUME NEW k \in Job, Enqueue(k) PROVE row'[j] = row[j] /\ ~RowLocked(j)'
        BY <1>0, <2>5, <2>7, <4>2, Enqueuing DEF RowLocked
      <4>3. CASE Cleanup
        BY <1>0, <2>4, <2>7, <4>3, Cleaning DEF RowLocked, Terminal
      <4>4. CASE (\E u \in Worker : SmtpAccept(u)) \/ UNCHANGED vars
        BY <1>0, <2>7, <4>4, Accepting DEF RowLocked, vars
      <4> QED
        BY <1>2, <2>9, <4>1, <4>2, <4>3, <4>4, Steps
    <3> QED
      BY <2>1, <2>4, <2>9, <3>1 DEF Reporting
  <2> QED
    BY <2>8, <2>9
<1> QED
  BY <1>1, <1>2

\* What is about to be logged is true if retries wait long enough.
AllReporting == \A w \in Worker : Reporting(w)

LEMMA Reports ==
  ASSUME DelaysFit PROVE TimelySpec => [](Punctual /\ AllReporting)
<1>1. Init => AllReporting
  BY InitReporting DEF AllReporting
<1>2. Punctual /\ AllReporting /\ [Step \/ TimelyTick]_vars => AllReporting'
  BY StepReporting DEF AllReporting
<1> QED
  BY <1>1, <1>2, Timing, PTL DEF TimelySpec

(* Whoever writes the log of a job still has its newest claim, so that the log tells
   of the attempts in their order (update_delivery_log in a transaction after that of
   complete_job or fail_job). *)
THEOREM LogsComeInOrder ==
  ASSUME DelaysFit PROVE TimelySpec => LogWriterHasLatestClaim
<1> DEFINE Act == \A w \in Worker :
                    wk[w].pc = "logging" /\ wk'[w].pc = "idle" =>
                      wk[w].claim = row[wk[w].job].attempts
<1>1. AllReporting => [Act]_vars
  BY DEF AllReporting, Reporting
<1> QED
  BY <1>1, Reports, PTL DEF TimelySpec, LogWriterHasLatestClaim
-----------------------------------------------------------------------------
(* Claims that are never lost. *)

\* Heartbeats find their room, and none fails but for the loss of its claim.
Reliable == HeartbeatsFit /\ "hberror" \notin Faults

\* The state of a queue whose workers keep what they claimed.
Faithful == /\ Punctual
            /\ AllSecure
            /\ \A w \in Worker : ~wk[w].lost

LEMMA InitKept == ASSUME Init, NEW w \in Worker PROVE ~wk[w].lost
BY IdleFields DEF Init

\* A secure heartbeat finds its claim.
LEMMA StepKept ==
  ASSUME Reliable, Faithful, [Step \/ TimelyTick]_vars, NEW w \in Worker
  PROVE  ~wk'[w].lost
<1>0. IInv /\ Secure(w) /\ ~wk[w].lost /\ wk[w] \in WorkerState
  BY DEF Faithful, Punctual, AllSecure, IInv, TypeOK
<1>1. CASE ~(ProcessStep(w) \/ Crash(w) \/ Restart(w))
  BY <1>0, <1>1, Bystanders
<1>2. ~GivingUp(w)
  <2> SUFFICES ASSUME GivingUp(w) PROVE FALSE
    OBVIOUS
  <2>1. wk[w].job \in Job
    BY <1>0, HasJob
  <2>2. wk[w].pc \in {"sending", "stopping"}
    BY <1>0, <2>1, Surrendering
  <2>3. Owns(w, wk[w].job)
    BY <1>0, <2>2 DEF Secure, Live, Processing
  <2> QED
    BY <2>3 DEF GivingUp, HeartbeatError, Reliable
<1>3. CASE ClaimCommit(w) \/ Refreshes(w) \/ Ends(w)
  <2> PICK j \in Job : j = wk[w].job
    BY <1>0, <1>3, HasJob
  <2>1. ~wk'[w].lost
    BY <1>0, <1>3, Committing, Refreshing, Ending
  <2> QED
    BY <2>1
<1>4. CASE ClaimSelect(w) \/ SnapshotInvalid(w) \/ StartSending(w) \/ HeartbeatStart(w) \/ SendEnd(w)
  BY <1>0, <1>4, Selecting, Invalidating, Starting, Waking, Returning
<1>5. CASE StopHeartbeat(w)
  BY <1>0, <1>5, Stopping
<1>6. CASE RefreshFails(w) \/ NotOwner(w) \/ WriteLog(w) \/ Crash(w) \/ Restart(w)
  <2>1. wk'[w] \in {Idle, Down}
    BY <1>0, <1>6, Leaving
  <2>2. ~Idle.lost /\ ~Down.lost
    BY IdleFields DEF Idle, Down
  <2> QED
    BY <2>1, <2>2
<1> QED
  BY <1>1, <1>2, <1>3, <1>4, <1>5, <1>6, WorkerSteps

LEMMA Faithfulness ==
  ASSUME Reliable PROVE TimelySpec => []Faithful
<1> DEFINE Kept == \A w \in Worker : ~wk[w].lost
<1>1. Init => Kept
  BY InitKept
<1>2. Punctual /\ AllSecure /\ Kept /\ [Step \/ TimelyTick]_vars => Kept'
  BY StepKept DEF Faithful
<1>3. Faithful <=> Punctual /\ AllSecure /\ Kept
  BY DEF Faithful
<1>4. TimelySpec => [](Punctual /\ AllSecure)
  BY Security DEF Reliable
<1> HIDE DEF Kept
<1> QED
  BY <1>1, <1>2, <1>3, <1>4, PTL DEF TimelySpec

\* Who works on a job owns it, and nobody else has it.
LEMMA HoldersOwn ==
  ASSUME Faithful, NEW w \in Worker, Processing(w)
  PROVE  /\ wk[w].job \in Job /\ Owns(w, wk[w].job) /\ ~RowLocked(wk[w].job)
         /\ row[wk[w].job].status = "processing" /\ wk[w].claim = row[wk[w].job].attempts
         /\ \A u \in Worker : Processing(u) /\ wk[u].job = wk[w].job => u = w
<1>1. IInv /\ \A u \in Worker : Secure(u) /\ ~wk[u].lost
  BY DEF Faithful, Punctual, AllSecure
<1>2. ASSUME NEW u \in Worker, Processing(u) PROVE Owns(u, wk[u].job) /\ ~RowLocked(wk[u].job)
  BY <1>1, <1>2 DEF Secure, Live
<1>3. wk[w].job \in Job /\ HoldsOK(w, wk[w].job)
  BY <1>1, Working DEF Busy, Processing
<1> QED
  BY <1>2, <1>3 DEF Owns, HoldsOK

(* README.md:186: claiming with FOR UPDATE SKIP LOCKED prevents that two workers
   process a job at once - if heartbeats have their room and do not fail (claim_job,
   heartbeat_job). *)
THEOREM OneWorkerPerJob ==
  ASSUME Reliable PROVE TimelySpec => []NoConcurrentProcessing
<1>1. Faithful => NoConcurrentProcessing
  BY HoldersOwn DEF NoConcurrentProcessing
<1> QED
  BY <1>1, Faithfulness, PTL

\* Work goes on until its end or a crash.
LEMMA WorkGoesOn ==
  ASSUME Reliable, Faithful, [Step \/ TimelyTick]_vars,
         NEW w \in Worker, Processing(w), ~Ends(w), ~Crash(w)
  PROVE  Processing(w)' /\ Same(w)
<1>0. IInv /\ ~wk[w].lost /\ wk[w].job \in Job /\ Owns(w, wk[w].job)
  BY HoldersOwn DEF Faithful, Punctual
<1>1. CASE ~(ProcessStep(w) \/ Crash(w) \/ Restart(w))
  BY <1>0, <1>1, Bystanders DEF Processing, Same
<1>2. CASE \/ ClaimSelect(w) \/ ClaimCommit(w) \/ RefreshFails(w) \/ NotOwner(w)
           \/ WriteLog(w) \/ Restart(w)
  BY <1>0, <1>2 DEF ClaimSelect, ClaimCommit, RefreshFails, NotOwner, WriteLog, Restart,
                    Processing, Owns
<1>3. CASE SnapshotInvalid(w) \/ StartSending(w) \/ HeartbeatStart(w) \/ SendEnd(w)
  BY <1>0, <1>3, Invalidating, Starting, Waking, Returning DEF Processing
<1>4. CASE StopHeartbeat(w)
  BY <1>0, <1>4, Stopping DEF Processing
<1>5. CASE Refreshes(w) \/ GivingUp(w)
  <2>1. wk[w].pc \in {"sending", "stopping"} /\ wk'[w].pc = wk[w].pc /\ Same(w)
    BY <1>0, <1>5, Refreshing, Surrendering
  <2> QED
    BY <2>1 DEF Processing
<1> QED
  BY <1>1, <1>2, <1>3, <1>4, <1>5, WorkerSteps

\* claim_job takes a job that nobody works on.
LEMMA FreshClaim ==
  ASSUME Faithful, NEW w \in Worker, wk[w].pc = "selected"
  PROVE  wk[w].job \in Job /\ ~Held(wk[w].job) /\ row[wk[w].job].status \in Pending
<1>1. IInv /\ Busy(w)
  BY DEF Faithful, Punctual, Busy
<1>2. wk[w].job \in Job /\ row[wk[w].job].status \in Pending
  BY <1>1, Working DEF HoldsOK
<1>3. RowLocked(wk[w].job)
  BY DEF RowLocked
<1> QED
  BY <1>2, <1>3, HoldersOwn DEF Held
-----------------------------------------------------------------------------
(* What crashes cost: attempts. *)

LEMMA InitAttempts == ASSUME Init, NEW j \in Job PROVE AttemptsPaid(j)
<1>1. row[j].attempts = 0 /\ crashes = 0 /\ AttemptsGranted \in Nat /\ AttemptsGranted > 0
  BY AbsentRowFields DEF Init, AttemptsGranted
<1> QED
  BY <1>1 DEF AttemptsPaid

\* A retry stays within the limit, so does a claim that follows a crash.
LEMMA StepAttempts ==
  ASSUME Reliable, Faithful, IInv', \A j \in Job : AttemptsPaid(j),
         [Step \/ TimelyTick]_vars, NEW j \in Job
  PROVE  AttemptsPaid(j)'
<1>0. /\ IInv /\ AttemptsPaid(j) /\ row[j].attempts \in Nat /\ row'[j].attempts \in Nat
      /\ crashes \in Nat /\ crashes' \in Nat /\ crashes' >= crashes
      /\ AttemptsGranted \in Nat /\ AttemptsGranted > 0 /\ AttemptsGranted >= MaxAttempts
  BY Crashes DEF Faithful, Punctual, IInv, TypeOK, Row, AttemptsGranted
<1>1. CASE Enqueue(j)
  <2>1. row'[j].attempts = 0
    BY <1>0, <1>1, Enqueuing
  <2> QED
    BY <1>0, <2>1 DEF AttemptsPaid
<1>2. ASSUME NEW w \in Worker, wk[w].job = j, ClaimCommit(w) PROVE AttemptsPaid(j)'
  <2>1. /\ wk[w].pc = "selected" /\ wk'[w].pc = "claimed" /\ wk'[w].job = j
        /\ row'[j].attempts = row[j].attempts + 1
    BY <1>0, <1>2, Committing
  <2>2. ~Held(j) /\ row[j].status \in Pending
    BY <1>2, <2>1, FreshClaim
  <2>3. row[j].attempts < AttemptsGranted + crashes
    BY <1>0, <2>2 DEF AttemptsPaid
  <2>4. Held(j)'
    BY <2>1 DEF Held, Processing
  <2> QED
    BY <1>0, <2>1, <2>3, <2>4 DEF AttemptsPaid
<1>3. ASSUME NEW w \in Worker, wk[w].job = j, Ends(w) PROVE AttemptsPaid(j)'
  <2>1. /\ row'[j].attempts = row[j].attempts /\ row'[j].status \in {"queued"} \cup Terminal
    BY <1>0, <1>3, Ending
  <2>2. row[j].attempts <= AttemptsGranted + crashes
    BY <1>0 DEF AttemptsPaid
  <2>3. row'[j].status = "queued" => row'[j].attempts < AttemptsGranted
    BY <1>0 DEF IInv, RowOK
  <2> QED
    BY <1>0, <2>1, <2>2, <2>3 DEF AttemptsPaid, Pending, Terminal
<1>4. CASE row'[j].status = row[j].status /\ row'[j].attempts = row[j].attempts
  <2>1. CASE row[j].status \in Pending /\ ~Held(j)'
    <3>1. CASE Held(j)
      <4>1. PICK w \in Worker : Processing(w) /\ wk[w].job = j
        BY <3>1 DEF Held
      <4>2. CASE Crash(w)
        BY <1>0, <1>4, <4>2, Crashes DEF AttemptsPaid
      <4>3. CASE Ends(w)
        BY <1>0, <1>3, <4>1, <4>3
      <4>4. CASE ~Crash(w) /\ ~Ends(w)
        BY <2>1, <4>1, <4>4, WorkGoesOn DEF Held, Same
      <4> QED
        BY <4>2, <4>3, <4>4
    <3>2. CASE ~Held(j)
      BY <1>0, <1>4, <2>1, <3>2 DEF AttemptsPaid
    <3> QED
      BY <3>1, <3>2
  <2>2. CASE ~(row[j].status \in Pending /\ ~Held(j)')
    BY <1>0, <1>4, <2>2 DEF AttemptsPaid
  <2> QED
    BY <2>1, <2>2
<1>5. CASE row'[j].status = "purged" /\ row'[j].attempts = row[j].attempts
  BY <1>0, <1>5 DEF AttemptsPaid, Pending
<1> QED
  BY <1>0, <1>1, <1>2, <1>3, <1>4, <1>5, JobSteps

AllAttemptsPaid == \A j \in Job : AttemptsPaid(j)

LEMMA Payment ==
  ASSUME Reliable PROVE TimelySpec => [](Faithful /\ AllAttemptsPaid)
<1>1. Init => AllAttemptsPaid
  BY InitAttempts DEF AllAttemptsPaid
<1>2. Faithful /\ Faithful' /\ AllAttemptsPaid /\ [Step \/ TimelyTick]_vars => AllAttemptsPaid'
  BY StepAttempts DEF AllAttemptsPaid, Faithful, Punctual
<1> QED
  BY <1>1, <1>2, Faithfulness, PTL DEF TimelySpec

(* An attempt beyond the limit costs a crash: claim_job does not look at max_attempts,
   but what it finds abandoned was abandoned by a worker that died. *)
THEOREM OnlyCrashesExceedTheLimit ==
  ASSUME Reliable PROVE TimelySpec => []ExtraAttemptsNeedCrashes
<1>1. AllAttemptsPaid => ExtraAttemptsNeedCrashes
  BY DEF AllAttemptsPaid, AttemptsPaid, ExtraAttemptsNeedCrashes
<1> QED
  BY <1>1, Payment, PTL
-----------------------------------------------------------------------------
(* What crashes cost: copies. *)

\* No dialogue fails after the message was accepted.
Unambiguous == Reliable /\ "ambiguous" \notin Faults

LEMMA InitUnsent == ASSUME Init, NEW w \in Worker PROVE Unsent(w)
BY IdleFields DEF Init, Unsent

\* The mail server hears of a claim once, from its worker.
LEMMA StepUnsent ==
  ASSUME Unambiguous, Faithful, \A w \in Worker : Unsent(w),
         [Step \/ TimelyTick]_vars, NEW w \in Worker
  PROVE  Unsent(w)'
<1> DEFINE Quiet(v) == \/ wk[v].pc = "claimed"
                       \/ wk[v].pc \in {"stopping", "finalize"} /\ wk[v].result # "ok"
<1> SUFFICES ASSUME Quiet(w)' PROVE wk'[w].claim \notin mailed'[wk'[w].job]
  BY DEF Unsent
<1>0. IInv /\ Reliable
  BY DEF Faithful, Punctual, Unambiguous
<1>1. CASE ~(ProcessStep(w) \/ Crash(w) \/ Restart(w))
  <2>1. /\ wk'[w].pc = wk[w].pc /\ wk'[w].job = wk[w].job /\ wk'[w].claim = wk[w].claim
        /\ wk'[w].result = wk[w].result
    BY <1>0, <1>1, Bystanders
  <2>2. Quiet(w) /\ wk[w].claim \notin mailed[wk[w].job]
    BY <2>1 DEF Unsent
  <2>3. Processing(w)
    BY <2>2 DEF Processing
  <2> PICK j \in Job : j = wk[w].job
    BY <2>3, HoldersOwn
  <2>4. mailed'[j] = mailed[j]
    <3>1. ASSUME NEW u \in Worker, SmtpAccept(u) PROVE mailed'[j] = mailed[j]
      <4>1. Processing(u) /\ u # w
        BY <1>0, <2>2, <3>1, Accepting DEF Processing
      <4>2. wk[u].job # j
        BY <2>3, <4>1, HoldersOwn
      <4> QED
        BY <1>0, <3>1, <4>2, Accepting
    <3>2. ASSUME NEW u \in Worker, ProcessStep(u) \/ Crash(u) \/ Restart(u) PROVE mailed' = mailed
      BY <1>0, <3>2, WorkersActAlone DEF Alone
    <3>3. CASE TimelyTick \/ Cleanup \/ UNCHANGED vars \/ \E k \in Job : Enqueue(k)
      BY <3>3 DEF TimelyTick, Tick, Cleanup, vars, Enqueue
    <3> QED
      BY <3>1, <3>2, <3>3, Steps
  <2> QED
    BY <2>1, <2>2, <2>4
<1>2. CASE ProcessStep(w) \/ Crash(w) \/ Restart(w)
  <2>0. mailed' = mailed /\ Processing(w)'
    BY <1>0, <1>2, WorkersActAlone DEF Alone, Processing
  <2>1. CASE ClaimCommit(w)
    <3> PICK j \in Job : j = wk[w].job
      BY <1>0, <2>1, HasJob
    <3>1. wk'[w].claim = row[j].attempts + 1 /\ wk'[w].job = j
      BY <1>0, <2>1, Committing
    <3>2. mailed[j] \subseteq 1 .. row[j].attempts /\ row[j].attempts \in Nat
      BY <1>0 DEF IInv, RowOK, TypeOK, Row
    <3> QED
      BY <2>0, <3>1, <3>2
  <2>2. CASE ~ClaimCommit(w)
    <3>1. Processing(w) /\ Same(w)
      BY <1>0, <1>2, <2>0, <2>2, Arrivals
    <3> SUFFICES wk[w].claim \notin mailed[wk[w].job]
      BY <2>0, <3>1 DEF Same
    <3>2. CASE SendEnd(w)
      <4>1. wk'[w].pc = "stopping" /\ wk'[w].result \in SendResult(w)
        BY <1>0, <3>2, Returning
      <4> QED
        BY <4>1 DEF SendResult, Unambiguous
    <3>3. CASE SnapshotInvalid(w)
      <4>1. wk[w].pc = "claimed"
        BY <1>0, <3>3, Invalidating
      <4> QED
        BY <4>1 DEF Unsent
    <3>4. CASE StopHeartbeat(w)
      <4>1. ~wk[w].lost
        BY DEF Faithful
      <4>2. wk[w].pc = "stopping" /\ wk'[w].pc = "finalize" /\ wk'[w].result = wk[w].result
        BY <1>0, <3>4, <4>1, Stopping
      <4> QED
        BY <4>2 DEF Unsent
    <3>5. CASE Refreshes(w) \/ GivingUp(w)
      <4> PICK j \in Job : j = wk[w].job
        BY <3>1, HoldersOwn
      <4>1. wk[w].pc \in {"sending", "stopping"} /\ wk'[w].pc = wk[w].pc
            /\ wk'[w].result = wk[w].result
        BY <1>0, <3>5, Refreshing, Surrendering
      <4> QED
        BY <4>1 DEF Unsent
    <3>6. CASE StartSending(w) \/ HeartbeatStart(w)
      <4>1. wk'[w].pc = "sending"
        BY <1>0, <3>6, Starting, Waking
      <4> QED
        BY <4>1
    <3>7. CASE Ends(w)
      <4> PICK j \in Job : j = wk[w].job
        BY <3>1, HoldersOwn
      <4>1. wk'[w].pc = "logging"
        BY <1>0, <3>7, Ending
      <4> QED
        BY <4>1
    <3>8. CASE ClaimSelect(w) \/ RefreshFails(w) \/ NotOwner(w) \/ WriteLog(w) \/ Crash(w) \/ Restart(w)
      <4>1. wk'[w].pc \in {"idle", "down", "selected"}
        BY <1>0, <3>8, Selecting, Leaving
      <4> QED
        BY <4>1
    <3> QED
      BY <1>2, <2>2, <3>2, <3>3, <3>4, <3>5, <3>6, <3>7, <3>8, WorkerSteps
  <2> QED
    BY <2>1, <2>2
<1> QED
  BY <1>1, <1>2

\* Copies are counted.
LEMMA Copies ==
  ASSUME IInv, NEW j \in Job
  PROVE  /\ Cardinality(mailed[j]) \in Nat
         /\ \A c : c \notin mailed[j] =>
              Cardinality(mailed[j] \cup {c}) = Cardinality(mailed[j]) + 1
<1>1. mailed[j] \subseteq 1 .. MaxClaims
  BY DEF IInv, TypeOK
<1>2. IsFiniteSet(1 .. MaxClaims)
  BY FS_Interval
<1>3. IsFiniteSet(mailed[j])
  BY <1>1, <1>2, FS_Subset
<1> QED
  BY <1>3, FS_AddElement, FS_CardinalityType

\* Some worker knows of the copies that no crash has paid for.
Known(j) == \E w \in Worker : /\ Processing(w) /\ wk[w].job = j
                              /\ wk[w].claim \in mailed[j]

LEMMA InitCopies == ASSUME Init, NEW j \in Job PROVE CopiesPaid(j)
<1>1. mailed[j] = {} /\ crashes = 0
  BY DEF Init
<1> QED
  BY <1>1, FS_EmptySet DEF CopiesPaid

\* A copy is sent when the copies before it are paid for.
LEMMA StepCopies ==
  ASSUME Unambiguous, Faithful, \A w \in Worker : Unsent(w), \A j \in Job : CopiesPaid(j),
         [Step \/ TimelyTick]_vars, NEW j \in Job
  PROVE  CopiesPaid(j)'
<1> DEFINE n == Cardinality(mailed[j])
           Over == row[j].status \in Terminal \cup {"purged"}
<1>0. /\ IInv /\ Reliable /\ n \in Nat
      /\ crashes \in Nat /\ crashes' \in Nat /\ crashes' >= crashes
      /\ n <= 1 + crashes /\ (Over \/ Known(j) \/ n <= crashes)
  BY Copies, Crashes DEF Faithful, Punctual, Unambiguous, CopiesPaid, Known
<1>1. CASE \E w \in Worker : SmtpAccept(w) /\ wk[w].job = j
  <2> PICK w \in Worker : SmtpAccept(w) /\ wk[w].job = j
    BY <1>1
  <2>1. /\ UNCHANGED <<row, wk, crashes>> /\ Processing(w) /\ wk[w].claim \notin mailed[j]
        /\ mailed'[j] = mailed[j] \cup {wk[w].claim}
    BY <1>0, Accepting DEF Processing
  <2>2. ~Over /\ ~Known(j)
    BY <2>1, HoldersOwn DEF Known, Terminal
  <2>3. Cardinality(mailed'[j]) = n + 1
    BY <1>0, <2>1, Copies
  <2>4. wk'[w].claim \in mailed'[j] /\ wk'[w].job = j /\ Processing(w)'
    BY <2>1 DEF Processing
  <2> QED
    BY <1>0, <2>1, <2>2, <2>3, <2>4 DEF CopiesPaid
<1>2. CASE ~\E w \in Worker : SmtpAccept(w) /\ wk[w].job = j
  <2>1. mailed'[j] = mailed[j]
    <3>1. ASSUME NEW w \in Worker, SmtpAccept(w) PROVE mailed'[j] = mailed[j]
      BY <1>0, <1>2, <3>1, Accepting
    <3>2. ASSUME NEW w \in Worker, ProcessStep(w) \/ Crash(w) \/ Restart(w) PROVE mailed' = mailed
      BY <1>0, <3>2, WorkersActAlone DEF Alone
    <3>3. CASE TimelyTick \/ Cleanup \/ UNCHANGED vars \/ \E k \in Job : Enqueue(k)
      BY <3>3 DEF TimelyTick, Tick, Cleanup, vars, Enqueue
    <3> QED
      BY <3>1, <3>2, <3>3, Steps
  <2>2. CASE n <= crashes
    BY <1>0, <2>1, <2>2 DEF CopiesPaid
  <2>3. CASE Over
    <3>1. Over'
      <4>1. ~Enqueue(j)
        BY <2>3 DEF Enqueue, Terminal
      <4>2. ASSUME NEW w \in Worker, wk[w].job = j PROVE ~ClaimCommit(w) /\ ~Ends(w)
        BY <2>3, <4>2, FreshClaim DEF ClaimCommit, Ends, CompleteJob, FailJob, Owns, Pending, Terminal
      <4> QED
        BY <1>0, <2>3, <4>1, <4>2, JobSteps DEF Terminal
    <3> QED
      BY <1>0, <2>1, <3>1 DEF CopiesPaid
  <2>4. CASE Known(j)
    <3> PICK w \in Worker : Processing(w) /\ wk[w].job = j /\ wk[w].claim \in mailed[j]
      BY <2>4 DEF Known
    <3>1. CASE Crash(w)
      BY <1>0, <2>1, <3>1, Crashes DEF CopiesPaid
    <3>2. CASE Ends(w)
      <4>1. row'[j].status \in Terminal
        <5>1. /\ row'[j].status = wk'[w].result /\ wk[w].pc = "finalize"
              /\ wk'[w].result \in Terminal \/ wk[w].result = "temp"
          BY <1>0, <3>2, Ending
        <5>2. wk[w].result = "ok"
          BY <5>1 DEF Unsent
        <5> QED
          BY <5>1, <5>2
      <4> QED
        BY <1>0, <2>1, <4>1 DEF CopiesPaid
    <3>3. CASE ~Crash(w) /\ ~Ends(w)
      <4>1. Processing(w)' /\ wk'[w].job = j /\ wk'[w].claim \in mailed'[j]
        BY <1>0, <2>1, <3>3, WorkGoesOn DEF Same
      <4> QED
        BY <1>0, <2>1, <4>1 DEF CopiesPaid
    <3> QED
      BY <3>1, <3>2, <3>3
  <2> QED
    BY <1>0, <2>2, <2>3, <2>4
<1> QED
  BY <1>1, <1>2

AllUnsent == \A w \in Worker : Unsent(w)
AllCopiesPaid == \A j \in Job : CopiesPaid(j)

LEMMA CopyPayment ==
  ASSUME Unambiguous PROVE TimelySpec => [](Faithful /\ AllUnsent /\ AllCopiesPaid)
<1>1. Init => AllUnsent /\ AllCopiesPaid
  BY InitUnsent, InitCopies DEF AllUnsent, AllCopiesPaid
<1>2. Faithful /\ AllUnsent /\ [Step \/ TimelyTick]_vars => AllUnsent'
  BY StepUnsent DEF AllUnsent
<1>3. Faithful /\ AllUnsent /\ AllCopiesPaid /\ [Step \/ TimelyTick]_vars => AllCopiesPaid'
  BY StepCopies DEF AllUnsent, AllCopiesPaid
<1>4. TimelySpec => []Faithful
  BY Faithfulness DEF Unambiguous
<1> QED
  BY <1>1, <1>2, <1>3, <1>4, PTL DEF TimelySpec

(* Every further copy of a message costs a crash (complete_job, fail_job and the send
   between them and claim_job). *)
THEOREM OnlyCrashesDuplicate ==
  ASSUME Unambiguous PROVE TimelySpec => []DuplicatesNeedCrashes
<1>1. AllCopiesPaid => DuplicatesNeedCrashes
  BY DEF AllCopiesPaid, CopiesPaid, DuplicatesNeedCrashes
<1> QED
  BY <1>1, CopyPayment, PTL
-----------------------------------------------------------------------------
(* What the log remembers. *)

\* Finished jobs are kept until their log is written, and the log until the end.
RetentionFits == /\ DelaysFit
                 /\ Latency <= TerminalRetention
                 /\ "logpurge" \notin Faults

LEMMA InitRemembered == ASSUME Init, NEW j \in Job PROVE Remembered(j)
BY AbsentRowFields DEF Init, Remembered, Terminal

\* What WriteLog does to the log of its job.
LEMMA Writing ==
  ASSUME IInv, NEW w \in Worker, WriteLog(w), NEW j \in Job
  PROVE  /\ j # wk[w].job \/ row[j].status = "purged" => log'[j] = log[j]
         /\ j = wk[w].job /\ row[j].status # "purged" /\ log[j] # None =>
              log'[j] # None /\ log'[j].delivery_status = wk[w].result
<1>1. wk[w].pc = "logging" /\ wk[w].job \in Job /\ wk[w].result \in {"queued"} \cup Terminal
  BY Working DEF WriteLog, Busy, ControlOK
<1>2. CASE row[wk[w].job].status = "purged"
  BY <1>1, <1>2 DEF WriteLog
<1>3. CASE row[wk[w].job].status # "purged"
  <2> DEFINE entry == [success |-> (wk[w].result = "delivered"), delivery_status |-> wk[w].result]
  <2>1. log' = [log EXCEPT ![wk[w].job] = IF @ = None THEN None ELSE entry]
    BY <1>3 DEF WriteLog
  <2>2. entry \in Log /\ entry.delivery_status = wk[w].result
    BY <1>1 DEF Log
  <2> HIDE DEF entry
  <2> QED
    BY <1>1, <1>3, <2>1, <2>2 DEF IInv, TypeOK
<1> QED
  BY <1>2, <1>3

\* The log exists from the beginning and is told of the end.
LEMMA StepRemembered ==
  ASSUME RetentionFits, Punctual, AllReporting, \A j \in Job : Remembered(j),
         [Step \/ TimelyTick]_vars, NEW j \in Job
  PROVE  Remembered(j)'
<1> DEFINE Reporter(w) == /\ wk[w].pc = "logging" /\ wk[w].job = j
                          /\ wk[w].result \in Terminal
           Over == row[j].status \in Terminal \cup {"purged"}
<1>0. /\ IInv /\ Remembered(j) /\ crashes \in Nat /\ crashes' \in Nat /\ crashes' >= crashes
      /\ \A w \in Worker : Reporting(w) /\ InTime(w)
      /\ "logpurge" \notin Faults /\ DelaysFit /\ Latency <= TerminalRetention
  BY Crashes DEF Punctual, AllReporting, RetentionFits
\* The log stays, and what it tells.
<1>1. /\ row'[j].status # "absent" => log'[j] # None
      /\ Over /\ Told(j) => Told(j)'
  <2>1. CASE Enqueue(j)
    <3>1. log'[j] # None /\ row[j].status = "absent"
      BY <1>0, <2>1, Enqueuing
    <3> QED
      BY <3>1 DEF Terminal
  <2>2. ASSUME NEW w \in Worker, WriteLog(w), wk[w].job = j, row[j].status # "purged"
        PROVE  (row'[j].status # "absent" => log'[j] # None) /\ (Over => Told(j)')
    <3>1. wk[w].pc = "logging"
      BY <2>2 DEF WriteLog
    <3>2. wk[w].result # "queued" => wk[w].result \in Terminal
      BY <1>0, <3>1, Working DEF Busy, ControlOK
    <3>3. wk[w].result = "queued" => row[j].status = "queued"
      BY <1>0, <2>2, <3>1 DEF Reporting
    <3>4. row[j].status # "absent"
      BY <1>0, <2>2, <3>1, Working DEF Busy, HoldsOK, RowOK
    <3>5. log'[j] # None /\ log'[j].delivery_status = wk[w].result
      BY <1>0, <2>2, <3>4, Writing DEF Remembered
    <3> QED
      BY <3>2, <3>3, <3>5 DEF Told, Terminal
  <2>3. CASE /\ ~Enqueue(j)
             /\ ~\E w \in Worker : WriteLog(w) /\ wk[w].job = j /\ row[j].status # "purged"
    <3>1. log'[j] = log[j]
      <4>1. ASSUME NEW k \in Job, Enqueue(k) PROVE log'[j] = log[j]
        BY <1>0, <2>3, <4>1, Enqueuing
      <4>2. ASSUME NEW w \in Worker, WriteLog(w) PROVE log'[j] = log[j]
        BY <1>0, <2>3, <4>2, Writing
      <4>3. CASE Cleanup
        BY <1>0, <4>3, Cleaning
      <4>4. CASE TimelyTick
        BY <1>0, <4>4, Ticking
      <4>5. CASE UNCHANGED log
        BY <4>5
      <4> QED
        BY <4>1, <4>2, <4>3, <4>4, <4>5
        DEF Step, ProcessStep, vars, ClaimSelect, ClaimCommit, RefreshFails, SnapshotInvalid,
            StartSending, HeartbeatStart, HeartbeatRefresh, HeartbeatError, SendEnd,
            StopHeartbeat, NotOwner, CompleteJob, FailJob, SmtpAccept, Crash, Restart
    <3>2. row'[j].status # "absent" => row[j].status # "absent"
      <4>1. ASSUME NEW w \in Worker, wk[w].job = j, ClaimCommit(w) \/ Ends(w)
            PROVE  row[j].status # "absent"
        BY <1>0, <4>1, Working DEF ClaimCommit, Ends, CompleteJob, FailJob, Owns, Busy, HoldsOK, Pending
      <4> QED
        BY <1>0, <2>3, <4>1, JobSteps DEF Terminal
    <3> QED
      BY <1>0, <3>1, <3>2 DEF Remembered, Told
  <2> QED
    BY <2>1, <2>2, <2>3
\* Whoever is about to tell tells it, or dies.
<1>2. ASSUME NEW w \in Worker, Reporter(w), row[j].status \in Terminal
      PROVE  Told(j)' \/ crashes' > 0 \/ (Reporter(w)' /\ row'[j].status # "purged")
  <2>1. CASE WriteLog(w)
    <3>1. row[j].status # "absent" /\ row[j].status # "purged"
      BY <1>2 DEF Terminal
    <3>2. log'[j].delivery_status = wk[w].result
      BY <1>0, <1>2, <2>1, <3>1, Writing DEF Remembered
    <3> QED
      BY <1>2, <3>2 DEF Told
  <2>2. CASE Crash(w)
    BY <1>0, <2>2, Crashes
  <2>3. CASE ~WriteLog(w) /\ ~Crash(w)
    <3>1. ~(ProcessStep(w) \/ Crash(w) \/ Restart(w))
      BY <1>0, <1>2, <2>3, Arrivals
    <3>2. Reporter(w)'
      BY <1>0, <1>2, <3>1, Bystanders
    <3>3. row[j] \in Row /\ row[j].terminal_age # None => row[j].terminal_age <= Latency
      BY <1>0, <1>2 DEF Reporting, InTime, IInv, TypeOK, WorkerState, Row
    <3>4. ~Expired(j)
      BY <1>0, <3>3 DEF Expired, IInv, TypeOK, Row
    <3>5. ASSUME NEW u \in Worker, wk[u].job = j PROVE ~ClaimCommit(u) /\ ~Ends(u)
      BY <1>0, <1>2, <3>5, Working
      DEF ClaimCommit, Ends, CompleteJob, FailJob, Owns, Busy, HoldsOK, Pending, Terminal
    <3>6. row'[j].status # "purged"
      BY <1>0, <1>2, <3>4, <3>5, JobSteps DEF Enqueue, Terminal
    <3> QED
      BY <3>2, <3>6
  <2> QED
    BY <2>1, <2>2, <2>3
\* The end of the job is about to be told.
<1>3. ASSUME Over', ~Over
      PROVE  \E w \in Worker : Reporter(w)' /\ row'[j].status # "purged"
  <2>1. PICK w \in Worker : wk[w].job = j /\ (ClaimCommit(w) \/ Ends(w))
    <3>1. ~Enqueue(j)
      BY <1>0, <1>3, Enqueuing DEF Terminal
    <3> QED
      BY <1>0, <1>3, <3>1, JobSteps
  <2>2. ~ClaimCommit(w)
    BY <1>0, <1>3, <2>1, Committing DEF Terminal
  <2>3. /\ wk'[w].pc = "logging" /\ wk'[w].job = j /\ row'[j].status = wk'[w].result
        /\ wk'[w].result \in {"queued"} \cup Terminal
    BY <1>0, <2>1, <2>2, Ending DEF Same
  <2>4. wk'[w].result \in Terminal
    BY <1>3, <2>3 DEF Terminal
  <2> QED
    BY <2>3, <2>4 DEF Terminal
<1>4. Over' => \/ Told(j)'
               \/ crashes' > 0
               \/ \E w \in Worker : Reporter(w)' /\ row'[j].status # "purged"
  <2> SUFFICES ASSUME Over' PROVE \/ Told(j)'
                                  \/ crashes' > 0
                                  \/ \E w \in Worker : Reporter(w)' /\ row'[j].status # "purged"
    OBVIOUS
  <2>1. CASE ~Over
    BY <1>3, <2>1
  <2>2. CASE Over /\ Told(j)
    BY <1>1, <2>2
  <2>3. CASE crashes > 0
    BY <1>0, <2>3
  <2>4. CASE \E w \in Worker : Reporter(w) /\ row[j].status # "purged" /\ Over
    BY <1>2, <2>4
  <2> QED
    BY <1>0, <2>1, <2>2, <2>3, <2>4 DEF Remembered
<1> QED
  BY <1>1, <1>4 DEF Remembered

AllRemembered == \A j \in Job : Remembered(j)

LEMMA Remembrance ==
  ASSUME RetentionFits PROVE TimelySpec => []AllRemembered
<1>1. Init => AllRemembered
  BY InitRemembered DEF AllRemembered
<1>2. Punctual /\ AllReporting /\ AllRemembered /\ [Step \/ TimelyTick]_vars => AllRemembered'
  BY StepRemembered DEF AllRemembered
<1>3. TimelySpec => [](Punctual /\ AllReporting)
  BY Reports DEF RetentionFits
<1> QED
  BY <1>1, <1>2, <1>3, PTL DEF TimelySpec

(* A row is purged only after the log tells how the job ended, or a worker died
   between the two transactions (update_delivery_log, cleanup_expired_data). *)
THEOREM HistoryIsWritten ==
  ASSUME RetentionFits PROVE TimelySpec => []HistoryOutlivesJob
<1>1. AllRemembered => HistoryOutlivesJob
  BY DEF AllRemembered, Remembered, Told, HistoryOutlivesJob
<1> QED
  BY <1>1, Remembrance, PTL
-----------------------------------------------------------------------------
(* TimelyInv, the invariant behind all of it, where all of it is needed. *)
THEOREM TimelyInvariance ==
  ASSUME Unambiguous, RetentionFits PROVE TimelySpec => [](IInv /\ TimelyInv)
<1>1. Faithful /\ AllReporting /\ AllUnsent /\ AllAttemptsPaid /\ AllCopiesPaid /\ AllRemembered
      => IInv /\ TimelyInv
  BY DEF Faithful, Punctual, AllSecure, AllReporting, AllUnsent, AllAttemptsPaid,
         AllCopiesPaid, AllRemembered, TimelyInv
<1>2. TimelySpec => [](Punctual /\ AllReporting)
  BY Reports DEF RetentionFits
<1>3. TimelySpec => [](Faithful /\ AllAttemptsPaid)
  BY Payment DEF Unambiguous
<1> QED
  BY <1>1, <1>2, <1>3, CopyPayment, Remembrance, PTL
-----------------------------------------------------------------------------
(* The deployed delays. *)

\* Every delay there is: the clamped exponent takes 21 values.
LEMMA DelayTable ==
  ASSUME NEW n \in Int
  PROVE  /\ BackoffExponent(n) \in 0 .. 20
         /\ n <= 1 => retry_backoff_seconds(n) = 15
         /\ n = 2 => retry_backoff_seconds(n) = 30
         /\ n = 3 => retry_backoff_seconds(n) = 60
         /\ n = 4 => retry_backoff_seconds(n) = 120
         /\ n = 5 => retry_backoff_seconds(n) = 240
         /\ n = 6 => retry_backoff_seconds(n) = 480
         /\ n = 7 => retry_backoff_seconds(n) = 960
         /\ n = 8 => retry_backoff_seconds(n) = 1920
         /\ n >= 9 => retry_backoff_seconds(n) = 3600
<1> DEFINE e == BackoffExponent(n)
           p == 2 ^ e
<1>1. e = IF n <= 1 THEN 0 ELSE IF n >= 21 THEN 20 ELSE n - 1
  BY DEF BackoffExponent, MaxExponent, Least, Most
<1>2. retry_backoff_seconds(n) = IF 3600 <= 15 * p THEN 3600 ELSE 15 * p
  BY DEF retry_backoff_seconds, retry_backoff, Least
<1> HIDE DEF e
<1>3. /\ e = 0 => p = 1
      /\ e = 1 => p = 2
      /\ e = 2 => p = 4
      /\ e = 3 => p = 8
      /\ e = 4 => p = 16
      /\ e = 5 => p = 32
      /\ e = 6 => p = 64
      /\ e = 7 => p = 128
      /\ e \in 8 .. 20 => p \in Nat /\ p >= 256
  <2>1. /\ 2 ^ 0 = 1 /\ 2 ^ 1 = 2 /\ 2 ^ 2 = 4 /\ 2 ^ 3 = 8 /\ 2 ^ 4 = 16 /\ 2 ^ 5 = 32
        /\ 2 ^ 6 = 64 /\ 2 ^ 7 = 128
    OBVIOUS
  <2>2. /\ 2 ^ 8 = 256 /\ 2 ^ 9 = 512 /\ 2 ^ 10 = 1024 /\ 2 ^ 11 = 2048 /\ 2 ^ 12 = 4096
        /\ 2 ^ 13 = 8192 /\ 2 ^ 14 = 16384 /\ 2 ^ 15 = 32768 /\ 2 ^ 16 = 65536
        /\ 2 ^ 17 = 131072 /\ 2 ^ 18 = 262144 /\ 2 ^ 19 = 524288 /\ 2 ^ 20 = 1048576
    OBVIOUS
  <2>3. ASSUME NEW k \in 0 .. 20, e = k PROVE p = 2 ^ k
    BY <2>3, Zenon DEF p
  <2> HIDE DEF p
  <2>4. /\ e = 0 => p = 2 ^ 0
        /\ e = 1 => p = 2 ^ 1
        /\ e = 2 => p = 2 ^ 2
        /\ e = 3 => p = 2 ^ 3
        /\ e = 4 => p = 2 ^ 4
        /\ e = 5 => p = 2 ^ 5
        /\ e = 6 => p = 2 ^ 6
        /\ e = 7 => p = 2 ^ 7
    BY <2>3
  <2>5. /\ e = 8 => p = 2 ^ 8
        /\ e = 9 => p = 2 ^ 9
        /\ e = 10 => p = 2 ^ 10
        /\ e = 11 => p = 2 ^ 11
        /\ e = 12 => p = 2 ^ 12
        /\ e = 13 => p = 2 ^ 13
        /\ e = 14 => p = 2 ^ 14
        /\ e = 15 => p = 2 ^ 15
        /\ e = 16 => p = 2 ^ 16
        /\ e = 17 => p = 2 ^ 17
        /\ e = 18 => p = 2 ^ 18
        /\ e = 19 => p = 2 ^ 19
        /\ e = 20 => p = 2 ^ 20
    BY <2>3
  <2>6. e \in 8 .. 20 => p \in Nat /\ p >= 256
    BY <2>2, <2>5
  <2> QED
    BY <2>1, <2>4, <2>6
<1> HIDE DEF p
<1> QED
  BY <1>1, <1>2, <1>3 DEF e

LEMMA DelayRange ==
  ASSUME NEW n \in Int
  PROVE  /\ retry_backoff_seconds(n) \in Int
         /\ 15 <= retry_backoff_seconds(n)
BY DelayTable

(* Retries back off exponentially between a quarter of a minute and an hour, whatever
   number of attempts the row has (delivery_queue.py:228, README.md:188, test_queue.py:110). *)
THEOREM BackoffIsBounded ==
  ASSUME NEW n \in Int
  PROVE  /\ retry_backoff_seconds(n) \in 15 .. 3600
         /\ retry_backoff_seconds(n) <= retry_backoff_seconds(n + 1)
         /\ retry_backoff_seconds(n + 1) <= 2 * retry_backoff_seconds(n)
         /\ n \in 1 .. 7 => retry_backoff_seconds(n + 1) = 2 * retry_backoff_seconds(n)
<1>1. n + 1 \in Int
  OBVIOUS
<1>2. \/ retry_backoff_seconds(n) = 15 /\ retry_backoff_seconds(n + 1) = 15 /\ n <= 0
      \/ retry_backoff_seconds(n) = 15 /\ retry_backoff_seconds(n + 1) = 30
      \/ retry_backoff_seconds(n) = 30 /\ retry_backoff_seconds(n + 1) = 60
      \/ retry_backoff_seconds(n) = 60 /\ retry_backoff_seconds(n + 1) = 120
      \/ retry_backoff_seconds(n) = 120 /\ retry_backoff_seconds(n + 1) = 240
      \/ retry_backoff_seconds(n) = 240 /\ retry_backoff_seconds(n + 1) = 480
      \/ retry_backoff_seconds(n) = 480 /\ retry_backoff_seconds(n + 1) = 960
      \/ retry_backoff_seconds(n) = 960 /\ retry_backoff_seconds(n + 1) = 1920
      \/ retry_backoff_seconds(n) = 1920 /\ retry_backoff_seconds(n + 1) = 3600 /\ n = 8
      \/ retry_backoff_seconds(n) = 3600 /\ retry_backoff_seconds(n + 1) = 3600 /\ n >= 9
  <2>1. CASE n <= 0
    BY <1>1, <2>1, DelayTable
  <2>2. CASE n \in 1 .. 4
    BY <1>1, <2>2, DelayTable
  <2>3. CASE n \in 5 .. 7
    BY <1>1, <2>3, DelayTable
  <2>4. CASE n >= 8
    BY <1>1, <2>4, DelayTable
  <2> QED
    BY <2>1, <2>2, <2>3, <2>4
<1> QED
  BY <1>2

(* The conditions of the theorems above are met by the defaults, with a tick for a
   second, if no step takes 15 seconds (core/config.py, delivery_queue.py:228). *)
THEOREM DefaultsFit ==
  ASSUME HeartbeatInterval = 60, LockTimeout = 300, TerminalRetention >= LockTimeout, Latency < 15,
         \A a \in 0 .. MaxClaims : Backoff(a) = retry_backoff_seconds(a)
  PROVE  HeartbeatsFit /\ DelaysFit /\ Latency <= TerminalRetention
<1>1. ASSUME NEW a \in 0 .. MaxClaims PROVE Backoff(a) > Latency
  <2>1. a \in Int
    BY <1>1, BoundAssumption
  <2>2. retry_backoff_seconds(a) \in Int /\ 15 <= retry_backoff_seconds(a)
    BY <2>1, DelayRange, Zenon
  <2>3. Backoff(a) = retry_backoff_seconds(a)
    BY <1>1, Zenon
  <2> QED
    BY <2>2, <2>3, TimingAssumption
<1>2. HeartbeatsFit /\ Latency <= LockTimeout /\ Latency <= TerminalRetention
  BY TimingAssumption DEF HeartbeatsFit
<1> QED
  BY <1>1, <1>2 DEF DelaysFit
=============================================================================
