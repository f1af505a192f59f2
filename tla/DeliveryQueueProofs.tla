------------------------ MODULE DeliveryQueueProofs ------------------------
(* Proofs that the safety properties of DeliveryQueueSafety hold for every
   number of jobs and workers, every setting and every set of faults.

   IInv is inductive.  Most actions change one worker and possibly the row of
   its job; WorkerStep and RowStep reduce each of them to what is special
   about it: that the new row satisfies RowOK, the new worker state WorkerOK, and that
   the other workers on the same row do not notice. *)
EXTENDS DeliveryQueueSafety, TLAPS

USE NoneAssumption, MaxAttemptsAssumption, TimingAssumption, BoundAssumption, FaultAssumption

(* The row operators produce rows. *)
LEMMA ClaimedType ==
  ASSUME NEW r \in Row, NEW w \in Worker, NEW t \in Nat, r.attempts < MaxClaims
  PROVE  Claimed(r, w, t) \in Row
<1>1. r.attempts + 1 \in 0 .. MaxClaims
  BY DEF Row
<1> QED
  BY <1>1 DEF Row, Status, Pending, Claimed

LEMMA ClaimedFields ==
  ASSUME NEW r \in Row, NEW w \in Worker, NEW t \in Nat
  PROVE  /\ Claimed(r, w, t).status = "processing"
         /\ Claimed(r, w, t).attempts = r.attempts + 1
         /\ Claimed(r, w, t).locked_by = w
         /\ Claimed(r, w, t).payload = r.payload
         /\ Claimed(r, w, t).terminal_age = r.terminal_age
  BY DEF Row, Claimed

LEMMA TerminatedFields ==
  ASSUME NEW r \in Row, NEW s \in Terminal
  PROVE  /\ Terminated(r, s) \in Row
         /\ Terminated(r, s).status = s
         /\ Terminated(r, s).attempts = r.attempts
         /\ Terminated(r, s).locked_by = None
         /\ Terminated(r, s).payload = FALSE
<1>1. Terminated(r, s) \in Row
  <2>1. ASSUME NEW st \in Status, NEW b \in BOOLEAN, NEW d \in Int,
               NEW t \in Nat \cup {None}, NEW l \in Nat \cup {None}, NEW n \in Worker \cup {None}
        PROVE  [r EXCEPT !.status = st, !.payload = b, !.available_in = d, !.terminal_age = t,
                         !.locked_age = l, !.locked_by = n] \in Row
    BY DEF Row
  <2>2. s \in Status /\ FALSE \in BOOLEAN /\ 0 \in Int /\ 0 \in Nat \cup {None}
        /\ None \in Nat \cup {None} /\ None \in Worker \cup {None}
    BY DEF Status
  <2> QED
    BY <2>1, <2>2, Zenon DEF Terminated
<1> QED
  BY <1>1 DEF Row, Terminated

LEMMA ReleasedFields ==
  ASSUME NEW r \in Row, NEW d \in Int
  PROVE  /\ Released(r, d) \in Row
         /\ Released(r, d).status = "queued"
         /\ Released(r, d).attempts = r.attempts
         /\ Released(r, d).locked_by = None
         /\ Released(r, d).payload = r.payload
         /\ Released(r, d).terminal_age = r.terminal_age
<1>0. "queued" \in Status
  BY DEF Status, Pending
<1>1. Released(r, d) \in Row
  BY <1>0 DEF Row, Released
<1> QED
  BY <1>1 DEF Row, Released

LEMMA AbsentRowFields ==
  /\ AbsentRow \in Row
  /\ AbsentRow.status = "absent"
  /\ AbsentRow.attempts = 0
  /\ AbsentRow.locked_by = None
  /\ AbsentRow.payload = FALSE
  /\ AbsentRow.terminal_age = None
<1>1. "absent" \in Status
  BY DEF Status
<1>2. AbsentRow \in Row
  BY <1>1 DEF AbsentRow, Row
<1> QED
  BY <1>2 DEF AbsentRow

LEMMA NewRowFields ==
  /\ NewRow \in Row
  /\ NewRow.status = "queued"
  /\ NewRow.attempts = 0
  /\ NewRow.locked_by = None
  /\ NewRow.payload = TRUE
  /\ NewRow.terminal_age = None
<1>1. AbsentRow \in Row /\ AbsentRow.attempts = 0 /\ AbsentRow.locked_by = None
      /\ AbsentRow.terminal_age = None
  BY AbsentRowFields
<1>2. NewRow \in Row
  <2>1. "queued" \in Status
    BY DEF Status, Pending
  <2> QED
    BY <1>1, <2>1 DEF NewRow, Row
<1> QED
  BY <1>1, <1>2 DEF NewRow, Row

LEMMA PurgedRowFields ==
  ASSUME NEW r \in Row
  PROVE  /\ PurgedRow(r) \in Row
         /\ PurgedRow(r).status = "purged"
         /\ PurgedRow(r).attempts = r.attempts
         /\ PurgedRow(r).locked_by = None
         /\ PurgedRow(r).payload = FALSE
         /\ PurgedRow(r).terminal_age = None
<1>1. AbsentRow \in Row /\ AbsentRow.locked_by = None /\ AbsentRow.payload = FALSE
      /\ AbsentRow.terminal_age = None
  BY AbsentRowFields
<1>2. PurgedRow(r) \in Row
  <2>1. "purged" \in Status
    BY DEF Status
  <2> QED
    BY <1>1, <2>1 DEF PurgedRow, Row
<1> QED
  BY <1>1, <1>2 DEF PurgedRow, Row

LEMMA RefreshedFields ==
  ASSUME NEW r \in Row, NEW t \in Nat
  PROVE  /\ [r EXCEPT !.locked_age = t] \in Row
         /\ [r EXCEPT !.locked_age = t].status = r.status
         /\ [r EXCEPT !.locked_age = t].attempts = r.attempts
         /\ [r EXCEPT !.locked_age = t].locked_by = r.locked_by
         /\ [r EXCEPT !.locked_age = t].payload = r.payload
         /\ [r EXCEPT !.locked_age = t].terminal_age = r.terminal_age
<1>1. [r EXCEPT !.locked_age = t] \in Row
  BY DEF Row
<1> QED
  BY <1>1 DEF Row

LEMMA IdleFields ==
  /\ Idle \in WorkerState /\ Down \in WorkerState
  /\ Idle.pc = "idle" /\ Down.pc = "down"
  /\ Idle.hb = "off" /\ Down.hb = "off"
  /\ Idle.lost = FALSE
<1>1. Idle \in WorkerState
  BY DEF Idle, WorkerState
<1>2. Down \in WorkerState /\ Down.pc = "down" /\ Down.hb = Idle.hb
  BY <1>1 DEF Down, WorkerState
<1> QED
  BY <1>1, <1>2 DEF Idle

LEMMA Update ==
  ASSUME NEW S, NEW T, NEW f \in [S -> T], NEW x \in S, NEW v \in T
  PROVE  /\ [f EXCEPT ![x] = v] \in [S -> T]
         /\ [f EXCEPT ![x] = v][x] = v
         /\ \A y \in S \ {x} : [f EXCEPT ![x] = v][y] = f[y]
  OBVIOUS
-----------------------------------------------------------------------------
(* A step of one worker that touches no row and no log. *)
LEMMA WorkerStep ==
  ASSUME IInv, NEW w \in Worker, NEW s \in WorkerState, Becomes(w, s),
         UNCHANGED <<row, log, mailed>>, crashes' \in 0 .. MaxCrashes,
         s.pc = "selected" => ~RowLocked(s.job),
         WorkerOK(w)'
  PROVE  IInv'
<1>1. wk' \in [Worker -> WorkerState] /\ wk'[w] = s /\ \A u \in Worker \ {w} : wk'[u] = wk[u]
  BY Update DEF IInv, TypeOK, Becomes
<1>2. TypeOK'
  BY <1>1 DEF IInv, TypeOK
<1>3. ASSUME NEW j \in Job PROVE RowOK(j)' /\ LogOK(j)'
  BY DEF IInv, RowOK, LogOK
<1>4. ASSUME NEW u \in Worker PROVE WorkerOK(u)'
  <2>1. CASE u = w
    BY <2>1
  <2>2. CASE u # w
    BY <1>1, <2>2 DEF IInv, WorkerOK, ControlOK, HoldsOK, Busy, Processing, Loaded, Owns
  <2> QED
    BY <2>1, <2>2
<1>5. OneSelector'
  BY <1>1 DEF IInv, OneSelector, RowLocked
<1> QED
  BY <1>2, <1>3, <1>4, <1>5 DEF IInv

(* A step of one worker that also writes the row of its job: the row was
   pending, no other worker has it selected, and afterwards it belongs to
   this worker or to nobody. *)
LEMMA RowStep ==
  ASSUME IInv, NEW w \in Worker, NEW s \in WorkerState, NEW j \in Job, NEW r \in Row,
         Becomes(w, s), RowBecomes(j, r), UNCHANGED <<log, mailed, crashes>>,
         s.pc # "selected",
         row[j].status \in Pending,
         \A u \in Worker \ {w} : ~(wk[u].pc = "selected" /\ wk[u].job = j),
         r.attempts >= row[j].attempts,
         r.locked_by \in {None, w},
         RowOK(j)', WorkerOK(w)'
  PROVE  IInv'
<1>1. wk' \in [Worker -> WorkerState] /\ wk'[w] = s /\ \A u \in Worker \ {w} : wk'[u] = wk[u]
  BY Update DEF IInv, TypeOK, Becomes
<1>2. row' \in [Job -> Row] /\ row'[j] = r /\ \A k \in Job \ {j} : row'[k] = row[k]
  BY Update DEF IInv, TypeOK, RowBecomes
<1>3. TypeOK'
  BY <1>1, <1>2 DEF IInv, TypeOK
<1>4. ASSUME NEW k \in Job PROVE RowOK(k)' /\ LogOK(k)'
  <2>1. CASE k = j
    BY <2>1 DEF IInv, LogOK, Pending
  <2>2. CASE k # j
    BY <1>2, <2>2 DEF IInv, RowOK, LogOK
  <2> QED
    BY <2>1, <2>2
<1>5. ASSUME NEW u \in Worker PROVE WorkerOK(u)'
  <2>1. CASE u = w
    BY <2>1
  <2>2. CASE u # w /\ wk[u].job # j
    BY <1>1, <1>2, <2>2 DEF IInv, WorkerOK, ControlOK, HoldsOK, Busy, Processing, Loaded, Owns
  <2>3. CASE u # w /\ wk[u].job = j
    <3>1. wk'[u] = wk[u] /\ WorkerOK(u)
      BY <1>1, <2>3 DEF IInv
    <3>2. ControlOK(u)'
      BY <3>1 DEF WorkerOK, ControlOK, Busy
    <3>3. ~Owns(u, j)'
      BY <1>2, <2>3 DEF Owns
    <3>4. row[j].attempts \in Int /\ r.attempts \in Int /\ wk[u].claim \in Int
      BY DEF IInv, TypeOK, Row, WorkerState
    <3>5. Busy(u) => HoldsOK(u, j)'
      BY <1>2, <2>3, <3>1, <3>3, <3>4
      DEF WorkerOK, HoldsOK, Processing, Loaded, Pending
    <3> QED
      BY <2>3, <3>1, <3>2, <3>5 DEF WorkerOK, Busy, HoldsOK, Processing, Loaded, Owns
  <2> QED
    BY <2>1, <2>2, <2>3
<1>6. OneSelector'
  BY <1>1 DEF IInv, OneSelector
<1> QED
  BY <1>3, <1>4, <1>5, <1>6 DEF IInv
-----------------------------------------------------------------------------
LEMMA InitEstablishes == Init => IInv
<1> SUFFICES ASSUME Init PROVE IInv
  OBVIOUS
<1>1. TypeOK
  BY AbsentRowFields, IdleFields DEF Init, TypeOK
<1>2. ASSUME NEW j \in Job PROVE RowOK(j) /\ LogOK(j)
  BY AbsentRowFields DEF Init, RowOK, LogOK, Pending, Terminal
<1>3. ASSUME NEW w \in Worker PROVE WorkerOK(w)
  BY IdleFields DEF Init, WorkerOK, ControlOK, Busy
<1>4. OneSelector
  BY IdleFields DEF Init, OneSelector
<1> QED
  BY <1>1, <1>2, <1>3, <1>4 DEF IInv

LEMMA EnqueuePreserves ==
  ASSUME IInv, NEW j \in Job, Enqueue(j) PROVE IInv'
<1>1. row' \in [Job -> Row] /\ row'[j] = NewRow /\ \A k \in Job \ {j} : row'[k] = row[k]
  BY Update, NewRowFields DEF IInv, TypeOK, Enqueue, RowBecomes
<1>2. [success |-> TRUE, delivery_status |-> "queued"] \in Log
  BY DEF Log
<1>3. TypeOK'
  BY <1>1, <1>2 DEF IInv, TypeOK, Enqueue
<1>4. row[j].status = "absent" /\ row[j].attempts = 0 /\ mailed[j] = {}
  BY DEF IInv, RowOK, Enqueue
<1>5. ASSUME NEW k \in Job PROVE RowOK(k)' /\ LogOK(k)'
  <2>1. CASE k = j
    <3>1. RowOK(j)'
      BY <1>1, <1>4, NewRowFields DEF Enqueue, RowOK, Pending
    <3>2. log'[j].delivery_status = "queued"
      BY DEF IInv, TypeOK, Enqueue
    <3> QED
      BY <2>1, <3>1, <3>2 DEF LogOK
  <2>2. CASE k # j
    <3>1. log'[k] = log[k]
      BY <2>2 DEF IInv, TypeOK, Enqueue
    <3> QED
      BY <1>1, <2>2, <3>1 DEF IInv, RowOK, LogOK, Enqueue
  <2> QED
    BY <2>1, <2>2
<1>6. ASSUME NEW u \in Worker PROVE WorkerOK(u)'
  <2>1. Busy(u) => wk[u].job # j
    BY <1>4 DEF IInv, WorkerOK, HoldsOK, Busy, Processing, TypeOK, WorkerState, Pending
  <2> QED
    BY <1>1, <2>1 DEF IInv, Enqueue, WorkerOK, ControlOK, HoldsOK, Busy, Processing, Loaded, Owns
<1>7. OneSelector'
  BY DEF IInv, Enqueue, OneSelector
<1> QED
  BY <1>3, <1>5, <1>6, <1>7 DEF IInv

LEMMA IdlePreserves ==
  ASSUME IInv, NEW w \in Worker, NEW s \in {Idle, Down}, Becomes(w, s),
         UNCHANGED <<row, log, mailed>>, crashes' \in 0 .. MaxCrashes
  PROVE  IInv'
<1>1. wk'[w] = s
  BY IdleFields, Update DEF IInv, TypeOK, Becomes
<1>2. WorkerOK(w)'
  BY <1>1, IdleFields DEF WorkerOK, ControlOK, Busy
<1> QED
  BY <1>2, IdleFields, WorkerStep

LEMMA ClaimSelectPreserves ==
  ASSUME IInv, NEW w \in Worker, ClaimSelect(w) PROVE IInv'
<1> PICK j \in Job : Claimable(j) /\ Becomes(w, [Idle EXCEPT !.pc = "selected", !.job = j])
  BY DEF ClaimSelect
<1> DEFINE s == [Idle EXCEPT !.pc = "selected", !.job = j]
<1>1. s \in WorkerState /\ s.pc = "selected" /\ s.job = j /\ s.hb = "off"
      /\ s.lost = FALSE
  BY IdleFields DEF WorkerState
<1>2. wk'[w] = s
  BY <1>1, Update DEF IInv, TypeOK, Becomes
<1>3. WorkerOK(w)'
  BY <1>1, <1>2 DEF ClaimSelect, Claimable, WorkerOK, ControlOK, HoldsOK, Busy, Processing, Pending
<1> QED
  BY <1>1, <1>3, WorkerStep DEF ClaimSelect, Claimable, IInv, TypeOK

LEMMA ClaimCommitPreserves ==
  ASSUME IInv, NEW w \in Worker, ClaimCommit(w) PROVE IInv'
<1>0. wk[w].job \in Job
  BY DEF IInv, ClaimCommit, WorkerOK, ControlOK, Busy
<1> PICK j \in Job : j = wk[w].job
  BY <1>0
<1> DEFINE r == Claimed(row[j], w, wk[w].timer)
           s == [wk[w] EXCEPT !.pc = "claimed", !.claim = row[j].attempts + 1]
<1>1. row[j].status \in Pending /\ row[j].attempts < MaxClaims
  BY DEF IInv, ClaimCommit, WorkerOK, ControlOK, HoldsOK, Busy
<1>2. row[j] \in Row /\ row[j].attempts \in Nat /\ wk[w] \in WorkerState /\ wk[w].timer \in Nat
  BY <1>1 DEF IInv, TypeOK, Row, WorkerState
<1>3. /\ r \in Row /\ r.status = "processing" /\ r.attempts = row[j].attempts + 1
      /\ r.locked_by = w /\ r.payload = row[j].payload /\ r.terminal_age = row[j].terminal_age
  <2>1. r \in Row
    BY <1>1, <1>2, ClaimedType
  <2> QED
    BY <1>2, <2>1, ClaimedFields
<1>4. row[j].attempts + 1 \in 0 .. MaxClaims
  BY <1>1, <1>2
<1>5. /\ s \in WorkerState /\ s.pc = "claimed" /\ s.job = j /\ s.hb = wk[w].hb
      /\ s.claim = row[j].attempts + 1 /\ s.lost = wk[w].lost
  BY <1>2, <1>4 DEF WorkerState
<1>6. wk'[w] = s /\ row'[j] = r
  BY <1>1, <1>3, <1>5, Update DEF IInv, TypeOK, ClaimCommit, Becomes, RowBecomes
<1>7. RowOK(j)'
  <2>1. mailed[j] \subseteq 1 .. r.attempts
    BY <1>1, <1>2, <1>3 DEF IInv, RowOK
  <2>2. row'[j] = r /\ mailed' = mailed /\ w # None
    BY <1>6, NoneAssumption DEF ClaimCommit
  <2>3. r.payload /\ r.terminal_age = None
    BY <1>1, <1>3 DEF IInv, RowOK, Pending, Terminal
  <2> HIDE DEF r
  <2> QED
    BY <1>3, <2>1, <2>2, <2>3 DEF RowOK, Pending, Terminal
<1>8. WorkerOK(w)'
  <2>1. wk[w].hb = "off" /\ ~wk[w].lost
    BY DEF IInv, WorkerOK, ControlOK, ClaimCommit
  <2>2. s.claim \in 1 .. r.attempts
    BY <1>2, <1>3, <1>5
  <2> QED
    BY <1>1, <1>3, <1>5, <1>6, <2>1, <2>2
    DEF WorkerOK, ControlOK, HoldsOK, Busy, Processing, Loaded, Owns
<1>9. \A u \in Worker \ {w} : ~(wk[u].pc = "selected" /\ wk[u].job = j)
  BY DEF IInv, OneSelector, ClaimCommit
<1>10. /\ Becomes(w, s) /\ RowBecomes(j, r) /\ UNCHANGED <<log, mailed, crashes>>
       /\ r.attempts >= row[j].attempts /\ s.pc # "selected" /\ r.locked_by \in {None, w}
  BY <1>2, <1>3, <1>5 DEF ClaimCommit
<1> HIDE DEF r, s
<1> QED
  BY <1>1, <1>3, <1>5, <1>7, <1>8, <1>9, <1>10, RowStep

LEMMA LoadPreserves ==
  ASSUME IInv, NEW w \in Worker, RefreshFails(w) \/ SnapshotInvalid(w) \/ StartSending(w) PROVE IInv'
<1> DEFINE j == wk[w].job
<1>1. wk[w] \in WorkerState /\ wk[w].pc = "claimed" /\ j \in Job /\ wk[w].hb = "off"
  BY DEF IInv, TypeOK, RefreshFails, SnapshotInvalid, StartSending, WorkerOK, ControlOK, Busy
<1>2. row[j].attempts \in 0 .. MaxClaims /\ row[j].attempts \in Nat
  BY <1>1 DEF IInv, TypeOK, Row
<1>3. crashes \in 0 .. MaxCrashes
  BY DEF IInv, TypeOK
<1>4. CASE RefreshFails(w)
  BY <1>3, <1>4, IdlePreserves DEF RefreshFails
<1>5. CASE SnapshotInvalid(w)
  <2> DEFINE s == [wk[w] EXCEPT !.pc = "finalize", !.att = row[j].attempts, !.result = "perm"]
  <2>1. /\ s \in WorkerState /\ s.pc = "finalize" /\ s.job = j /\ s.hb = "off" /\ s.result = "perm"
        /\ s.claim = wk[w].claim /\ s.att = row[j].attempts /\ s.lost = wk[w].lost
    BY <1>1, <1>2 DEF WorkerState
  <2>2. wk'[w] = s
    BY <1>5, <2>1, Update DEF IInv, TypeOK, SnapshotInvalid, Becomes
  <2>3. ~wk[w].lost
    BY <1>1 DEF IInv, WorkerOK, ControlOK
  <2> HIDE DEF s
  <2>4. WorkerOK(w)'
    <3>1. UNCHANGED <<row, mailed>> /\ HoldsOK(w, j)
      BY <1>1, <1>5 DEF IInv, SnapshotInvalid, WorkerOK, Busy
    <3>2. ControlOK(w)'
      BY <1>1, <2>1, <2>2, <2>3 DEF ControlOK, Busy
    <3>3. HoldsOK(w, wk[w].job)'
      BY <1>1, <2>1, <2>2, <3>1 DEF HoldsOK, Processing, Loaded, Owns
    <3> QED
      BY <3>2, <3>3 DEF WorkerOK
  <2> USE DEF s
  <2> QED
    BY <1>3, <1>5, <2>1, <2>4, WorkerStep DEF SnapshotInvalid
<1>6. CASE StartSending(w)
  <2> DEFINE s == [wk[w] EXCEPT !.pc = "sending", !.att = row[j].attempts,
                                !.hb = "wait", !.timer = HeartbeatInterval]
  <2>1. /\ s \in WorkerState /\ s.pc = "sending" /\ s.job = j
        /\ s.claim = wk[w].claim /\ s.att = row[j].attempts
    BY <1>1, <1>2 DEF WorkerState
  <2>2. wk'[w] = s
    BY <1>6, <2>1, Update DEF IInv, TypeOK, StartSending, Becomes
  <2>3. WorkerOK(w)'
    BY <1>1, <1>6, <2>1, <2>2
    DEF IInv, StartSending, WorkerOK, ControlOK, HoldsOK, Busy, Processing, Loaded, Owns
  <2> QED
    BY <1>3, <1>6, <2>1, <2>3, WorkerStep DEF StartSending
<1> QED
  BY <1>4, <1>5, <1>6

LEMMA HeartbeatStartPreserves ==
  ASSUME IInv, NEW w \in Worker, HeartbeatStart(w) PROVE IInv'
<1> DEFINE s == [wk[w] EXCEPT !.hb = "inflight", !.timer = 0]
<1>1. wk[w] \in WorkerState /\ WorkerOK(w) /\ crashes \in 0 .. MaxCrashes
  BY DEF IInv, TypeOK
<1>2. /\ s \in WorkerState /\ s.pc = "sending" /\ s.job = wk[w].job
      /\ s.claim = wk[w].claim /\ s.att = wk[w].att
  BY <1>1 DEF WorkerState, HeartbeatStart
<1>3. wk'[w] = s
  BY <1>2, Update DEF IInv, TypeOK, HeartbeatStart, Becomes
<1>4. WorkerOK(w)'
  BY <1>1, <1>2, <1>3
  DEF HeartbeatStart, WorkerOK, ControlOK, HoldsOK, Busy, Processing, Loaded, Owns
<1> QED
  BY <1>1, <1>2, <1>4, WorkerStep DEF HeartbeatStart

(* What both outcomes of a heartbeat leave of the worker. *)
LEMMA HeartbeatEnds ==
  ASSUME IInv, NEW w \in Worker, wk[w].hb = "inflight",
         NEW s \in {[wk[w] EXCEPT !.hb = "wait", !.timer = 0], GivesUp(wk[w])}
  PROVE  /\ s \in WorkerState /\ s.pc = wk[w].pc /\ s.job = wk[w].job /\ s.result = wk[w].result
         /\ s.claim = wk[w].claim /\ s.att = wk[w].att
         /\ wk[w].pc \in {"sending", "stopping"} /\ wk[w].job \in Job /\ WorkerOK(w)
<1>1. wk[w] \in WorkerState /\ WorkerOK(w)
  BY DEF IInv, TypeOK
<1>2. wk[w].pc \in {"sending", "stopping"} /\ wk[w].job \in Job
  BY <1>1 DEF WorkerOK, ControlOK, Busy
<1>3. CASE s = [wk[w] EXCEPT !.hb = "wait", !.timer = 0]
  BY <1>1, <1>2, <1>3 DEF WorkerState
<1>4. CASE s = GivesUp(wk[w])
  BY <1>1, <1>2, <1>4 DEF WorkerState, GivesUp
<1> QED
  BY <1>3, <1>4

(* The heartbeat leaves the row alone. *)
LEMMA HeartbeatMisses ==
  ASSUME IInv, NEW w \in Worker, wk[w].hb = "inflight", Becomes(w, GivesUp(wk[w])),
         UNCHANGED <<row, log, mailed, crashes>>
  PROVE  IInv'
<1> DEFINE s == GivesUp(wk[w])
<1>1. /\ s \in WorkerState /\ s.pc = wk[w].pc /\ s.job = wk[w].job /\ s.result = wk[w].result
      /\ s.claim = wk[w].claim /\ s.att = wk[w].att
      /\ wk[w].pc \in {"sending", "stopping"} /\ wk[w].job \in Job /\ WorkerOK(w)
  BY HeartbeatEnds
<1> HIDE DEF s
<1>2. wk'[w] = s /\ Becomes(w, s)
  BY <1>1, Update DEF IInv, TypeOK, Becomes, s
<1>3. WorkerOK(w)'
  BY <1>1, <1>2 DEF WorkerOK, ControlOK, HoldsOK, Busy, Processing, Loaded, Owns
<1>4. crashes' \in 0 .. MaxCrashes
  BY DEF IInv, TypeOK
<1> QED
  BY <1>1, <1>2, <1>3, <1>4, WorkerStep

(* The heartbeat refreshes locked_at of a row the worker owns. *)
LEMMA HeartbeatHits ==
  ASSUME IInv, NEW w \in Worker, wk[w].hb = "inflight",
         NEW s \in {[wk[w] EXCEPT !.hb = "wait", !.timer = 0], GivesUp(wk[w])},
         Becomes(w, s), Owns(w, wk[w].job), ~RowLocked(wk[w].job),
         RowBecomes(wk[w].job, [row[wk[w].job] EXCEPT !.locked_age = wk[w].timer]),
         UNCHANGED <<log, mailed, crashes>>
  PROVE  IInv'
<1>0. wk[w].job \in Job
  BY HeartbeatEnds
<1> PICK j \in Job : j = wk[w].job
  BY <1>0
<1> DEFINE r == [row[j] EXCEPT !.locked_age = wk[w].timer]
<1>1. /\ s \in WorkerState /\ s.pc = wk[w].pc /\ s.job = j /\ s.result = wk[w].result
      /\ s.claim = wk[w].claim /\ s.att = wk[w].att
      /\ wk[w].pc \in {"sending", "stopping"} /\ j \in Job /\ WorkerOK(w)
  BY HeartbeatEnds
<1>2. row[j] \in Row /\ wk[w].timer \in Nat /\ row[j].attempts \in Int
  BY <1>1 DEF IInv, TypeOK, WorkerState, Row
<1>3. /\ r \in Row /\ r.status = row[j].status /\ r.attempts = row[j].attempts
      /\ r.locked_by = row[j].locked_by /\ r.payload = row[j].payload
      /\ r.terminal_age = row[j].terminal_age
  BY <1>2, RefreshedFields
<1>4. row[j].status = "processing" /\ row[j].locked_by = w
  BY DEF Owns
<1>5. /\ RowBecomes(j, r)
      /\ \A u \in Worker \ {w} : ~(wk[u].pc = "selected" /\ wk[u].job = j)
  BY DEF RowLocked
<1> HIDE DEF r
<1>6. wk'[w] = s /\ row'[j] = r
  BY <1>1, <1>3, <1>5, Update DEF IInv, TypeOK, Becomes, RowBecomes
<1>7. RowOK(j)'
  BY <1>1, <1>3, <1>6 DEF IInv, RowOK
<1>8. WorkerOK(w)'
  BY <1>1, <1>3, <1>6 DEF WorkerOK, ControlOK, HoldsOK, Busy, Processing, Loaded, Owns
<1>9. r.attempts >= row[j].attempts /\ row[j].status \in Pending /\ r.locked_by \in {None, w}
  BY <1>2, <1>3, <1>4 DEF Pending
<1> QED
  BY <1>1, <1>3, <1>5, <1>7, <1>8, <1>9, RowStep

LEMMA HeartbeatPreserves ==
  ASSUME IInv, NEW w \in Worker, HeartbeatRefresh(w) \/ HeartbeatError(w) PROVE IInv'
<1>1. CASE HeartbeatRefresh(w)
  BY <1>1, HeartbeatHits, HeartbeatMisses DEF HeartbeatRefresh
<1>2. CASE HeartbeatError(w)
  BY <1>2, HeartbeatHits, HeartbeatMisses DEF HeartbeatError
<1> QED
  BY <1>1, <1>2

LEMMA SmtpAcceptPreserves ==
  ASSUME IInv, NEW w \in Worker, SmtpAccept(w) PROVE IInv'
<1>1. wk[w].job \in Job /\ wk[w].claim \in 1 .. row[wk[w].job].attempts /\ wk[w].claim \in 1 .. MaxClaims
  BY DEF IInv, SmtpAccept, WorkerOK, ControlOK, HoldsOK, Busy, Processing, TypeOK, Row, WorkerState
<1>2. \A j \in Job : mailed[j] \subseteq mailed'[j] /\ mailed'[j] \subseteq mailed[j] \cup {wk[w].claim}
                     /\ (j # wk[w].job => mailed'[j] = mailed[j])
  BY <1>1 DEF IInv, TypeOK, SmtpAccept
<1>3. TypeOK'
  BY <1>1, Update DEF IInv, TypeOK, SmtpAccept
<1>4. ASSUME NEW j \in Job PROVE RowOK(j)' /\ LogOK(j)'
  <2>1. mailed'[j] \subseteq 1 .. row[j].attempts
    BY <1>1, <1>2 DEF IInv, RowOK
  <2> QED
    BY <1>2, <2>1 DEF IInv, RowOK, LogOK, SmtpAccept
<1>5. ASSUME NEW u \in Worker PROVE WorkerOK(u)'
  BY <1>2 DEF IInv, SmtpAccept, WorkerOK, ControlOK, HoldsOK, Busy, Processing, Loaded, Owns
<1>6. OneSelector'
  BY DEF IInv, SmtpAccept, OneSelector
<1> QED
  BY <1>3, <1>4, <1>5, <1>6 DEF IInv

LEMMA SendEndPreserves ==
  ASSUME IInv, NEW w \in Worker, SendEnd(w) PROVE IInv'
<1> PICK res \in SendResult(w) : Becomes(w, [wk[w] EXCEPT !.pc = "stopping", !.result = res])
  BY DEF SendEnd
<1> DEFINE s == [wk[w] EXCEPT !.pc = "stopping", !.result = res]
<1>1. wk[w] \in WorkerState /\ WorkerOK(w) /\ crashes \in 0 .. MaxCrashes
  BY DEF IInv, TypeOK
<1>2. /\ res \in {"ok", "temp", "perm"}
      /\ res = "ok" => wk[w].claim \in mailed[wk[w].job]
  BY DEF SendResult
<1>3. /\ s \in WorkerState /\ s.pc = "stopping" /\ s.job = wk[w].job /\ s.result = res
      /\ s.claim = wk[w].claim /\ s.att = wk[w].att
  BY <1>1, <1>2 DEF WorkerState
<1>4. wk'[w] = s
  BY <1>3, Update DEF IInv, TypeOK, Becomes
<1>5. WorkerOK(w)'
  BY <1>1, <1>2, <1>3, <1>4
  DEF SendEnd, WorkerOK, ControlOK, HoldsOK, Busy, Processing, Loaded, Owns
<1> QED
  BY <1>1, <1>3, <1>5, WorkerStep DEF SendEnd

LEMMA StopHeartbeatPreserves ==
  ASSUME IInv, NEW w \in Worker, StopHeartbeat(w) PROVE IInv'
<1>1. wk[w] \in WorkerState /\ WorkerOK(w) /\ crashes \in 0 .. MaxCrashes
  BY DEF IInv, TypeOK
<1>2. CASE wk[w].lost
  BY <1>1, <1>2, IdlePreserves DEF StopHeartbeat, AfterStop
<1>3. CASE ~wk[w].lost
  <2> DEFINE s == [wk[w] EXCEPT !.pc = "finalize", !.hb = "off", !.timer = 0]
  <2>1. /\ s \in WorkerState /\ s.pc = "finalize" /\ s.job = wk[w].job /\ s.result = wk[w].result
        /\ s.claim = wk[w].claim /\ s.att = wk[w].att /\ s.hb = "off" /\ s.lost = wk[w].lost
    BY <1>1 DEF WorkerState
  <2>2. wk'[w] = s /\ Becomes(w, s)
    BY <1>3, <2>1, Update DEF IInv, TypeOK, Becomes, StopHeartbeat, AfterStop
  <2>3. WorkerOK(w)'
    BY <1>1, <1>3, <2>1, <2>2
    DEF StopHeartbeat, WorkerOK, ControlOK, HoldsOK, Busy, Processing, Loaded, Owns
  <2> QED
    BY <1>1, <2>1, <2>2, <2>3, WorkerStep DEF StopHeartbeat
<1> QED
  BY <1>2, <1>3

(* The owner ends its claim: the row becomes r and the log is due. *)
LEMMA EndOfClaim ==
  ASSUME IInv, NEW w \in Worker, NEW j \in Job, NEW r \in Row, NEW st \in {"queued"} \cup Terminal,
         j = wk[w].job, wk[w].pc = "finalize", Owns(w, j), ~RowLocked(j),
         RowBecomes(j, r), ThenLog(w, st), UNCHANGED <<log, mailed, crashes>>,
         r.status = st, r.attempts = row[j].attempts, r.locked_by = None,
         r.payload <=> st = "queued",
         r.terminal_age # None => st \in Terminal,
         st = "delivered" => wk[w].result = "ok",
         st = "queued" => wk[w].att < MaxAttempts
  PROVE  IInv'
<1> DEFINE s == [wk[w] EXCEPT !.pc = "logging", !.result = st]
<1>1. wk[w] \in WorkerState /\ WorkerOK(w) /\ RowOK(j) /\ Busy(w) /\ row[j].attempts \in Int
  BY DEF IInv, TypeOK, Busy, Row
<1>2. /\ s \in WorkerState /\ s.pc = "logging" /\ s.job = j /\ s.result = st
      /\ s.claim = wk[w].claim /\ s.hb = wk[w].hb
  BY <1>1 DEF WorkerState, Terminal
<1>3. wk'[w] = s /\ row'[j] = r /\ Becomes(w, s)
  BY <1>2, Update DEF IInv, TypeOK, Becomes, ThenLog, RowBecomes
<1>4. /\ wk[w].claim \in 1 .. row[j].attempts /\ wk[w].claim = row[j].attempts
      /\ wk[w].att = row[j].attempts /\ wk[w].hb = "off"
      /\ wk[w].result = "ok" => row[j].attempts \in mailed[j]
  BY <1>1 DEF WorkerOK, ControlOK, HoldsOK, Processing, Loaded
<1> HIDE DEF s
<1>5. RowOK(j)'
  BY <1>1, <1>3, <1>4 DEF RowOK, Pending, Terminal
<1>6. WorkerOK(w)'
  BY <1>2, <1>3, <1>4 DEF WorkerOK, ControlOK, HoldsOK, Busy, Processing, Loaded, Owns, Terminal
<1>7. \A u \in Worker \ {w} : ~(wk[u].pc = "selected" /\ wk[u].job = j)
  BY DEF RowLocked
<1>8. row[j].status \in Pending /\ r.attempts >= row[j].attempts
  BY <1>1 DEF Owns, Pending
<1> QED
  BY <1>2, <1>3, <1>5, <1>6, <1>7, <1>8, RowStep

LEMMA FinalizePreserves ==
  ASSUME IInv, NEW w \in Worker, NotOwner(w) \/ CompleteJob(w) \/ FailJob(w) PROVE IInv'
<1>1. wk[w] \in WorkerState /\ wk[w].pc = "finalize" /\ wk[w].job \in Job /\ crashes \in 0 .. MaxCrashes
  BY DEF IInv, TypeOK, NotOwner, CompleteJob, FailJob, WorkerOK, ControlOK, Busy
<1> PICK j \in Job : j = wk[w].job
  BY <1>1
<1>2. row[j] \in Row /\ wk[w].att \in 0 .. MaxClaims
  BY <1>1 DEF IInv, TypeOK, WorkerState
<1>3. CASE NotOwner(w)
  BY <1>1, <1>3, IdlePreserves DEF NotOwner
<1>4. CASE CompleteJob(w)
  <2> PICK r \in Row : r = Terminated(row[j], "delivered")
    BY <1>2, TerminatedFields DEF Terminal
  <2>1. /\ r.status = "delivered" /\ r.attempts = row[j].attempts
        /\ r.locked_by = None /\ r.payload = FALSE
    BY <1>2, TerminatedFields DEF Terminal
  <2> QED
    BY <1>1, <1>4, <2>1, EndOfClaim DEF CompleteJob, Terminal
<1>5. CASE FailJob(w) /\ MayRetry(w)
  <2>1. Backoff(wk[w].att) \in Int
    BY <1>2, BackoffAssumption
  <2> PICK r \in Row : r = Released(row[j], Backoff(wk[w].att))
    BY <1>2, <2>1, ReleasedFields
  <2>2. /\ r.status = "queued" /\ r.attempts = row[j].attempts
        /\ r.locked_by = None /\ r.payload = row[j].payload /\ r.terminal_age = row[j].terminal_age
    BY <1>2, <2>1, ReleasedFields
  <2>3. row[j].payload = TRUE /\ row[j].terminal_age = None
    BY <1>2, <1>5 DEF IInv, RowOK, FailJob, Owns, Pending, Terminal, Row
  <2> QED
    BY <1>1, <1>5, <2>2, <2>3, EndOfClaim DEF FailJob, MayRetry, Terminal
<1>6. CASE FailJob(w) /\ ~MayRetry(w)
  <2> PICK r \in Row : r = Terminated(row[j], "failed")
    BY <1>2, TerminatedFields DEF Terminal
  <2>1. /\ r.status = "failed" /\ r.attempts = row[j].attempts
        /\ r.locked_by = None /\ r.payload = FALSE
    BY <1>2, TerminatedFields DEF Terminal
  <2> QED
    BY <1>1, <1>6, <2>1, EndOfClaim DEF FailJob, Terminal
<1> QED
  BY <1>3, <1>4, <1>5, <1>6

LEMMA WriteLogPreserves ==
  ASSUME IInv, NEW w \in Worker, WriteLog(w) PROVE IInv'
<1>1. /\ wk[w] \in WorkerState /\ WorkerOK(w) /\ wk[w].pc = "logging" /\ wk[w].job \in Job
      /\ crashes \in 0 .. MaxCrashes
  BY DEF IInv, TypeOK, WriteLog, WorkerOK, ControlOK, Busy
<1> PICK j \in Job : j = wk[w].job
  BY <1>1
<1>2. CASE row[j].status = "purged"
  BY <1>1, <1>2, IdlePreserves DEF WriteLog
<1>3. CASE row[j].status # "purged"
  <2> DEFINE entry == [success |-> (wk[w].result = "delivered"), delivery_status |-> wk[w].result]
             new == IF log[j] = None THEN None ELSE entry
  <2>1. wk[w].result \in {"queued"} \cup Terminal
    BY <1>1 DEF WorkerOK, ControlOK
  <2>2. entry \in Log /\ entry.delivery_status = wk[w].result
    BY <2>1 DEF Log
  <2>3. new \in Log \cup {None} /\ (new # None => new = entry)
    BY <2>2
  <2> HIDE DEF new, entry
  <2>4. log' = [log EXCEPT ![j] = new] /\ Becomes(w, Idle) /\ UNCHANGED <<row, mailed, crashes>>
    BY <1>3 DEF WriteLog, new, entry
  <2>5. /\ log' \in [Job -> Log \cup {None}] /\ log'[j] = new
        /\ \A k \in Job \ {j} : log'[k] = log[k]
    BY <2>3, <2>4, Update DEF IInv, TypeOK
  <2>6. /\ wk' \in [Worker -> WorkerState] /\ wk'[w] = Idle
        /\ \A u \in Worker \ {w} : wk'[u] = wk[u]
    BY <2>4, IdleFields, Update DEF IInv, TypeOK, Becomes
  <2>7. TypeOK'
    BY <2>4, <2>5, <2>6 DEF IInv, TypeOK
  <2>8. ASSUME NEW k \in Job PROVE RowOK(k)' /\ LogOK(k)'
    <3>1. RowOK(k)'
      BY <2>4 DEF IInv, RowOK
    <3>2. CASE k = j
      <4>1. HoldsOK(w, j)
        BY <1>1 DEF WorkerOK, Busy
      <4>2. new # None /\ new.delivery_status = "delivered" =>
              row[j].status \in {"delivered", "purged"} /\ row[j].attempts \in mailed[j]
        BY <1>1, <2>2, <2>3, <4>1 DEF HoldsOK
      <4>3. new # None /\ new.delivery_status = "failed" => row[j].status \in {"failed", "purged"}
        BY <1>1, <2>2, <2>3, <4>1 DEF HoldsOK
      <4> QED
        BY <2>4, <2>5, <3>1, <3>2, <4>2, <4>3 DEF LogOK
    <3>3. CASE k # j
      BY <2>4, <2>5, <3>1, <3>3 DEF IInv, LogOK
    <3> QED
      BY <3>2, <3>3
  <2>9. ASSUME NEW u \in Worker PROVE WorkerOK(u)'
    <3>1. CASE u = w
      BY <2>6, <3>1, IdleFields DEF WorkerOK, ControlOK, Busy
    <3>2. CASE u # w
      BY <2>4, <2>6, <3>2 DEF IInv, WorkerOK, ControlOK, HoldsOK, Busy, Processing, Loaded, Owns
    <3> QED
      BY <3>1, <3>2
  <2>10. OneSelector'
    BY <2>6, IdleFields DEF IInv, OneSelector
  <2> QED
    BY <2>7, <2>8, <2>9, <2>10 DEF IInv
<1> QED
  BY <1>2, <1>3

LEMMA CrashPreserves ==
  ASSUME IInv, NEW w \in Worker, Crash(w) PROVE IInv'
<1>1. crashes' \in 0 .. MaxCrashes
  BY DEF IInv, TypeOK, Crash
<1> QED
  BY <1>1, IdlePreserves DEF Crash

LEMMA RestartPreserves ==
  ASSUME IInv, NEW w \in Worker, Restart(w) PROVE IInv'
<1>1. crashes' \in 0 .. MaxCrashes
  BY DEF IInv, TypeOK, Restart
<1> QED
  BY <1>1, IdlePreserves DEF Restart

LEMMA CleanupPreserves ==
  ASSUME IInv, Cleanup PROVE IInv'
<1>1. ASSUME NEW j \in Job
      PROVE  /\ row[j] \in Row /\ row'[j] \in Row /\ row'[j].attempts = row[j].attempts
             /\ \/ row'[j] = row[j]
                \/ /\ row[j].status \in Terminal /\ row'[j].status = "purged"
                   /\ row'[j].locked_by = None /\ row'[j].payload = FALSE
                   /\ row'[j].terminal_age = None
  BY PurgedRowFields DEF IInv, TypeOK, RowOK, Cleanup, Expired
<1>2. row' \in [Job -> Row]
  BY <1>1 DEF Cleanup
<1>3. PICK old \in SUBSET (IF "logpurge" \in Faults THEN Job ELSE {}) :
        log' = [j \in Job |-> IF j \in old THEN None ELSE log[j]]
  BY DEF Cleanup
<1>4. log' \in [Job -> Log \cup {None}] /\ \A j \in Job : log'[j] \in {None, log[j]}
  BY <1>3 DEF IInv, TypeOK
<1>5. TypeOK'
  BY <1>2, <1>4 DEF IInv, TypeOK, Cleanup
<1>6. ASSUME NEW j \in Job PROVE RowOK(j)' /\ LogOK(j)'
  <2>1. RowOK(j) /\ LogOK(j) /\ mailed' = mailed
    BY DEF IInv, Cleanup
  <2>2. LogOK(j)'
    BY <1>1, <1>4, <2>1 DEF LogOK, Terminal
  <2>3. CASE row'[j] = row[j]
    <3>1. RowOK(j)'
      BY <2>1, <2>3 DEF RowOK
    <3> QED
      BY <2>1, <2>2, <3>1
  <2>4. CASE row'[j] # row[j]
    <3>1. /\ row'[j].status = "purged" /\ row'[j].locked_by = None /\ row'[j].payload = FALSE
          /\ row'[j].terminal_age = None /\ row'[j].attempts = row[j].attempts
      BY <1>1, <2>4
    <3>2. RowOK(j)'
      BY <2>1, <3>1 DEF RowOK, Pending
    <3> QED
      BY <2>2, <3>2
  <2> QED
    BY <2>3, <2>4
<1>7. ASSUME NEW u \in Worker PROVE WorkerOK(u)'
  <2>1. WorkerOK(u) /\ wk' = wk /\ mailed' = mailed
    BY DEF IInv, Cleanup
  <2>2. ControlOK(u)'
    BY <2>1 DEF WorkerOK, ControlOK, Busy
  <2>3. ASSUME NEW j \in Job, HoldsOK(u, j) PROVE HoldsOK(u, j)'
    BY <1>1, <2>1, <2>3 DEF HoldsOK, Processing, Loaded, Owns, Pending, Terminal
  <2> QED
    BY <2>1, <2>2, <2>3 DEF WorkerOK, ControlOK, Busy
<1>8. OneSelector'
  BY DEF IInv, Cleanup, OneSelector
<1> QED
  BY <1>5, <1>6, <1>7, <1>8 DEF IInv

LEMMA OlderType ==
  ASSUME NEW age \in Nat \cup {None}, NEW bound \in Nat
  PROVE  /\ Older(age, bound) \in Nat \cup {None}
         /\ Older(age, bound) = None <=> age = None
  BY DEF Older

LEMMA TickPreserves ==
  ASSUME IInv, Tick PROVE IInv'
<1>1. ASSUME NEW j \in Job
      PROVE  /\ row'[j] \in Row
             /\ row'[j].status = row[j].status /\ row'[j].attempts = row[j].attempts
             /\ row'[j].locked_by = row[j].locked_by /\ row'[j].payload = row[j].payload
             /\ row'[j].terminal_age = None <=> row[j].terminal_age = None
  <2>1. /\ row[j] \in Row /\ row[j].available_in \in Int
        /\ row[j].locked_age \in Nat \cup {None} /\ row[j].terminal_age \in Nat \cup {None}
    BY DEF IInv, TypeOK, Row
  <2> DEFINE d == IF row[j].status \in Pending /\ row[j].available_in > -Horizon
                  THEN row[j].available_in - 1 ELSE row[j].available_in
             l == Older(row[j].locked_age, LockTimeout)
             t == Older(row[j].terminal_age, TerminalRetention)
  <2>2. row'[j] = [row[j] EXCEPT !.available_in = d, !.locked_age = l, !.terminal_age = t]
    BY <2>1 DEF Tick, Row
  <2>3. d \in Int
    BY <2>1
  <2>4. l \in Nat \cup {None} /\ t \in Nat \cup {None} /\ (t = None <=> row[j].terminal_age = None)
    BY <2>1, OlderType
  <2> HIDE DEF d, l, t
  <2>5. row'[j] \in Row
    BY <2>1, <2>2, <2>3, <2>4 DEF Row
  <2> QED
    BY <2>1, <2>2, <2>4, <2>5 DEF Row
<1>2. ASSUME NEW u \in Worker
      PROVE  /\ wk'[u] \in WorkerState
             /\ wk'[u].pc = wk[u].pc /\ wk'[u].job = wk[u].job /\ wk'[u].claim = wk[u].claim
             /\ wk'[u].att = wk[u].att /\ wk'[u].hb = wk[u].hb /\ wk'[u].lost = wk[u].lost
             /\ wk'[u].result = wk[u].result
  <2>1. wk[u] \in WorkerState /\ wk[u].timer \in Nat
    BY DEF IInv, TypeOK, WorkerState
  <2>2. CASE Timed(u)
    <3> DEFINE t == Older(wk[u].timer, LockTimeout)
    <3>1. t \in Nat
      BY <2>1 DEF Older
    <3>2. wk'[u] = [wk[u] EXCEPT !.timer = t]
      BY <2>1, <2>2 DEF Tick, WorkerState
    <3> HIDE DEF t
    <3> QED
      BY <2>1, <3>1, <3>2 DEF WorkerState
  <2>3. CASE ~Timed(u)
    BY <2>1, <2>3 DEF Tick
  <2> QED
    BY <2>2, <2>3
<1>3. row' \in [Job -> Row] /\ wk' \in [Worker -> WorkerState]
  BY <1>1, <1>2 DEF Tick
<1>4. TypeOK'
  BY <1>3 DEF IInv, TypeOK, Tick
<1>5. ASSUME NEW j \in Job PROVE RowOK(j)' /\ LogOK(j)'
  <2>1. RowOK(j) /\ LogOK(j) /\ mailed' = mailed /\ log' = log
    BY DEF IInv, Tick
  <2>2. RowOK(j)'
    BY <1>1, <2>1 DEF RowOK
  <2>3. LogOK(j)'
    BY <1>1, <2>1 DEF LogOK
  <2> QED
    BY <2>2, <2>3
<1>6. ASSUME NEW u \in Worker PROVE WorkerOK(u)'
  <2>1. WorkerOK(u) /\ mailed' = mailed
    BY DEF IInv, Tick
  <2>2. ControlOK(u)'
    BY <1>2, <2>1 DEF WorkerOK, ControlOK, Busy
  <2>3. ASSUME NEW j \in Job, HoldsOK(u, j) PROVE HoldsOK(u, j)'
    BY <1>1, <1>2, <2>1, <2>3 DEF HoldsOK, Processing, Loaded, Owns
  <2> QED
    BY <1>2, <2>1, <2>2, <2>3 DEF WorkerOK, ControlOK, Busy
<1>7. OneSelector'
  BY <1>2 DEF IInv, OneSelector
<1> QED
  BY <1>4, <1>5, <1>6, <1>7 DEF IInv
-----------------------------------------------------------------------------
LEMMA NextPreserves ==
  ASSUME IInv, [Next]_vars PROVE IInv'
<1>1. CASE UNCHANGED vars
  BY <1>1 DEF vars, IInv, TypeOK, RowOK, LogOK, WorkerOK, ControlOK, HoldsOK, OneSelector, Busy,
              Processing, Loaded, Owns
<1>2. CASE Cleanup \/ Tick
  BY <1>2, CleanupPreserves, TickPreserves
<1>3. ASSUME NEW j \in Job, Enqueue(j) PROVE IInv'
  BY <1>3, EnqueuePreserves
<1>4. ASSUME NEW w \in Worker, SmtpAccept(w) \/ Crash(w) \/ Restart(w) PROVE IInv'
  BY <1>4, SmtpAcceptPreserves, CrashPreserves, RestartPreserves
<1>5. ASSUME NEW w \in Worker, ProcessStep(w) PROVE IInv'
  BY <1>5, ClaimSelectPreserves, ClaimCommitPreserves, LoadPreserves, HeartbeatStartPreserves,
     HeartbeatPreserves, SendEndPreserves, StopHeartbeatPreserves, FinalizePreserves,
     WriteLogPreserves DEF ProcessStep
<1> QED
  BY <1>1, <1>2, <1>3, <1>4, <1>5 DEF Next, Step

(* The inductive invariant holds in every reachable state. *)
THEOREM Invariance == Spec => []IInv
<1>1. Init => IInv
  BY InitEstablishes
<1>2. IInv /\ [Next]_vars => IInv'
  BY NextPreserves
<1> QED
  BY <1>1, <1>2, PTL DEF Spec

(* The state properties follow from it, each for every instance. *)
LEMMA Consequences ==
  IInv => /\ OwnerHoldsLatestClaim
          /\ DeliveredWasMailed
          /\ SnapshotLifetime
          /\ RetriesWithinLimit
          /\ LogNeverAheadOfJob
<1> SUFFICES ASSUME IInv
             PROVE  /\ OwnerHoldsLatestClaim /\ DeliveredWasMailed /\ SnapshotLifetime
                    /\ RetriesWithinLimit /\ LogNeverAheadOfJob
  OBVIOUS
<1>1. OwnerHoldsLatestClaim
  <2> SUFFICES ASSUME NEW w \in Worker, NEW j \in Job, Processing(w), wk[w].job = j, Owns(w, j)
               PROVE  /\ wk[w].claim = row[j].attempts
                      /\ Loaded(w) => wk[w].att = row[j].attempts
    BY DEF OwnerHoldsLatestClaim
  <2>1. Busy(w) /\ WorkerOK(w)
    BY DEF IInv, Busy, Processing
  <2> QED
    BY <2>1 DEF WorkerOK, HoldsOK
<1>2. DeliveredWasMailed /\ SnapshotLifetime /\ RetriesWithinLimit
  BY DEF IInv, RowOK, DeliveredWasMailed, SnapshotLifetime, RetriesWithinLimit
<1>3. LogNeverAheadOfJob
  BY DEF IInv, LogOK, LogNeverAheadOfJob
<1> QED
  BY <1>1, <1>2, <1>3

(* Every reachable state is well typed: in particular no sequence of claims,
   heartbeats and crashes leads to a half-written row. *)
THEOREM TypeCorrect == Spec => []TypeOK
<1>1. IInv => TypeOK
  BY DEF IInv
<1> QED
  BY <1>1, Invariance, PTL

(* A worker that passes the ownership check holds the newest claim. *)
THEOREM OwnershipIsCurrent == Spec => []OwnerHoldsLatestClaim
  BY Invariance, Consequences, PTL

(* A delivered job was mailed under its newest claim. *)
THEOREM DeliveryIsReal == Spec => []DeliveredWasMailed
  BY Invariance, Consequences, PTL

(* The snapshot is there exactly while the job is pending. *)
THEOREM SnapshotIsDestroyedInTime == Spec => []SnapshotLifetime
  BY Invariance, Consequences, PTL

(* A job in the queue has an attempt left. *)
THEOREM RetriesAreLimited == Spec => []RetriesWithinLimit
  BY Invariance, Consequences, PTL

(* The delivery log never reports an end that did not happen. *)
THEOREM LogIsNeverAhead == Spec => []LogNeverAheadOfJob
  BY Invariance, Consequences, PTL
-----------------------------------------------------------------------------
(* What a step may do to the status of one row. *)
LEMMA StepOnRow ==
  ASSUME IInv, Next, NEW j \in Job, row'[j].status # row[j].status
  PROVE  \/ Enqueue(j)
         \/ Cleanup
         \/ \E w \in Worker : wk[w].job = j /\ (ClaimCommit(w) \/ CompleteJob(w) \/ FailJob(w))
<1>1. row \in [Job -> Row]
  BY DEF IInv, TypeOK
<1>2. ASSUME NEW k \in Job, k # j, NEW r, RowBecomes(k, r) PROVE FALSE
  BY <1>1, <1>2 DEF RowBecomes
<1>3. CASE Tick
  <2>1. row'[j].status = row[j].status
    BY <1>1, <1>3 DEF Tick, Row
  <2> QED
    BY <2>1
<1>4. CASE Cleanup
  BY <1>4
<1>5. ASSUME NEW k \in Job, Enqueue(k) PROVE Enqueue(j)
  BY <1>2, <1>5, NewRowFields DEF Enqueue
<1>6. ASSUME NEW w \in Worker, HeartbeatRefresh(w) \/ HeartbeatError(w) PROVE FALSE
  <2>1. wk[w].job \in Job /\ wk[w].timer \in Nat
    BY <1>6 DEF IInv, TypeOK, WorkerState, WorkerOK, ControlOK, Busy, HeartbeatRefresh, HeartbeatError
  <2>2. CASE UNCHANGED row
    BY <2>2
  <2>3. CASE RowBecomes(wk[w].job, [row[wk[w].job] EXCEPT !.locked_age = wk[w].timer])
    <3>1. wk[w].job = j
      BY <1>2, <2>1, <2>3
    <3>2. row'[j] = [row[j] EXCEPT !.locked_age = wk[w].timer]
      BY <1>1, <2>3, <3>1 DEF RowBecomes
    <3>3. row[j] \in Row
      BY <1>1
    <3> QED
      BY <2>1, <3>2, <3>3, RefreshedFields
  <2> QED
    BY <1>6, <2>2, <2>3 DEF HeartbeatRefresh, HeartbeatError
<1>7. ASSUME NEW w \in Worker, ClaimCommit(w) \/ CompleteJob(w) \/ FailJob(w)
      PROVE  wk[w].job = j
  <2>1. wk[w].job \in Job
    BY <1>7 DEF IInv, WorkerOK, ControlOK, Busy, ClaimCommit, CompleteJob, FailJob
  <2> QED
    BY <1>2, <1>7, <2>1 DEF ClaimCommit, CompleteJob, FailJob
<1>8. ASSUME NEW w \in Worker,
             \/ ClaimSelect(w) \/ RefreshFails(w) \/ SnapshotInvalid(w) \/ StartSending(w)
             \/ HeartbeatStart(w) \/ SendEnd(w) \/ StopHeartbeat(w) \/ NotOwner(w)
             \/ WriteLog(w) \/ SmtpAccept(w) \/ Crash(w) \/ Restart(w)
      PROVE  FALSE
  <2>1. row' = row
    BY <1>8 DEF ClaimSelect, RefreshFails, SnapshotInvalid, StartSending, HeartbeatStart, SendEnd,
                StopHeartbeat, NotOwner, WriteLog, SmtpAccept, Crash, Restart
  <2> QED
    BY <2>1
<1> QED
  BY <1>3, <1>4, <1>5, <1>6, <1>7, <1>8 DEF Next, Step, ProcessStep

(* No worker but the holder of the newest claim ends a claim. *)
THEOREM ClaimsEndByTheirHolder == Spec => OnlyHolderEndsClaim
<1>1. ASSUME IInv, [Next]_vars PROVE [HolderEndsClaim]_vars
  <2> SUFFICES ASSUME Next, NEW j \in Job, row[j].status = "processing", row'[j].status # "processing"
               PROVE  \E w \in Worker : /\ wk[w].job = j /\ wk[w].pc = "finalize"
                                        /\ row[j].locked_by = w
                                        /\ wk[w].claim = row[j].attempts
                                        /\ ~wk[w].lost
    BY <1>1 DEF HolderEndsClaim
  <2>1. row[j] \in Row /\ RowOK(j)
    BY <1>1 DEF IInv, TypeOK
  <2>2. ~Enqueue(j)
    BY DEF Enqueue
  <2>3. ~Cleanup
    <3> SUFFICES ASSUME Cleanup PROVE row'[j] = row[j]
      OBVIOUS
    <3>1. ~Expired(j)
      BY <2>1 DEF RowOK, Expired, Terminal
    <3> QED
      BY <1>1, <3>1 DEF Cleanup, IInv, TypeOK
  <2>4. PICK w \in Worker : wk[w].job = j /\ (ClaimCommit(w) \/ CompleteJob(w) \/ FailJob(w))
    BY <1>1, <2>2, <2>3, StepOnRow
  <2>5. WorkerOK(w) /\ wk[w] \in WorkerState
    BY <1>1 DEF IInv, TypeOK
  <2>6. ~ClaimCommit(w)
    <3> SUFFICES ASSUME ClaimCommit(w) PROVE row'[j].status = "processing"
      OBVIOUS
    <3>1. row'[j] = Claimed(row[j], w, wk[w].timer) /\ wk[w].timer \in Nat
      BY <1>1, <2>4, <2>5 DEF ClaimCommit, RowBecomes, IInv, TypeOK, WorkerState
    <3> QED
      BY <2>1, <3>1, ClaimedFields
  <2>7. Owns(w, j) /\ wk[w].pc = "finalize"
    BY <2>4, <2>6 DEF CompleteJob, FailJob
  <2> QED
    BY <2>4, <2>5, <2>7 DEF WorkerOK, ControlOK, HoldsOK, Busy, Processing, Owns
<1> QED
  BY <1>1, Invariance, PTL DEF Spec, OnlyHolderEndsClaim
-----------------------------------------------------------------------------
(* The refinement.  Phase and Epoch are the ledger's variables as functions
   of the rows. *)
Phase == [j \in Job |-> LedgerPhase[row[j].status]]
Epoch == [j \in Job |-> row[j].attempts]

LEMMA PhaseOf ==
  /\ LedgerPhase["queued"] = "waiting" /\ LedgerPhase["processing"] = "held"
  /\ LedgerPhase["purged"] = "gone" /\ LedgerPhase["absent"] = "absent"
  /\ LedgerPhase["delivered"] = "delivered" /\ LedgerPhase["failed"] = "failed"
  BY DEF LedgerPhase

(* A step that keeps status and attempts of every row and the mail history is
   invisible to the ledger. *)
LEMMA Invisible ==
  ASSUME UNCHANGED mailed,
         \A j \in Job : row'[j].status = row[j].status /\ row'[j].attempts = row[j].attempts
  PROVE  UNCHANGED <<Phase, Epoch, mailed>>
  BY DEF Phase, Epoch

(* Writing one row is one update of the ledger. *)
LEMMA RowUpdate ==
  ASSUME row \in [Job -> Row], NEW j \in Job, NEW r \in Row, RowBecomes(j, r)
  PROVE  /\ Phase' = [Phase EXCEPT ![j] = LedgerPhase[r.status]]
         /\ Epoch' = [Epoch EXCEPT ![j] = r.attempts]
         /\ Phase[j] = LedgerPhase[row[j].status]
         /\ Epoch[j] = row[j].attempts
<1>1. row'[j] = r /\ \A k \in Job \ {j} : row'[k] = row[k]
  BY DEF RowBecomes
<1> QED
  BY <1>1 DEF Phase, Epoch

LEMMA LedgerInit == Init => Ledger!Init
  BY AbsentRowFields, PhaseOf DEF Init, Ledger!Init

LEMMA LedgerEnqueue ==
  ASSUME IInv, NEW j \in Job, Enqueue(j) PROVE Ledger!Accept(j)
<1>1. row \in [Job -> Row] /\ row[j].status = "absent" /\ row[j].attempts = 0
  BY DEF IInv, TypeOK, RowOK, Enqueue
<1>2. /\ Phase' = [Phase EXCEPT ![j] = "waiting"] /\ Epoch' = [Epoch EXCEPT ![j] = 0]
      /\ Phase[j] = "absent" /\ Epoch[j] = 0
  BY <1>1, RowUpdate, NewRowFields, PhaseOf DEF Enqueue
<1>3. Epoch' = Epoch
  BY <1>2 DEF Epoch
<1> QED
  BY <1>2, <1>3 DEF Enqueue, Ledger!Accept, Ledger!Move, Phase, Epoch

LEMMA LedgerClaim ==
  ASSUME IInv, NEW w \in Worker, ClaimCommit(w) PROVE \E j \in Job : Ledger!Claim(j)
<1>0. wk[w].job \in Job /\ wk[w].timer \in Nat
  BY DEF IInv, TypeOK, WorkerState, ClaimCommit, WorkerOK, ControlOK, Busy
<1> PICK j \in Job : j = wk[w].job
  BY <1>0
<1>1. row \in [Job -> Row] /\ row[j] \in Row /\ row[j].status \in Pending /\ row[j].attempts < MaxClaims
  BY DEF IInv, TypeOK, ClaimCommit, WorkerOK, HoldsOK, Busy
<1> PICK r \in Row : r = Claimed(row[j], w, wk[w].timer)
  BY <1>0, <1>1, ClaimedType
<1>2. r.status = "processing" /\ r.attempts = row[j].attempts + 1
  BY <1>0, <1>1, ClaimedFields
<1>3. RowBecomes(j, r)
  BY DEF ClaimCommit
<1>4. /\ Phase' = [Phase EXCEPT ![j] = "held"]
      /\ Epoch' = [Epoch EXCEPT ![j] = Epoch[j] + 1]
      /\ Phase[j] \in {"waiting", "held"}
  BY <1>1, <1>2, <1>3, RowUpdate, PhaseOf DEF Pending
<1> QED
  BY <1>4 DEF ClaimCommit, Ledger!Claim, Ledger!Move, Phase, Epoch

LEMMA LedgerMail ==
  ASSUME IInv, NEW w \in Worker, SmtpAccept(w) PROVE \E j \in Job : Ledger!Mail(j)
<1>0. wk[w].job \in Job
  BY DEF IInv, SmtpAccept, WorkerOK, ControlOK, Busy
<1> PICK j \in Job : j = wk[w].job
  BY <1>0
<1>1. wk[w].job \in Job /\ wk[w].claim \in 1 .. row[wk[w].job].attempts
  BY DEF IInv, SmtpAccept, WorkerOK, ControlOK, HoldsOK, Busy, Processing
<1>2. UNCHANGED <<Phase, Epoch>>
  BY DEF SmtpAccept, Phase, Epoch
<1> QED
  BY <1>1, <1>2 DEF SmtpAccept, Ledger!Mail, Phase, Epoch

LEMMA LedgerFinalize ==
  ASSUME IInv, NEW w \in Worker, CompleteJob(w) \/ FailJob(w)
  PROVE  \E j \in Job : Ledger!Deliver(j) \/ Ledger!Release(j) \/ Ledger!GiveUp(j)
<1>0. wk[w].job \in Job /\ WorkerOK(w) /\ wk[w].att \in 0 .. MaxClaims
  BY DEF IInv, TypeOK, WorkerState, CompleteJob, FailJob, WorkerOK, ControlOK, Busy
<1> PICK j \in Job : j = wk[w].job
  BY <1>0
<1>1. /\ row \in [Job -> Row] /\ row[j] \in Row /\ row[j].status = "processing"
      /\ wk[w].claim = row[j].attempts /\ wk[w].att = row[j].attempts
      /\ wk[w].result = "ok" => row[j].attempts \in mailed[j]
  BY <1>0 DEF IInv, TypeOK, CompleteJob, FailJob, Owns, WorkerOK, HoldsOK, Busy, Processing, Loaded
<1>2. Phase[j] = "held" /\ Epoch[j] = row[j].attempts
  BY <1>1, PhaseOf DEF Phase, Epoch
<1>3. ASSUME NEW st \in Terminal, RowBecomes(j, Terminated(row[j], st))
      PROVE  Phase' = [Phase EXCEPT ![j] = st] /\ Epoch' = Epoch
  <2> PICK r \in Row : r = Terminated(row[j], st)
    BY <1>1, TerminatedFields
  <2>1. r.status = st /\ r.attempts = row[j].attempts
    BY <1>1, TerminatedFields
  <2>2. Phase' = [Phase EXCEPT ![j] = st] /\ Epoch' = [Epoch EXCEPT ![j] = row[j].attempts]
    BY <1>1, <1>3, <2>1, RowUpdate, PhaseOf DEF Terminal
  <2> QED
    BY <1>2, <2>2 DEF Epoch
<1>4. CASE CompleteJob(w)
  <2>1. Phase' = [Phase EXCEPT ![j] = "delivered"] /\ Epoch' = Epoch
    BY <1>3, <1>4 DEF CompleteJob, Terminal
  <2> QED
    BY <1>1, <1>2, <1>4, <2>1 DEF CompleteJob, Ledger!Deliver, Ledger!Move, Phase, Epoch
<1>5. CASE FailJob(w) /\ MayRetry(w)
  <2>1. Backoff(wk[w].att) \in Int
    BY <1>0, BackoffAssumption
  <2> PICK r \in Row : r = Released(row[j], Backoff(wk[w].att))
    BY <1>1, <2>1, ReleasedFields
  <2>2. r.status = "queued" /\ r.attempts = row[j].attempts
    BY <1>1, <2>1, ReleasedFields
  <2>3. Phase' = [Phase EXCEPT ![j] = "waiting"] /\ Epoch' = [Epoch EXCEPT ![j] = row[j].attempts]
    BY <1>1, <1>5, <2>2, RowUpdate, PhaseOf DEF FailJob
  <2>4. Epoch' = Epoch
    BY <1>2, <2>3 DEF Epoch
  <2>5. Epoch[j] < MaxAttempts /\ mailed' = mailed
    BY <1>1, <1>2, <1>5 DEF FailJob, MayRetry
  <2>6. Phase' = [Phase EXCEPT ![j] = "waiting"] /\ Phase[j] \in {"held"} /\ UNCHANGED <<Epoch, mailed>>
    BY <1>2, <2>3, <2>4, <2>5
  <2> QED
    BY <2>5, <2>6 DEF Ledger!Release, Ledger!Move, Phase, Epoch
<1>6. CASE FailJob(w) /\ ~MayRetry(w)
  <2>1. Phase' = [Phase EXCEPT ![j] = "failed"] /\ Epoch' = Epoch
    BY <1>3, <1>6 DEF FailJob, Terminal
  <2> QED
    BY <1>1, <1>2, <1>6, <2>1 DEF FailJob, Ledger!GiveUp, Ledger!Move, Phase, Epoch
<1> QED
  BY <1>4, <1>5, <1>6

LEMMA LedgerCleanup ==
  ASSUME IInv, Cleanup PROVE Ledger!Purge
<1> DEFINE old == {j \in Job : Expired(j)}
<1>1. ASSUME NEW j \in Job
      PROVE  /\ row'[j].attempts = row[j].attempts
             /\ IF j \in old THEN row[j].status \in Terminal /\ row'[j].status = "purged"
                ELSE row'[j].status = row[j].status
  BY PurgedRowFields DEF IInv, TypeOK, RowOK, Cleanup, Expired
<1>2. Epoch' = Epoch
  BY <1>1 DEF Epoch
<1>3. Phase' = [j \in Job |-> IF j \in old THEN "gone" ELSE Phase[j]]
  BY <1>1, PhaseOf DEF Phase
<1>4. old \in SUBSET {j \in Job : Phase[j] \in {"delivered", "failed"}}
  BY <1>1, PhaseOf DEF Phase, Terminal
<1> HIDE DEF old
<1> QED
  BY <1>2, <1>3, <1>4 DEF Cleanup, Ledger!Purge, Ledger!Finished, Phase, Epoch

(* The steps the ledger does not see. *)
LEMMA LedgerStutter ==
  ASSUME IInv,
         \/ UNCHANGED <<row, mailed>>
         \/ Tick
         \/ \E w \in Worker : HeartbeatRefresh(w) \/ HeartbeatError(w)
  PROVE  UNCHANGED <<Phase, Epoch, mailed>>
<1>1. CASE UNCHANGED <<row, mailed>>
  BY <1>1, Invisible
<1>2. CASE Tick
  <2>1. ASSUME NEW j \in Job PROVE row'[j].status = row[j].status /\ row'[j].attempts = row[j].attempts
    <3>1. row[j] \in Row
      BY DEF IInv, TypeOK
    <3> QED
      BY <1>2, <3>1 DEF Tick, Row
  <2> QED
    BY <1>2, <2>1, Invisible DEF Tick
<1>3. ASSUME NEW w \in Worker, HeartbeatRefresh(w) \/ HeartbeatError(w)
      PROVE  UNCHANGED <<Phase, Epoch, mailed>>
  <2>1. /\ wk[w].job \in Job /\ wk[w].timer \in Nat /\ row \in [Job -> Row]
        /\ UNCHANGED mailed
    BY <1>3 DEF IInv, TypeOK, WorkerState, WorkerOK, ControlOK, Busy, HeartbeatRefresh, HeartbeatError
  <2>2. CASE UNCHANGED row
    BY <2>1, <2>2, Invisible
  <2>3. CASE RowBecomes(wk[w].job, [row[wk[w].job] EXCEPT !.locked_age = wk[w].timer])
    <3> PICK j \in Job : j = wk[w].job
      BY <2>1
    <3> PICK r \in Row : r = [row[j] EXCEPT !.locked_age = wk[w].timer]
      BY <2>1, RefreshedFields
    <3>1. r.status = row[j].status /\ r.attempts = row[j].attempts
      BY <2>1, RefreshedFields
    <3>2. row'[j] = r /\ \A k \in Job \ {j} : row'[k] = row[k]
      BY <2>1, <2>3 DEF RowBecomes
    <3> QED
      BY <2>1, <3>1, <3>2, Invisible
  <2> QED
    BY <1>3, <2>2, <2>3 DEF HeartbeatRefresh, HeartbeatError
<1> QED
  BY <1>1, <1>2, <1>3

LEMMA LedgerStep ==
  ASSUME IInv, [Next]_vars PROVE [Ledger!Next]_(Ledger!vars)
<1>1. UNCHANGED <<Phase, Epoch, mailed>> => UNCHANGED Ledger!vars
  BY DEF Ledger!vars, Phase, Epoch
<1>2. CASE UNCHANGED vars \/ Tick
  BY <1>1, <1>2, LedgerStutter DEF vars
<1>3. CASE Cleanup
  BY <1>3, LedgerCleanup DEF Ledger!Next
<1>4. ASSUME NEW j \in Job, Enqueue(j) PROVE Ledger!Next
  BY <1>4, LedgerEnqueue DEF Ledger!Next
<1>5. ASSUME NEW w \in Worker, ClaimCommit(w) PROVE Ledger!Next
  BY <1>5, LedgerClaim DEF Ledger!Next
<1>6. ASSUME NEW w \in Worker, SmtpAccept(w) PROVE Ledger!Next
  BY <1>6, LedgerMail DEF Ledger!Next
<1>7. ASSUME NEW w \in Worker, CompleteJob(w) \/ FailJob(w) PROVE Ledger!Next
  BY <1>7, LedgerFinalize DEF Ledger!Next
<1>8. ASSUME NEW w \in Worker, HeartbeatRefresh(w) \/ HeartbeatError(w) PROVE UNCHANGED Ledger!vars
  BY <1>1, <1>8, LedgerStutter
<1>9. ASSUME NEW w \in Worker,
             \/ ClaimSelect(w) \/ RefreshFails(w) \/ SnapshotInvalid(w) \/ StartSending(w)
             \/ HeartbeatStart(w) \/ SendEnd(w) \/ StopHeartbeat(w) \/ NotOwner(w)
             \/ WriteLog(w) \/ Crash(w) \/ Restart(w)
      PROVE  UNCHANGED Ledger!vars
  <2>1. UNCHANGED <<row, mailed>>
    BY <1>9 DEF ClaimSelect, RefreshFails, SnapshotInvalid, StartSending, HeartbeatStart, SendEnd,
                StopHeartbeat, NotOwner, WriteLog, Crash, Restart
  <2> QED
    BY <1>1, <2>1, LedgerStutter
<1> QED
  BY <1>2, <1>3, <1>4, <1>5, <1>6, <1>7, <1>8, <1>9 DEF Next, Step, ProcessStep

(* The queue with its rows, locks, heartbeats and crashes implements the
   ledger: every transaction is a step the ledger allows, or none. *)
THEOREM QueueImplementsLedger == Spec => LedgerSpec
<1>1. Init => Ledger!Init
  BY LedgerInit
<1>2. IInv /\ [Next]_vars => [Ledger!Next]_(Ledger!vars)
  BY LedgerStep
<1> QED
  BY <1>1, <1>2, Invariance, PTL DEF Spec, LedgerSpec, Ledger!Spec
-----------------------------------------------------------------------------
(* What implementing the ledger is good for. *)

\* The entries of the ledger, one job at a time.
PhaseIn(j) == LedgerPhase[row[j].status]
EpochIn(j) == row[j].attempts

LEMMA LedgerMoves ==
  ASSUME NEW j \in Job, NEW from, NEW to, Ledger!Move(j, from, to), NEW k \in Job
  PROVE  /\ PhaseIn(j) \in from
         /\ PhaseIn(k)' = IF k = j THEN to ELSE PhaseIn(k)
BY DEF Ledger!Move, PhaseIn

\* A step that counts no claim and no message of the job.
SameEntry(k) == EpochIn(k)' = EpochIn(k) /\ mailed'[k] = mailed[k]

LEMMA LedgerSame ==
  ASSUME NEW k \in Job, UNCHANGED <<Epoch, mailed>> PROVE SameEntry(k)
<1>1. Epoch'[k] = Epoch[k]
  OBVIOUS
<1>2. Epoch[k] = EpochIn(k) /\ Epoch'[k] = EpochIn(k)'
  BY DEF Epoch, EpochIn
<1> QED
  BY <1>1, <1>2 DEF SameEntry

EntryKept(k) ==
  /\ PhaseIn(k) \in {"waiting", "held"} =>
        PhaseIn(k)' \in {"waiting", "held", "delivered", "failed"}
  /\ PhaseIn(k) \in {"delivered", "failed"} => PhaseIn(k)' \in {PhaseIn(k), "gone"}
  /\ PhaseIn(k) = "gone" => PhaseIn(k)' = "gone"
  /\ PhaseIn(k) \in {"delivered", "failed", "gone"} => EpochIn(k)' = EpochIn(k)
  /\ EpochIn(k) <= EpochIn(k)'
  /\ mailed[k] \subseteq mailed'[k]

LEMMA EntryIsKept ==
  ASSUME NEW k \in Job, IInv, Ledger!Next PROVE EntryKept(k)
<1>1. EpochIn(k) \in Nat /\ mailed \in [Job -> SUBSET Nat]
  BY DEF IInv, TypeOK, Row, EpochIn
<1>2. CASE Ledger!Purge
  <2>1. PICK old \in SUBSET {j \in Job : Ledger!Finished(j)} :
             Phase' = [j \in Job |-> IF j \in old THEN "gone" ELSE Phase[j]]
    BY <1>2 DEF Ledger!Purge, Phase
  <2>2. Phase[k] = PhaseIn(k) /\ Phase'[k] = PhaseIn(k)'
    BY DEF Phase, PhaseIn
  <2>3. k \in old => PhaseIn(k) \in {"delivered", "failed"}
    BY DEF Ledger!Finished, PhaseIn
  <2>4. SameEntry(k)
    BY <1>2, LedgerSame DEF Ledger!Purge, Epoch
  <2> QED
    BY <1>1, <2>1, <2>2, <2>3, <2>4 DEF EntryKept, SameEntry
<1>3. ASSUME NEW j \in Job, Ledger!Accept(j) \/ Ledger!Deliver(j) \/ Ledger!Release(j) \/ Ledger!GiveUp(j)
      PROVE  EntryKept(k)
  <2>1. SameEntry(k)
    BY <1>3, LedgerSame DEF Ledger!Accept, Ledger!Deliver, Ledger!Release, Ledger!GiveUp, Epoch
  <2>2. \/ Ledger!Move(j, {"absent"}, "waiting") \/ Ledger!Move(j, {"held"}, "delivered")
        \/ Ledger!Move(j, {"held"}, "waiting") \/ Ledger!Move(j, {"held"}, "failed")
    BY <1>3 DEF Ledger!Accept, Ledger!Deliver, Ledger!Release, Ledger!GiveUp
  <2>3. \/ PhaseIn(j) \in {"absent"} /\ PhaseIn(k)' = IF k = j THEN "waiting" ELSE PhaseIn(k)
        \/ PhaseIn(j) \in {"held"} /\ \E to \in {"delivered", "waiting", "failed"} :
                                         PhaseIn(k)' = IF k = j THEN to ELSE PhaseIn(k)
    BY <2>2, LedgerMoves
  <2> QED
    BY <1>1, <2>1, <2>3 DEF EntryKept, SameEntry
<1>4. ASSUME NEW j \in Job, Ledger!Claim(j) PROVE EntryKept(k)
  <2>1. PhaseIn(j) \in {"waiting", "held"} /\ PhaseIn(k)' = IF k = j THEN "held" ELSE PhaseIn(k)
    BY <1>4, LedgerMoves DEF Ledger!Claim
  <2>2. Epoch' = [Epoch EXCEPT ![j] = @ + 1] /\ mailed' = mailed
    BY <1>4 DEF Ledger!Claim, Epoch
  <2>3. EpochIn(k)' = IF k = j THEN EpochIn(k) + 1 ELSE EpochIn(k)
    BY <2>2 DEF Epoch, EpochIn
  <2> QED
    BY <1>1, <2>1, <2>2, <2>3 DEF EntryKept
<1>5. ASSUME NEW j \in Job, Ledger!Mail(j) PROVE EntryKept(k)
  <2>1. Phase' = Phase /\ Epoch' = Epoch
    BY <1>5 DEF Ledger!Mail, Phase, Epoch
  <2>2. Phase[k] = PhaseIn(k) /\ Phase'[k] = PhaseIn(k)' /\ Epoch[k] = EpochIn(k) /\ Epoch'[k] = EpochIn(k)'
    BY DEF Phase, PhaseIn, Epoch, EpochIn
  <2>3. mailed[k] \subseteq mailed'[k]
    BY <1>1, <1>5 DEF Ledger!Mail
  <2> QED
    BY <1>1, <2>1, <2>2, <2>3 DEF EntryKept
<1> QED
  BY <1>2, <1>3, <1>4, <1>5 DEF Ledger!Next

LEMMA LedgerKeeps ==
  IInv /\ [Ledger!Next]_(Ledger!vars) => [Ledger!KeepsJobs]_(Ledger!vars)
<1> SUFFICES ASSUME IInv, Ledger!Next PROVE Ledger!KeepsJobs
  OBVIOUS
<1>1. \A k \in Job : EntryKept(k)
  BY EntryIsKept
<1> QED
  BY <1>1 DEF EntryKept, PhaseIn, EpochIn, Ledger!KeepsJobs, Ledger!Finished

(* No accepted job is lost, delivered or given up twice, or attempted after its end:
   the ledger says so, and the queue implements it, under any delays, faults and crashes
   (claim_job, complete_job, fail_job, cleanup_expired_data). *)
THEOREM AcceptedJobsAreKept == Spec => Ledger!JobsAreKept
<1>1. Spec => [][Ledger!Next]_(Ledger!vars)
  BY QueueImplementsLedger, PTL DEF LedgerSpec, Ledger!Spec
<1> QED
  BY <1>1, Invariance, LedgerKeeps, PTL DEF Ledger!JobsAreKept
=============================================================================
