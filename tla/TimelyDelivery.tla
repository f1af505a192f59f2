--------------------------- MODULE TimelyDelivery ---------------------------
(* The queue when its processes keep up with the clock: a worker needs at
   most Latency ticks from reading the clock to the effect that depends on it
   (claim to send, heartbeat transaction, end of send to the final transition
   and the log), its heartbeat wakes up when its interval is over, and the join of a
   finished heartbeat task takes no time.  Only the SMTP thread takes as
   long as it likes.  This is what the lock timeout is designed for; without
   it any worker can be declared dead while it is alive. *)
EXTENDS DeliveryQueueSafety, FiniteSets

OnTime(w) ==
  CASE wk[w].hb = "done" /\ wk[w].pc = "sending" -> TRUE
    [] wk[w].hb = "wait" /\ wk[w].pc = "sending" -> wk[w].timer < HeartbeatInterval
    [] wk[w].hb # "inflight" /\ wk[w].pc = "stopping" -> FALSE
    [] OTHER -> Busy(w) => wk[w].timer < Latency

TimelyTick == (\A w \in Worker : OnTime(w)) /\ Tick

TimelySpec == Init /\ [][Step \/ TimelyTick]_vars

(* Clocks advance, a worker that can act does, a send returns (every socket
   operation has SMTP_TIMEOUT_SECONDS), Compose restarts a worker that exited,
   the cleanup service runs again and again. *)
Fairness == /\ WF_vars(TimelyTick)
            /\ \A w \in Worker : /\ WF_vars(ProcessStep(w))
                                 /\ WF_vars(SendEnd(w))
                                 /\ WF_vars(Restart(w))
            /\ WF_vars(Cleanup)

FairSpec == TimelySpec /\ Fairness
-----------------------------------------------------------------------------
(* README.md:186: claiming with FOR UPDATE SKIP LOCKED prevents duplicate
   concurrent processing of a job across containers.  The run and OneWorkerPerJob
   suppose that no heartbeat transaction raises: after one that does, the send goes
   on without a heartbeat while another worker may claim the job (worker.py:41). *)
NoConcurrentProcessing ==
  \A u, w \in Worker :
    u # w /\ Processing(u) /\ Processing(w) => wk[u].job # wk[w].job

(* README.md:186: a live heartbeat prevents reclaim.  No step takes a job
   from a worker that is alive and whose heartbeat has not given up. *)
LiveHeartbeatPreventsReclaim ==
  [][\A w \in Worker : \A j \in Job :
       Processing(w) /\ ~wk[w].lost /\ wk[w].job = j /\ Owns(w, j) =>
         row'[j].locked_by \in {w, None}]_vars

(* Every further copy of a message costs a crash, if the server's answer to an
   accepted message arrives and no heartbeat transaction raises, both of which the
   run and OnlyCrashesDuplicate suppose: the mail server takes the message of a job
   at most once more than workers died.  Each lost answer can cost another copy
   (SmtpSession, RepeatedOnlyWhenUpset). *)
DuplicatesNeedCrashes ==
  \A j \in Job : Cardinality(mailed[j]) <= 1 + crashes

\* The first attempt is made whatever max_attempts is; the settings do not refuse 0.
AttemptsGranted == IF MaxAttempts = 0 THEN 1 ELSE MaxAttempts

(* Only a crash lets a job be attempted beyond the limit: claim_job itself
   does not look at max_attempts.  As before, if no heartbeat transaction raises. *)
ExtraAttemptsNeedCrashes ==
  \A j \in Job : row[j].attempts <= AttemptsGranted + crashes

(* Log entries are written in the order of the attempts they report: who
   writes one still has the newest claim (README.md:186: a worker that lost
   ownership cannot overwrite the legitimate new owner's state). *)
LogWriterHasLatestClaim ==
  [][\A w \in Worker :
       wk[w].pc = "logging" /\ wk'[w].pc = "idle" =>
         wk[w].claim = row[wk[w].job].attempts]_vars

(* The job's row is purged only after its delivery log tells how it ended,
   unless the worker died between the two transactions. *)
HistoryOutlivesJob ==
  \A j \in Job : row[j].status = "purged" =>
    \/ log[j].delivery_status \in Terminal
    \/ crashes > 0
-----------------------------------------------------------------------------
(* What these properties rest on.  A timer is read against the bound of its
   place, and every worker that acts on a heartbeat has one running. *)
InTime(w) ==
  /\ wk[w].pc \in {"selected", "claimed", "finalize", "logging"} => wk[w].timer <= Latency
  /\ wk[w].hb = "inflight" => wk[w].timer <= Latency
  /\ wk[w].hb = "wait" => wk[w].timer <= HeartbeatInterval
  /\ wk[w].pc \in {"sending", "stopping"} => wk[w].hb # "off"
  /\ wk[w].hb = "done" => wk[w].lost

\* Past the commit of claim_job and not told that the claim is lost.
Live(w) == Processing(w) /\ ~wk[w].lost

\* How much older than the worker's clock reading locked_at may be.
Margin(w) == CASE wk[w].pc = "claimed" -> 0
               [] wk[w].pc # "claimed" /\ wk[w].hb = "wait" -> Latency
               [] OTHER -> Latency + HeartbeatInterval

\* A live worker owns its row, and nobody is about to take it away.
Secure(w) ==
  LET j == wk[w].job IN
  Live(w) => /\ Owns(w, j)
             /\ ~RowLocked(j)
             /\ row[j].locked_age # None
             /\ row[j].locked_age <= wk[w].timer + Margin(w)

(* Until the log is written, a released job waits for its delay and a finished
   one for its retention. *)
Reporting(w) ==
  LET j == wk[w].job IN
  wk[w].pc = "logging" =>
    /\ wk[w].claim = row[j].attempts
    /\ wk[w].result = "queued" =>
         /\ row[j].status = "queued"
         /\ ~RowLocked(j)
         /\ row[j].available_in + wk[w].timer > Latency
    /\ row[j].terminal_age # None => row[j].terminal_age <= wk[w].timer

Held(j) == \E w \in Worker : Processing(w) /\ wk[w].job = j

\* A claim that no worker works on has cost a crash, which pays for the next one.
AttemptsPaid(j) ==
  /\ row[j].attempts <= AttemptsGranted + crashes
  /\ row[j].status \in Pending /\ ~Held(j) => row[j].attempts < AttemptsGranted + crashes

\* So has a copy of the message whose sender cannot tell of it any more.
CopiesPaid(j) ==
  /\ Cardinality(mailed[j]) <= 1 + crashes
  /\ \/ row[j].status \in Terminal \cup {"purged"}
     \/ \E w \in Worker : /\ Processing(w) /\ wk[w].job = j
                          /\ wk[w].claim \in mailed[j]
     \/ Cardinality(mailed[j]) <= crashes

\* A claim that has just been made, or that failed, sent nothing.
Unsent(w) ==
  \/ wk[w].pc = "claimed"
  \/ wk[w].pc \in {"stopping", "finalize"} /\ wk[w].result # "ok"
  => wk[w].claim \notin mailed[wk[w].job]

Told(j) == log[j].delivery_status \in Terminal

\* The end of a job is in its log, or its last worker is about to write it there.
Remembered(j) ==
  /\ row[j].status # "absent" => log[j] # None
  /\ row[j].status \in Terminal \cup {"purged"} =>
       \/ Told(j)
       \/ crashes > 0
       \/ \E w \in Worker : /\ wk[w].pc = "logging" /\ wk[w].job = j
                            /\ wk[w].result \in Terminal
                            /\ row[j].status # "purged"

TimelyInv == /\ \A w \in Worker : InTime(w) /\ Secure(w) /\ Reporting(w) /\ Unsent(w)
             /\ \A j \in Job : AttemptsPaid(j) /\ CopiesPaid(j) /\ Remembered(j)
-----------------------------------------------------------------------------
(* Every accepted job is delivered or given up, crashes included. *)
EventuallyFinished ==
  \A j \in Job : row[j].status = "queued" ~> row[j].status \in Terminal \cup {"purged"}

(* A finished job is eventually purged and its delivery log has the outcome
   by then and for good, unless a worker dies between the two transactions. *)
OutcomeEventuallyLogged ==
  \A j \in Job : (\E s \in Terminal : row[j].status = s) ~>
    \/ [](row[j].status = "purged" /\ log[j].delivery_status \in Terminal)
    \/ crashes > 0
=============================================================================
