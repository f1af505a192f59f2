------------------------------ MODULE JobLedger ------------------------------
(* What the e-mail queue promises, without workers, clocks, locks or rows.

   A job is accepted once, is then claimed any number of times, and ends
   delivered or failed; its record is removed later.  Every claim is a new
   epoch of the job.  The message may reach the mail server at most once per
   epoch, possibly long after the epoch is over (a sender that lost its claim
   cannot be recalled), and the job counts as delivered only when the message
   of the epoch that is still current has been accepted by the mail server.
   A job goes back to the queue only while its epoch is below the limit. *)
EXTENDS Integers

CONSTANTS Job, MaxAttempts

VARIABLES phase,    \* phase[j]: where the job is in its life
          epoch,    \* epoch[j]: how often the job has been claimed
          mailed    \* mailed[j]: epochs under which the mail server took the message

vars == <<phase, epoch, mailed>>

Phase == {"absent", "waiting", "held", "delivered", "failed", "gone"}

Finished(j) == phase[j] \in {"delivered", "failed"}

TypeOK == /\ phase \in [Job -> Phase]
          /\ epoch \in [Job -> Nat]
          /\ mailed \in [Job -> SUBSET Nat]

Init == /\ phase = [j \in Job |-> "absent"]
        /\ epoch = [j \in Job |-> 0]
        /\ mailed = [j \in Job |-> {}]

Move(j, from, to) == /\ phase[j] \in from
                     /\ phase' = [phase EXCEPT ![j] = to]

Accept(j) == /\ Move(j, {"absent"}, "waiting")
             /\ UNCHANGED <<epoch, mailed>>

\* A claim of a job that is already held takes it away from its holder.
Claim(j) == /\ Move(j, {"waiting", "held"}, "held")
            /\ epoch' = [epoch EXCEPT ![j] = @ + 1]
            /\ UNCHANGED mailed

Mail(j) == /\ \E e \in (1 .. epoch[j]) \ mailed[j] :
                 mailed' = [mailed EXCEPT ![j] = @ \cup {e}]
           /\ UNCHANGED <<phase, epoch>>

Deliver(j) == /\ epoch[j] \in mailed[j]
              /\ Move(j, {"held"}, "delivered")
              /\ UNCHANGED <<epoch, mailed>>

Release(j) == /\ epoch[j] < MaxAttempts
              /\ Move(j, {"held"}, "waiting")
              /\ UNCHANGED <<epoch, mailed>>

GiveUp(j) == /\ Move(j, {"held"}, "failed")
             /\ UNCHANGED <<epoch, mailed>>

\* Old finished jobs are removed together.
Purge == /\ \E old \in SUBSET {j \in Job : Finished(j)} :
               phase' = [j \in Job |-> IF j \in old THEN "gone" ELSE phase[j]]
         /\ UNCHANGED <<epoch, mailed>>

Next == \/ \E j \in Job : \/ Accept(j) \/ Claim(j) \/ Mail(j)
                          \/ Deliver(j) \/ Release(j) \/ GiveUp(j)
        \/ Purge

Spec == Init /\ [][Next]_vars

(* No accepted job is lost and no end is undone: a pending job stays pending or ends,
   one that ended is claimed no more and at most forgotten, and the history of claims
   and messages only grows (delivery_queue.py:159, 213, 239, retention.py:34). *)
KeepsJobs == \A j \in Job :
  /\ phase[j] \in {"waiting", "held"} => phase'[j] \in {"waiting", "held", "delivered", "failed"}
  /\ Finished(j) => phase'[j] \in {phase[j], "gone"}
  /\ phase[j] = "gone" => phase'[j] = "gone"
  /\ Finished(j) \/ phase[j] = "gone" => epoch'[j] = epoch[j]
  /\ epoch[j] <= epoch'[j]
  /\ mailed[j] \subseteq mailed'[j]

JobsAreKept == [][KeepsJobs]_vars
=============================================================================
