-------------------------- MODULE SmtpSessionProofs --------------------------
(* The dialogue with the mail server, for any recipients and any number of
   attempts.  The argument is DialogueInv: what an attempt has done so far is
   known at every stage, and an attempt that is over left its recipients the
   message only if it delivered the job or was upset. *)
EXTENDS SmtpSession, TLAPS

Early == {"message", "connect", "starttls", "login", "mail", "rcpt"}
Middle == {"data", "text"}
Late == {"quit", "ended"}

\* Job, attempts and stage belong together.
Progress ==
  /\ stage = "idle" <=> job # "processing"
  /\ job = "absent" => attempts = 0
  /\ job \in {"absent", "queued"} => attempts < MaxAttempts
  /\ job = "processing" => attempts >= 1

\* What is known of the attempt that is made.
ThisAttempt ==
  /\ stage \in Early => refused = {}
  /\ stage \in Middle => refused # Recipient
  /\ stage \in Early \cup Middle =>
       /\ raised = None /\ cause = None
       /\ \A p \in Recipient : attempts \notin taken[p]
  /\ stage \in Late /\ raised = None =>
       /\ cause = None
       /\ refused # Recipient
       /\ \A p \in Recipient : attempts \in taken[p] <=> p \notin refused
  /\ stage \in Late /\ raised # None =>
       \A p \in Recipient : attempts \in taken[p] => attempts \in upset
  /\ stage = "quit" => raised = cause
  /\ stage = "ended" => raised = cause \/ attempts \in upset

\* What is known of the attempts before, and of the last one when it is over.
Attempts ==
  /\ \A p \in Recipient : \A m \in taken[p] : m <= attempts /\ (m < attempts => m \in upset)
  /\ job \in {"absent", "queued"} => \A p \in Recipient : taken[p] \subseteq upset

DialogueInv == TypeOK /\ Progress /\ ThisAttempt /\ Attempts /\ DeliveredToTheOthers
-----------------------------------------------------------------------------
\* The stage after the connection is one of the dialogue.
LEMMA NextStages == AfterConnect \in {"starttls", "login", "mail"} /\ AfterTls \in {"login", "mail"}
BY DEF AfterConnect, AfterTls, AfterLogin

\* The invariant holds at the start.
LEMMA InitDialogue == Init => DialogueInv
<1> SUFFICES ASSUME Init PROVE DialogueInv
  OBVIOUS
<1>1. TypeOK
  <2>1. attempts \in 0 .. MaxAttempts
    BY SmtpAssumption DEF Init
  <2>2. taken \in [Recipient -> SUBSET (1 .. MaxAttempts)]
    BY DEF Init
  <2> QED
    BY <2>1, <2>2 DEF Init, TypeOK, Stage
<1>2. Progress /\ Attempts
  BY SmtpAssumption DEF Init, Progress, Attempts
<1>3. ThisAttempt /\ DeliveredToTheOthers
  BY DEF Init, ThisAttempt, DeliveredToTheOthers, Early, Middle, Late
<1> QED
  BY <1>1, <1>2, <1>3 DEF DialogueInv

\* A step of the dialogue that does not send the message: the next stage, or an exception.
LEMMA CommandStep ==
  ASSUME DialogueInv,
         stage \in Early \cup Middle,
         UNCHANGED <<snapshot, job, attempts, taken, upset>>,
         refused' \subseteq Recipient,
         open' \in BOOLEAN,
         \/ /\ stage' \in Early \cup Middle
            /\ stage' \in Early => refused' = {}
            /\ stage' \in Middle => refused' # Recipient
            /\ UNCHANGED <<raised, cause>>
         \/ /\ stage' \in Late
            /\ raised' \in Exception
            /\ cause' = raised'
  PROVE  DialogueInv'
<1> USE DEF DialogueInv
<1>1. raised' \in Exception \cup {None} /\ cause' \in Exception \cup {None}
  BY DEF TypeOK
<1>2. TypeOK'
  BY <1>1 DEF TypeOK, Stage, Early, Middle, Late
<1>3. Progress'
  BY DEF Progress, Early, Middle, Late
<1>4. ThisAttempt'
  BY SmtpAssumption DEF ThisAttempt, Early, Middle, Late, Exception
<1>5. Attempts' /\ DeliveredToTheOthers'
  BY DEF Attempts, DeliveredToTheOthers, Progress, Early, Middle
<1> QED
  BY <1>2, <1>3, <1>4, <1>5
-----------------------------------------------------------------------------
\* The queue's part of an attempt: it is accepted, claimed and settled.
LEMMA JobStep == DialogueInv /\ (Enqueue \/ Claim \/ Settle) => DialogueInv'
<1> SUFFICES ASSUME DialogueInv, Enqueue \/ Claim \/ Settle
             PROVE  DialogueInv'
  OBVIOUS
<1> USE DEF DialogueInv
<1>0. MaxAttempts \in Nat /\ attempts \in Nat /\ attempts <= MaxAttempts
  BY SmtpAssumption DEF TypeOK
<1>1. CASE Enqueue
  <2>1. TypeOK' /\ Progress'
    BY <1>1, <1>0 DEF Enqueue, TypeOK, Progress
  <2>2. ThisAttempt' /\ Attempts' /\ DeliveredToTheOthers'
    BY <1>1, <1>0 DEF Enqueue, TypeOK, Progress, ThisAttempt, Attempts, DeliveredToTheOthers
  <2> QED
    BY <2>1, <2>2
<1>2. CASE Claim
  <2>1. attempts' = attempts + 1 /\ attempts' <= MaxAttempts
    BY <1>2, <1>0 DEF Claim, Progress
  <2>2. TypeOK' /\ Progress'
    BY <1>2, <1>0, <2>1 DEF Claim, TypeOK, Progress, Stage
  <2>3. \A p \in Recipient : taken[p] \subseteq upset /\ taken[p] \subseteq 1 .. MaxAttempts
    BY <1>2 DEF Claim, Attempts, TypeOK
  <2>4. \A p \in Recipient : \A m \in taken[p] : m <= attempts
    BY DEF Attempts
  <2>5. ThisAttempt'
    BY <1>2, <1>0, <2>1, <2>3, <2>4 DEF Claim, ThisAttempt, Early, Middle, Late
  <2>6. Attempts'
    BY <1>2, <1>0, <2>1, <2>3, <2>4 DEF Claim, Attempts
  <2>7. DeliveredToTheOthers'
    BY <1>2 DEF Claim, DeliveredToTheOthers
  <2> QED
    BY <2>2, <2>5, <2>6, <2>7
<1>3. CASE Settle
  <2>1. TypeOK' /\ Progress'
    BY <1>3, <1>0 DEF Settle, TypeOK, Progress, Stage, MayRetry, Delivered
  <2>2. ThisAttempt'
    BY <1>3 DEF Settle, ThisAttempt, Early, Middle, Late
  <2>3. job' = "queued" => raised # None
    BY <1>3 DEF Settle, Delivered
  <2>4. raised # None => \A p \in Recipient : attempts \in taken[p] => attempts \in upset
    BY <1>3 DEF Settle, ThisAttempt, Late
  <2>5. \A p \in Recipient : \A m \in taken[p] : m \in Nat
    BY DEF TypeOK
  <2>6. Attempts'
    <3>1. \A p \in Recipient : \A m \in taken[p] : m <= attempts /\ (m < attempts => m \in upset)
      BY DEF Attempts
    <3>2. job' = "queued" => \A p \in Recipient : taken[p] \subseteq upset
      BY <1>0, <2>3, <2>4, <2>5, <3>1
    <3> QED
      BY <1>3, <3>1, <3>2 DEF Settle, Attempts
  <2>7. DeliveredToTheOthers'
    BY <1>3 DEF Settle, DeliveredToTheOthers, ThisAttempt, Late, Delivered
  <2> QED
    BY <2>1, <2>2, <2>6, <2>7
<1> QED
  BY <1>1, <1>2, <1>3

\* The commands before the message: nothing is taken yet.
LEMMA CommandsStep ==
  DialogueInv /\ (Message \/ Connect \/ StartTls \/ Login \/ MailFrom \/ RcptTo \/ Data)
    => DialogueInv'
<1> SUFFICES ASSUME DialogueInv,
                    Message \/ Connect \/ StartTls \/ Login \/ MailFrom \/ RcptTo \/ Data
             PROVE  DialogueInv'
  OBVIOUS
<1>0. open \in BOOLEAN /\ refused \subseteq Recipient
  BY DEF DialogueInv, TypeOK
<1>1. stage \in Early => refused = {}
  BY DEF DialogueInv, ThisAttempt
<1>2. stage \in Middle => refused # Recipient
  BY DEF DialogueInv, ThisAttempt
<1> USE DEF At, Consent, Raises, Refuses, Disconnected, Early, Middle, Late, Exception
<1>3. CASE Message \/ Connect
  BY <1>0, <1>1, <1>3, NextStages, CommandStep DEF Message, Connect
<1>4. CASE StartTls \/ Login \/ MailFrom
  BY <1>0, <1>1, <1>4, NextStages, CommandStep DEF StartTls, Login, MailFrom, AfterLogin
<1>5. CASE RcptTo
  BY <1>0, <1>1, <1>5, CommandStep DEF RcptTo, AllRefused
<1>6. CASE Data
  BY <1>0, <1>2, <1>6, CommandStep DEF Data
<1> QED
  BY <1>3, <1>4, <1>5, <1>6

\* The message: whoever was not refused has it, or nobody.
LEMMA TextStep == DialogueInv /\ Text => DialogueInv'
<1> SUFFICES ASSUME DialogueInv, Text
             PROVE  DialogueInv'
  OBVIOUS
<1>1. stage = "text" /\ job = "processing" /\ UNCHANGED <<snapshot, job, attempts, refused>>
  BY DEF Text, At, DialogueInv, Progress
<1>2. attempts \in 1 .. MaxAttempts
  BY <1>1, SmtpAssumption DEF DialogueInv, TypeOK, Progress
<1>3. refused # Recipient /\ raised = None /\ cause = None
      /\ \A p \in Recipient : attempts \notin taken[p]
  BY <1>1 DEF DialogueInv, ThisAttempt, Middle
<1>4. CASE ~ UNCHANGED taken
  <2>1. taken' = [p \in Recipient |-> IF p \in refused THEN taken[p] ELSE taken[p] \cup {attempts}]
    BY <1>4 DEF Text
  <2>2. \/ stage' = "quit" /\ UNCHANGED <<open, raised, cause, upset>>
        \/ /\ stage' = "quit" /\ raised' = "SMTPException" /\ cause' = "SMTPException"
           /\ open' = FALSE /\ upset' = upset \cup {attempts}
    BY <1>4 DEF Text, Consent, Disconnected, Raises
  <2>3. TypeOK'
    BY <1>1, <1>2, <2>1, <2>2 DEF DialogueInv, TypeOK, Stage, Exception
  <2>4. Progress'
    BY <1>1, <2>2 DEF DialogueInv, Progress
  <2>5. \A p \in Recipient : attempts \in taken'[p] <=> p \notin refused
    BY <1>3, <2>1
  <2>6. ThisAttempt'
    BY <1>1, <1>3, <2>2, <2>5, SmtpAssumption DEF ThisAttempt, Early, Middle, Late
  <2>7. \A p \in Recipient : \A m \in taken'[p] : m \in taken[p] \/ m = attempts
    BY <2>1
  <2>8. Attempts'
    BY <1>1, <1>2, <2>2, <2>7 DEF DialogueInv, Attempts
  <2> QED
    BY <1>1, <2>3, <2>4, <2>6, <2>8 DEF DialogueInv, DeliveredToTheOthers
<1>5. CASE UNCHANGED taken
  <2>1. stage' = "quit"
    BY DEF Text, Consent, Disconnected, Refuses, Raises
  <2>2. CASE UNCHANGED upset /\ raised' = "SMTPException" /\ cause' = raised' /\ open' \in BOOLEAN
    BY <1>1, <1>3, <1>5, <2>1, <2>2, CommandStep
       DEF DialogueInv, TypeOK, Early, Middle, Late, Exception
  <2>3. CASE ~(UNCHANGED upset /\ raised' = "SMTPException" /\ cause' = raised' /\ open' \in BOOLEAN)
    <3>1. taken' = [p \in Recipient |-> IF p \in refused THEN taken[p] ELSE taken[p] \cup {attempts}]
      BY <2>3 DEF Text, Refuses, Disconnected, Raises
    <3>2. PICK p \in Recipient : p \notin refused
      BY <1>3 DEF DialogueInv, TypeOK
    <3>3. attempts \in taken'[p]
      BY <3>1, <3>2
    <3> QED
      BY <1>3, <1>5, <3>3
  <2> QED
    BY <2>2, <2>3
<1> QED
  BY <1>4, <1>5

\* QUIT: an improper answer hides what was raised and upsets the attempt.
LEMMA QuitStep == DialogueInv /\ Quit => DialogueInv'
<1> SUFFICES ASSUME DialogueInv, Quit
             PROVE  DialogueInv'
  OBVIOUS
<1>1. stage = "quit" /\ stage' = "ended" /\ job = "processing" /\ open' = FALSE
      /\ UNCHANGED <<snapshot, job, attempts, cause, refused, taken>>
  BY DEF Quit, At, DialogueInv, Progress
<1>2. attempts \in 1 .. MaxAttempts
  BY <1>1, SmtpAssumption DEF DialogueInv, TypeOK, Progress
<1>3. \/ UNCHANGED <<raised, upset>>
      \/ raised' = "SMTPException" /\ upset' = upset \cup {attempts}
  BY DEF Quit
<1>4. TypeOK'
  BY <1>1, <1>2, <1>3 DEF DialogueInv, TypeOK, Stage, Exception
<1>5. Progress'
  BY <1>1 DEF DialogueInv, Progress
<1>6. ThisAttempt'
  BY <1>1, <1>3, SmtpAssumption DEF DialogueInv, ThisAttempt, Early, Middle, Late
<1>7. Attempts' /\ DeliveredToTheOthers'
  BY <1>1, <1>3 DEF DialogueInv, Attempts, DeliveredToTheOthers
<1> QED
  BY <1>4, <1>5, <1>6, <1>7 DEF DialogueInv

\* The invariant of the dialogue.
THEOREM DialogueInvariance == Spec => []DialogueInv
<1>1. DialogueInv /\ [Next]_vars => DialogueInv'
  <2> SUFFICES ASSUME DialogueInv, [Next]_vars
               PROVE  DialogueInv'
    OBVIOUS
  <2>1. CASE Next
    BY <2>1, JobStep, CommandsStep, TextStep, QuitStep DEF Next
  <2>2. CASE UNCHANGED vars
    BY <2>2 DEF vars, DialogueInv, TypeOK, Progress, ThisAttempt, Attempts, DeliveredToTheOthers
  <2> QED
    BY <2>1, <2>2
<1> QED
  BY <1>1, InitDialogue, PTL DEF Spec

\* Every variable of the dialogue keeps its type.
THEOREM DialogueTypeCorrect == Spec => []TypeOK
BY DialogueInvariance, PTL DEF DialogueInv

\* A delivered job reached exactly the recipients that were not refused (email.py:42).
THEOREM DeliveryReachesTheOthers == Spec => []DeliveredToTheOthers
BY DialogueInvariance, PTL DEF DialogueInv

\* Nobody gets the message again but after an upset attempt (email.py:45).
THEOREM RepetitionsNeedUpsets == Spec => []RepeatedOnlyWhenUpset
<1>1. DialogueInv => RepeatedOnlyWhenUpset
  <2> SUFFICES ASSUME DialogueInv,
                      NEW p \in Recipient, NEW m \in taken[p], NEW n \in taken[p], m < n
               PROVE  m \in upset
    BY DEF RepeatedOnlyWhenUpset
  <2>1. m \in Nat /\ n \in Nat /\ attempts \in Nat
    BY SmtpAssumption DEF DialogueInv, TypeOK
  <2> QED
    BY <2>1 DEF DialogueInv, Attempts
<1> QED
  BY <1>1, DialogueInvariance, PTL

(* A refusal of sender, recipients or login is followed by another attempt only if an
   improper answer to QUIT hid it (email.py:43-46). *)
THEOREM RefusalsStayTerminal == Spec => RefusalsAreTerminal
<1> DEFINE A == job = "processing" /\ job' = "queued" =>
                  /\ raised # None
                  /\ cause \in {"RecipientsRefused", "SenderRefused", "AuthenticationError"} =>
                       attempts \in upset
<1>1. DialogueInv /\ [Next]_vars => [A]_vars
  <2> SUFFICES ASSUME DialogueInv, Next, job = "processing", job' = "queued"
               PROVE  A
    BY DEF vars
  <2>1. Settle
    BY DEF Next, Enqueue, Claim, Message, Connect, StartTls, Login, MailFrom, RcptTo, Data,
       Text, Quit, At
  <2>2. raised # None /\ Retryable(raised)
    BY <2>1 DEF Settle, Delivered
  <2>3. raised = cause \/ attempts \in upset
    BY <2>1 DEF Settle, DialogueInv, ThisAttempt
  <2> QED
    BY <2>2, <2>3 DEF Retryable
<1> QED
  BY <1>1, DialogueInvariance, PTL DEF Spec, RefusalsAreTerminal
-----------------------------------------------------------------------------
(* The refinement. *)

Everybody == UNION {taken[p] : p \in Recipient}

\* What leaves job, attempts and deliveries alone is invisible to the ledger.
LEMMA LedgerUnchanged ==
  UNCHANGED <<job, attempts, taken>> => UNCHANGED <<Phase, Epoch, Mailed>>
BY DEF Phase, Epoch, Mailed

\* The message is taken: the ledger mails the current epoch.
LEMMA LedgerText == DialogueInv /\ Text => Ledger!Next \/ UNCHANGED <<Phase, Epoch, Mailed>>
<1> SUFFICES ASSUME DialogueInv, Text, ~ UNCHANGED taken
             PROVE  Ledger!Next
  BY LedgerUnchanged DEF Text, At
<1>1. stage = "text" /\ job = "processing" /\ UNCHANGED <<job, attempts>>
  BY DEF Text, At, DialogueInv, Progress
<1>2. attempts \in 1 .. MaxAttempts
  BY <1>1, SmtpAssumption DEF DialogueInv, TypeOK, Progress
<1>3. taken' = [p \in Recipient |-> IF p \in refused THEN taken[p] ELSE taken[p] \cup {attempts}]
  BY DEF Text
<1>4. PICK q \in Recipient : q \notin refused
  BY <1>1 DEF DialogueInv, TypeOK, ThisAttempt, Middle
<1>5. attempts \notin Everybody
  BY <1>1 DEF DialogueInv, ThisAttempt, Middle, Everybody
<1>6. Everybody' = Everybody \cup {attempts}
  <2>1. \A p \in Recipient : taken'[p] \subseteq taken[p] \cup {attempts} /\ taken[p] \subseteq taken'[p]
    BY <1>3
  <2>2. attempts \in taken'[q]
    BY <1>3, <1>4
  <2> QED
    BY <1>1, <2>1, <2>2 DEF Everybody
<1>7. Mailed' = [Mailed EXCEPT ![Id] = @ \cup {attempts}]
  BY <1>6 DEF Mailed, Everybody
<1>8. attempts \in (1 .. Epoch[Id]) \ Mailed[Id]
  BY <1>2, <1>5 DEF Epoch, Mailed, Everybody
<1>9. Phase' = Phase /\ Epoch' = Epoch
  BY <1>1 DEF Phase, Epoch
<1> QED
  BY <1>7, <1>8, <1>9 DEF Ledger!Next, Ledger!Mail

\* Acceptance, claim and end of an attempt are those of the ledger.
LEMMA LedgerJob == DialogueInv /\ (Enqueue \/ Claim \/ Settle) => Ledger!Next
<1> SUFFICES ASSUME DialogueInv, Enqueue \/ Claim \/ Settle
             PROVE  Ledger!Next
  OBVIOUS
<1>1. CASE Enqueue
  <2>1. Phase[Id] = "absent" /\ Phase' = [Phase EXCEPT ![Id] = "waiting"] /\ Epoch' = Epoch
        /\ Mailed' = Mailed
    BY <1>1 DEF Enqueue, Phase, Epoch, Mailed
  <2> QED
    BY <2>1 DEF Ledger!Next, Ledger!Accept, Ledger!Move
<1>2. CASE Claim
  <2>1. Phase[Id] = "waiting" /\ Phase' = [Phase EXCEPT ![Id] = "held"]
        /\ Epoch' = [Epoch EXCEPT ![Id] = @ + 1] /\ Mailed' = Mailed
    BY <1>2 DEF Claim, Phase, Epoch, Mailed
  <2> QED
    BY <2>1 DEF Ledger!Next, Ledger!Claim, Ledger!Move
<1>3. CASE Settle
  <2>1. job = "processing" /\ UNCHANGED <<attempts, taken>>
    BY <1>3 DEF Settle, DialogueInv, Progress
  <2>2. Phase[Id] = "held" /\ Epoch' = Epoch /\ Mailed' = Mailed /\ Epoch[Id] = attempts
    BY <2>1 DEF Phase, Epoch, Mailed
  <2>3. CASE raised = None
    <3>1. PICK q \in Recipient : q \notin refused
      BY <1>3, <2>3 DEF Settle, DialogueInv, TypeOK, ThisAttempt, Late
    <3>2. attempts \in Mailed[Id]
      BY <1>3, <2>3, <3>1 DEF Settle, DialogueInv, ThisAttempt, Late, Mailed
    <3>3. Phase' = [Phase EXCEPT ![Id] = "delivered"]
      BY <1>3, <2>3 DEF Settle, Delivered, Phase
    <3> QED
      BY <2>2, <3>2, <3>3 DEF Ledger!Next, Ledger!Deliver, Ledger!Move
  <2>4. CASE raised # None /\ Retryable(raised) /\ MayRetry(attempts)
    <3>1. Phase' = [Phase EXCEPT ![Id] = "waiting"] /\ attempts < MaxAttempts
      BY <1>3, <2>4 DEF Settle, Delivered, MayRetry, Phase
    <3> QED
      BY <2>2, <3>1 DEF Ledger!Next, Ledger!Release, Ledger!Move
  <2>5. CASE raised # None /\ ~(Retryable(raised) /\ MayRetry(attempts))
    <3>1. Phase' = [Phase EXCEPT ![Id] = "failed"]
      BY <1>3, <2>5 DEF Settle, Delivered, Phase
    <3> QED
      BY <2>2, <3>1 DEF Ledger!Next, Ledger!GiveUp, Ledger!Move
  <2> QED
    BY <2>3, <2>4, <2>5
<1> QED
  BY <1>1, <1>2, <1>3

(* The dialogue implements the ledger of jobs: the message is taken within the
   attempt, a job is delivered only when it was, and goes back to the queue only
   below the limit (email.py:26, worker.py:123-134). *)
THEOREM DialogueImplementsLedger == Spec => LedgerSpec
<1>1. Init => Ledger!Init
  BY DEF Init, Ledger!Init, Phase, Epoch, Mailed
<1>2. DialogueInv /\ [Next]_vars => [Ledger!Next]_(Ledger!vars)
  <2> SUFFICES ASSUME DialogueInv, [Next]_vars
               PROVE  Ledger!Next \/ UNCHANGED <<Phase, Epoch, Mailed>>
    BY DEF Ledger!vars
  <2>1. CASE Enqueue \/ Claim \/ Settle
    BY <2>1, LedgerJob
  <2>2. CASE Text
    BY <2>2, LedgerText
  <2>3. CASE Message \/ Connect \/ StartTls \/ Login \/ MailFrom \/ RcptTo \/ Data \/ Quit
             \/ UNCHANGED vars
    <3>1. UNCHANGED <<job, attempts, taken>>
      BY <2>3 DEF Message, Connect, StartTls, Login, MailFrom, RcptTo, Data, Quit, At, vars
    <3> QED
      BY <3>1, LedgerUnchanged
  <2> QED
    BY <2>1, <2>2, <2>3 DEF Next
<1> QED
  BY <1>1, <1>2, DialogueInvariance, PTL DEF Spec, LedgerSpec, Ledger!Spec
=============================================================================
