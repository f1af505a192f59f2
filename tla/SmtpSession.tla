------------------------------ MODULE SmtpSession ------------------------------
(* The SMTP dialogue of a delivery job, attempt after attempt: email.py as
   smtplib carries it out (external), and what the worker makes of the end of an
   attempt (worker.py:113-134).  The queue is reduced to its own worker; leases
   and crashes are in DeliveryQueue.

   One action is one command and its reply, RCPT commands together.  The reply
   consents or refuses, with 421 the server closes the connection, or none comes.
   Whatever propagates as an exception, the context manager says QUIT if the
   connection is still open: a reply other than 221 raises in its turn and takes
   the place of the exception; no reply does not.

   Options of the snapshot that select commands are kept.  Left out are the
   texts, and the difference between temporary and permanent refusals, which the
   code does not look at. *)
EXTENDS Integers

CONSTANTS
  Recipient,     \* recipients of the snapshot
  MaxAttempts,
  Id,            \* the job
  None

ASSUME SmtpAssumption == /\ Recipient # {}
                         /\ MaxAttempts \in Nat \ {0}
                         /\ None \notin {"RecipientsRefused", "SenderRefused", "AuthenticationError",
                                        "SMTPException", "OSError", "ValueError"}

VARIABLES
  snapshot,   \* what of the delivery snapshot selects commands
  job,        \* status of the job
  attempts,   \* its attempts
  stage,      \* the next step of the dialogue
  open,       \* the connection is open
  refused,    \* senderrs of smtplib: recipients refused in this attempt
  raised,     \* the exception that propagates
  cause,      \* history: what raised before QUIT was said
  taken,      \* history: taken[p] are the attempts in which the server took p's message
  upset       \* history: attempts whose message or QUIT got no proper reply

vars == <<snapshot, job, attempts, stage, open, refused, raised, cause, taken, upset>>
-----------------------------------------------------------------------------
Snapshot == [security : {"none", "starttls", "ssl"}, smtp_username : BOOLEAN,
             smtp_password : BOOLEAN]

Stage == {"idle", "message", "connect", "starttls", "login", "mail", "rcpt", "data",
          "text", "quit", "ended"}

\* What email.py tells apart; ValueError stands for what it does not catch.
Exception == {"RecipientsRefused", "SenderRefused", "AuthenticationError",
              "SMTPException", "OSError", "ValueError"}

TypeOK == /\ snapshot \in Snapshot
          /\ job \in {"absent", "queued", "processing", "delivered", "failed"}
          /\ attempts \in 0 .. MaxAttempts
          /\ stage \in Stage
          /\ open \in BOOLEAN
          /\ refused \subseteq Recipient
          /\ {raised, cause} \subseteq Exception \cup {None}
          /\ taken \in [Recipient -> SUBSET (1 .. MaxAttempts)]
          /\ upset \subseteq 1 .. MaxAttempts

Init == /\ snapshot \in Snapshot
        /\ job = "absent"
        /\ attempts = 0
        /\ stage = "idle"
        /\ open = FALSE
        /\ refused = {}
        /\ raised = None
        /\ cause = None
        /\ taken = [p \in Recipient |-> {}]
        /\ upset = {}
-----------------------------------------------------------------------------
(* A step of the dialogue: consent leads to the next stage, anything else to the
   end of the with statement. *)
At(s) == stage = s /\ UNCHANGED <<snapshot, job, attempts>>

Consent(next) == /\ stage' = next
                 /\ UNCHANGED <<open, raised, cause>>

Raises(exception, connected) == /\ stage' = "quit"
                                /\ raised' = exception
                                /\ cause' = exception
                                /\ open' = connected

\* No reply, within the timeout or because the connection is reset.
Disconnected == Raises("SMTPException", FALSE)

\* The reply to a command that is not 421 leaves the connection open.
Refuses(exception) == \E connected \in BOOLEAN : Raises(exception, connected)

\* submit_form accepts a submission.
Enqueue == /\ job = "absent"
           /\ job' = "queued"
           /\ UNCHANGED <<snapshot, attempts, stage, open, refused, raised, cause, taken, upset>>

\* claim_job: the next attempt begins.
Claim == /\ job = "queued"
         /\ job' = "processing"
         /\ attempts' = attempts + 1
         /\ stage' = "message"
         /\ refused' = {}
         /\ raised' = None
         /\ cause' = None
         /\ UNCHANGED <<snapshot, open, taken, upset>>

\* The message is put together outside the try; a header may be unacceptable.
Message == /\ At("message")
           /\ \/ Consent("connect")
              \/ /\ stage' = "ended" /\ raised' = "ValueError" /\ cause' = "ValueError"
                 /\ UNCHANGED open
           /\ UNCHANGED <<refused, taken, upset>>

AfterLogin == "mail"
AfterTls == IF snapshot.smtp_username /\ snapshot.smtp_password THEN "login" ELSE AfterLogin
AfterConnect == IF snapshot.security = "starttls" THEN "starttls" ELSE AfterTls

\* A constructor that raises leaves nothing for the with statement to close.
Connect == /\ At("connect")
           /\ \/ stage' = AfterConnect /\ open' = TRUE /\ UNCHANGED <<raised, cause>>
              \/ \E exception \in {"OSError", "SMTPException"} :
                   /\ stage' = "ended" /\ raised' = exception /\ cause' = exception
                   /\ UNCHANGED open
           /\ UNCHANGED <<refused, taken, upset>>

StartTls == /\ At("starttls")
            /\ \/ Consent(AfterTls)
               \/ Refuses("SMTPException") \/ Refuses("OSError")
               \/ Disconnected
            /\ UNCHANGED <<refused, taken, upset>>

Login == /\ At("login")
         /\ \/ Consent(AfterLogin)
            \/ Refuses("AuthenticationError")
            \/ Refuses("SMTPException")      \* the server offers no AUTH
            \/ Disconnected
         /\ UNCHANGED <<refused, taken, upset>>

MailFrom == /\ At("mail")
            /\ \/ Consent("rcpt")
               \/ Refuses("SenderRefused")
               \/ Refuses("SMTPException")      \* EHLO refused, or no SMTPUTF8
               \/ Disconnected
            /\ UNCHANGED <<refused, taken, upset>>

\* sendmail gives up when all recipients are refused.
AllRefused(rejected) == rejected = Recipient

\* 421 to one of the recipients ends the commands, whatever became of the others.
RcptTo == /\ At("rcpt")
          /\ \E rejected \in SUBSET Recipient :
               /\ refused' = rejected
               /\ \/ ~AllRefused(rejected) /\ Consent("data")
                  \/ AllRefused(rejected) /\ Raises("RecipientsRefused", TRUE)
                  \/ rejected # {} /\ Raises("RecipientsRefused", FALSE)
                  \/ Disconnected
          /\ UNCHANGED <<taken, upset>>

Data == /\ At("data")
        /\ \/ Consent("text") \/ Refuses("SMTPException") \/ Disconnected
        /\ UNCHANGED <<refused, taken, upset>>

\* The message is sent; the server may take it whether or not its reply arrives.
Text == /\ At("text")
        /\ \/ /\ taken' = [p \in Recipient |->
                             IF p \in refused THEN taken[p] ELSE taken[p] \cup {attempts}]
              /\ \/ Consent("quit") /\ UNCHANGED upset
                 \/ Disconnected /\ upset' = upset \cup {attempts}
           \/ /\ Refuses("SMTPException") \/ Disconnected
              /\ UNCHANGED <<taken, upset>>
        /\ UNCHANGED refused

(* The context manager's QUIT.  An open connection may get a reply other than 221. *)
Quit == /\ At("quit")
        /\ stage' = "ended"
        /\ open' = FALSE
        /\ \/ UNCHANGED <<raised, upset>>
           \/ /\ open
              /\ raised' = "SMTPException"
              /\ upset' = upset \cup {attempts}
        /\ UNCHANGED <<cause, refused, taken>>

\* Wrong variant: a message that some recipients are refused is sent again.
ReachedAll == raised = None /\ refused = {}

\* Wrong variant: what broke off after RCPT counts as sent.
SentToSome == raised \in {None, "SMTPException"}

\* delivery_error is None.
Delivered == raised = None

\* Wrong variant: refused recipients may be accepted another time.
RetryableRecipients(exception) == exception \notin {"SenderRefused", "AuthenticationError"}

\* Anything but PermanentEmailError may be tried again, also what is not caught.
Retryable(exception) ==
  exception \notin {"RecipientsRefused", "SenderRefused", "AuthenticationError"}

\* Wrong variant: the attempt that is made counts as one left.
OneMoreRetry(n) == n <= MaxAttempts

MayRetry(n) == n < MaxAttempts

\* complete_job or fail_job
Settle == /\ stage = "ended"
          /\ stage' = "idle"
          /\ job' = IF Delivered THEN "delivered"
                    ELSE IF Retryable(raised) /\ MayRetry(attempts) THEN "queued"
                    ELSE "failed"
          /\ UNCHANGED <<snapshot, attempts, open, refused, raised, cause, taken, upset>>

Next == \/ Enqueue \/ Claim \/ Message \/ Connect \/ StartTls \/ Login \/ MailFrom
        \/ RcptTo \/ Data \/ Text \/ Quit \/ Settle

Spec == Init /\ [][Next]_vars
-----------------------------------------------------------------------------
(* A delivered job reached somebody, and everybody whom the server did not refuse
   in the attempt that counts, in that attempt; the refused ones are forgotten
   (email.py:42). *)
DeliveredToTheOthers ==
  job = "delivered" =>
    /\ refused # Recipient
    /\ \A p \in Recipient : attempts \in taken[p] <=> p \notin refused

(* A recipient gets a message again only after an attempt whose message or whose
   QUIT was left without a proper reply (email.py:37, 45); what the
   server refused of the attempt is no reason to send it again. *)
RepeatedOnlyWhenUpset ==
  \A p \in Recipient : \A m, n \in taken[p] : m < n => m \in upset

(* README.md:188: temporary errors are retried; authentication, sender and
   recipient failures are terminal.  Another attempt follows such a failure only
   if an improper answer to QUIT hid it (email.py:43-46), and none after a
   dialogue without any. *)
RefusalsAreTerminal ==
  [][job = "processing" /\ job' = "queued" =>
       /\ raised # None
       /\ cause \in {"RecipientsRefused", "SenderRefused", "AuthenticationError"} =>
            attempts \in upset]_vars

\* The abstract ledger's view of the job.
Phase == [j \in {Id} |-> CASE job = "queued" -> "waiting"
                           [] job = "processing" -> "held"
                           [] OTHER -> job]
Epoch == [j \in {Id} |-> attempts]
Mailed == [j \in {Id} |-> UNION {taken[p] : p \in Recipient}]

Ledger == INSTANCE JobLedger WITH Job <- {Id}, phase <- Phase, epoch <- Epoch, mailed <- Mailed

(* The dialogue keeps what the abstract ledger promises of a job: it is delivered
   only if the server took the message in the last attempt, and goes back to the
   queue only with attempts left (email.py:26, worker.py:123-134). *)
LedgerSpec == Ledger!Spec
=============================================================================
