---------------------------- MODULE SubmissionAPI ----------------------------
(* POST /api/v1/forms/{slug} (app/api/forms.py), from the endpoint lookup to the
   accepted snapshot, while administrators edit the endpoint.

   Atomicity.  submit_form is one coroutine with two awaits, the body and the CAP
   service; other requests of the process run there, requests of the other
   server process at any statement.  One action goes from one read of a row
   that may have changed to the next.  The endpoint object is read by the lookup
   and, since the rate limiter commits, which expires it, once more after the
   limiter; from then on the handler uses the values it has.

   What clients send, the rate limiter's answer and the CAP service's are
   choices of the environment.

   History.  past[e] is the sequence of committed configurations of endpoint e;
   began says where in it a request started. *)
EXTENDS EndpointConfig, Sequences

CONSTANT Request    \* requests that are handled at the same time

VARIABLES
  req,    \* req[r]: request r
  past    \* history

vars == <<configVars, req, past>>
-----------------------------------------------------------------------------
Version == [row : EndpointRow, recipients : SUBSET Recipient]

(* pc of a request:
     idle      no request yet, or an answered one that makes room
     limit     about to call check_rate_limit
     body      parse_submission_payload reads the stream
     cap       verify_cap_token waits for the CAP service
     compose   about to read the recipients
     commit    the snapshot is made, job and log not committed
     done      answered *)
RequestState == [pc : {"idle", "limit", "body", "cap", "compose", "commit", "done"},
                 ep : Endpoint \cup {None},
                 began : Nat,
                 cfg : EndpointRow \cup {None},    \* the endpoint as the session has it
                 verified : BOOLEAN,               \* cap_verified
                 got : SUBSET Recipient,           \* recipients of the snapshot
                 status : {0, 202, 400, 403, 404, 429, 500, 503},
                 logged : {"none", "failure", "success"}]

NoRequest == [pc |-> "idle", ep |-> None, began |-> 0, cfg |-> None, verified |-> FALSE,
              got |-> {}, status |-> 0, logged |-> "none"]

TypeOK == /\ ConfigTypeOK
          /\ req \in [Request -> RequestState]
          /\ past \in [Endpoint -> Seq(Version)]

Init == /\ ConfigInit
        /\ req = [r \in Request |-> NoRequest]
        /\ past = [e \in Endpoint |-> <<>>]
-----------------------------------------------------------------------------
Goes(r, state) == req' = [req EXCEPT ![r] = state]
Answers(r, status, logged) ==
  Goes(r, [req[r] EXCEPT !.pc = "done", !.status = status, !.logged = logged])

\* Wrong variant: the configuration is looked up once and kept.
FirstRow(e) == past[e][1].row

\* The endpoint row as a query or a reload finds it.
CurrentRow(e) == endpoint[e]

Entered(e) == [NoRequest EXCEPT !.ep = e, !.began = Len(past[e]), !.cfg = CurrentRow(e)]

Served(s) == {e \in Endpoint : /\ endpoint[e] # None
                               /\ endpoint[e].slug = s
                               /\ ~CurrentRow(e).deleted}

(* Lookup by slug, is_active and the origin check. *)
Lookup(r) ==
  /\ req[r].pc \in {"idle", "done"}
  /\ \E s \in Slug :
       \/ /\ Served(s) = {}
          /\ Goes(r, [NoRequest EXCEPT !.pc = "done", !.status = 404])
       \/ \E e \in Served(s) :
            LET row == CurrentRow(e) IN
            \/ /\ ~row.active
               /\ Goes(r, [Entered(e) EXCEPT !.pc = "done", !.status = 403])
            \/ /\ row.active       \* the origin is refused
               /\ Goes(r, [Entered(e) EXCEPT !.pc = "done", !.status = 403, !.logged = "failure"])
            \/ /\ row.active
               /\ Goes(r, [Entered(e) EXCEPT !.pc = IF row.limited THEN "limit" ELSE "body"])
  /\ UNCHANGED <<configVars, past>>

(* check_rate_limit commits; the row is read again for what follows. *)
Limit(r) ==
  /\ req[r].pc = "limit"
  /\ \/ Answers(r, 429, "failure")
     \/ Goes(r, [req[r] EXCEPT !.pc = "body", !.cfg = CurrentRow(req[r].ep)])
  /\ UNCHANGED <<configVars, past>>

(* parse_submission_payload returns, or refuses the body: 400, 413 or 415. *)
Body(r) ==
  /\ req[r].pc = "body"
  /\ \/ Answers(r, 400, "failure")
     \/ Goes(r, [req[r] EXCEPT !.pc = IF req[r].cfg.cap THEN "cap" ELSE "compose"])
  /\ UNCHANGED <<configVars, past>>

(* What verify_cap_token can return for a configuration, or raise: transport
   errors other than timeouts and network errors are not caught, and an empty
   URL is such an error. *)
CapResult(cfg) ==
  IF ~cfg.secret THEN {"invalid_config"}
  ELSE {"rejected", "raises"} \cup
       (IF cfg.url THEN {"success", "unavailable", "malformed_response"} ELSE {})

\* Wrong variant: a service that cannot answer is no reason to refuse.
FailsOpen(result) == result \in {"success", "unavailable"}

\* CAPResult.verified
Verified(result) == result = "success"

Cap(r) ==
  /\ req[r].pc = "cap"
  /\ \E result \in CapResult(req[r].cfg) :
       \/ /\ Verified(result)
          /\ Goes(r, [req[r] EXCEPT !.pc = "compose", !.verified = (result = "success")])
       \/ result = "rejected" /\ Answers(r, 403, "failure")
       \/ result = "raises" /\ Answers(r, 500, "none")
       \/ /\ ~Verified(result)
          /\ result \notin {"rejected", "raises"}
          /\ Answers(r, 503, "failure")
  /\ UNCHANGED <<configVars, past>>

\* DeliverySnapshot.validate_recipients, on addresses that were validated before.
DistinctRecipients(rows) == \A p, q \in rows : p[2] = q[2] => p = q

(* The recipients are read and the snapshot is built; the Reply-To field of
   the form may be invalid.  A snapshot that does not validate is answered like
   a database failure, without a log row. *)
Compose(r) ==
  LET rows == recipients[req[r].ep] IN
  /\ req[r].pc = "compose"
  /\ \/ rows = {} /\ Answers(r, 503, "failure")
     \/ rows # {} /\ Answers(r, 400, "failure")
     \/ /\ rows # {}
        /\ DistinctRecipients(rows)
        /\ Goes(r, [req[r] EXCEPT !.pc = "commit", !.got = rows])
     \/ /\ rows # {}
        /\ ~DistinctRecipients(rows)
        /\ Answers(r, 503, "none")
  /\ UNCHANGED <<configVars, past>>

(* Job and log row are inserted in one transaction, or neither. *)
Commit(r) ==
  /\ req[r].pc = "commit"
  /\ \/ Answers(r, 202, "success")
     \/ Answers(r, 503, "none")
  /\ UNCHANGED <<configVars, past>>

Handle(r) == Lookup(r) \/ Limit(r) \/ Body(r) \/ Cap(r) \/ Compose(r) \/ Commit(r)

\* The history grows by every committed change.
Remember ==
  past' = [e \in Endpoint |->
             IF endpoint'[e] = endpoint[e] /\ recipients'[e] = recipients[e] THEN past[e]
             ELSE Append(past[e], [row |-> endpoint'[e], recipients |-> recipients'[e]])]

Manage(a) == EditStep(a) /\ Remember /\ UNCHANGED req

Next == \/ \E a \in Editor : Manage(a)
        \/ \E r \in Request : Handle(r)

Spec == Init /\ [][Next]_vars
-----------------------------------------------------------------------------
Accepted(r) == req[r].pc = "done" /\ req[r].status = 202

\* The configurations request r has seen committed, its first one included.
Since(r) == req[r].began .. Len(past[req[r].ep])

(* An accepted snapshot is made of what was configured while the request was
   handled: the endpoint's columns at one time, its recipients at the same time
   or later, of an endpoint that was enabled and not deleted at the start
   (README.md:184, without the word "exactly"). *)
SnapshotWasConfigured ==
  \A r \in Request : Accepted(r) =>
    LET versions == past[req[r].ep] IN
    /\ versions[req[r].began].row.active /\ ~versions[req[r].began].row.deleted
    /\ \E i, k \in Since(r) : /\ i <= k
                              /\ req[r].cfg = versions[i].row
                              /\ req[r].got = versions[k].recipients

(* README.md:184: an accepted delivery uses exactly the configuration that was
   valid at acceptance time.  Columns and recipients of a snapshot belong to
   one committed configuration. *)
SnapshotIsOneConfiguration ==
  \A r \in Request : Accepted(r) =>
    \E i \in Since(r) : /\ req[r].cfg = past[req[r].ep][i].row
                        /\ req[r].got = past[req[r].ep][i].recipients

(* An endpoint that requires CAP all the time a request is handled accepts it
   only after the CAP service said success, edits of its URL or secret
   notwithstanding (forms.py:106-115). *)
CapEnforced ==
  \A r \in Request :
    Accepted(r) /\ (\A i \in Since(r) : past[req[r].ep][i].row.cap) => req[r].verified
=============================================================================
