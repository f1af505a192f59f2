--------------------------- MODULE SubmissionProofs ---------------------------
(* What a submission is accepted with, for any number of requests and of
   concurrent edits.  The handler's reads are spread over its awaits; each of
   them finds the last committed configuration, and configurations are only ever
   added to the history.  RequestOK says at each place of the handler which
   reads have been made and what they can have found. *)
EXTENDS SubmissionAPI, EndpointConfigProofs

-----------------------------------------------------------------------------
(* The inductive invariant. *)

\* The places from which a request may be accepted, and the later ones of them.
Going(s) == \/ s.pc \in {"limit", "body", "cap", "compose", "commit"}
            \/ s.pc = "done" /\ s.status = 202

Checked(s) == \/ s.pc \in {"compose", "commit"}
              \/ s.pc = "done" /\ s.status = 202

Composed(s) == \/ s.pc = "commit"
               \/ s.pc = "done" /\ s.status = 202

\* The request began at an enabled configuration and has the columns of one since.
Began(s, h) ==
  /\ s.began \in 1..Len(h)
  /\ h[s.began].row.active
  /\ ~h[s.began].row.deleted
  /\ \E i \in s.began..Len(h) : s.cfg = h[i].row

\* It was verified, or did not have to be at some time since it began.
CapSettled(s, h) == s.verified \/ \E i \in s.began..Len(h) : ~h[i].row.cap

\* Its snapshot is of one time, but for recipients that may be of a later one.
Resolved(s, h) ==
  \E i, k \in s.began..Len(h) : i <= k /\ s.cfg = h[i].row /\ s.got = h[k].recipients

RequestOK(s, h) == /\ Began(s, h)
                   /\ Checked(s) => CapSettled(s, h)
                   /\ Composed(s) => Resolved(s, h)

RequestInv(r) ==
  Going(req[r]) => req[r].ep \in Endpoint /\ RequestOK(req[r], past[req[r].ep])

\* The history of an endpoint ends with its present configuration.
Recorded(h, row, recs) ==
  IF row = None THEN h = <<>>
  ELSE Len(h) >= 1 /\ h[Len(h)].row = row /\ h[Len(h)].recipients = recs

SubmissionInv == /\ ConfigInv
                 /\ req \in [Request -> RequestState]
                 /\ past \in [Endpoint -> Seq(Version)]
                 /\ \A e \in Endpoint : Recorded(past[e], endpoint[e], recipients[e])
                 /\ \A r \in Request : RequestInv(r)

\* g is h, or h with later configurations.
Continues(g, h) == /\ Len(h) <= Len(g)
                   /\ \A i \in 1..Len(h) : g[i] = h[i]
-----------------------------------------------------------------------------
(* Histories. *)

\* What was true of a request stays true when configurations are added.
LEMMA LongerHistory ==
  ASSUME NEW h \in Seq(Version), NEW g \in Seq(Version), Continues(g, h),
         NEW s \in RequestState, RequestOK(s, h)
  PROVE  RequestOK(s, g)
<1>1. /\ Len(h) \in Nat
      /\ Len(g) \in Nat
      /\ s.began \in Nat
  BY DEF RequestState
<1>2. /\ s.began \in 1..Len(h)
      /\ Len(h) <= Len(g)
      /\ \A i \in 1..Len(h) : g[i] = h[i]
  BY DEF RequestOK, Began, Continues
<1>3. \A i \in s.began..Len(h) : i \in s.began..Len(g) /\ g[i] = h[i]
  BY <1>1, <1>2
<1>4. Began(s, g)
  BY <1>1, <1>2, <1>3 DEF RequestOK, Began
<1>5. CapSettled(s, h) => CapSettled(s, g)
  BY <1>3 DEF CapSettled
<1>6. Resolved(s, h) => Resolved(s, g)
  BY <1>3 DEF Resolved
<1> QED
  BY <1>4, <1>5, <1>6 DEF RequestOK

\* One more configuration.
LEMMA OneMore ==
  ASSUME NEW h \in Seq(Version), NEW v \in Version
  PROVE  /\ Append(h, v) \in Seq(Version)
         /\ Len(Append(h, v)) = Len(h) + 1
         /\ Append(h, v)[Len(h) + 1] = v
         /\ Continues(Append(h, v), h)
<1>1. Append(h, v) \in Seq(Version) /\ Len(Append(h, v)) = Len(h) + 1
  OBVIOUS
<1>2. Append(h, v)[Len(h) + 1] = v
  OBVIOUS
<1>3. \A i \in 1..Len(h) : Append(h, v)[i] = h[i]
  OBVIOUS
<1>4. Len(h) <= Len(Append(h, v))
  BY <1>1
<1> QED
  BY <1>1, <1>2, <1>3, <1>4 DEF Continues

\* Recipients are written with a row only.
LEMMA RecipientsHaveRow ==
  ASSUME ConfigInv, NEW a \in Editor, EditStep(a), RowsGrow,
         NEW e \in Endpoint, endpoint'[e] = None
  PROVE  recipients'[e] = recipients[e]
<1>1. /\ endpoint \in [Endpoint -> EndpointRow \cup {None}]
      /\ recipients \in [Endpoint -> SUBSET Recipient]
      /\ EditInv(a)
  BY DEF ConfigInv, ConfigTypeOK
<1>2. endpoint[e] = None
  BY NoValueAssumption DEF RowsGrow
<1>3. CASE CreateCommit(a)
  <2>1. CASE UNCHANGED <<endpoint, recipients>>
    BY <2>1
  <2>2. CASE ~UNCHANGED <<endpoint, recipients>>
    <3>1. PICK d \in Endpoint :
            /\ endpoint' = [endpoint EXCEPT ![d] = NewEndpoint(edit[a].form)]
            /\ recipients' = [recipients EXCEPT ![d] = {a} \X edit[a].form.emails]
      BY <1>3, <2>2 DEF CreateCommit
    <3>2. edit[a].form \in FormType
      BY <1>1, <1>3, FormAssumption DEF CreateCommit, EditInv
    <3>3. endpoint'[d] # None
      BY <1>1, <3>1, <3>2, Created, NoValueAssumption
    <3> QED
      BY <1>1, <3>1, <3>3
  <2> QED
    BY <2>1, <2>2
<1>4. CASE EditCommit(a)
  <2>1. edit[a].ep \in Endpoint /\ endpoint[edit[a].ep] \in EndpointRow
    BY <1>1, <1>4 DEF EditCommit, EditInv
  <2>2. e # edit[a].ep
    BY <1>2, <2>1, NoValueAssumption
  <2> QED
    BY <1>1, <1>4, <2>2 DEF EditCommit
<1>5. CASE CreateCheck(a) \/ Load(a) \/ EditCheck(a) \/ DeleteRecipients(a)
           \/ RecipientsRemoved(a) \/ DeleteCommit(a)
  BY <1>5 DEF CreateCheck, Load, EditCheck, DeleteRecipients, RecipientsRemoved, DeleteCommit
<1> QED
  BY <1>3, <1>4, <1>5 DEF EditStep

\* A step of a management request adds what it commits, and takes nothing away.
LEMMA HistoryGrows ==
  ASSUME SubmissionInv, NEW a \in Editor, Manage(a), NEW e \in Endpoint
  PROVE  /\ past'[e] \in Seq(Version)
         /\ Continues(past'[e], past[e])
         /\ Recorded(past[e], endpoint[e], recipients[e])'
<1> DEFINE h == past[e]
           v == [row |-> endpoint'[e], recipients |-> recipients'[e]]
<1>1. /\ h \in Seq(Version)
      /\ Recorded(h, endpoint[e], recipients[e])
      /\ ConfigInv
  BY DEF SubmissionInv
<1>2. EditStep(a) /\ Remember
  BY DEF Manage
<1>3. RowsGrow /\ ConfigInv'
  BY <1>1, <1>2, StepKeepsInv DEF ConfigNext
<1>4. /\ endpoint'[e] \in EndpointRow \cup {None}
      /\ recipients'[e] \in SUBSET Recipient
  BY <1>3 DEF ConfigInv, ConfigTypeOK
<1>5. CASE endpoint'[e] = endpoint[e] /\ recipients'[e] = recipients[e]
  <2>1. past'[e] = h
    BY <1>2, <1>5 DEF Remember
  <2>2. Continues(h, h)
    BY <1>1 DEF Continues
  <2> QED
    BY <1>1, <1>5, <2>1, <2>2
<1>6. CASE ~(endpoint'[e] = endpoint[e] /\ recipients'[e] = recipients[e])
  <2>1. past'[e] = Append(h, v)
    BY <1>2, <1>6 DEF Remember
  <2>2. endpoint'[e] # None
    <3>1. ASSUME endpoint'[e] = None PROVE FALSE
      <4>1. recipients'[e] = recipients[e]
        BY <1>1, <1>2, <1>3, <3>1, RecipientsHaveRow
      <4>2. endpoint[e] = None
        BY <1>3, <3>1, NoValueAssumption DEF RowsGrow
      <4> QED
        BY <1>6, <3>1, <4>1, <4>2
    <3> QED
      BY <3>1
  <2>3. v \in Version
    BY <1>4, <2>2 DEF Version
  <2>4. v.row = endpoint'[e] /\ v.recipients = recipients'[e]
    OBVIOUS
  <2>5. Len(h) \in Nat
    BY <1>1
  <2> HIDE DEF h, v
  <2>6. /\ Append(h, v) \in Seq(Version)
        /\ Len(Append(h, v)) = Len(h) + 1
        /\ Append(h, v)[Len(h) + 1] = v
        /\ Continues(Append(h, v), h)
    BY <1>1, <2>3, OneMore
  <2>7. PICK g : g = Append(h, v)
    OBVIOUS
  <2>8. Len(g) >= 1 /\ g[Len(g)] = v
    BY <2>5, <2>6, <2>7
  <2>9. Recorded(g, endpoint'[e], recipients'[e])
    BY <2>2, <2>4, <2>8 DEF Recorded
  <2>10. past'[e] = g
    BY <2>1, <2>7
  <2> QED
    BY <2>6, <2>7, <2>9, <2>10 DEF h
<1> QED
  BY <1>5, <1>6
-----------------------------------------------------------------------------
(* Steps of management requests. *)

\* What submissions have found is history, whatever is edited.
LEMMA ManageStep ==
  ASSUME SubmissionInv, NEW a \in Editor, Manage(a)
  PROVE  SubmissionInv'
<1>1. ConfigInv'
  BY StepKeepsInv DEF SubmissionInv, Manage, ConfigNext
<1>2. req' = req /\ req \in [Request -> RequestState]
  BY DEF SubmissionInv, Manage
<1>3. past' \in [Endpoint -> Seq(Version)]
  <2>1. past' = [e \in Endpoint |-> past'[e]]
    BY DEF Manage, Remember
  <2> QED
    BY <2>1, HistoryGrows
<1>4. ASSUME NEW e \in Endpoint
      PROVE  Recorded(past[e], endpoint[e], recipients[e])'
  BY HistoryGrows
<1>5. ASSUME NEW r \in Request PROVE RequestInv(r)'
  <2>1. PICK s : s = req[r]
    OBVIOUS
  <2>2. s \in RequestState /\ req'[r] = s /\ RequestInv(r)
    BY <1>2, <2>1 DEF SubmissionInv
  <2>3. ASSUME Going(s) PROVE s.ep \in Endpoint /\ RequestOK(s, past'[s.ep])
    <3>1. s.ep \in Endpoint /\ RequestOK(s, past[s.ep])
      BY <2>1, <2>2, <2>3 DEF RequestInv
    <3>2. /\ past[s.ep] \in Seq(Version)
          /\ past'[s.ep] \in Seq(Version)
          /\ Continues(past'[s.ep], past[s.ep])
      BY <3>1, HistoryGrows DEF SubmissionInv
    <3> QED
      BY <2>2, <3>1, <3>2, LongerHistory
  <2> QED
    BY <2>2, <2>3 DEF RequestInv
<1> QED
  BY <1>1, <1>2, <1>3, <1>4, <1>5 DEF SubmissionInv
-----------------------------------------------------------------------------
(* Steps of submissions. *)

\* A submission that acts leaves tables, history and the others alone.
LEMMA StepOfRequest ==
  ASSUME SubmissionInv, NEW r \in Request, NEW state \in RequestState, Goes(r, state),
         UNCHANGED <<configVars, past>>,
         Going(state) => state.ep \in Endpoint /\ RequestOK(state, past[state.ep])
  PROVE  SubmissionInv'
<1>1. req \in [Request -> RequestState] /\ past \in [Endpoint -> Seq(Version)]
  BY DEF SubmissionInv
<1>2. UNCHANGED <<endpoint, recipients, edit>> /\ past' = past
  BY DEF configVars
<1>3. ConfigInv'
  <2>1. [ConfigNext]_configVars
    OBVIOUS
  <2> QED
    BY <2>1, StepKeepsInv DEF SubmissionInv
<1>4. req' \in [Request -> RequestState]
  BY <1>1 DEF Goes
<1>5. ASSUME NEW e \in Endpoint PROVE Recorded(past[e], endpoint[e], recipients[e])'
  BY <1>2 DEF SubmissionInv
<1>6. ASSUME NEW q \in Request PROVE RequestInv(q)'
  <2>1. CASE q = r
    <3>1. req'[q] = state
      BY <1>1, <2>1 DEF Goes
    <3> QED
      BY <1>2, <3>1 DEF RequestInv
  <2>2. CASE q # r
    <3>1. req'[q] = req[q]
      BY <1>1, <2>2 DEF Goes
    <3> QED
      BY <1>2, <3>1 DEF SubmissionInv, RequestInv
  <2> QED
    BY <2>1, <2>2
<1> QED
  BY <1>1, <1>2, <1>3, <1>4, <1>5, <1>6 DEF SubmissionInv

\* The state of a request that is answered.
LEMMA AnswerState ==
  ASSUME NEW r \in Request, req[r] \in RequestState,
         NEW status \in {202, 400, 403, 404, 429, 500, 503},
         NEW logged \in {"none", "failure", "success"}, Answers(r, status, logged)
  PROVE  \E state \in RequestState : /\ Goes(r, state)
                                     /\ state.pc = "done"
                                     /\ state.status = status
                                     /\ state.ep = req[r].ep
                                     /\ state.began = req[r].began
                                     /\ state.cfg = req[r].cfg
                                     /\ state.verified = req[r].verified
                                     /\ state.got = req[r].got
<1>1. PICK s : s = req[r]
  OBVIOUS
<1> DEFINE s1 == [s EXCEPT !.pc = "done"]
           s2 == [s1 EXCEPT !.status = status]
           s3 == [s2 EXCEPT !.logged = logged]
<1>2. /\ s1 \in RequestState
      /\ s1.pc = "done"
      /\ s1.ep = s.ep
      /\ s1.began = s.began
      /\ s1.cfg = s.cfg
      /\ s1.verified = s.verified
      /\ s1.got = s.got
  BY <1>1 DEF RequestState
<1>3. s3 = [s EXCEPT !.pc = "done", !.status = status, !.logged = logged]
  OBVIOUS
<1>4. Goes(r, s3)
  BY <1>1, <1>3 DEF Answers
<1> HIDE DEF s1
<1>5. /\ s2 \in RequestState
      /\ s2.pc = s1.pc
      /\ s2.status = status
      /\ s2.ep = s1.ep
      /\ s2.began = s1.began
      /\ s2.cfg = s1.cfg
      /\ s2.verified = s1.verified
      /\ s2.got = s1.got
  BY <1>2 DEF RequestState
<1> HIDE DEF s2
<1>6. /\ s3 \in RequestState
      /\ s3.pc = s2.pc
      /\ s3.status = s2.status
      /\ s3.ep = s2.ep
      /\ s3.began = s2.began
      /\ s3.cfg = s2.cfg
      /\ s3.verified = s2.verified
      /\ s3.got = s2.got
  BY <1>5 DEF RequestState
<1> HIDE DEF s3
<1> QED
  BY <1>1, <1>2, <1>4, <1>5, <1>6

\* A refusal relies on nothing.
LEMMA Refused ==
  ASSUME SubmissionInv, NEW r \in Request, NEW status \in {400, 403, 404, 429, 500, 503},
         NEW logged \in {"none", "failure", "success"}, Answers(r, status, logged),
         UNCHANGED <<configVars, past>>
  PROVE  SubmissionInv'
<1>1. req[r] \in RequestState
  BY DEF SubmissionInv
<1>2. PICK state \in RequestState :
        Goes(r, state) /\ state.pc = "done" /\ state.status = status
  BY <1>1, AnswerState
<1>3. ~Going(state)
  BY <1>2 DEF Going
<1> QED
  BY <1>2, <1>3, StepOfRequest

\* What the invariant says of a request that is being handled.
LEMMA RequestAt ==
  ASSUME SubmissionInv, NEW r \in Request, Going(req[r])
  PROVE  /\ req[r] \in RequestState
         /\ req[r].ep \in Endpoint
         /\ RequestOK(req[r], past[req[r].ep])
         /\ past[req[r].ep] \in Seq(Version)
BY DEF SubmissionInv, RequestInv

\* A row that is read is the last configuration of the history.
LEMMA ReadsLast ==
  ASSUME SubmissionInv, NEW e \in Endpoint, endpoint[e] # None
  PROVE  /\ past[e] \in Seq(Version)
         /\ Len(past[e]) \in Nat
         /\ Len(past[e]) >= 1
         /\ past[e][Len(past[e])].row = endpoint[e]
         /\ past[e][Len(past[e])].recipients = recipients[e]
         /\ endpoint[e] \in EndpointRow
BY DEF SubmissionInv, Recorded, ConfigInv, ConfigTypeOK

\* The endpoint of a request that is being handled has a row.
LEMMA RowIsThere ==
  ASSUME SubmissionInv, NEW r \in Request, Going(req[r])
  PROVE  endpoint[req[r].ep] # None
<1>1. PICK s : s = req[r]
  OBVIOUS
<1>2. s \in RequestState /\ s.ep \in Endpoint /\ s.began \in 1..Len(past[s.ep])
  BY <1>1, RequestAt DEF RequestOK, Began
<1>3. past[s.ep] # <<>>
  <2>1. ASSUME past[s.ep] = <<>> PROVE FALSE
    <3>1. Len(past[s.ep]) = 0
      BY <2>1
    <3> QED
      BY <1>2, <3>1 DEF RequestState
  <2> QED
    BY <2>1
<1> QED
  BY <1>1, <1>2, <1>3 DEF SubmissionInv, Recorded

\* What a request becomes that finds endpoint e.
Begins(r, e) ==
  LET row == CurrentRow(e) IN
  \/ /\ ~row.active
     /\ Goes(r, [Entered(e) EXCEPT !.pc = "done", !.status = 403])
  \/ /\ row.active
     /\ Goes(r, [Entered(e) EXCEPT !.pc = "done", !.status = 403, !.logged = "failure"])
  \/ /\ row.active
     /\ Goes(r, [Entered(e) EXCEPT !.pc = IF row.limited THEN "limit" ELSE "body"])

\* The state of a request that has read endpoint e.
LEMMA EnteredState ==
  ASSUME NEW e \in Endpoint, Len(past[e]) \in Nat, endpoint[e] \in EndpointRow
  PROVE  /\ Entered(e) \in RequestState
         /\ Entered(e).ep = e
         /\ Entered(e).began = Len(past[e])
         /\ Entered(e).cfg = endpoint[e]
<1> DEFINE n == Len(past[e])
           row == endpoint[e]
           s1 == [NoRequest EXCEPT !.ep = e]
           s2 == [s1 EXCEPT !.began = n]
           s3 == [s2 EXCEPT !.cfg = row]
<1>1. NoRequest \in RequestState
  BY DEF NoRequest, RequestState
<1>2. Entered(e) = s3
  BY DEF Entered, CurrentRow
<1> HIDE DEF n, row
<1>3. s1 \in RequestState /\ s1.ep = e
  BY <1>1 DEF RequestState
<1> HIDE DEF s1
<1>4. n \in Nat /\ row \in EndpointRow
  BY DEF n, row
<1>5. s2 \in RequestState /\ s2.ep = s1.ep /\ s2.began = n
  BY <1>3, <1>4 DEF RequestState
<1> HIDE DEF s2
<1>6. s3 \in RequestState /\ s3.ep = s2.ep /\ s3.began = s2.began /\ s3.cfg = row
  BY <1>4, <1>5 DEF RequestState
<1> HIDE DEF s3
<1> QED
  BY <1>2, <1>3, <1>5, <1>6 DEF n, row

\* A request that is let in has an enabled endpoint, as it is in the history.
LEMMA BeginsStep ==
  ASSUME SubmissionInv, NEW r \in Request, NEW sl \in Slug, NEW e \in Served(sl), Begins(r, e),
         UNCHANGED <<configVars, past>>
  PROVE  SubmissionInv'
<1>1. e \in Endpoint /\ endpoint[e] # None /\ ~endpoint[e].deleted
  BY DEF Served, CurrentRow
<1>2. /\ Len(past[e]) \in Nat
      /\ Len(past[e]) >= 1
      /\ past[e][Len(past[e])].row = endpoint[e]
      /\ endpoint[e] \in EndpointRow
  BY <1>1, ReadsLast
<1>3. PICK s : s = Entered(e)
  OBVIOUS
<1>4. /\ s \in RequestState
      /\ s.ep = e
      /\ s.began = Len(past[e])
      /\ s.cfg = endpoint[e]
  BY <1>1, <1>2, <1>3, EnteredState
<1> DEFINE s1 == [s EXCEPT !.pc = "done"]
           s2 == [s1 EXCEPT !.status = 403]
           s3 == [s2 EXCEPT !.logged = "failure"]
<1>5. CASE Goes(r, s2) \/ Goes(r, s3)
  <2>1. s1 \in RequestState /\ s1.pc = "done"
    BY <1>4 DEF RequestState
  <2> HIDE DEF s1
  <2>2. s2 \in RequestState /\ s2.pc = s1.pc /\ s2.status = 403
    BY <2>1 DEF RequestState
  <2> HIDE DEF s2
  <2>3. s3 \in RequestState /\ s3.pc = s2.pc /\ s3.status = s2.status
    BY <2>2 DEF RequestState
  <2> HIDE DEF s3
  <2>4. ~Going(s2) /\ ~Going(s3)
    BY <2>1, <2>2, <2>3 DEF Going
  <2> QED
    BY <1>5, <2>2, <2>3, <2>4, StepOfRequest
<1>6. ASSUME NEW pc \in {"limit", "body"}, endpoint[e].active, Goes(r, [s EXCEPT !.pc = pc])
      PROVE  SubmissionInv'
  <2> DEFINE state == [s EXCEPT !.pc = pc]
  <2>1. /\ state \in RequestState
        /\ state.pc = pc
        /\ state.ep = e
        /\ state.began = Len(past[e])
        /\ state.cfg = endpoint[e]
    BY <1>4 DEF RequestState
  <2>2. Goes(r, state)
    BY <1>6
  <2> HIDE DEF state
  <2>3. Len(past[e]) \in 1..Len(past[e]) /\ Len(past[e]) \in Len(past[e])..Len(past[e])
    BY <1>2
  <2>4. Began(state, past[e])
    BY <1>1, <1>2, <1>6, <2>1, <2>3 DEF Began
  <2>5. ~Checked(state) /\ ~Composed(state)
    BY <2>1 DEF Checked, Composed
  <2>6. RequestOK(state, past[e])
    BY <2>4, <2>5 DEF RequestOK
  <2> QED
    BY <1>1, <2>1, <2>2, <2>6, StepOfRequest
<1>7. \/ Goes(r, [s EXCEPT !.pc = "done", !.status = 403])
      \/ Goes(r, [s EXCEPT !.pc = "done", !.status = 403, !.logged = "failure"])
      \/ /\ endpoint[e].active
         /\ Goes(r, [s EXCEPT !.pc = IF endpoint[e].limited THEN "limit" ELSE "body"])
  BY Zenon, <1>3 DEF Begins, CurrentRow
<1>8. /\ [s EXCEPT !.pc = "done", !.status = 403] = s2
      /\ [s EXCEPT !.pc = "done", !.status = 403, !.logged = "failure"] = s3
  OBVIOUS
<1>9. CASE /\ endpoint[e].active
           /\ Goes(r, [s EXCEPT !.pc = IF endpoint[e].limited THEN "limit" ELSE "body"])
  <2>1. PICK pc : pc = IF endpoint[e].limited THEN "limit" ELSE "body"
    OBVIOUS
  <2>2. pc \in {"limit", "body"} /\ Goes(r, [s EXCEPT !.pc = pc])
    BY <1>9, <2>1
  <2> QED
    BY <1>6, <1>9, <2>2
<1> HIDE DEF s2, s3
<1> QED
  BY <1>5, <1>7, <1>8, <1>9

\* A request that begins reads an enabled endpoint that is not deleted.
LEMMA LookupStep ==
  ASSUME SubmissionInv, NEW r \in Request, Lookup(r)
  PROVE  SubmissionInv'
<1>1. UNCHANGED <<configVars, past>>
  BY DEF Lookup
<1>2. NoRequest \in RequestState
  BY DEF NoRequest, RequestState
<1>3. PICK sl \in Slug :
        \/ /\ Served(sl) = {}
           /\ Goes(r, [NoRequest EXCEPT !.pc = "done", !.status = 404])
        \/ \E e \in Served(sl) : Begins(r, e)
  BY Zenon DEF Lookup, Begins
<1>4. CASE Goes(r, [NoRequest EXCEPT !.pc = "done", !.status = 404])
  <2> DEFINE s1 == [NoRequest EXCEPT !.pc = "done"]
             state == [s1 EXCEPT !.status = 404]
  <2>1. s1 \in RequestState /\ s1.pc = "done"
    BY <1>2 DEF RequestState
  <2>2. [NoRequest EXCEPT !.pc = "done", !.status = 404] = state
    OBVIOUS
  <2>3. Goes(r, state)
    BY <1>4, <2>2
  <2> HIDE DEF s1
  <2>4. state \in RequestState /\ state.pc = s1.pc /\ state.status = 404
    BY <2>1 DEF RequestState
  <2> HIDE DEF state
  <2> QED
    BY <1>1, <2>1, <2>3, <2>4, StepOfRequest DEF Going
<1>5. ASSUME NEW e \in Served(sl), Begins(r, e)
      PROVE  SubmissionInv'
  BY <1>1, <1>5, BeginsStep
<1> QED
  BY <1>3, <1>4, <1>5

\* After the limiter's commit the endpoint has the columns of a later time.
LEMMA LimitStep ==
  ASSUME SubmissionInv, NEW r \in Request, Limit(r)
  PROVE  SubmissionInv'
<1>1. UNCHANGED <<configVars, past>>
  BY DEF Limit
<1>2. CASE Answers(r, 429, "failure")
  BY <1>1, <1>2, Refused
<1>3. CASE Goes(r, [req[r] EXCEPT !.pc = "body", !.cfg = CurrentRow(req[r].ep)])
  <2>1. PICK s : s = req[r]
    OBVIOUS
  <2>2. s.pc = "limit" /\ Going(s)
    BY <2>1 DEF Limit, Going
  <2>3. /\ s \in RequestState
        /\ s.ep \in Endpoint
        /\ RequestOK(s, past[s.ep])
        /\ endpoint[s.ep] # None
    BY <2>1, <2>2, RequestAt, RowIsThere
  <2>4. PICK h : h = past[s.ep]
    OBVIOUS
  <2>5. /\ Len(h) \in Nat
        /\ Len(h) >= 1
        /\ h[Len(h)].row = endpoint[s.ep]
        /\ endpoint[s.ep] \in EndpointRow
    BY <2>3, <2>4, ReadsLast
  <2>6. PICK row : row = endpoint[s.ep]
    OBVIOUS
  <2> DEFINE s1 == [s EXCEPT !.pc = "body"]
             state == [s1 EXCEPT !.cfg = row]
  <2>7. Goes(r, state)
    <3>1. state = [s EXCEPT !.pc = "body", !.cfg = row]
      OBVIOUS
    <3> QED
      BY <1>3, <2>1, <2>6, <3>1 DEF CurrentRow
  <2>8. s1 \in RequestState /\ s1.pc = "body" /\ s1.ep = s.ep /\ s1.began = s.began
    BY <2>3 DEF RequestState
  <2> HIDE DEF s1
  <2>9. /\ state \in RequestState
        /\ state.pc = s1.pc
        /\ state.ep = s1.ep
        /\ state.began = s1.began
        /\ state.cfg = row
    BY <2>5, <2>6, <2>8 DEF RequestState
  <2> HIDE DEF state
  <2>10. /\ s.began \in 1..Len(h)
         /\ h[s.began].row.active
         /\ ~h[s.began].row.deleted
    BY <2>3, <2>4 DEF RequestOK, Began
  <2>11. Len(h) \in s.began..Len(h)
    BY <2>5, <2>10
  <2>12. Began(state, h)
    BY <2>5, <2>6, <2>8, <2>9, <2>10, <2>11 DEF Began
  <2>13. RequestOK(state, past[state.ep])
    BY <2>4, <2>8, <2>9, <2>12 DEF RequestOK, Checked, Composed
  <2> QED
    BY <1>1, <2>3, <2>7, <2>8, <2>9, <2>13, StepOfRequest
<1> QED
  BY <1>2, <1>3 DEF Limit

\* Who needs no CAP has read a configuration without it.
LEMMA BodyStep ==
  ASSUME SubmissionInv, NEW r \in Request, Body(r)
  PROVE  SubmissionInv'
<1>1. UNCHANGED <<configVars, past>>
  BY DEF Body
<1>2. CASE Answers(r, 400, "failure")
  BY <1>1, <1>2, Refused
<1>3. CASE Goes(r, [req[r] EXCEPT !.pc = IF req[r].cfg.cap THEN "cap" ELSE "compose"])
  <2>1. PICK s : s = req[r]
    OBVIOUS
  <2>2. s.pc = "body" /\ Going(s)
    BY <2>1 DEF Body, Going
  <2>3. s \in RequestState /\ s.ep \in Endpoint /\ RequestOK(s, past[s.ep])
    BY <2>1, <2>2, RequestAt
  <2>4. PICK h : h = past[s.ep]
    OBVIOUS
  <2>5. PICK pc \in {"cap", "compose"} :
          /\ Goes(r, [s EXCEPT !.pc = pc])
          /\ pc = "compose" => ~s.cfg.cap
    BY <1>3, <2>1
  <2> DEFINE state == [s EXCEPT !.pc = pc]
  <2>6. /\ state \in RequestState
        /\ state.pc = pc
        /\ state.ep = s.ep
        /\ state.began = s.began
        /\ state.cfg = s.cfg
    BY <2>3 DEF RequestState
  <2>7. Goes(r, state)
    BY <2>5
  <2> HIDE DEF state
  <2>8. Began(state, h)
    BY <2>3, <2>4, <2>6 DEF RequestOK, Began
  <2>9. Checked(state) => CapSettled(state, h)
    BY <2>5, <2>6, <2>8 DEF Checked, CapSettled, Began
  <2>10. ~Composed(state)
    BY <2>5, <2>6 DEF Composed
  <2>11. RequestOK(state, past[state.ep])
    BY <2>4, <2>6, <2>8, <2>9, <2>10 DEF RequestOK
  <2> QED
    BY <1>1, <2>3, <2>6, <2>7, <2>11, StepOfRequest
<1> QED
  BY <1>2, <1>3 DEF Body

\* Who passes the CAP service is verified.
LEMMA CapStep ==
  ASSUME SubmissionInv, NEW r \in Request, Cap(r)
  PROVE  SubmissionInv'
<1>1. UNCHANGED <<configVars, past>>
  BY DEF Cap
<1>2. \/ Goes(r, [req[r] EXCEPT !.pc = "compose", !.verified = TRUE])
      \/ Answers(r, 403, "failure")
      \/ Answers(r, 500, "none")
      \/ Answers(r, 503, "failure")
  BY DEF Cap, Verified
<1>3. CASE Answers(r, 403, "failure") \/ Answers(r, 500, "none") \/ Answers(r, 503, "failure")
  BY <1>1, <1>3, Refused
<1>4. CASE Goes(r, [req[r] EXCEPT !.pc = "compose", !.verified = TRUE])
  <2>1. PICK s : s = req[r]
    OBVIOUS
  <2>2. s.pc = "cap" /\ Going(s)
    BY <2>1 DEF Cap, Going
  <2>3. s \in RequestState /\ s.ep \in Endpoint /\ RequestOK(s, past[s.ep])
    BY <2>1, <2>2, RequestAt
  <2>4. PICK h : h = past[s.ep]
    OBVIOUS
  <2> DEFINE b == TRUE
             s1 == [s EXCEPT !.pc = "compose"]
             state == [s1 EXCEPT !.verified = b]
  <2>5. b \in BOOLEAN
    OBVIOUS
  <2>6. Goes(r, state)
    <3>1. state = [s EXCEPT !.pc = "compose", !.verified = TRUE]
      OBVIOUS
    <3> QED
      BY <1>4, <2>1, <3>1
  <2> HIDE DEF b
  <2>7. /\ s1 \in RequestState
        /\ s1.pc = "compose"
        /\ s1.ep = s.ep
        /\ s1.began = s.began
        /\ s1.cfg = s.cfg
    BY <2>3 DEF RequestState
  <2> HIDE DEF s1
  <2>8. state \in RequestState
    BY <2>5, <2>7 DEF RequestState
  <2>9. /\ state.pc = s1.pc
        /\ state.ep = s1.ep
        /\ state.began = s1.began
        /\ state.cfg = s1.cfg
        /\ state.verified = b
    BY <2>5, <2>7 DEF RequestState
  <2> HIDE DEF state
  <2>10. Began(state, h)
    BY <2>3, <2>4, <2>7, <2>9 DEF RequestOK, Began
  <2>11. CapSettled(state, h) /\ ~Composed(state)
    BY <2>7, <2>9 DEF CapSettled, Composed, b
  <2>12. RequestOK(state, past[state.ep])
    BY <2>4, <2>7, <2>9, <2>10, <2>11 DEF RequestOK
  <2> QED
    BY <1>1, <2>3, <2>6, <2>7, <2>8, <2>9, <2>12, StepOfRequest
<1> QED
  BY <1>2, <1>3, <1>4

\* The recipients of a snapshot are those of the last configuration.
LEMMA ComposeStep ==
  ASSUME SubmissionInv, NEW r \in Request, Compose(r)
  PROVE  SubmissionInv'
<1>1. UNCHANGED <<configVars, past>>
  BY DEF Compose
<1>2. PICK s : s = req[r]
  OBVIOUS
<1>3. s.pc = "compose" /\ Going(s) /\ Checked(s)
  BY <1>2 DEF Compose, Going, Checked
<1>4. \/ Answers(r, 503, "failure")
      \/ Answers(r, 400, "failure")
      \/ Answers(r, 503, "none")
      \/ Goes(r, [s EXCEPT !.pc = "commit", !.got = recipients[s.ep]])
  BY <1>2 DEF Compose
<1>5. CASE Answers(r, 503, "failure") \/ Answers(r, 400, "failure") \/ Answers(r, 503, "none")
  BY <1>1, <1>5, Refused
<1>6. CASE Goes(r, [s EXCEPT !.pc = "commit", !.got = recipients[s.ep]])
  <2>1. /\ s \in RequestState
        /\ s.ep \in Endpoint
        /\ RequestOK(s, past[s.ep])
        /\ endpoint[s.ep] # None
    BY <1>2, <1>3, RequestAt, RowIsThere
  <2>2. PICK h : h = past[s.ep]
    OBVIOUS
  <2>3. /\ h \in Seq(Version)
        /\ Len(h) \in Nat
        /\ h[Len(h)].recipients = recipients[s.ep]
    BY <2>1, <2>2, ReadsLast
  <2>4. recipients[s.ep] \in SUBSET Recipient
    BY <2>1 DEF SubmissionInv, ConfigInv, ConfigTypeOK
  <2> DEFINE rows == recipients[s.ep]
             s1 == [s EXCEPT !.pc = "commit"]
             state == [s1 EXCEPT !.got = rows]
  <2>5. Goes(r, state)
    <3>1. state = [s EXCEPT !.pc = "commit", !.got = rows]
      OBVIOUS
    <3> QED
      BY <1>6, <3>1
  <2>6. /\ s1 \in RequestState
        /\ s1.pc = "commit"
        /\ s1.ep = s.ep
        /\ s1.began = s.began
        /\ s1.cfg = s.cfg
        /\ s1.verified = s.verified
    BY <2>1 DEF RequestState
  <2> HIDE DEF rows, s1
  <2>7. rows \in SUBSET Recipient
    BY <2>4 DEF rows
  <2>8. /\ state \in RequestState
        /\ state.pc = s1.pc
        /\ state.ep = s1.ep
        /\ state.began = s1.began
        /\ state.cfg = s1.cfg
        /\ state.verified = s1.verified
        /\ state.got = rows
    BY <2>6, <2>7 DEF RequestState
  <2> HIDE DEF state
  <2>9. Began(s, h) /\ CapSettled(s, h)
    BY <1>3, <2>1, <2>2 DEF RequestOK
  <2>10. Began(state, h) /\ CapSettled(state, h)
    BY <2>6, <2>8, <2>9 DEF Began, CapSettled
  <2>11. PICK i \in s.began..Len(h) : s.cfg = h[i].row
    BY <2>9 DEF Began
  <2>12. s.began \in 1..Len(h)
    BY <2>9 DEF Began
  <2>13. Len(h) \in s.began..Len(h) /\ i <= Len(h)
    BY <2>3, <2>11, <2>12
  <2>14. Resolved(state, h)
    BY <2>3, <2>6, <2>8, <2>11, <2>13 DEF Resolved, rows
  <2>15. RequestOK(state, past[state.ep])
    BY <2>2, <2>6, <2>8, <2>10, <2>14 DEF RequestOK
  <2> QED
    BY <1>1, <2>1, <2>5, <2>6, <2>8, <2>15, StepOfRequest
<1> QED
  BY <1>4, <1>5, <1>6

\* The job is committed with the snapshot that was made.
LEMMA CommitStep ==
  ASSUME SubmissionInv, NEW r \in Request, Commit(r)
  PROVE  SubmissionInv'
<1>1. UNCHANGED <<configVars, past>>
  BY DEF Commit
<1>2. CASE Answers(r, 503, "none")
  BY <1>1, <1>2, Refused
<1>3. CASE Answers(r, 202, "success")
  <2>1. PICK s : s = req[r]
    OBVIOUS
  <2>2. s.pc = "commit" /\ Going(s) /\ Checked(s) /\ Composed(s)
    BY <2>1 DEF Commit, Going, Checked, Composed
  <2>3. s \in RequestState /\ s.ep \in Endpoint /\ RequestOK(s, past[s.ep])
    BY <2>1, <2>2, RequestAt
  <2>4. PICK h : h = past[s.ep]
    OBVIOUS
  <2>5. PICK state \in RequestState : /\ Goes(r, state)
                                      /\ state.ep = s.ep
                                      /\ state.began = s.began
                                      /\ state.cfg = s.cfg
                                      /\ state.verified = s.verified
                                      /\ state.got = s.got
    BY <1>3, <2>1, <2>3, AnswerState
  <2>6. Began(s, h) /\ CapSettled(s, h) /\ Resolved(s, h)
    BY <2>2, <2>3, <2>4 DEF RequestOK
  <2>7. Began(state, h) /\ CapSettled(state, h) /\ Resolved(state, h)
    BY <2>5, <2>6 DEF Began, CapSettled, Resolved
  <2>8. RequestOK(state, past[state.ep])
    BY <2>4, <2>5, <2>7 DEF RequestOK
  <2> QED
    BY <1>1, <2>3, <2>5, <2>8, StepOfRequest
<1> QED
  BY <1>2, <1>3 DEF Commit
-----------------------------------------------------------------------------
(* Theorems. *)

\* The invariant holds at first.
LEMMA SubmissionInit == Init => SubmissionInv
<1> SUFFICES ASSUME Init PROVE SubmissionInv
  OBVIOUS
<1>1. ConfigInv
  BY InitInv DEF Init
<1>2. NoRequest \in RequestState /\ ~Going(NoRequest)
  BY DEF NoRequest, RequestState, Going
<1>3. req \in [Request -> RequestState] /\ \A r \in Request : RequestInv(r)
  BY <1>2 DEF Init, RequestInv
<1>4. past \in [Endpoint -> Seq(Version)]
  BY DEF Init
<1>5. \A e \in Endpoint : Recorded(past[e], endpoint[e], recipients[e])
  BY DEF Init, ConfigInit, Recorded
<1> QED
  BY <1>1, <1>3, <1>4, <1>5 DEF SubmissionInv

\* Every step keeps it.
LEMMA SubmissionStep ==
  ASSUME SubmissionInv, [Next]_vars
  PROVE  SubmissionInv'
<1>1. ASSUME NEW a \in Editor, Manage(a) PROVE SubmissionInv'
  BY <1>1, ManageStep
<1>2. ASSUME NEW r \in Request, Handle(r) PROVE SubmissionInv'
  BY <1>2, LookupStep, LimitStep, BodyStep, CapStep, ComposeStep, CommitStep DEF Handle
<1>3. CASE UNCHANGED vars
  <2>1. UNCHANGED configVars /\ req' = req /\ past' = past
    BY <1>3 DEF vars
  <2>2. ConfigInv'
    BY <2>1, StepKeepsInv DEF SubmissionInv
  <2> QED
    BY <2>1, <2>2 DEF SubmissionInv, RequestInv, configVars
<1> QED
  BY <1>1, <1>2, <1>3 DEF Next

(* The invariant of submit_form beside concurrent edits (forms.py:67-157). *)
THEOREM SubmissionInvariance == Spec => []SubmissionInv
<1>1. SubmissionInv /\ [Next]_vars => SubmissionInv'
  BY SubmissionStep
<1> QED
  BY SubmissionInit, <1>1, PTL DEF Spec

(* Tables, requests and history keep their types. *)
THEOREM SubmissionTypeCorrect == Spec => []TypeOK
<1>1. SubmissionInv => TypeOK
  BY DEF SubmissionInv, ConfigInv, TypeOK
<1> QED
  BY SubmissionInvariance, <1>1, PTL

(* Columns and recipients of an accepted snapshot were configured while the
   request was handled, of an endpoint that was enabled when it began. *)
THEOREM SnapshotsWereConfigured == Spec => []SnapshotWasConfigured
<1>1. SubmissionInv => SnapshotWasConfigured
  <2> SUFFICES ASSUME SubmissionInv, NEW r \in Request, Accepted(r)
               PROVE  LET versions == past[req[r].ep] IN
                      /\ versions[req[r].began].row.active
                      /\ ~versions[req[r].began].row.deleted
                      /\ \E i, k \in Since(r) : /\ i <= k
                                                /\ req[r].cfg = versions[i].row
                                                /\ req[r].got = versions[k].recipients
    BY DEF SnapshotWasConfigured
  <2>1. Going(req[r]) /\ Composed(req[r])
    BY DEF Accepted, Going, Composed
  <2> QED
    BY <2>1, RequestAt DEF RequestOK, Began, Resolved, Since
<1> QED
  BY SubmissionInvariance, <1>1, PTL

(* CAP is enforced against any interleaving of edits of its settings. *)
THEOREM CapIsEnforced == Spec => []CapEnforced
<1>1. SubmissionInv => CapEnforced
  <2> SUFFICES ASSUME SubmissionInv, NEW r \in Request, Accepted(r),
                      \A i \in Since(r) : past[req[r].ep][i].row.cap
               PROVE  req[r].verified
    BY DEF CapEnforced
  <2>1. Going(req[r]) /\ Checked(req[r])
    BY DEF Accepted, Going, Checked
  <2> QED
    BY <2>1, RequestAt DEF RequestOK, CapSettled, Since
<1> QED
  BY SubmissionInvariance, <1>1, PTL
=============================================================================
