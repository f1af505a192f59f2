------------------------- MODULE EndpointConfigProofs -------------------------
(* Slugs, secrets and deletions of endpoints under any number of concurrent
   management requests: ConfigInv is inductive.  Besides the two invariants it
   says that a row never loses a secret between the load and the commit of an
   edit, which is what makes the validation against the loaded row good for the
   row that is written. *)
EXTENDS EndpointConfig, TLAPS

-----------------------------------------------------------------------------
(* The functions on rows. *)

\* KeepingSecrets touches the two secrets only and never removes one.
LEMMA SecretsKept ==
  ASSUME NEW r \in EndpointRow, NEW f \in FormType
  PROVE  /\ KeepingSecrets(r, f) \in EndpointRow
         /\ KeepingSecrets(r, f).slug = r.slug
         /\ KeepingSecrets(r, f).cap = r.cap
         /\ KeepingSecrets(r, f).user = r.user
         /\ KeepingSecrets(r, f).deleted = r.deleted
         /\ KeepingSecrets(r, f).secret <=> r.secret \/ f.secret
         /\ KeepingSecrets(r, f).password <=> r.password \/ f.password
<1> DEFINE p == r.password \/ f.password
           s == r.secret \/ f.secret
<1>1. p \in BOOLEAN /\ s \in BOOLEAN
  OBVIOUS
<1>2. KeepingSecrets(r, f) = [r EXCEPT !.password = p, !.secret = s]
  BY DEF KeepingSecrets
<1>3. /\ p <=> r.password \/ f.password
      /\ s <=> r.secret \/ f.secret
  OBVIOUS
<1> HIDE DEF p, s
<1>4. [r EXCEPT !.password = p, !.secret = s] \in EndpointRow
  BY <1>1 DEF EndpointRow
<1>5. /\ KeepingSecrets(r, f).secret = s
      /\ KeepingSecrets(r, f).password = p
      /\ KeepingSecrets(r, f).slug = r.slug
      /\ KeepingSecrets(r, f).cap = r.cap
      /\ KeepingSecrets(r, f).user = r.user
      /\ KeepingSecrets(r, f).deleted = r.deleted
  BY <1>2 DEF EndpointRow
<1> QED
  BY <1>2, <1>3, <1>4, <1>5

\* A row as apply_values leaves it.
LEMMA Applied ==
  ASSUME NEW r \in EndpointRow, NEW f \in FormType
  PROVE  /\ apply_values(r, f) \in EndpointRow
         /\ apply_values(r, f).slug = f.slug
         /\ apply_values(r, f).cap = f.cap
         /\ apply_values(r, f).user = f.user
         /\ apply_values(r, f).deleted = r.deleted
         /\ apply_values(r, f).secret <=> r.secret \/ f.secret
         /\ apply_values(r, f).password <=> r.password \/ f.password
<1> DEFINE g == [r EXCEPT !.slug = f.slug, !.active = f.active, !.limited = f.limited,
                          !.site = f.site, !.cap = f.cap, !.url = f.url, !.user = f.user]
<1>1. /\ g \in EndpointRow
      /\ g.slug = f.slug
      /\ g.cap = f.cap
      /\ g.user = f.user
      /\ g.deleted = r.deleted
      /\ g.secret = r.secret
      /\ g.password = r.password
  BY DEF EndpointRow, FormType
<1>2. apply_values(r, f) = KeepingSecrets(g, f)
  BY DEF apply_values
<1> HIDE DEF g
<1> QED
  BY <1>1, <1>2, SecretsKept

\* The row of a new endpoint.
LEMMA Created ==
  ASSUME NEW f \in FormType
  PROVE  /\ NewEndpoint(f) \in EndpointRow
         /\ NewEndpoint(f).slug = f.slug
         /\ NewEndpoint(f).cap = f.cap
         /\ NewEndpoint(f).user = f.user
         /\ NewEndpoint(f).secret <=> f.secret
         /\ NewEndpoint(f).password <=> f.password
<1> DEFINE g == [slug |-> f.slug, active |-> TRUE, deleted |-> FALSE, limited |-> TRUE,
                 site |-> f.site, cap |-> FALSE, url |-> FALSE, user |-> FALSE,
                 password |-> FALSE, secret |-> FALSE]
<1>1. /\ g \in EndpointRow
      /\ ~g.secret
      /\ ~g.password
  BY DEF EndpointRow, FormType
<1>2. NewEndpoint(f) = apply_values(g, f)
  BY DEF NewEndpoint
<1> HIDE DEF g
<1> QED
  BY <1>1, <1>2, Applied

\* A flush takes each column from one of two rows.
LEMMA Flushed ==
  ASSUME NEW r \in EndpointRow, NEW old \in EndpointRow, NEW new \in EndpointRow
  PROVE  LET row == ChangedColumns(r, old, new) IN
         /\ row \in EndpointRow
         /\ row.slug = IF new.slug = old.slug THEN r.slug ELSE new.slug
         /\ row.cap = IF new.cap = old.cap THEN r.cap ELSE new.cap
         /\ row.user = IF new.user = old.user THEN r.user ELSE new.user
         /\ row.deleted = IF new.deleted = old.deleted THEN r.deleted ELSE new.deleted
         /\ row.secret = IF new.secret = old.secret THEN r.secret ELSE new.secret
         /\ row.password = IF new.password = old.password THEN r.password ELSE new.password
BY DEF ChangedColumns, EndpointRow

(* The row that an edit commits, written on a row that has grown since it was
   loaded: its secrets are there where its own columns or the form ask for them. *)
LEMMA EditedRow ==
  ASSUME NEW r \in EndpointRow, NEW old \in EndpointRow, NEW f \in FormType,
         old.secret => r.secret, old.password => r.password,
         r.cap => r.secret, r.user => r.password,
         ValidForm(f, old.password, old.secret)
  PROVE  LET row == ChangedColumns(r, old, apply_values(old, f)) IN
         /\ row \in EndpointRow
         /\ row.cap => row.secret
         /\ row.user => row.password
         /\ r.secret => row.secret
         /\ r.password => row.password
         /\ r.deleted => row.deleted
<1> DEFINE new == apply_values(old, f)
           row == ChangedColumns(r, old, new)
<1>1. /\ new \in EndpointRow
      /\ new.cap = f.cap
      /\ new.user = f.user
      /\ new.deleted = old.deleted
      /\ new.secret <=> old.secret \/ f.secret
      /\ new.password <=> old.password \/ f.password
  BY Applied
<1> HIDE DEF new
<1>2. /\ row \in EndpointRow
      /\ row.cap = IF new.cap = old.cap THEN r.cap ELSE new.cap
      /\ row.user = IF new.user = old.user THEN r.user ELSE new.user
      /\ row.deleted = IF new.deleted = old.deleted THEN r.deleted ELSE new.deleted
      /\ row.secret = IF new.secret = old.secret THEN r.secret ELSE new.secret
      /\ row.password = IF new.password = old.password THEN r.password ELSE new.password
  BY <1>1, Flushed
<1> HIDE DEF row
<1>3. /\ f.cap => f.secret \/ old.secret
      /\ f.user => f.password \/ old.password
  BY DEF ValidForm, CapComplete, LoginComplete
<1>4. /\ r.cap \in BOOLEAN /\ r.user \in BOOLEAN /\ r.secret \in BOOLEAN /\ r.password \in BOOLEAN
      /\ old.cap \in BOOLEAN /\ old.user \in BOOLEAN /\ old.secret \in BOOLEAN
      /\ old.password \in BOOLEAN
      /\ new.cap \in BOOLEAN /\ new.user \in BOOLEAN /\ new.secret \in BOOLEAN
      /\ new.password \in BOOLEAN
  BY <1>1 DEF EndpointRow
<1>5. /\ r.secret => row.secret
      /\ row.cap => row.secret
  BY <1>1, <1>2, <1>3, <1>4
<1>6. /\ r.password => row.password
      /\ row.user => row.password
  BY <1>1, <1>2, <1>3, <1>4
<1>7. r.deleted => row.deleted
  BY <1>1, <1>2
<1> QED
  BY <1>2, <1>5, <1>6, <1>7 DEF row, new

\* The row that a deletion commits.
LEMMA DeletedRow ==
  ASSUME NEW r \in EndpointRow, NEW old \in EndpointRow
  PROVE  LET row == ChangedColumns(r, old, [old EXCEPT !.deleted = TRUE, !.active = FALSE]) IN
         /\ row \in EndpointRow
         /\ row.slug = r.slug
         /\ row.cap = r.cap
         /\ row.user = r.user
         /\ row.secret = r.secret
         /\ row.password = r.password
         /\ r.deleted => row.deleted
<1> DEFINE new == [old EXCEPT !.deleted = TRUE, !.active = FALSE]
<1>1. /\ new \in EndpointRow
      /\ new.slug = old.slug
      /\ new.cap = old.cap
      /\ new.user = old.user
      /\ new.secret = old.secret
      /\ new.password = old.password
      /\ new.deleted = TRUE
  BY DEF EndpointRow
<1> HIDE DEF new
<1>2. LET row == ChangedColumns(r, old, new) IN
      /\ row \in EndpointRow
      /\ row.slug = r.slug
      /\ row.cap = r.cap
      /\ row.user = r.user
      /\ row.secret = r.secret
      /\ row.password = r.password
      /\ row.deleted = IF new.deleted = old.deleted THEN r.deleted ELSE new.deleted
  BY <1>1, Flushed
<1> QED
  BY <1>1, <1>2 DEF new
-----------------------------------------------------------------------------
(* Steps. *)

\* No step removes a row or a secret, or revives a deleted endpoint.
RowsGrow ==
  \A e \in Endpoint : endpoint[e] # None =>
    /\ endpoint'[e] \in EndpointRow
    /\ endpoint[e].secret => endpoint'[e].secret
    /\ endpoint[e].password => endpoint'[e].password
    /\ endpoint[e].deleted => endpoint'[e].deleted

\* Nothing is stored and no request open at first.
LEMMA InitInv == ConfigInit => ConfigInv
<1> SUFFICES ASSUME ConfigInit PROVE ConfigInv
  OBVIOUS
<1>1. Sent \in EditState
  BY DEF Sent, EditState
<1>2. ConfigTypeOK
  BY <1>1 DEF ConfigInit, ConfigTypeOK
<1>3. SlugNamesOneEndpoint /\ SecretsPresent
  BY DEF ConfigInit, SlugNamesOneEndpoint, SecretsPresent
<1>4. \A a \in Editor : edit[a].pc = "sent" /\ edit[a].kind = "create"
  BY DEF ConfigInit, Sent
<1>5. \A a \in Editor : EditInv(a)
  BY <1>4 DEF EditInv
<1> QED
  BY <1>2, <1>3, <1>5 DEF ConfigInv

\* Requests other than the one that acts keep what they rely on.
LEMMA OthersRely ==
  ASSUME ConfigInv, NEW a \in Editor, NEW state, EditBecomes(a, state), RowsGrow,
         NEW b \in Editor \ {a}
  PROVE  EditInv(b)'
<1>1. edit'[b] = edit[b]
  BY DEF EditBecomes, ConfigInv, ConfigTypeOK
<1>2. EditInv(b)
  BY DEF ConfigInv
<1>3. ASSUME edit[b].pc \notin {"sent", "done"}, edit[b].kind # "create"
      PROVE  /\ endpoint'[edit[b].ep] \in EndpointRow
             /\ edit[b].old.secret => endpoint'[edit[b].ep].secret
             /\ edit[b].old.password => endpoint'[edit[b].ep].password
  <2>1. /\ edit[b].ep \in Endpoint
        /\ endpoint[edit[b].ep] \in EndpointRow
        /\ edit[b].old.secret => endpoint[edit[b].ep].secret
        /\ edit[b].old.password => endpoint[edit[b].ep].password
    BY <1>2, <1>3 DEF EditInv
  <2>2. endpoint[edit[b].ep] # None
    BY <2>1, NoValueAssumption
  <2> QED
    BY <2>1, <2>2 DEF RowsGrow
<1> QED
  BY <1>1, <1>2, <1>3 DEF EditInv, ValidForm, CapComplete, LoginComplete

\* Rows that are not written have lost nothing.
LEMMA UnchangedRowsGrow ==
  ASSUME ConfigInv, UNCHANGED endpoint
  PROVE  RowsGrow
BY DEF ConfigInv, ConfigTypeOK, RowsGrow

\* What is left to show of a step of request a that keeps the rows' invariants.
LEMMA StepOfOne ==
  ASSUME ConfigInv, NEW a \in Editor, NEW state \in EditState, EditBecomes(a, state), RowsGrow,
         endpoint' \in [Endpoint -> EndpointRow \cup {None}],
         recipients' \in [Endpoint -> SUBSET Recipient],
         SlugNamesOneEndpoint', SecretsPresent', EditInv(a)'
  PROVE  ConfigInv'
<1>1. ConfigTypeOK'
  BY DEF ConfigInv, ConfigTypeOK, EditBecomes
<1>2. ASSUME NEW b \in Editor PROVE EditInv(b)'
  BY OthersRely
<1> QED
  BY <1>1, <1>2 DEF ConfigInv

\* The same for a step that writes neither table.
LEMMA StepWithoutWrite ==
  ASSUME ConfigInv, NEW a \in Editor, NEW state \in EditState, EditBecomes(a, state),
         UNCHANGED <<endpoint, recipients>>, EditInv(a)'
  PROVE  RowsGrow /\ ConfigInv'
<1>1. RowsGrow
  BY UnchangedRowsGrow
<1>2. SlugNamesOneEndpoint' /\ SecretsPresent'
  BY DEF ConfigInv, SlugNamesOneEndpoint, SecretsPresent
<1>3. /\ endpoint' \in [Endpoint -> EndpointRow \cup {None}]
      /\ recipients' \in [Endpoint -> SUBSET Recipient]
  BY DEF ConfigInv, ConfigTypeOK
<1> QED
  BY <1>1, <1>2, <1>3, StepOfOne

\* A creation that is valid goes on with its form, another is answered.
LEMMA CreateCheckStep ==
  ASSUME ConfigInv, NEW a \in Editor, CreateCheck(a)
  PROVE  RowsGrow /\ ConfigInv'
<1>1. PICK f \in Form :
        IF ValidForm(f, FALSE, FALSE) /\ ~SlugTaken(f.slug, None)
        THEN EditBecomes(a, [Sent EXCEPT !.pc = "checked", !.form = f])
        ELSE EditBecomes(a, [Sent EXCEPT !.pc = "done"])
  BY DEF CreateCheck
<1>2. UNCHANGED <<endpoint, recipients>>
  BY DEF CreateCheck
<1>3. edit \in [Editor -> EditState]
  BY DEF ConfigInv, ConfigTypeOK
<1>4. CASE ValidForm(f, FALSE, FALSE) /\ ~SlugTaken(f.slug, None)
  <2> DEFINE state == [Sent EXCEPT !.pc = "checked", !.form = f]
  <2>1. state \in EditState
    BY DEF Sent, EditState
  <2>2. /\ state.pc = "checked"
        /\ state.kind = "create"
        /\ state.form = f
    BY DEF Sent
  <2>3. EditBecomes(a, state)
    BY <1>1, <1>4
  <2> HIDE DEF state
  <2>4. edit'[a] = state
    BY <2>3, <1>3 DEF EditBecomes
  <2>5. EditInv(a)'
    BY <2>2, <2>4, <1>4 DEF EditInv, ValidForm, CapComplete, LoginComplete
  <2> QED
    BY <1>2, <2>1, <2>3, <2>5, StepWithoutWrite
<1>5. CASE ~(ValidForm(f, FALSE, FALSE) /\ ~SlugTaken(f.slug, None))
  <2> DEFINE state == [Sent EXCEPT !.pc = "done"]
  <2>1. state \in EditState
    BY DEF Sent, EditState
  <2>2. state.pc = "done"
    BY DEF Sent
  <2>3. EditBecomes(a, state)
    BY <1>1, <1>5
  <2> HIDE DEF state
  <2>4. edit'[a] = state
    BY <2>3, <1>3 DEF EditBecomes
  <2>5. EditInv(a)'
    BY <2>2, <2>4 DEF EditInv
  <2> QED
    BY <1>2, <2>1, <2>3, <2>5, StepWithoutWrite
<1> QED
  BY <1>4, <1>5

\* What an edit or a deletion loads is what is stored.
LEMMA LoadStep ==
  ASSUME ConfigInv, NEW a \in Editor, Load(a)
  PROVE  RowsGrow /\ ConfigInv'
<1>1. PICK e \in Endpoint, kind \in {"edit", "delete"} :
        /\ endpoint[e] # None
        /\ IF Found(e)
           THEN EditBecomes(a, [Sent EXCEPT !.pc = "loaded", !.kind = kind,
                                            !.ep = e, !.old = endpoint[e]])
           ELSE EditBecomes(a, [Sent EXCEPT !.pc = "done", !.kind = kind, !.ep = e])
  BY DEF Load
<1>2. UNCHANGED <<endpoint, recipients>>
  BY DEF Load
<1>3. /\ edit \in [Editor -> EditState]
      /\ endpoint[e] \in EndpointRow
  BY <1>1 DEF ConfigInv, ConfigTypeOK
<1>4. CASE Found(e)
  <2> DEFINE state == [Sent EXCEPT !.pc = "loaded", !.kind = kind, !.ep = e, !.old = endpoint[e]]
  <2>1. state \in EditState
    BY <1>3 DEF Sent, EditState
  <2>2. /\ state.pc = "loaded"
        /\ state.kind # "create"
        /\ state.ep = e
        /\ state.old = endpoint[e]
    BY DEF Sent
  <2>3. EditBecomes(a, state)
    BY <1>1, <1>4
  <2> HIDE DEF state
  <2>4. edit'[a] = state
    BY <2>3, <1>3 DEF EditBecomes
  <2>5. EditInv(a)'
    BY <2>2, <2>4, <1>2, <1>3 DEF EditInv
  <2> QED
    BY <1>2, <2>1, <2>3, <2>5, StepWithoutWrite
<1>5. CASE ~Found(e)
  <2> DEFINE state == [Sent EXCEPT !.pc = "done", !.kind = kind, !.ep = e]
  <2>1. state \in EditState
    BY DEF Sent, EditState
  <2>2. state.pc = "done"
    BY DEF Sent
  <2>3. EditBecomes(a, state)
    BY <1>1, <1>5
  <2> HIDE DEF state
  <2>4. edit'[a] = state
    BY <2>3, <1>3 DEF EditBecomes
  <2>5. EditInv(a)'
    BY <2>2, <2>4 DEF EditInv
  <2> QED
    BY <1>2, <2>1, <2>3, <2>5, StepWithoutWrite
<1> QED
  BY <1>4, <1>5

\* What the invariant says of the state of request a.
LEMMA StateOf ==
  ASSUME ConfigInv, NEW a \in Editor
  PROVE  /\ edit \in [Editor -> EditState]
         /\ edit[a] \in EditState
         /\ EditInv(a)
BY DEF ConfigInv, ConfigTypeOK

\* A form is checked against the row as loaded.
LEMMA EditCheckStep ==
  ASSUME ConfigInv, NEW a \in Editor, EditCheck(a)
  PROVE  RowsGrow /\ ConfigInv'
<1>1. /\ edit[a].pc = "loaded"
      /\ edit[a].kind = "edit"
      /\ UNCHANGED <<endpoint, recipients>>
  BY DEF EditCheck
<1>2. PICK f \in Form :
        IF ValidForm(f, edit[a].old.password, edit[a].old.secret) /\ ~SlugTaken(f.slug, edit[a].ep)
        THEN EditBecomes(a, [edit[a] EXCEPT !.pc = "checked", !.form = f])
        ELSE EditBecomes(a, [edit[a] EXCEPT !.pc = "done"])
  BY DEF EditCheck
<1>3. /\ edit \in [Editor -> EditState]
      /\ edit[a] \in EditState
      /\ EditInv(a)
  BY StateOf
<1>4. CASE ValidForm(f, edit[a].old.password, edit[a].old.secret) /\ ~SlugTaken(f.slug, edit[a].ep)
  <2> DEFINE state == [edit[a] EXCEPT !.pc = "checked", !.form = f]
  <2>1. state \in EditState
    BY <1>3 DEF EditState
  <2>2. /\ state.pc = "checked"
        /\ state.kind = "edit"
        /\ state.form = f
        /\ state.ep = edit[a].ep
        /\ state.old = edit[a].old
    BY <1>1, <1>3 DEF EditState
  <2>3. EditBecomes(a, state)
    BY <1>2, <1>4
  <2> HIDE DEF state
  <2>4. edit'[a] = state
    BY <2>3, <1>3 DEF EditBecomes
  <2>5. EditInv(a)'
    BY <2>2, <2>4, <1>1, <1>3, <1>4 DEF EditInv, ValidForm, CapComplete, LoginComplete
  <2> QED
    BY <1>1, <2>1, <2>3, <2>5, StepWithoutWrite
<1>5. CASE ~(ValidForm(f, edit[a].old.password, edit[a].old.secret)
             /\ ~SlugTaken(f.slug, edit[a].ep))
  <2> DEFINE state == [edit[a] EXCEPT !.pc = "done"]
  <2>1. state \in EditState /\ state.pc = "done"
    BY <1>3 DEF EditState
  <2>2. EditBecomes(a, state)
    BY <1>2, <1>5
  <2> HIDE DEF state
  <2>3. edit'[a] = state
    BY <2>2, <1>3 DEF EditBecomes
  <2>4. EditInv(a)'
    BY <2>1, <2>3 DEF EditInv
  <2> QED
    BY <1>1, <2>1, <2>2, <2>4, StepWithoutWrite
<1> QED
  BY <1>4, <1>5

\* A step of an edit with a valid form that only moves on.
LEMMA EditMovesOn ==
  ASSUME ConfigInv, NEW a \in Editor, NEW pc \in {"waiting", "removed"},
         NEW gone \in SUBSET Recipient,
         edit[a].pc \in {"checked", "waiting"}, edit[a].kind = "edit",
         EditBecomes(a, [edit[a] EXCEPT !.pc = pc, !.gone = gone]),
         UNCHANGED <<endpoint, recipients>>
  PROVE  RowsGrow /\ ConfigInv'
<1> DEFINE state == [edit[a] EXCEPT !.pc = pc, !.gone = gone]
<1>1. /\ edit \in [Editor -> EditState]
      /\ edit[a] \in EditState
      /\ EditInv(a)
  BY StateOf
<1>2. state \in EditState
  BY <1>1 DEF EditState
<1>3. /\ state.pc = pc
      /\ state.kind = "edit"
      /\ state.form = edit[a].form
      /\ state.ep = edit[a].ep
      /\ state.old = edit[a].old
  BY <1>1 DEF EditState
<1> HIDE DEF state
<1>4. EditBecomes(a, state)
  BY DEF state
<1>5. edit'[a] = state
  BY <1>1, <1>4 DEF EditBecomes
<1>6. EditInv(a)'
  BY <1>1, <1>3, <1>5 DEF EditInv, ValidForm, CapComplete, LoginComplete
<1> QED
  BY <1>2, <1>4, <1>6, StepWithoutWrite

\* The DELETE of an edit starts.
LEMMA DeleteRecipientsStep ==
  ASSUME ConfigInv, NEW a \in Editor, DeleteRecipients(a)
  PROVE  RowsGrow /\ ConfigInv'
<1>1. edit[a].ep \in Endpoint
  BY StateOf DEF DeleteRecipients, EditInv
<1>2. recipients[edit[a].ep] \in SUBSET Recipient
  BY <1>1 DEF ConfigInv, ConfigTypeOK
<1> QED
  BY <1>2, EditMovesOn DEF DeleteRecipients

\* The DELETE of an edit has its locks.
LEMMA RecipientsRemovedStep ==
  ASSUME ConfigInv, NEW a \in Editor, RecipientsRemoved(a)
  PROVE  RowsGrow /\ ConfigInv'
<1>1. /\ edit[a].pc = "waiting"
      /\ edit[a].kind = "edit"
      /\ edit[a].gone \in SUBSET Recipient
  BY StateOf DEF RecipientsRemoved, EditInv, EditState
<1> DEFINE gone == edit[a].gone \cap recipients[edit[a].ep]
<1>2. gone \in SUBSET Recipient
  BY <1>1
<1>3. /\ EditBecomes(a, [edit[a] EXCEPT !.pc = "removed", !.gone = gone])
      /\ UNCHANGED <<endpoint, recipients>>
  BY DEF RecipientsRemoved
<1> HIDE DEF gone
<1> QED
  BY <1>1, <1>2, <1>3, EditMovesOn
-----------------------------------------------------------------------------
(* Steps that write rows. *)

\* A row that is written keeps the secrets it needs, and its slug is its own.
LEMMA RowWritten ==
  ASSUME ConfigInv, NEW e \in Endpoint, NEW row \in EndpointRow,
         endpoint' = [endpoint EXCEPT ![e] = row],
         \A d \in Endpoint \ {e} : endpoint[d] # None => endpoint[d].slug # row.slug,
         row.cap => row.secret, row.user => row.password,
         endpoint[e] # None => /\ endpoint[e].secret => row.secret
                               /\ endpoint[e].password => row.password
                               /\ endpoint[e].deleted => row.deleted
  PROVE  /\ RowsGrow
         /\ endpoint' \in [Endpoint -> EndpointRow \cup {None}]
         /\ SlugNamesOneEndpoint'
         /\ SecretsPresent'
<1>1. endpoint \in [Endpoint -> EndpointRow \cup {None}]
  BY DEF ConfigInv, ConfigTypeOK
<1>2. /\ endpoint'[e] = row
      /\ \A d \in Endpoint \ {e} : endpoint'[d] = endpoint[d]
  BY <1>1
<1>3. RowsGrow
  BY <1>1, <1>2 DEF RowsGrow
<1>4. endpoint' \in [Endpoint -> EndpointRow \cup {None}]
  BY <1>1
<1>5. SlugNamesOneEndpoint'
  BY <1>2 DEF ConfigInv, SlugNamesOneEndpoint
<1>6. SecretsPresent'
  BY <1>2 DEF ConfigInv, SecretsPresent
<1> QED
  BY <1>3, <1>4, <1>5, <1>6

\* A request that is answered relies on nothing.
LEMMA Answered ==
  ASSUME ConfigInv, NEW a \in Editor, NEW gone \in SUBSET Recipient,
         edit' = [edit EXCEPT ![a] = [edit[a] EXCEPT !.pc = "done", !.gone = gone]]
  PROVE  /\ [edit[a] EXCEPT !.pc = "done", !.gone = gone] \in EditState
         /\ EditInv(a)'
<1> DEFINE state == [edit[a] EXCEPT !.pc = "done", !.gone = gone]
<1>1. edit \in [Editor -> EditState] /\ edit[a] \in EditState
  BY StateOf
<1>2. state \in EditState /\ state.pc = "done"
  BY <1>1 DEF EditState
<1>3. edit'[a] = state
  BY <1>1
<1> HIDE DEF state
<1>4. EditInv(a)'
  BY <1>2, <1>3 DEF EditInv
<1> QED
  BY <1>2, <1>4 DEF state

\* The same for a request that has no recipients deleted.
LEMMA AnsweredAtOnce ==
  ASSUME ConfigInv, NEW a \in Editor, EditBecomes(a, [edit[a] EXCEPT !.pc = "done"])
  PROVE  /\ [edit[a] EXCEPT !.pc = "done"] \in EditState
         /\ EditInv(a)'
<1>1. edit \in [Editor -> EditState] /\ edit[a] \in EditState
  BY StateOf
<1>2. [edit[a] EXCEPT !.pc = "done"] = [edit[a] EXCEPT !.pc = "done", !.gone = edit[a].gone]
  BY <1>1 DEF EditState
<1>3. edit[a].gone \in SUBSET Recipient
  BY <1>1 DEF EditState
<1> QED
  BY <1>2, <1>3, Answered DEF EditBecomes

\* A creation inserts a row with the secrets its form brings, or violates the index.
LEMMA CreateCommitStep ==
  ASSUME ConfigInv, NEW a \in Editor, CreateCommit(a)
  PROVE  RowsGrow /\ ConfigInv'
<1> DEFINE f == edit[a].form
           state == [edit[a] EXCEPT !.pc = "done"]
<1>1. EditBecomes(a, state) /\ edit[a].pc = "checked" /\ edit[a].kind = "create"
  BY DEF CreateCommit
<1>2. state \in EditState /\ EditInv(a)'
  BY <1>1, AnsweredAtOnce
<1>3. f \in FormType /\ ValidForm(f, FALSE, FALSE)
  BY <1>1, StateOf, FormAssumption DEF EditInv
<1>4. CASE UniqueViolation(f.slug, None)
  BY <1>1, <1>2, <1>4, StepWithoutWrite DEF CreateCommit
<1>5. CASE ~UniqueViolation(f.slug, None)
  <2>1. PICK e \in Endpoint :
          /\ endpoint[e] = None
          /\ endpoint' = [endpoint EXCEPT ![e] = NewEndpoint(f)]
          /\ recipients' = [recipients EXCEPT ![e] = {a} \X f.emails]
    BY <1>5 DEF CreateCommit
  <2> DEFINE row == NewEndpoint(f)
  <2>2. /\ row \in EndpointRow
        /\ row.slug = f.slug
        /\ row.cap => row.secret
        /\ row.user => row.password
    BY <1>3, Created DEF ValidForm, CapComplete, LoginComplete
  <2>3. \A d \in Endpoint \ {e} : endpoint[d] # None => endpoint[d].slug # row.slug
    BY <1>5, <2>2, NoValueAssumption DEF UniqueViolation, SlugTaken
  <2>4. endpoint' = [endpoint EXCEPT ![e] = row]
    BY <2>1
  <2> HIDE DEF row, f, state
  <2>5. /\ RowsGrow
        /\ endpoint' \in [Endpoint -> EndpointRow \cup {None}]
        /\ SlugNamesOneEndpoint'
        /\ SecretsPresent'
    BY <2>1, <2>2, <2>3, <2>4, RowWritten
  <2>6. f.emails \subseteq Email
    BY <1>3 DEF FormType
  <2>7. recipients' \in [Endpoint -> SUBSET Recipient]
    <3>1. {a} \X f.emails \in SUBSET Recipient
      BY <2>6 DEF Recipient
    <3> QED
      BY <2>1, <3>1 DEF ConfigInv, ConfigTypeOK
  <2> QED
    BY <1>1, <1>2, <2>5, <2>7, StepOfOne
<1> QED
  BY <1>4, <1>5

\* An edit writes its changed columns, or violates the index.
LEMMA EditCommitStep ==
  ASSUME ConfigInv, NEW a \in Editor, EditCommit(a)
  PROVE  RowsGrow /\ ConfigInv'
<1> DEFINE e == edit[a].ep
           old == edit[a].old
           f == edit[a].form
           row == ChangedColumns(endpoint[e], old, apply_values(old, f))
           state == [edit[a] EXCEPT !.pc = "done", !.gone = {}]
<1>1. edit[a].pc = "removed" /\ EditBecomes(a, state)
  BY DEF EditCommit
<1>2. edit[a].kind = "edit"
  BY <1>1, StateOf DEF EditInv
<1>3. state \in EditState /\ EditInv(a)'
  <2>1. {} \in SUBSET Recipient
    OBVIOUS
  <2>2. edit' = [edit EXCEPT ![a] = [edit[a] EXCEPT !.pc = "done", !.gone = {}]]
    BY <1>1 DEF EditBecomes
  <2> QED
    BY <2>1, <2>2, Answered
<1>4. /\ e \in Endpoint
      /\ endpoint[e] \in EndpointRow
      /\ old \in EndpointRow
      /\ old.secret => endpoint[e].secret
      /\ old.password => endpoint[e].password
      /\ f \in FormType
      /\ ValidForm(f, old.password, old.secret)
  BY <1>1, <1>2, StateOf, FormAssumption DEF EditInv
<1>5. CASE UniqueViolation(row.slug, e)
  BY <1>1, <1>3, <1>5, StepWithoutWrite DEF EditCommit
<1>6. CASE ~UniqueViolation(row.slug, e)
  <2>1. /\ endpoint' = [endpoint EXCEPT ![e] = row]
        /\ recipients' = [recipients EXCEPT ![e] = (@ \ edit[a].gone) \cup ({a} \X f.emails)]
    BY <1>6 DEF EditCommit
  <2>2. endpoint[e] # None
    BY <1>4, NoValueAssumption
  <2>3. /\ endpoint[e].cap => endpoint[e].secret
        /\ endpoint[e].user => endpoint[e].password
    BY <1>4, <2>2 DEF ConfigInv, SecretsPresent
  <2>4. /\ row \in EndpointRow
        /\ row.cap => row.secret
        /\ row.user => row.password
        /\ endpoint[e].secret => row.secret
        /\ endpoint[e].password => row.password
        /\ endpoint[e].deleted => row.deleted
    BY <1>4, <2>3, EditedRow
  <2>5. \A d \in Endpoint \ {e} : endpoint[d] # None => endpoint[d].slug # row.slug
    BY <1>6 DEF UniqueViolation, SlugTaken
  <2>6. f.emails \subseteq Email
    BY <1>4 DEF FormType
  <2> HIDE DEF row, f, state, e, old
  <2>7. /\ RowsGrow
        /\ endpoint' \in [Endpoint -> EndpointRow \cup {None}]
        /\ SlugNamesOneEndpoint'
        /\ SecretsPresent'
    BY <1>4, <2>1, <2>4, <2>5, RowWritten
  <2>8. recipients' \in [Endpoint -> SUBSET Recipient]
    <3>1. {a} \X f.emails \in SUBSET Recipient
      BY <2>6 DEF Recipient
    <3> QED
      BY <1>4, <2>1, <3>1 DEF ConfigInv, ConfigTypeOK
  <2> QED
    BY <1>1, <1>3, <2>7, <2>8, StepOfOne
<1> QED
  BY <1>5, <1>6

\* A deletion writes two flags and nothing that a property is about but the deletion.
LEMMA DeleteCommitStep ==
  ASSUME ConfigInv, NEW a \in Editor, DeleteCommit(a)
  PROVE  RowsGrow /\ ConfigInv'
<1> DEFINE e == edit[a].ep
           old == edit[a].old
           row == ChangedColumns(endpoint[e], old,
                                 [old EXCEPT !.deleted = TRUE, !.active = FALSE])
           state == [edit[a] EXCEPT !.pc = "done"]
<1>1. /\ edit[a].pc = "loaded"
      /\ edit[a].kind = "delete"
      /\ EditBecomes(a, state)
      /\ UNCHANGED recipients
  BY DEF DeleteCommit
<1>2. state \in EditState /\ EditInv(a)'
  BY <1>1, AnsweredAtOnce
<1>3. /\ e \in Endpoint
      /\ endpoint[e] \in EndpointRow
      /\ old \in EndpointRow
  BY <1>1, StateOf DEF EditInv
<1>4. endpoint' = [endpoint EXCEPT ![e] = row]
  BY DEF DeleteCommit
<1>5. endpoint[e] # None
  BY <1>3, NoValueAssumption
<1>6. /\ row \in EndpointRow
      /\ row.slug = endpoint[e].slug
      /\ row.cap = endpoint[e].cap
      /\ row.user = endpoint[e].user
      /\ row.secret = endpoint[e].secret
      /\ row.password = endpoint[e].password
      /\ endpoint[e].deleted => row.deleted
  BY <1>3, DeletedRow
<1> HIDE DEF row, state, e, old
<1>7. \A d \in Endpoint \ {e} : endpoint[d] # None => endpoint[d].slug # row.slug
  BY <1>3, <1>5, <1>6 DEF ConfigInv, SlugNamesOneEndpoint
<1>8. /\ row.cap => row.secret
      /\ row.user => row.password
  BY <1>3, <1>5, <1>6 DEF ConfigInv, SecretsPresent
<1>9. /\ RowsGrow
      /\ endpoint' \in [Endpoint -> EndpointRow \cup {None}]
      /\ SlugNamesOneEndpoint'
      /\ SecretsPresent'
  BY <1>3, <1>4, <1>6, <1>7, <1>8, RowWritten
<1>10. recipients' \in [Endpoint -> SUBSET Recipient]
  BY <1>1 DEF ConfigInv, ConfigTypeOK
<1> QED
  BY <1>1, <1>2, <1>9, <1>10, StepOfOne
-----------------------------------------------------------------------------
\* Every step keeps the invariant and loses nothing of a row.
LEMMA StepKeepsInv ==
  ASSUME ConfigInv, [ConfigNext]_configVars
  PROVE  RowsGrow /\ ConfigInv'
<1>1. ASSUME NEW a \in Editor, EditStep(a)
      PROVE  RowsGrow /\ ConfigInv'
  BY <1>1, CreateCheckStep, CreateCommitStep, LoadStep, EditCheckStep, DeleteRecipientsStep,
     RecipientsRemovedStep, EditCommitStep, DeleteCommitStep DEF EditStep
<1>2. CASE UNCHANGED configVars
  <2>1. RowsGrow
    BY <1>2, UnchangedRowsGrow DEF configVars
  <2>2. ConfigInv'
    BY <1>2 DEF configVars, ConfigInv, ConfigTypeOK, SlugNamesOneEndpoint, SecretsPresent,
                EditInv, ValidForm, CapComplete, LoginComplete
  <2> QED
    BY <2>1, <2>2
<1> QED
  BY <1>1, <1>2 DEF ConfigNext

(* The invariant of endpoints.py under concurrent requests. *)
THEOREM ConfigInvariance == ConfigSpec => []ConfigInv
<1>1. ConfigInv /\ [ConfigNext]_configVars => ConfigInv'
  BY StepKeepsInv
<1> QED
  BY InitInv, <1>1, PTL DEF ConfigSpec

(* Variables keep their types. *)
THEOREM ConfigTypeCorrect == ConfigSpec => []ConfigTypeOK
<1>1. ConfigInv => ConfigTypeOK
  BY DEF ConfigInv
<1> QED
  BY ConfigInvariance, <1>1, PTL

(* The unique index and the flushes between them keep slugs apart
   (endpoints.py:126, 170, form_endpoint.py:13). *)
THEOREM SlugsAreUnique == ConfigSpec => []SlugNamesOneEndpoint
<1>1. ConfigInv => SlugNamesOneEndpoint
  BY DEF ConfigInv
<1> QED
  BY ConfigInvariance, <1>1, PTL

(* A secret that validation found is there when the row is committed
   (endpoints.py:91-94, 169). *)
THEOREM SecretsAreThere == ConfigSpec => []SecretsPresent
<1>1. ConfigInv => SecretsPresent
  BY DEF ConfigInv
<1> QED
  BY ConfigInvariance, <1>1, PTL

(* No edit revives a deleted endpoint (endpoints.py:186). *)
THEOREM DeletionsAreFinal == ConfigSpec => DeletionIsFinal
<1>1. ConfigInv /\ [ConfigNext]_configVars =>
        [\A e \in Endpoint : endpoint[e] # None /\ ~Found(e) => ~Found(e)']_configVars
  <2> SUFFICES ASSUME ConfigInv, [ConfigNext]_configVars, NEW e \in Endpoint,
                      endpoint[e] # None, ~Found(e)
               PROVE  ~Found(e)'
    OBVIOUS
  <2>1. RowsGrow
    BY StepKeepsInv
  <2> QED
    BY <2>1 DEF RowsGrow, Found
<1> QED
  BY ConfigInvariance, <1>1, PTL DEF ConfigSpec, DeletionIsFinal
=============================================================================
