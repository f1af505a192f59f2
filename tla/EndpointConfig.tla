---------------------------- MODULE EndpointConfig ----------------------------
(* Endpoints and their recipients as administrators create, edit and delete
   them (app/web/endpoints.py), several requests at a time: the application
   runs in two server processes, and any number of administrators may have the
   same page open.

   Atomicity.  One action is one SQL statement that can wait or whose result is
   used later, or the flush and commit that end a handler.  Sessions do
   not flush on queries, so nothing of an edit but the DELETE of the recipients
   reaches the database before the commit.  Transactions are READ COMMITTED.

   Data.  A row keeps the columns that guards and validation look at; site
   stands for the columns of sender and SMTP server, url for a verification URL
   together with a site key.  Secrets are present or not. *)
EXTENDS Integers

CONSTANTS
  Endpoint,   \* ids of endpoint rows
  Slug,
  Email,
  Site,       \* values of the sender and SMTP columns
  Editor,     \* management requests; each is sent once
  Form,       \* what a form may contain: a subset of FormType
  None        \* no row, no value

FormType == [slug : Slug, active : BOOLEAN, limited : BOOLEAN, site : Site,
             cap : BOOLEAN, url : BOOLEAN, user : BOOLEAN,
             password : BOOLEAN,          \* a new SMTP password was typed
             secret : BOOLEAN,            \* a new CAP secret was typed
             emails : SUBSET Email]

ASSUME FormAssumption == Form \subseteq FormType
VARIABLES
  endpoint,    \* endpoint[e]: the row of form_endpoints
  recipients,  \* recipients[e]: its rows of form_endpoint_recipients, each
               \* named by the request that inserted it and its address
  edit         \* edit[a]: management request a

configVars == <<endpoint, recipients, edit>>
-----------------------------------------------------------------------------
EndpointRow == [slug : Slug, active : BOOLEAN, deleted : BOOLEAN, limited : BOOLEAN,
                site : Site, cap : BOOLEAN, url : BOOLEAN, user : BOOLEAN,
                password : BOOLEAN, secret : BOOLEAN]

ASSUME NoValueAssumption == None \notin Endpoint /\ None \notin EndpointRow

Recipient == Editor \X Email

(* pc of a management request:
     sent      not handled yet
     loaded    the endpoint has been read (edit and delete)
     checked   the form is valid and its slug was free
     waiting   DELETE of the recipients has its snapshot, it may have to wait
     removed   the recipients are deleted, not committed
     done      answered *)
EditState == [pc : {"sent", "loaded", "checked", "waiting", "removed", "done"},
              kind : {"create", "edit", "delete"},
              ep : Endpoint \cup {None},
              old : EndpointRow \cup {None},     \* the row as loaded
              form : Form \cup {None},
              gone : SUBSET Recipient]           \* rows its DELETE takes

Sent == [pc |-> "sent", kind |-> "create", ep |-> None, old |-> None,
         form |-> None, gone |-> {}]

ConfigTypeOK == /\ endpoint \in [Endpoint -> EndpointRow \cup {None}]
                /\ recipients \in [Endpoint -> SUBSET Recipient]
                /\ edit \in [Editor -> EditState]

ConfigInit == /\ endpoint = [e \in Endpoint |-> None]
              /\ recipients = [e \in Endpoint |-> {}]
              /\ edit = [a \in Editor |-> Sent]
-----------------------------------------------------------------------------
EditBecomes(a, state) == edit' = [edit EXCEPT ![a] = state]

\* get_endpoint: soft-deleted rows are not found.
Found(e) == endpoint[e] # None /\ ~endpoint[e].deleted

\* Rules of validate_endpoint_config: what CAP needs, and what a login to the server does.
CapComplete(f, existing_cap_secret) == f.cap => f.url /\ (f.secret \/ existing_cap_secret)

LoginComplete(f, existing_smtp_secret) == f.user => f.password \/ existing_smtp_secret

\* Those and its rule on recipients; the other rules are on single fields.
ValidForm(f, existing_smtp_secret, existing_cap_secret) ==
  /\ f.emails # {}
  /\ CapComplete(f, existing_cap_secret)
  /\ LoginComplete(f, existing_smtp_secret)

\* The handler's own look for another endpoint with the slug, deleted ones included.
SlugTaken(slug, self) ==
  \E e \in Endpoint \ {self} : endpoint[e] # None /\ endpoint[e].slug = slug

\* Wrong variant: no unique index.
NoUniqueIndex(slug, self) == FALSE

\* The unique index on slug.
UniqueViolation(slug, self) == SlugTaken(slug, self)

\* Wrong variant: an empty secret field clears the secret.
ClearingSecrets(r, f) == [r EXCEPT !.password = f.password, !.secret = f.secret]

\* A secret is only ever replaced.
KeepingSecrets(r, f) == [r EXCEPT !.password = @ \/ f.password, !.secret = @ \/ f.secret]

apply_values(r, f) ==
  KeepingSecrets([r EXCEPT !.slug = f.slug, !.active = f.active, !.limited = f.limited,
                           !.site = f.site, !.cap = f.cap, !.url = f.url, !.user = f.user], f)

NewEndpoint(f) ==
  apply_values([slug |-> f.slug, active |-> TRUE, deleted |-> FALSE, limited |-> TRUE,
                site |-> f.site, cap |-> FALSE, url |-> FALSE, user |-> FALSE,
                password |-> FALSE, secret |-> FALSE], f)

\* Wrong variant: all columns are written.
WholeRow(current, old, new) == new

(* The UPDATE of a flush sets the columns whose value differs from the loaded
   one, on the row as it is by then. *)
ChangedColumns(current, old, new) ==
  [c \in DOMAIN current |-> IF new[c] = old[c] THEN current[c] ELSE new[c]]
-----------------------------------------------------------------------------
(* endpoint_create_submit up to its checks: the form is shown again or the
   handler goes on. *)
CreateCheck(a) ==
  /\ edit[a].pc = "sent"
  /\ \E f \in Form :
       IF ValidForm(f, FALSE, FALSE) /\ ~SlugTaken(f.slug, None)
       THEN EditBecomes(a, [Sent EXCEPT !.pc = "checked", !.form = f])
       ELSE EditBecomes(a, [Sent EXCEPT !.pc = "done"])
  /\ UNCHANGED <<endpoint, recipients>>

(* Endpoint, recipients and audit row are inserted and committed; an insert
   that meets the unique index rolls back and the request fails. *)
CreateCommit(a) ==
  LET f == edit[a].form IN
  /\ edit[a].pc = "checked"
  /\ edit[a].kind = "create"
  /\ EditBecomes(a, [edit[a] EXCEPT !.pc = "done"])
  /\ IF UniqueViolation(f.slug, None)
     THEN UNCHANGED <<endpoint, recipients>>
     ELSE \E e \in Endpoint :
            /\ endpoint[e] = None
            /\ endpoint' = [endpoint EXCEPT ![e] = NewEndpoint(f)]
            /\ recipients' = [recipients EXCEPT ![e] = {a} \X f.emails]

(* Edit and delete read the endpoint; a request for one that is not there is
   redirected. *)
Load(a) ==
  /\ edit[a].pc = "sent"
  /\ \E e \in Endpoint, kind \in {"edit", "delete"} :
       /\ endpoint[e] # None
       /\ IF Found(e)
          THEN EditBecomes(a, [Sent EXCEPT !.pc = "loaded", !.kind = kind,
                                           !.ep = e, !.old = endpoint[e]])
          ELSE EditBecomes(a, [Sent EXCEPT !.pc = "done", !.kind = kind, !.ep = e])
  /\ UNCHANGED <<endpoint, recipients>>

(* endpoint_edit_submit: validation against the loaded row, the slug against
   the committed ones. *)
EditCheck(a) ==
  LET old == edit[a].old IN
  /\ edit[a].pc = "loaded"
  /\ edit[a].kind = "edit"
  /\ \E f \in Form :
       IF ValidForm(f, old.password, old.secret) /\ ~SlugTaken(f.slug, edit[a].ep)
       THEN EditBecomes(a, [edit[a] EXCEPT !.pc = "checked", !.form = f])
       ELSE EditBecomes(a, [edit[a] EXCEPT !.pc = "done"])
  /\ UNCHANGED <<endpoint, recipients>>

(* replace_recipients: the DELETE takes the rows committed when it starts. *)
DeleteRecipients(a) ==
  /\ edit[a].pc = "checked"
  /\ edit[a].kind = "edit"
  /\ EditBecomes(a, [edit[a] EXCEPT !.pc = "waiting", !.gone = recipients[edit[a].ep]])
  /\ UNCHANGED <<endpoint, recipients>>

\* Another transaction has deleted one of the rows and not committed.
Blocked(a) == \E b \in Editor : edit[b].pc = "removed" /\ edit[b].gone \cap edit[a].gone # {}

(* The DELETE has all its row locks; rows deleted meanwhile are passed over. *)
RecipientsRemoved(a) ==
  /\ edit[a].pc = "waiting"
  /\ ~Blocked(a)
  /\ EditBecomes(a, [edit[a] EXCEPT !.pc = "removed", !.gone = @ \cap recipients[edit[a].ep]])
  /\ UNCHANGED <<endpoint, recipients>>

(* Flush and commit of an edit, or its rollback on the unique index. *)
EditCommit(a) ==
  LET e == edit[a].ep
      row == ChangedColumns(endpoint[e], edit[a].old, apply_values(edit[a].old, edit[a].form)) IN
  /\ edit[a].pc = "removed"
  /\ EditBecomes(a, [edit[a] EXCEPT !.pc = "done", !.gone = {}])
  /\ IF UniqueViolation(row.slug, e)
     THEN UNCHANGED <<endpoint, recipients>>
     ELSE /\ endpoint' = [endpoint EXCEPT ![e] = row]
          /\ recipients' = [recipients EXCEPT
                              ![e] = (@ \ edit[a].gone) \cup ({a} \X edit[a].form.emails)]

(* endpoint_delete_submit: soft deletion, recipients stay. *)
DeleteCommit(a) ==
  LET e == edit[a].ep
      old == edit[a].old IN
  /\ edit[a].pc = "loaded"
  /\ edit[a].kind = "delete"
  /\ EditBecomes(a, [edit[a] EXCEPT !.pc = "done"])
  /\ endpoint' = [endpoint EXCEPT ![e] =
                    ChangedColumns(@, old, [old EXCEPT !.deleted = TRUE, !.active = FALSE])]
  /\ UNCHANGED recipients

EditStep(a) == \/ CreateCheck(a) \/ CreateCommit(a)
               \/ Load(a) \/ EditCheck(a) \/ DeleteRecipients(a)
               \/ RecipientsRemoved(a) \/ EditCommit(a) \/ DeleteCommit(a)

ConfigNext == \E a \in Editor : EditStep(a)

ConfigSpec == ConfigInit /\ [][ConfigNext]_configVars
-----------------------------------------------------------------------------
(* A slug names one endpoint, although two requests may both have found it
   free (endpoints.py:126, 170). *)
SlugNamesOneEndpoint ==
  \A d, e \in Endpoint :
    endpoint[d] # None /\ endpoint[e] # None /\ endpoint[d].slug = endpoint[e].slug => d = e

(* Validation takes a secret for present that it saw in the row it loaded
   (endpoints.py:169); whatever other edits do before the commit, an endpoint
   with CAP or SMTP authentication has the secret. *)
SecretsPresent ==
  \A e \in Endpoint : endpoint[e] # None =>
    /\ endpoint[e].cap => endpoint[e].secret
    /\ endpoint[e].user => endpoint[e].password

(* A deletion is not undone by an edit that loaded the endpoint before and
   commits after it. *)
DeletionIsFinal ==
  [][\A e \in Endpoint : endpoint[e] # None /\ ~Found(e) => ~Found(e)']_configVars

(* What an open edit or deletion relies on: the row it loaded is still there and
   has lost no secret, and its form is valid for the row as loaded. *)
EditInv(a) ==
  LET s == edit[a] IN
  /\ s.pc = "loaded" => s.kind # "create"
  /\ s.pc \in {"waiting", "removed"} => s.kind = "edit"
  /\ s.pc \in {"checked", "waiting", "removed"} => s.form \in Form
  /\ s.pc = "checked" /\ s.kind = "create" => ValidForm(s.form, FALSE, FALSE)
  /\ s.pc \notin {"sent", "done"} /\ s.kind # "create" =>
       /\ s.ep \in Endpoint
       /\ s.old \in EndpointRow
       /\ endpoint[s.ep] \in EndpointRow
       /\ s.old.secret => endpoint[s.ep].secret
       /\ s.old.password => endpoint[s.ep].password
  /\ s.pc \in {"checked", "waiting", "removed"} /\ s.kind = "edit" =>
       ValidForm(s.form, s.old.password, s.old.secret)

\* The inductive invariant of ConfigSpec.
ConfigInv == /\ ConfigTypeOK
             /\ SlugNamesOneEndpoint
             /\ SecretsPresent
             /\ \A a \in Editor : EditInv(a)

(* endpoint_validation.py:112: the full CAP siteverify URL is required when CAP
   is enabled. *)
CapHasUrl == \A e \in Endpoint : endpoint[e] # None /\ endpoint[e].cap => endpoint[e].url

(* delivery_queue.py:47: snapshot recipients must not contain duplicates.  The
   form's recipients are made distinct, and an edit replaces the former ones. *)
RecipientsDistinct ==
  \A e \in Endpoint : \A p, q \in recipients[e] : p[2] = q[2] => p = q
=============================================================================
