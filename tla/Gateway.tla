------------------------------- MODULE Gateway -------------------------------
(* The way into an endpoint (app/api/forms.py:25-82, app/core/cors.py): administrators
   edit its allowed origins, a page asks with a preflight and posts a form, proxies
   carry the request, and the handler decides by origin and address before it
   reads a body.

   Requests share nothing but the endpoint, so one request at a time, with edits
   between its steps, shows all there is.  The handler reads the list once, at the
   lookup, and answers with it after its awaits.  An edit loads the row, awaits its
   form and at its commit writes the columns that differ from what it loaded; edits
   overlap.  What browsers and proxies do is external: browsers send origins in
   canonical form and let a page read an answer whose Access-Control-Allow-Origin
   is its own. *)
EXTENDS Origins, ClientIp

CONSTANTS
  Text,      \* texts of origins
  Editor,    \* requests that edit the endpoint, each again and again
  Site,      \* installations
  Setup      \* Setup[s]: who edits what there, who posts, through how many proxies

ASSUME GatewayAssumption ==
  /\ Text \subseteq Origin
  /\ Setup \in [Site -> [editors : SUBSET Editor, lists : SUBSET (SUBSET Text),
                         pages : SUBSET Text, clients : SUBSET Address, hops : Nat]]

\* A name says all of a host but how its dots are written.
ASSUME NameAssumption ==
  \A o, p \in Text : o.host.name = p.host.name =>
    [o.host EXCEPT !.wide = FALSE] = [p.host EXCEPT !.wide = FALSE]

VARIABLES
  site,      \* the installation; it does not change
  active,    \* is_active of the endpoint
  deleted,   \* its is_deleted
  stored,    \* its column allowed_origins
  typed,     \* history: what was typed in the form that wrote the column
  edit,      \* edit[a]: the row as edit a has loaded it
  req        \* the request

endpoint == <<active, deleted, stored, typed, edit>>

vars == <<site, endpoint, req>>
-----------------------------------------------------------------------------
EditState == [open : BOOLEAN,
              list : SUBSET Origin,
              active : BOOLEAN,
              overtaken : BOOLEAN]    \* history: another edit committed meanwhile

NoEdit == [open |-> FALSE, list |-> {}, active |-> FALSE, overtaken |-> FALSE]

(* pc: nothing yet, preflight answered, on its way, let in and waiting for body
   and CAP service, answered, ended by an exception. *)
RequestState == [pc : {"none", "asked", "sent", "entered", "answered", "failed"},
                 origin : Text \cup {None},
                 asked : SUBSET Text,         \* history: typed at the preflight
                 approved : BOOLEAN,
                 path : Seq(Address),         \* history: who carried it so far
                 forwarded : Seq(Address \cup {Junk}),
                 given : {0, 1},              \* history: parts of the header its client sent
                 list : SUBSET Origin,        \* allowed_origins of the handler
                 listed : SUBSET Text,        \* history: typed when it was read
                 verdict : {"none", "missing", "disabled", "refused", "in"},
                 address : Address \cup {Nobody},
                 readable : Origin \cup {None}]

NoRequest == [pc |-> "none", origin |-> None, asked |-> {}, approved |-> FALSE,
              path |-> <<>>, forwarded |-> <<>>, given |-> 0,
              list |-> {}, listed |-> {}, verdict |-> "none", address |-> Nobody,
              readable |-> None]

TypeOK == /\ site \in Site
          /\ active \in BOOLEAN
          /\ deleted \in BOOLEAN
          /\ stored \subseteq Origin
          /\ typed \subseteq Text
          /\ edit \in [Editor -> EditState]
          /\ req \in RequestState

Init == /\ site \in Site
        /\ active = TRUE
        /\ deleted = FALSE
        /\ stored = {}
        /\ typed = {}
        /\ edit = [a \in Editor |-> NoEdit]
        /\ req = NoRequest
-----------------------------------------------------------------------------
Here == Setup[site]

\* endpoint_edit_submit reads the row; a deleted one is not found.
Load(a) == /\ ~edit[a].open
           /\ ~deleted
           /\ edit' = [edit EXCEPT ![a] = [open |-> TRUE, list |-> stored, active |-> active,
                                          overtaken |-> FALSE]]
           /\ UNCHANGED <<site, active, deleted, stored, typed, req>>

(* origins_from_text or another rule refuses the form, or origins_to_storage
   raises, which nothing catches. *)
EditRefused(a) == /\ edit[a].open
                  /\ edit' = [edit EXCEPT ![a] = NoEdit]
                  /\ UNCHANGED <<site, active, deleted, stored, typed, req>>

\* Wrong variant: only new entries are a change.
KeepsUnlessAdded(loaded, value) == value \subseteq loaded

\* The flush leaves the column alone if the text is the loaded one.
Keeps(loaded, value) == value = loaded

\* It writes another text; the same entries in another order are one.
Writes(loaded, value) == value # loaded \/ \E o, p \in value : o # p

\* The rest of endpoint_edit_submit, for a form with these lines.
EditCommit(a, lines) ==
  /\ edit[a].open
  /\ edit' = [b \in Editor |-> IF b = a THEN NoEdit
                               ELSE [edit[b] EXCEPT !.overtaken = edit[b].open]]
  /\ AllNormal(lines)
  /\ \E value \in origins_to_storage(normalize_origins(lines)) :
       \/ /\ Keeps(edit[a].list, value)
          /\ UNCHANGED <<stored, typed>>
       \/ /\ Writes(edit[a].list, value)
          /\ stored' = value
          /\ typed' = lines
  /\ \E checked \in BOOLEAN : active' = IF checked = edit[a].active THEN active ELSE checked
  /\ UNCHANGED <<site, deleted, req>>

(* endpoint_delete_submit.  What it writes does not depend on what it loads, but
   for is_active of a row that nobody finds any more. *)
Delete == /\ ~deleted
          /\ deleted' = TRUE
          /\ active' = FALSE
          /\ UNCHANGED <<site, stored, typed, edit, req>>

Allowed == origins_from_storage(stored)

(* form_preflight and preflight_response approve; ordinary: POST, and headers of
   ALLOWED_HEADERS only. *)
Approves(origin, ordinary) == /\ active /\ ~deleted
                              /\ origin # None
                              /\ origin_is_allowed(origin, Allowed)
                              /\ ordinary

\* The browser wants its own origin in the answer.
Preflight ==
  /\ req.pc = "none"
  /\ \E origin \in Here.pages \cup {None}, ordinary \in BOOLEAN :
       req' = [req EXCEPT
         !.pc = "asked", !.origin = origin, !.asked = typed,
         !.approved = Approves(origin, ordinary) /\ apply_cors(origin, Allowed) = origin]
  /\ UNCHANGED <<site, endpoint>>

(* A client posts, after an approved preflight or without one, with at most one
   part in X-Forwarded-For. *)
Post ==
  /\ \/ req.pc = "asked" /\ req.approved
     \/ req.pc = "none"
  /\ \E origin \in IF req.pc = "asked" THEN {req.origin} ELSE Here.pages \cup {None},
        client \in Here.clients,
        given \in {<<>>} \cup {<<part>> : part \in Address \cup {Junk}} :
       req' = [NoRequest EXCEPT !.pc = "sent", !.origin = origin, !.path = <<client>>,
                                !.forwarded = given, !.given = Len(given)]
  /\ UNCHANGED <<site, endpoint>>

\* A proxy takes the request and adds whom it has it from.
Forward ==
  /\ req.pc = "sent"
  /\ Len(req.path) <= Here.hops
  /\ \E proxy \in Address :
       req' = [req EXCEPT !.path = Append(@, proxy),
                          !.forwarded = Append(@, req.path[Len(req.path)])]
  /\ UNCHANGED <<site, endpoint>>

\* submit_form: the lookup, is_active, the check of the origin.
Verdict(origin) == CASE deleted -> "missing"
                     [] ~deleted /\ ~active -> "disabled"
                     [] OTHER -> IF origin_is_allowed(origin, Allowed) THEN "in" ELSE "refused"

\* submit_form up to the rate limiter; a refused request is logged with its address.
Arrive ==
  /\ req.pc = "sent"
  /\ \E real_ip \in Address \cup {Junk, Nobody} :
       req' = [req EXCEPT
         !.pc = "entered",
         !.list = IF deleted THEN {} ELSE Allowed,
         !.listed = typed,
         !.verdict = Verdict(req.origin),
         !.address = IF Verdict(req.origin) \in {"in", "refused"}
                     THEN get_client_ip(req.path[Len(req.path)], req.forwarded, real_ip)
                     ELSE @]
  /\ UNCHANGED <<site, endpoint>>

\* The end of a request, whose route is forgotten.
Ends(pc, readable) ==
  /\ req.pc = "entered"
  /\ req' = [req EXCEPT !.pc = pc, !.path = <<>>, !.forwarded = <<>>, !.given = 0,
                        !.address = Nobody, !.readable = readable]
  /\ UNCHANGED <<site, endpoint>>

\* endpoint_response, whatever the handler awaited before; without it for a 404.
Answer == Ends("answered",
               IF req.verdict = "missing" THEN None ELSE apply_cors(req.origin, req.list))

(* An exception of the CAP client or the database that the handler does not catch:
   the server's plain 500, which apply_cors has not seen. *)
Fail == /\ req.verdict \in {"in", "refused"}
        /\ Ends("failed", None)

\* The client is done, or the page was not allowed to post.
Again == /\ req.pc \in {"answered", "failed"} \/ (req.pc = "asked" /\ ~req.approved)
         /\ req' = NoRequest
         /\ UNCHANGED <<site, endpoint>>

Edit(a) == \/ Load(a) \/ EditRefused(a)
           \/ \E lines \in Here.lists : EditCommit(a, lines)

Next == \/ \E a \in Here.editors : Edit(a)
        \/ Delete
        \/ Preflight \/ Post \/ Forward \/ Arrive \/ Answer \/ Fail \/ Again

Spec == Init /\ [][Next]_vars
-----------------------------------------------------------------------------
(* When two texts name the same origin, by scheme, host and effective port. *)
EffectivePort(o) == IF o.port # None THEN o.port ELSE IF o.scheme = "http" THEN 80 ELSE 443

SameOrigin(o, p) == /\ o.scheme = p.scheme
                    /\ o.host.name = p.host.name
                    /\ EffectivePort(o) = EffectivePort(p)

Named(origin, lines) == \E o \in lines : o # None /\ origin # None /\ SameOrigin(o, origin)

(* An edit that no other one overtakes takes effect: after its commit the column
   stands for what was typed, although it is written only if it differs from what
   was loaded before the form was awaited (endpoints.py:166-177).  Of an edit that
   is overtaken the list may be lost. *)
SavedListsTakeEffect ==
  [][\A a \in Editor, lines \in Here.lists :
       ~edit[a].overtaken /\ EditCommit(a, lines) =>
         /\ \A p \in stored' : \E o \in lines : SameOrigin(o, p)
         /\ \A o \in lines : \E p \in stored' : SameOrigin(o, p)]_vars

(* README.md:146: with a list, a submission must name one of its origins, and
   leaving the origin out does not bypass the list.  The list is the one typed in
   the form that wrote the column, which of two overlapping edits need not be the
   last; it is read back as it was meant, never as the empty list, and neither a
   preflight nor an answer given after an edit tells another page it may read
   (origins.py:56-68, forms.py:71). *)
AdmittedWereListed ==
  /\ req.verdict = "in" => req.listed = {} \/ Named(req.origin, req.listed)
  /\ req.readable # None => req.listed = {} \/ Named(req.readable, req.listed)
  /\ req.approved => req.asked = {} \/ Named(req.origin, req.asked)

(* What a browser sends: canonical, without the default port; for a host that is an
   address or a name DNS allows. *)
FromBrowser(o) == /\ o # None
                  /\ o.bare /\ o.plain /\ ~o.host.wide
                  /\ IF looks_like_ip(o.host) THEN o.host.address ELSE o.host.labels
                  /\ o.scheme \in {"http", "https"}
                  /\ o.port \in ({None} \cup 1 .. MaxPort) \ {IF o.scheme = "http" THEN 80 ELSE 443}

(* README.md:144: case, notation and default ports do not matter.  A page that
   the list in force names, however it was typed, or any page without a list, is not
   refused, and every answer of the handler is one it may read.  Only a plain 404 or
   500 is not (origins.py:37, cors.py:19-28). *)
ListedPagesAreServed ==
  FromBrowser(req.origin) /\ (req.listed = {} \/ Named(req.origin, req.listed)) =>
    /\ req.verdict # "refused"
    /\ req.pc = "answered" /\ req.verdict # "missing" => req.readable = req.origin

(* README.md:112: forwarded values count only from trusted peers.  A client outside
   the trusted networks cannot choose the address it is counted under: it is the
   last untrusted one that carried the request, or the peer if something in the
   header cannot be read, and never one that only its client wrote (client_ip.py:39). *)
ClientAddressIsTheirs ==
  req.pc = "entered" /\ req.verdict \in {"in", "refused"} =>
    LET hops == DOMAIN req.path
        peer == req.path[Len(req.path)]
        strangers == {i \in hops : req.path[i] \notin Trusted}
        junk == req.given = 1 /\ req.forwarded[1] = Junk IN
    /\ strangers # {} =>
         \/ \E i \in strangers : /\ req.address = req.path[i]
                                 /\ \A k \in strangers : k <= i
         \/ junk /\ req.address = peer
    /\ peer \notin Trusted => req.address = peer
=============================================================================
