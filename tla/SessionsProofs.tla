---------------------------- MODULE SessionsProofs ----------------------------
(* Sessions end with changes of their users, and for nothing else, for any users,
   requests and forms.

   The argument is SessionsInv.  A request that changes a user remembers in seen the
   sessions it could see when it loaded the user.  None of them can come back, since
   a session is opened once, by a login that has passed that point (Opened).  While
   the DELETE is under way each is in gone or has ended otherwise, so that the
   commit leaves none.  For one server process: at most one body is under way
   (Exclusive), so that a login finds the user as it verified it, and a DELETE
   finds all sessions there are. *)
EXTENDS Sessions, FiniteSetTheorems, TLAPS

\* The session of login t exists or has existed; it is never opened again.
Opened(t) == t \in Request => /\ request[t].kind = "login"
                              /\ request[t].pc \in {"opened", "done", "died"}

\* The request is about to change its target.
Changing(q) == \/ q.pc \in {"loaded", "waiting", "removed"}
               \/ q.pc = "checked" /\ q.kind = "edit"

\* What a request knows, by where it is.
Flow(q) ==
  /\ q.kind = "login" => q.pc \in {"sent", "verified", "opened", "done", "died"}
  /\ q.pc \in {"verified", "opened"} => q.kind = "login" /\ q.me # None
  /\ q.pc \in {"verified", "opened", "session"} => q.actor # None
  /\ q.pc = "session" => q.cookie # None /\ q.kind \notin {"login", "script"}
  /\ q.pc = "in" /\ q.kind # "logout" => q.actor # None /\ q.me # None
  /\ q.pc \in {"loaded", "waiting", "removed"} => q.kind \in {"edit", "deactivate"}
  /\ q.pc = "checked" => q.kind \in {"create", "script", "edit"}
  /\ Changing(q) => q.target # None /\ q.old # None
  /\ q.pc = "checked" => q.form # None /\ ValidRole(q.form)
  /\ q.pc \in {"waiting", "removed"} /\ q.kind = "edit" =>
       q.form # None /\ ValidRole(q.form) /\ EndsSessions(q.old, q.form)
  /\ q.pc \notin {"waiting", "removed"} => q.gone = {}

\* The users a request refers to exist.
Known(q) == /\ q.actor # None => user[q.actor] # None
            /\ q.target # None => user[q.target] # None

\* The change ends the sessions of its user.
Ending(q) == q.kind = "edit" =>
  q.form.password = "good" \/ (q.old.active /\ ~q.form.active)

\* What has become of the sessions that a request saw, and of those it deletes.
Fate(r, q) ==
  /\ \A t \in q.seen :
       /\ Opened(t)
       /\ session[t] # None => session[t].owner = q.target
       /\ q.pc \in {"waiting", "removed"} => session[t] = None \/ t \in q.gone
       /\ Committed(r) /\ Ending(q) => session[t] = None
  /\ \A t \in q.gone : Opened(t) /\ (session[t] # None => session[t].owner = q.target)

\* Audit rows are written with the step they report.
Audited(r, q) ==
  /\ Committed(r) => q.pc = "done"
  /\ q.kind = "login" /\ q.pc = "done" /\ q.actor # None => <<r, "Login">> \in audit
  /\ q.cookie \in Request => <<q.cookie, "Login">> \in audit

Local(r, q) == Flow(q) /\ Known(q) /\ Fate(r, q) /\ Audited(r, q)

\* Sessions belong to users that exist, and come from logins that opened them.
Owned == \A t \in Token : session[t] # None =>
           user[session[t].owner] # None /\ Opened(t)

Exclusive == workers = 1 => \A r, q \in Request : InBody(r) /\ InBody(q) => r = q

\* With one server: logins are up to date, and DELETEs find every session.
OneServer == workers = 1 =>
  \A r \in Request : LET q == request[r] IN
    /\ q.pc = "verified" => user[q.actor].active /\ user[q.actor].hash = q.me.hash
    /\ q.pc \in {"waiting", "removed"} => SessionsOf(q.target) \subseteq q.gone

SessionsInv == /\ TypeOK
               /\ \A r \in Request : Local(r, request[r])
               /\ Owned
               /\ Exclusive
               /\ OneServer
               /\ OneServerSessions
-----------------------------------------------------------------------------
(* Operators. *)

\* The columns of a row after a flush.
LEMMA ColumnsOfChange ==
  ASSUME NEW current \in UserRow, NEW old \in UserRow, NEW new \in UserRow
  PROVE  LET row == ChangedColumns(current, old, new) IN
         /\ row \in UserRow
         /\ row.active = IF new.active = old.active THEN current.active ELSE new.active
         /\ row.hash = IF new.hash = old.hash THEN current.hash ELSE new.hash
<1> DEFINE row == ChangedColumns(current, old, new)
<1>1. DOMAIN current = {"name", "role", "active", "hash"}
  BY DEF UserRow
<1>2. row = [c \in {"name", "role", "active", "hash"} |->
               IF new[c] = old[c] THEN current[c] ELSE new[c]]
  BY <1>1 DEF ChangedColumns
<1> HIDE DEF row
<1>3. /\ row.name = IF new.name = old.name THEN current.name ELSE new.name
      /\ row.role = IF new.role = old.role THEN current.role ELSE new.role
      /\ row.active = IF new.active = old.active THEN current.active ELSE new.active
      /\ row.hash = IF new.hash = old.hash THEN current.hash ELSE new.hash
  BY <1>2
<1>4. row = [name |-> row.name, role |-> row.role, active |-> row.active, hash |-> row.hash]
  BY <1>2
<1>5. row \in UserRow
  BY <1>3, <1>4 DEF UserRow
<1> QED
  BY <1>3, <1>5 DEF row

\* What the handlers assign is a row, and says what the form or the click said.
LEMMA AssignedRow ==
  ASSUME NEW r \in Request, NEW q \in RequestState, request[r] = q,
         Changing(q), Flow(q), q.pc # "loaded"
  PROVE  /\ Assigned(r) \in UserRow
         /\ q.kind = "deactivate" => ~Assigned(r).active
         /\ q.kind = "edit" => /\ Assigned(r).active = q.form.active
                               /\ q.form.password # "good" => Assigned(r).hash = q.old.hash
<1>1. /\ q.old \in UserRow
      /\ q.kind \in {"edit", "deactivate"}
  BY DEF Changing, Flow, RequestState
<1>2. CASE q.kind = "deactivate"
  <2>1. Assigned(r) = [q.old EXCEPT !.active = FALSE]
    BY <1>2 DEF Assigned, Deactivated
  <2> QED
    BY <1>1, <1>2, <2>1 DEF UserRow
<1>3. CASE q.kind = "edit"
  <2>1. q.form \in FormType /\ ValidRole(q.form)
    BY <1>3, SessionsAssumption DEF Changing, Flow, RequestState
  <2> DEFINE hash == IF q.form.password = "good" THEN r ELSE q.old.hash
  <2>2. Assigned(r) = [name |-> q.form.name, role |-> q.form.role,
                       active |-> q.form.active, hash |-> hash]
    BY <1>3 DEF Assigned, Edited
  <2>3. hash \in Hash
    BY <1>1 DEF UserRow, Hash
  <2> HIDE DEF hash
  <2>4. Assigned(r) \in UserRow
    BY <2>1, <2>2, <2>3 DEF UserRow, FormType, ValidRole
  <2> QED
    BY <1>3, <2>2, <2>4 DEF hash
<1> QED
  BY <1>1, <1>2, <1>3

\* One free server process of one is every process there is.
LEMMA NobodyElse ==
  ASSUME FreeWorker, workers = 1
  PROVE  \A q \in Request : ~InBody(q)
<1> DEFINE B == {q \in Request : InBody(q)}
<1>1. IsFiniteSet(B)
  BY SessionsAssumption, FS_Subset
<1>2. Cardinality(B) < 1 /\ Cardinality(B) \in Nat
  BY <1>1, FS_CardinalityType DEF FreeWorker
<1>3. B = {}
  BY <1>1, <1>2, FS_EmptySet
<1> QED
  BY <1>3
-----------------------------------------------------------------------------
(* Frames. *)

\* Exclusion is kept by a step of one request that enters its body at a free process.
LEMMA StaysExclusive ==
  ASSUME TypeOK, Exclusive, NEW r \in Request, NEW q, Becomes(r, q), workers' = workers,
         InBody(r)' => InBody(r) \/ FreeWorker
  PROVE  Exclusive'
<1>1. \A p \in Request \ {r} : request'[p] = request[p]
  BY DEF Becomes, TypeOK
<1>2. \A p \in Request \ {r} : InBody(p)' <=> InBody(p)
  BY <1>1 DEF InBody
<1>3. ASSUME workers = 1, NEW a \in Request, NEW b \in Request, InBody(a)', InBody(b)', a # b
      PROVE  FALSE
  <2>1. CASE a # r /\ b # r
    BY <1>2, <1>3, <2>1 DEF Exclusive
  <2>2. CASE a = r \/ b = r
    <3>1. PICK p \in Request \ {r} : InBody(p)
      BY <1>2, <1>3, <2>2
    <3>2. InBody(r)'
      BY <1>3, <2>2
    <3> QED
      BY <1>3, <3>1, <3>2, NobodyElse DEF Exclusive
  <2> QED
    BY <2>1, <2>2
<1> QED
  BY <1>3 DEF Exclusive

\* What is shown of a request's next state holds of the request in the next state.
LEMMA LocalAfter ==
  ASSUME NEW r \in Request, NEW q, request'[r] = q, Flow(q), Known(q)', Fate(r, q)', Audited(r, q)'
  PROVE  Local(r, request[r])'
<1>1. Flow(request[r])'
  OBVIOUS
<1>2. Known(request[r])'
  BY DEF Known
<1>3. Fate(r, request[r])'
  BY DEF Fate, Ending, Committed
<1>4. Audited(r, request[r])'
  BY DEF Audited, Committed
<1> QED
  BY <1>1, <1>2, <1>3, <1>4 DEF Local

(* A step of request r that leaves users and sessions alone and writes no audit row
   of a change: what is left to show is about r. *)
LEMMA RequestStep ==
  ASSUME SessionsInv, NEW r \in Request, NEW q \in RequestState, Becomes(r, q),
         UNCHANGED <<workers, user, session>>,
         \/ UNCHANGED audit
         \/ \E action \in {"Login", "Failed Login"} : Logs(r, action),
         request[r].pc \notin {"done", "died"},
         request[r].pc = "opened" => q.kind = "login" /\ q.pc \in {"done", "died"},
         InBody(r)' => InBody(r) \/ FreeWorker,
         Flow(q), Known(q), Fate(r, q),
         q.kind = "login" /\ q.pc = "done" /\ q.actor # None => <<r, "Login">> \in audit',
         q.cookie \in Request => <<q.cookie, "Login">> \in audit',
         workers = 1 /\ q.pc = "verified" =>
           user[q.actor].active /\ user[q.actor].hash = q.me.hash,
         workers = 1 /\ q.pc \in {"waiting", "removed"} => SessionsOf(q.target) \subseteq q.gone
  PROVE  SessionsInv'
<1>1. /\ request \in [Request -> RequestState]
      /\ request' = [request EXCEPT ![r] = q]
      /\ request'[r] = q
      /\ \A p \in Request \ {r} : request'[p] = request[p]
  BY DEF SessionsInv, TypeOK, Becomes
<1>2. /\ audit \subseteq audit' /\ audit' \subseteq Request \X Actions
      /\ \A p \in Request : Committed(p)' <=> Committed(p)
      /\ ~Committed(r)
  <2>1. ASSUME UNCHANGED audit
        PROVE  /\ audit \subseteq audit' /\ audit' \subseteq Request \X Actions
               /\ \A p \in Request : Committed(p)' <=> Committed(p)
    BY <2>1 DEF SessionsInv, TypeOK, Committed
  <2>2. ASSUME NEW action \in {"Login", "Failed Login"}, audit' = audit \cup {<<r, action>>}
        PROVE  /\ audit \subseteq audit' /\ audit' \subseteq Request \X Actions
               /\ \A p \in Request : Committed(p)' <=> Committed(p)
    <3>1. <<r, action>> \in Request \X Actions
      BY DEF Actions
    <3>2. audit \subseteq Request \X Actions
      BY DEF SessionsInv, TypeOK
    <3>3. \A p \in Request : \A change \in {"User Updated", "User Deactivated"} :
            <<p, change>> # <<r, action>>
      OBVIOUS
    <3> QED
      BY <2>2, <3>1, <3>2, <3>3 DEF Committed
  <2>3. ~Committed(r)
    BY DEF SessionsInv, Local, Audited
  <2> QED
    BY <2>1, <2>2, <2>3 DEF Logs
<1>3. \A t : Opened(t) => Opened(t)'
  BY <1>1 DEF Opened
<1>4. TypeOK'
  BY <1>1, <1>2 DEF SessionsInv, TypeOK
<1>5. ASSUME NEW p \in Request
      PROVE  Local(p, request[p])'
  <2>1. CASE p = r
    <3>1. Flow(q) /\ Known(q)'
      BY DEF Known
    <3>2. Fate(r, q)'
      BY <1>2, <1>3 DEF Fate
    <3>3. Audited(r, q)'
      BY <1>2 DEF Audited
    <3> QED
      BY <1>1, <2>1, <3>1, <3>2, <3>3, LocalAfter
  <2>2. CASE p # r
    <3>0. PICK s : s = request[p]
      OBVIOUS
    <3>1. Flow(s) /\ Known(s) /\ Fate(p, s) /\ Audited(p, s) /\ request'[p] = s
      BY <1>1, <2>2, <3>0 DEF SessionsInv, Local
    <3>2. Fate(p, s)'
      BY <1>2, <1>3, <3>1 DEF Fate
    <3>3. Known(s)'
      BY <3>1 DEF Known
    <3>4. Audited(p, s)'
      BY <1>2, <3>1 DEF Audited
    <3> QED
      BY <3>1, <3>2, <3>3, <3>4, LocalAfter
  <2> QED
    BY <2>1, <2>2
<1>6. Owned'
  BY <1>3 DEF SessionsInv, Owned
<1>7. Exclusive'
  BY StaysExclusive DEF SessionsInv
<1>8. OneServer'
  BY <1>1 DEF SessionsInv, OneServer, SessionsOf
<1>9. OneServerSessions'
  BY DEF SessionsInv, OneServerSessions
<1> QED
  BY <1>4, <1>5, <1>6, <1>7, <1>8, <1>9 DEF SessionsInv
-----------------------------------------------------------------------------
(* The steps of logins and of authentication. *)

\* The initial state satisfies the invariant.
LEMMA InitSessions == Init => SessionsInv
<1> SUFFICES ASSUME Init  PROVE SessionsInv
  OBVIOUS
<1>1. Sent \in RequestState
  BY DEF Sent, RequestState
<1>2. [owner |-> Founder, hash |-> None, expired |-> FALSE] \in SessionRow
  BY SessionsAssumption DEF SessionRow, Hash
<1>3. TypeOK
  BY <1>1, <1>2, SessionsAssumption DEF Init, TypeOK
<1>4. \A r \in Request : request[r] = Sent
  BY DEF Init
<1>5. ASSUME NEW r \in Request  PROVE Local(r, request[r])
  BY <1>4, NoneAssumption DEF Init, Sent, Local, Flow, Changing, Known, Fate, Audited, Committed, Token
<1>6. \A t \in Token : session[t] # None =>
        t = First /\ session[t] = [owner |-> Founder, hash |-> None, expired |-> FALSE]
  BY DEF Init, Token
<1>7. Owned
  BY <1>6, SessionsAssumption DEF Owned, Opened, Init
<1>8. Exclusive
  BY <1>4 DEF Exclusive, InBody, Sent
<1>9. OneServer
  BY <1>4 DEF OneServer, Sent
<1>10. OneServerSessions
  BY <1>6, SessionsAssumption DEF OneServerSessions, Init
<1> QED
  BY <1>3, <1>5, <1>7, <1>8, <1>9, <1>10 DEF SessionsInv

\* A request that has not come to anything.
LEMMA FreshRequest ==
  ASSUME NEW r \in Request, NEW q \in RequestState, q.pc \in {"done", "in"},
         q.kind = "login" => q.pc = "done", q.pc = "in" => q.kind = "logout",
         q.actor = None, q.target = None, q.seen = {}, q.gone = {}
  PROVE  Flow(q) /\ Known(q) /\ Fate(r, q)
BY DEF Flow, Changing, Known, Fate

\* The three outcomes of a login's check.
LEMMA LoginVerifySessions ==
  ASSUME SessionsInv, NEW r \in Request, LoginVerify(r)
  PROVE  SessionsInv'
<1>1. request[r].pc = "sent" /\ FreeWorker /\ UNCHANGED <<workers, user, session>>
  BY DEF LoginVerify
<1>2. ASSUME NEW u \in User, user[u] # None, user[u].active, UNCHANGED audit,
             Becomes(r, [Sent EXCEPT !.pc = "verified", !.actor = u, !.me = user[u]])
      PROVE  SessionsInv'
  <2>1. PICK q : q = [Sent EXCEPT !.pc = "verified", !.actor = u, !.me = user[u]]
    OBVIOUS
  <2>2. /\ q.pc = "verified" /\ q.kind = "login" /\ q.actor = u /\ q.me = user[u]
        /\ q.cookie = None /\ q.target = None /\ q.seen = {} /\ q.gone = {}
    BY <2>1 DEF Sent
  <2>3. q \in RequestState
    BY <2>1 DEF SessionsInv, TypeOK, Sent, RequestState
  <2>4. Flow(q) /\ Known(q) /\ Fate(r, q)
    BY <1>2, <2>2, NoneAssumption DEF Flow, Changing, Known, Fate
  <2>5. None \notin Request
    BY NoneAssumption DEF Token
  <2> QED
    BY <1>1, <1>2, <2>1, <2>2, <2>3, <2>4, <2>5, RequestStep
<1>3. ASSUME Becomes(r, [Sent EXCEPT !.pc = "done"]),
             UNCHANGED audit \/ Logs(r, "Failed Login")
      PROVE  SessionsInv'
  <2>1. PICK q : q = [Sent EXCEPT !.pc = "done"]
    OBVIOUS
  <2>2. /\ q \in RequestState /\ q.pc = "done" /\ q.kind = "login" /\ q.cookie = None
        /\ q.actor = None /\ q.target = None /\ q.seen = {} /\ q.gone = {}
    BY <2>1 DEF Sent, RequestState
  <2>3. Flow(q) /\ Known(q) /\ Fate(r, q)
    BY <2>2, FreshRequest
  <2>4. None \notin Request
    BY NoneAssumption DEF Token
  <2>5. Becomes(r, q) /\ ~InBody(r)'
    BY <1>3, <2>1, <2>2 DEF Becomes, InBody, SessionsInv, TypeOK
  <2> QED
    BY <1>1, <1>3, <2>2, <2>3, <2>4, <2>5, RequestStep
<1> QED
  BY <1>2, <1>3 DEF LoginVerify

\* The new session is up to date where there is one server.
LEMMA LoginOpenSessions ==
  ASSUME SessionsInv, NEW r \in Request, LoginOpen(r)
  PROVE  SessionsInv'
<1> DEFINE row == [owner |-> request[r].actor, hash |-> request[r].me.hash, expired |-> FALSE]
<1>1. PICK q : q = [request[r] EXCEPT !.pc = "opened"]
  OBVIOUS
<1>2. PICK p : p = request[r]
  OBVIOUS
<1>3. /\ request[r].pc = "verified"
      /\ request' = [request EXCEPT ![r] = q]
      /\ session' = [session EXCEPT ![r] = row]
      /\ UNCHANGED <<workers, user, audit>>
  BY <1>1 DEF LoginOpen, Becomes, AfterOpen
<1>4. /\ p \in RequestState /\ Flow(p) /\ Known(p) /\ Fate(r, p) /\ Audited(r, p)
      /\ p.pc = "verified" /\ p.kind = "login"
      /\ p.actor \in User /\ p.me \in UserRow /\ user[p.actor] # None
  BY <1>2, <1>3 DEF SessionsInv, TypeOK, Local, Flow, Known, RequestState
<1>5. /\ q \in RequestState /\ q.pc = "opened" /\ q.kind = "login" /\ q.actor = p.actor
      /\ q.me = p.me /\ q.target = p.target /\ q.seen = p.seen /\ q.gone = p.gone
      /\ q.cookie = p.cookie /\ q.old = p.old /\ q.form = p.form
  BY <1>1, <1>2, <1>4 DEF RequestState
<1>6. row \in SessionRow /\ row.owner = p.actor /\ row.hash = p.me.hash /\ row # None
  <2>1. row = [owner |-> p.actor, hash |-> p.me.hash, expired |-> FALSE] /\ p.me.hash \in Hash
    BY <1>2, <1>4 DEF UserRow
  <2>2. row \in SessionRow
    BY <1>4, <2>1 DEF SessionRow
  <2> QED
    BY <2>1, <2>2, NoneAssumption
<1> HIDE DEF row
<1>7. /\ request'[r] = q /\ session'[r] = row
      /\ \A s \in Request \ {r} : request'[s] = request[s]
      /\ \A t \in Token \ {r} : session'[t] = session[t]
      /\ r \in Token
      /\ request \in [Request -> RequestState]
  BY <1>3 DEF SessionsInv, TypeOK, Token
<1>8. ~Opened(r)
  BY <1>3 DEF Opened
<1>9. \A t : Opened(t) => Opened(t)' /\ t # r
  BY <1>3, <1>5, <1>7, <1>8 DEF Opened
<1>10. Opened(r)'
  BY <1>5, <1>7 DEF Opened
<1>11. TypeOK'
  BY <1>3, <1>5, <1>6, <1>7 DEF SessionsInv, TypeOK
<1>12. ASSUME NEW s \in Request  PROVE Local(s, request[s])'
  <2>1. CASE s = r
    <3>1. Flow(q) /\ Known(q)'
      BY <1>3, <1>4, <1>5 DEF Flow, Changing, Known
    <3>2. q.gone = {} /\ ~Committed(r)'
      BY <1>3, <1>4, <1>5 DEF Flow, Audited, Committed
    <3>3. \A t \in q.seen : Opened(t)' /\ session'[t] = session[t] 
      BY <1>4, <1>5, <1>7, <1>9, <1>3 DEF Fate, RequestState
    <3>4. Fate(r, q)'
      BY <1>4, <1>5, <3>2, <3>3 DEF Fate
    <3>5. Audited(r, q)'
      BY <1>3, <1>4, <1>5, <3>2 DEF Audited
    <3> QED
      BY <1>7, <2>1, <3>1, <3>4, <3>5, LocalAfter
  <2>2. CASE s # r
    <3>0. PICK o : o = request[s]
      OBVIOUS
    <3>1. /\ Flow(o) /\ Known(o) /\ Fate(s, o) /\ Audited(s, o) /\ request'[s] = o
          /\ o \in RequestState
      BY <1>7, <2>2, <3>0 DEF SessionsInv, TypeOK, Local
    <3>2. Known(o)' /\ Audited(s, o)' /\ (Committed(s)' <=> Committed(s))
      BY <1>3, <3>1 DEF Known, Audited, Committed
    <3>3. \A t \in o.seen \cup o.gone : Opened(t)' /\ session'[t] = session[t]
      BY <1>7, <1>9, <3>1 DEF Fate, RequestState
    <3>4. Fate(s, o)'
      BY <3>1, <3>2, <3>3 DEF Fate
    <3> QED
      BY <3>1, <3>2, <3>4, LocalAfter
  <2> QED
    BY <2>1, <2>2
<1>13. Owned'
  BY <1>3, <1>4, <1>6, <1>7, <1>9, <1>10 DEF SessionsInv, Owned
<1>14. Exclusive'
  <2>1. InBody(r)
    BY <1>3 DEF InBody
  <2> QED
    BY <1>3, <2>1, StaysExclusive DEF SessionsInv, Becomes
<1>15. OneServer'
  <2> SUFFICES ASSUME workers = 1, NEW s \in Request
               PROVE  LET o == request'[s] IN
                      /\ o.pc = "verified" => user[o.actor].active /\ user[o.actor].hash = o.me.hash
                      /\ o.pc \in {"waiting", "removed"} =>
                           {t \in Token : session'[t] # None /\ session'[t].owner = o.target}
                             \subseteq o.gone
    BY <1>3 DEF OneServer, SessionsOf
  <2>1. CASE s = r
    BY <1>5, <1>7, <2>1
  <2>2. CASE s # r
    <3>1. request[s].pc \notin {"waiting", "removed"}
      BY <1>3, <2>2 DEF SessionsInv, Exclusive, InBody
    <3> QED
      BY <1>7, <2>2, <3>1 DEF SessionsInv, OneServer
  <2> QED
    BY <2>1, <2>2
<1>16. OneServerSessions'
  <2>1. workers = 1 => user[p.actor].active /\ user[p.actor].hash = p.me.hash
    BY <1>2, <1>4 DEF SessionsInv, OneServer
  <2> QED
    BY <1>3, <1>6, <1>7, <2>1 DEF SessionsInv, OneServerSessions
<1> QED
  BY <1>11, <1>12, <1>13, <1>14, <1>15, <1>16 DEF SessionsInv

\* What the invariant says of one request.
LEMMA OfRequest ==
  ASSUME SessionsInv, NEW r \in Request
  PROVE  /\ request[r] \in RequestState
         /\ Flow(request[r]) /\ Known(request[r]) /\ Fate(r, request[r])
         /\ Audited(r, request[r])
BY DEF SessionsInv, TypeOK, Local

\* Its state after a step.
LEMMA AfterStep ==
  ASSUME SessionsInv, NEW r \in Request, NEW q, Becomes(r, q)
  PROVE  request'[r] = q
BY DEF SessionsInv, TypeOK, Becomes

\* The audit row is written with the last step of a login.
LEMMA LoginAuditSessions ==
  ASSUME SessionsInv, NEW r \in Request, LoginAudit(r)
  PROVE  SessionsInv'
<1>1. PICK p : p = request[r]
  OBVIOUS
<1>2. PICK q : q = [p EXCEPT !.pc = "done"]
  OBVIOUS
<1>3. /\ p.pc = "opened" /\ Becomes(r, q) /\ Logs(r, "Login")
      /\ UNCHANGED <<workers, user, session>>
  BY <1>1, <1>2 DEF LoginAudit
<1>4. /\ p \in RequestState /\ Flow(p) /\ Known(p) /\ Fate(r, p) /\ Audited(r, p)
  BY <1>1, OfRequest
<1>5. /\ q \in RequestState /\ q.pc = "done" /\ q.kind = p.kind /\ q.actor = p.actor
      /\ q.target = p.target /\ q.seen = p.seen /\ q.gone = p.gone /\ q.cookie = p.cookie
      /\ q.form = p.form /\ q.old = p.old
  BY <1>2, <1>4 DEF RequestState
<1>6. p.kind = "login" /\ p.gone = {} /\ ~Committed(r)
  BY <1>3, <1>4 DEF Flow, Audited
<1>7. Flow(q) /\ Known(q) /\ Fate(r, q)
  BY <1>4, <1>5, <1>6 DEF Flow, Changing, Known, Fate
<1>8. <<r, "Login">> \in audit' /\ (q.cookie \in Request => <<q.cookie, "Login">> \in audit')
  BY <1>3, <1>4, <1>5 DEF Logs, Audited
<1>9. InBody(r)' => InBody(r)
  BY <1>1, <1>3 DEF InBody
<1> QED
  BY <1>1, <1>3, <1>5, <1>6, <1>7, <1>8, <1>9, RequestStep

\* Somebody whom no session is found for, or whose user is not active.
LEMMA NobodySessions ==
  ASSUME SessionsInv, NEW r \in Request, request[r].pc \in {"sent", "session"},
         NEW kind \in {"logout", "create", "edit", "deactivate"}, NEW t \in Token,
         kind = "logout" => FreeWorker \/ InBody(r),
         t \in Request => <<t, "Login">> \in audit,
         Nobody(r, kind, t), UNCHANGED <<workers, user, session, audit>>
  PROVE  SessionsInv'
<1>1. PICK q : q = [Sent EXCEPT !.pc = IF kind = "logout" THEN "in" ELSE "done",
                                !.kind = kind, !.cookie = t]
  OBVIOUS
<1>2. /\ q \in RequestState /\ q.pc = (IF kind = "logout" THEN "in" ELSE "done")
      /\ q.kind = kind /\ q.cookie = t /\ q.actor = None /\ q.target = None
      /\ q.seen = {} /\ q.gone = {}
  BY <1>1 DEF Sent, RequestState
<1>3. Flow(q) /\ Known(q) /\ Fate(r, q)
  BY <1>2, FreshRequest
<1>4. Becomes(r, q)
  BY <1>1 DEF Nobody
<1>5. InBody(r)' => InBody(r) \/ FreeWorker
  BY <1>2, <1>4, AfterStep DEF InBody
<1> QED
  BY <1>2, <1>3, <1>4, <1>5, RequestStep

\* Cookies of clients are in the audit log.
LEMMA CookiesAreAudited ==
  ASSUME SessionsInv, NEW t \in Cookies
  PROVE  t \in Token /\ (t \in Request => <<t, "Login">> \in audit)
BY SessionsAssumption DEF SessionsInv, Local, Audited, Cookies, Token

\* A session is found, or nobody.
LEMMA ReadSessionSessions ==
  ASSUME SessionsInv, NEW r \in Request, ReadSession(r)
  PROVE  SessionsInv'
<1>1. PICK t \in Cookies, kind \in {"logout", "create", "edit", "deactivate"} :
        /\ kind = "logout" => FreeWorker
        /\ IF session[t] # None /\ ~session[t].expired
           THEN Becomes(r, [Sent EXCEPT !.pc = "session", !.kind = kind, !.cookie = t,
                                        !.actor = session[t].owner])
           ELSE Nobody(r, kind, t)
  BY DEF ReadSession
<1>2. /\ request[r].pc = "sent" /\ UNCHANGED <<workers, user, session, audit>>
      /\ t \in Token /\ (t \in Request => <<t, "Login">> \in audit)
  BY CookiesAreAudited DEF ReadSession
<1>3. CASE session[t] # None /\ ~session[t].expired
  <2>1. PICK q : q = [Sent EXCEPT !.pc = "session", !.kind = kind, !.cookie = t,
                                  !.actor = session[t].owner]
    OBVIOUS
  <2>2. session[t].owner \in User /\ user[session[t].owner] # None
    BY <1>2, <1>3 DEF SessionsInv, TypeOK, SessionRow, Owned
  <2>3. /\ q \in RequestState /\ q.pc = "session" /\ q.kind = kind /\ q.cookie = t
        /\ q.actor = session[t].owner /\ q.target = None /\ q.seen = {} /\ q.gone = {}
    BY <1>2, <2>1, <2>2 DEF Sent, RequestState
  <2>4. Flow(q) /\ Known(q) /\ Fate(r, q)
    BY <1>2, <2>2, <2>3, NoneAssumption DEF Flow, Changing, Known, Fate
  <2>5. Becomes(r, q)
    BY <1>1, <1>3, <2>1
  <2>6. InBody(r)' => FreeWorker
    BY <1>1, <2>3, <2>5, AfterStep DEF InBody
  <2> QED
    BY <1>2, <2>3, <2>4, <2>5, <2>6, RequestStep
<1>4. CASE ~(session[t] # None /\ ~session[t].expired)
  BY <1>1, <1>2, <1>4, NobodySessions
<1> QED
  BY <1>3, <1>4

\* A request ends without having changed anything.
LEMMA EndStep ==
  ASSUME SessionsInv, NEW r \in Request, NEW pc \in {"done", "died"},
         request[r].pc \notin {"sent", "done", "died"},
         pc = "done" => request[r].kind # "login",
         Becomes(r, [request[r] EXCEPT !.pc = pc, !.gone = {}]),
         UNCHANGED <<workers, user, session, audit>>
  PROVE  SessionsInv'
<1>1. PICK p : p = request[r]
  OBVIOUS
<1>2. PICK q : q = [p EXCEPT !.pc = pc, !.gone = {}]
  OBVIOUS
<1>3. /\ p \in RequestState /\ Flow(p) /\ Known(p) /\ Fate(r, p) /\ Audited(r, p)
      /\ p.pc \notin {"sent", "done", "died"} /\ (pc = "done" => p.kind # "login")
  BY <1>1, OfRequest
<1>4. /\ q \in RequestState /\ q.pc = pc /\ q.kind = p.kind /\ q.actor = p.actor
      /\ q.target = p.target /\ q.seen = p.seen /\ q.gone = {} /\ q.cookie = p.cookie
      /\ q.form = p.form /\ q.old = p.old
  BY <1>2, <1>3 DEF RequestState
<1>5. ~Committed(r)
  BY <1>3 DEF Audited
<1>6. Flow(q) /\ Known(q) /\ Fate(r, q)
  BY <1>3, <1>4, <1>5 DEF Flow, Changing, Known, Fate
<1>7. Becomes(r, q)
  BY <1>1, <1>2
<1>8. ~InBody(r)'
  BY <1>4, <1>7, AfterStep DEF InBody
<1>9. /\ q.kind = "login" => q.pc = "died"
      /\ q.cookie \in Request => <<q.cookie, "Login">> \in audit'
  BY <1>3, <1>4 DEF Audited
<1>10. p.pc = "opened" => q.kind = "login"
  BY <1>3, <1>4 DEF Flow
<1> QED
  BY <1>1, <1>3, <1>4, <1>6, <1>7, <1>8, <1>9, <1>10, RequestStep

\* With nothing to delete, it makes no difference to forget it.
LEMMA QuietEnd ==
  ASSUME SessionsInv, NEW r \in Request,
         request[r].pc \in {"session", "in", "loaded"}, request[r].kind # "login",
         Becomes(r, [request[r] EXCEPT !.pc = "done"]),
         UNCHANGED <<workers, user, session, audit>>
  PROVE  SessionsInv'
<1>1. PICK p : p = request[r]
  OBVIOUS
<1>2. p \in RequestState /\ p.gone = {}
  BY <1>1, OfRequest DEF Flow
<1>3. [p EXCEPT !.pc = "done", !.gone = {}] = [p EXCEPT !.pc = "done"]
  BY <1>2 DEF RequestState
<1> QED
  BY <1>1, <1>3, EndStep

\* The user is found and may go on, or not.
LEMMA ReadUserSessions ==
  ASSUME SessionsInv, NEW r \in Request, ReadUser(r)
  PROVE  SessionsInv'
<1>1. PICK p : p = request[r]
  OBVIOUS
<1>2. /\ p \in RequestState /\ Flow(p) /\ Known(p) /\ Fate(r, p) /\ Audited(r, p)
      /\ p.pc = "session" /\ UNCHANGED <<workers, user, session, audit>>
  BY <1>1, OfRequest DEF ReadUser
<1>3. /\ p.actor \in User /\ user[p.actor] # None /\ user[p.actor] \in UserRow
      /\ p.gone = {} /\ p.kind # "login" /\ ~Committed(r)
  BY <1>2 DEF Flow, Known, Audited, SessionsInv, TypeOK, RequestState
<1>4. CASE Nobody(r, p.kind, p.cookie)
  <2>1. p.kind \in {"logout", "create", "edit", "deactivate"} /\ p.cookie \in Token
    BY <1>2 DEF Flow, RequestState
  <2> QED
    BY <1>1, <1>2, <1>4, <2>1, NobodySessions DEF Audited, InBody
<1>5. ASSUME p.kind = "logout" \/ require_admin(user[p.actor]),
             Becomes(r, [p EXCEPT !.pc = "in", !.me = user[p.actor]])
      PROVE  SessionsInv'
  <2>1. PICK q : q = [p EXCEPT !.pc = "in", !.me = user[p.actor]]
    OBVIOUS
  <2>2. /\ q \in RequestState /\ q.pc = "in" /\ q.kind = p.kind /\ q.actor = p.actor
        /\ q.target = p.target /\ q.seen = p.seen /\ q.gone = p.gone /\ q.cookie = p.cookie
        /\ q.form = p.form /\ q.old = p.old /\ q.me = user[p.actor]
    BY <1>2, <1>3, <2>1 DEF RequestState
  <2>3. Flow(q) /\ Known(q) /\ Fate(r, q)
    BY <1>2, <1>3, <2>2 DEF Flow, Changing, Known, Fate
  <2>4. InBody(r)' => InBody(r)
    BY <1>1, <1>2, <1>5, <2>1, <2>2, AfterStep DEF InBody
  <2>5. q.kind # "login" /\ (q.cookie \in Request => <<q.cookie, "Login">> \in audit')
    BY <1>2, <1>3, <2>2 DEF Audited
  <2>6. Becomes(r, q)
    BY <1>5, <2>1
  <2> QED
    BY <1>1, <1>2, <2>2, <2>3, <2>4, <2>5, <2>6, RequestStep
<1>6. CASE Becomes(r, [p EXCEPT !.pc = "done"])
  BY <1>1, <1>2, <1>3, <1>6, QuietEnd
<1> QED
  BY <1>1, <1>4, <1>5, <1>6 DEF ReadUser
-----------------------------------------------------------------------------
(* The steps of user administration up to the commit. *)

\* The form is acceptable, or the request ends.
LEMMA CreateCheckSessions ==
  ASSUME SessionsInv, NEW r \in Request, CreateCheck(r)
  PROVE  SessionsInv'
<1>1. PICK p : p = request[r]
  OBVIOUS
<1>2. /\ p \in RequestState /\ Flow(p) /\ Known(p) /\ Fate(r, p) /\ Audited(r, p)
      /\ p.pc = "in" /\ p.kind = "create" /\ FreeWorker
      /\ UNCHANGED <<workers, user, session, audit>>
  BY <1>1, OfRequest DEF CreateCheck
<1>3. CASE Becomes(r, [p EXCEPT !.pc = "done"])
  BY <1>1, <1>2, <1>3, QuietEnd
<1>4. ASSUME NEW f \in Form, ValidRole(f), Becomes(r, [p EXCEPT !.pc = "checked", !.form = f])
      PROVE  SessionsInv'
  <2>1. PICK q : q = [p EXCEPT !.pc = "checked", !.form = f]
    OBVIOUS
  <2>2. /\ q \in RequestState /\ q.pc = "checked" /\ q.kind = "create" /\ q.actor = p.actor
        /\ q.target = p.target /\ q.seen = p.seen /\ q.gone = p.gone /\ q.cookie = p.cookie
        /\ q.form = f /\ q.old = p.old
    BY <1>2, <2>1 DEF RequestState
  <2>3. p.gone = {} /\ ~Committed(r) /\ f # None
    BY <1>2, NoneAssumption DEF Flow, Audited
  <2>4. Flow(q) /\ Known(q) /\ Fate(r, q)
    BY <1>2, <1>4, <2>2, <2>3 DEF Flow, Changing, Known, Fate
  <2>5. Becomes(r, q)
    BY <1>4, <2>1
  <2>6. q.cookie \in Request => <<q.cookie, "Login">> \in audit'
    BY <1>2, <2>2 DEF Audited
  <2> QED
    BY <1>1, <1>2, <2>2, <2>4, <2>5, <2>6, RequestStep
<1> QED
  BY <1>1, <1>3, <1>4 DEF CreateCheck

\* create_admin holds no server process.
LEMMA ScriptCheckSessions ==
  ASSUME SessionsInv, NEW r \in Request, ScriptCheck(r)
  PROVE  SessionsInv'
<1>1. PICK f \in Form :
        /\ f.role = "admin" /\ f.active
        /\ IF Creatable(f)
           THEN Becomes(r, [Sent EXCEPT !.pc = "checked", !.kind = "script", !.form = f])
           ELSE Becomes(r, [Sent EXCEPT !.pc = "done"])
  BY DEF ScriptCheck
<1>2. PICK q : q = IF Creatable(f) THEN [Sent EXCEPT !.pc = "checked", !.kind = "script", !.form = f]
                   ELSE [Sent EXCEPT !.pc = "done"]
  OBVIOUS
<1>3. /\ q \in RequestState /\ q.actor = None /\ q.target = None /\ q.cookie = None
      /\ q.seen = {} /\ q.gone = {}
      /\ \/ q.pc = "checked" /\ q.kind = "script" /\ q.form = f
         \/ q.pc = "done" /\ q.kind = "login"
  BY <1>2 DEF Sent, RequestState
<1>4. Flow(q) /\ Known(q) /\ Fate(r, q)
  BY <1>1, <1>3, NoneAssumption DEF Flow, Changing, Known, Fate, ValidRole
<1>5. Becomes(r, q) /\ request[r].pc = "sent" /\ UNCHANGED <<workers, user, session, audit>>
  BY <1>1, <1>2 DEF ScriptCheck
<1>6. ~InBody(r)'
  BY <1>3, <1>5, AfterStep DEF InBody
<1>7. None \notin Request
  BY NoneAssumption DEF Token
<1> QED
  BY <1>3, <1>4, <1>5, <1>6, <1>7, RequestStep

\* The sessions of the target are seen.
LEMMA LoadSessions ==
  ASSUME SessionsInv, NEW r \in Request, Load(r)
  PROVE  SessionsInv'
<1>1. PICK p : p = request[r]
  OBVIOUS
<1>2. /\ p \in RequestState /\ Flow(p) /\ Known(p) /\ Fate(r, p) /\ Audited(r, p)
      /\ p.pc = "in" /\ p.kind \in {"edit", "deactivate"} /\ FreeWorker
      /\ UNCHANGED <<workers, user, session, audit>>
  BY <1>1, OfRequest DEF Load
<1>3. CASE Becomes(r, [p EXCEPT !.pc = "done"])
  BY <1>1, <1>2, <1>3, QuietEnd
<1>4. ASSUME NEW u \in User, user[u] # None,
             Becomes(r, [p EXCEPT !.pc = "loaded", !.target = u, !.seen = SessionsOf(u),
                                  !.old = IF u = p.actor THEN p.me ELSE user[u]])
      PROVE  SessionsInv'
  <2> DEFINE old == IF u = p.actor THEN p.me ELSE user[u]
  <2>1. PICK q : q = [p EXCEPT !.pc = "loaded", !.target = u, !.seen = SessionsOf(u), !.old = old]
    OBVIOUS
  <2>2. old \in UserRow
    BY <1>2, <1>4 DEF Flow, SessionsInv, TypeOK, RequestState
  <2>3. SessionsOf(u) \in SUBSET Token
    BY DEF SessionsOf
  <2>4. Becomes(r, q)
    BY <1>4, <2>1
  <2> HIDE DEF old
  <2>5. /\ q \in RequestState /\ q.pc = "loaded" /\ q.kind = p.kind /\ q.actor = p.actor
        /\ q.target = u /\ q.seen = SessionsOf(u) /\ q.gone = p.gone /\ q.cookie = p.cookie
        /\ q.form = p.form /\ q.old = old
    BY <1>2, <2>1, <2>2, <2>3 DEF RequestState
  <2>6. p.gone = {} /\ ~Committed(r) /\ old # None /\ u # None
    BY <1>2, <2>2, NoneAssumption DEF Flow, Audited
  <2>7. \A t \in SessionsOf(u) : Opened(t) /\ (session[t] # None => session[t].owner = u)
    BY DEF SessionsOf, SessionsInv, Owned
  <2>8. Flow(q) /\ Known(q) /\ Fate(r, q)
    BY <1>2, <1>4, <2>5, <2>6, <2>7 DEF Flow, Changing, Known, Fate
  <2>9. q.kind # "login" /\ (q.cookie \in Request => <<q.cookie, "Login">> \in audit')
    BY <1>2, <2>5 DEF Audited
  <2> QED
    BY <1>1, <1>2, <2>4, <2>5, <2>8, <2>9, RequestStep
<1> QED
  BY <1>1, <1>3, <1>4 DEF Load

\* The form of an edit is acceptable, or the request ends.
LEMMA EditCheckSessions ==
  ASSUME SessionsInv, NEW r \in Request, EditCheck(r)
  PROVE  SessionsInv'
<1>1. PICK p : p = request[r]
  OBVIOUS
<1>2. /\ p \in RequestState /\ Flow(p) /\ Known(p) /\ Fate(r, p) /\ Audited(r, p)
      /\ p.pc = "loaded" /\ p.kind = "edit"
      /\ UNCHANGED <<workers, user, session, audit>>
  BY <1>1, OfRequest DEF EditCheck
<1>3. CASE Becomes(r, [p EXCEPT !.pc = "done"])
  BY <1>1, <1>2, <1>3, QuietEnd
<1>4. ASSUME NEW f \in Form, ValidRole(f), Becomes(r, [p EXCEPT !.pc = "checked", !.form = f])
      PROVE  SessionsInv'
  <2>1. PICK q : q = [p EXCEPT !.pc = "checked", !.form = f]
    OBVIOUS
  <2>2. /\ q \in RequestState /\ q.pc = "checked" /\ q.kind = "edit" /\ q.actor = p.actor
        /\ q.target = p.target /\ q.seen = p.seen /\ q.gone = p.gone /\ q.cookie = p.cookie
        /\ q.form = f /\ q.old = p.old
    BY <1>2, <2>1 DEF RequestState
  <2>3. p.gone = {} /\ ~Committed(r) /\ f # None
    BY <1>2, NoneAssumption DEF Flow, Audited
  <2>4. Flow(q) /\ Known(q) /\ Fate(r, q)
    BY <1>2, <1>4, <2>2, <2>3 DEF Flow, Changing, Known, Fate
  <2>5. Becomes(r, q) /\ InBody(r)
    BY <1>1, <1>2, <1>4, <2>1 DEF InBody
  <2>6. q.cookie \in Request => <<q.cookie, "Login">> \in audit'
    BY <1>2, <2>2 DEF Audited
  <2> QED
    BY <1>1, <1>2, <2>2, <2>4, <2>5, <2>6, RequestStep
<1> QED
  BY <1>1, <1>3, <1>4 DEF EditCheck

\* The DELETE takes what the request saw, unless it has ended otherwise.
LEMMA DeleteStep ==
  ASSUME SessionsInv, NEW r \in Request, delete_user_sessions(r),
         UNCHANGED <<workers, user, session, audit>>,
         \/ /\ request[r].pc = "checked" /\ request[r].kind = "edit"
            /\ EndsSessions(request[r].old, request[r].form)
         \/ request[r].pc = "loaded" /\ request[r].kind = "deactivate"
  PROVE  SessionsInv'
<1>1. PICK p : p = request[r]
  OBVIOUS
<1>2. /\ p \in RequestState /\ Flow(p) /\ Known(p) /\ Fate(r, p) /\ Audited(r, p)
      /\ p.pc \in {"checked", "loaded"} /\ p.kind \in {"edit", "deactivate"}
      /\ Changing(p) /\ ~Committed(r)
      /\ p.kind = "edit" => p.form # None /\ ValidRole(p.form) /\ EndsSessions(p.old, p.form)
  BY <1>1, OfRequest DEF Flow, Changing, Audited
<1>3. PICK q : q = [p EXCEPT !.pc = "waiting", !.gone = SessionsOf(p.target)]
  OBVIOUS
<1>4. Becomes(r, q) /\ InBody(r)
  BY <1>1, <1>3 DEF delete_user_sessions, InBody
<1>5. SessionsOf(p.target) \in SUBSET Token
  BY DEF SessionsOf
<1>6. /\ q \in RequestState /\ q.pc = "waiting" /\ q.kind = p.kind /\ q.actor = p.actor
      /\ q.target = p.target /\ q.seen = p.seen /\ q.gone = SessionsOf(p.target)
      /\ q.cookie = p.cookie /\ q.form = p.form /\ q.old = p.old
  BY <1>2, <1>3, <1>5 DEF RequestState
<1>7. Flow(q)
  BY <1>2, <1>6 DEF Flow, Changing
<1>8. Fate(r, q)
  <2>1. \A t \in SessionsOf(p.target) :
          Opened(t) /\ (session[t] # None => session[t].owner = p.target)
    BY DEF SessionsOf, SessionsInv, Owned
  <2>2. \A t \in p.seen :
          /\ Opened(t)
          /\ session[t] # None => session[t].owner = p.target /\ t \in SessionsOf(p.target)
    BY <1>2 DEF Fate, SessionsOf, RequestState
  <2> QED
    BY <1>2, <1>6, <2>1, <2>2 DEF Fate
<1>9. Known(q) /\ q.kind # "login" /\ (q.cookie \in Request => <<q.cookie, "Login">> \in audit')
  BY <1>2, <1>6 DEF Known, Audited
<1> QED
  BY <1>1, <1>2, <1>4, <1>6, <1>7, <1>8, <1>9, RequestStep

\* The DELETE has its locks; what it takes that is still there is all that counts.
LEMMA SessionsDeletedSessions ==
  ASSUME SessionsInv, NEW r \in Request, SessionsDeleted(r)
  PROVE  SessionsInv'
<1>1. PICK p : p = request[r]
  OBVIOUS
<1>2. /\ p \in RequestState /\ Flow(p) /\ Known(p) /\ Fate(r, p) /\ Audited(r, p)
      /\ p.pc = "waiting" /\ Changing(p)
      /\ UNCHANGED <<workers, user, session, audit>>
  BY <1>1, OfRequest DEF SessionsDeleted, Changing
<1> DEFINE gone == {t \in p.gone : session[t] # None}
<1>3. PICK q : q = [p EXCEPT !.pc = "removed", !.gone = gone]
  OBVIOUS
<1>4. Becomes(r, q) /\ InBody(r)
  BY <1>1, <1>2, <1>3 DEF SessionsDeleted, InBody
<1>5. gone \subseteq p.gone /\ gone \in SUBSET Token /\ \A t \in p.gone : session[t] # None => t \in gone
  BY <1>2 DEF RequestState
<1> HIDE DEF gone
<1>6. /\ q \in RequestState /\ q.pc = "removed" /\ q.kind = p.kind /\ q.actor = p.actor
      /\ q.target = p.target /\ q.seen = p.seen /\ q.gone = gone
      /\ q.cookie = p.cookie /\ q.form = p.form /\ q.old = p.old
  BY <1>2, <1>3, <1>5 DEF RequestState
<1>7. Flow(q) /\ Known(q)
  BY <1>2, <1>6 DEF Flow, Changing, Known
<1>8. Fate(r, q)
  BY <1>2, <1>5, <1>6 DEF Fate, Audited
<1>9. q.kind # "login" /\ (q.cookie \in Request => <<q.cookie, "Login">> \in audit')
  BY <1>2, <1>6 DEF Flow, Audited
<1>10. workers = 1 => SessionsOf(q.target) \subseteq q.gone
  <2>1. workers = 1 => SessionsOf(p.target) \subseteq p.gone
    BY <1>1, <1>2 DEF SessionsInv, OneServer
  <2>2. \A t \in SessionsOf(p.target) : session[t] # None
    BY DEF SessionsOf
  <2> QED
    BY <1>5, <1>6, <2>1, <2>2
<1> QED
  BY <1>1, <1>2, <1>4, <1>6, <1>7, <1>8, <1>9, <1>10, RequestStep

\* A killed process leaves nothing.
LEMMA DieSessions ==
  ASSUME SessionsInv, NEW r \in Request, Die(r)
  PROVE  SessionsInv'
BY EndStep DEF Die
-----------------------------------------------------------------------------
(* The steps that end sessions or change users. *)

\* Sessions end or expire; none is opened or handed over.
FewerSessions ==
  /\ session' \in [Token -> SessionRow \cup {None}]
  /\ \A t \in Token : session'[t] # None =>
       /\ session[t] # None
       /\ session'[t].owner = session[t].owner
       /\ session'[t].hash = session[t].hash

\* Users change or are added; none is removed.
MoreUsers ==
  /\ user' \in [User -> UserRow \cup {None}]
  /\ \A u \in User : user[u] # None => user'[u] # None

\* Deletions leave fewer sessions.
LEMMA WithoutIsFewer ==
  ASSUME SessionsInv, NEW tokens, session' = Without(tokens)
  PROVE  FewerSessions /\ \A t \in Token : session'[t] = IF t \in tokens THEN None ELSE session[t]
BY DEF SessionsInv, TypeOK, Without, FewerSessions

\* Nobody's request is touched.
LEMMA SessionsOnly ==
  ASSUME SessionsInv, FewerSessions, UNCHANGED <<workers, user, request, audit>>
  PROVE  SessionsInv'
<1>1. \A t : Opened(t)' <=> Opened(t)
  BY DEF Opened
<1>2. TypeOK'
  BY DEF SessionsInv, TypeOK, FewerSessions
<1>3. ASSUME NEW r \in Request  PROVE Local(r, request[r])'
  <2>1. PICK p : p = request[r]
    OBVIOUS
  <2>2. /\ p \in RequestState /\ Flow(p) /\ Known(p) /\ Fate(r, p) /\ Audited(r, p)
    BY <2>1, OfRequest
  <2>3. request'[r] = p /\ (Committed(r)' <=> Committed(r))
    BY <2>1 DEF Committed
  <2>4. p.seen \subseteq Token /\ p.gone \subseteq Token
    BY <2>2 DEF RequestState
  <2>5. Fate(r, p)'
    BY <1>1, <2>2, <2>3, <2>4 DEF Fate, FewerSessions
  <2>6. Known(p)' /\ Audited(r, p)'
    BY <2>2, <2>3 DEF Known, Audited
  <2> QED
    BY <2>2, <2>3, <2>5, <2>6, LocalAfter
<1>4. Owned'
  BY <1>1 DEF SessionsInv, Owned, FewerSessions
<1>5. Exclusive'
  BY DEF SessionsInv, Exclusive, InBody
<1>6. OneServer'
  BY DEF SessionsInv, OneServer, SessionsOf, FewerSessions
<1>7. OneServerSessions'
  BY DEF SessionsInv, OneServerSessions, FewerSessions
<1> QED
  BY <1>2, <1>3, <1>4, <1>5, <1>6, <1>7 DEF SessionsInv

\* Time passes for a session.
LEMMA ExpireSessions ==
  ASSUME SessionsInv, NEW t \in Token, Expire(t)
  PROVE  SessionsInv'
<1>1. /\ session \in [Token -> SessionRow \cup {None}] /\ session[t] # None
      /\ session' = [session EXCEPT ![t].expired = TRUE]
      /\ UNCHANGED <<workers, user, request, audit>>
  BY DEF Expire, SessionsInv, TypeOK
<1>2. session[t] \in SessionRow
  BY <1>1
<1>3. PICK row : row = [session[t] EXCEPT !.expired = TRUE]
  OBVIOUS
<1>4. row \in SessionRow /\ row.owner = session[t].owner /\ row.hash = session[t].hash
  BY <1>2, <1>3 DEF SessionRow
<1>5. session' = [session EXCEPT ![t] = row]
  BY <1>1, <1>3
<1>6. FewerSessions
  BY <1>1, <1>4, <1>5 DEF FewerSessions
<1> QED
  BY <1>1, <1>6, SessionsOnly

\* Old rows are cleaned up.
LEMMA CleanupSessions ==
  ASSUME SessionsInv, Cleanup
  PROVE  SessionsInv'
BY WithoutIsFewer, SessionsOnly DEF Cleanup

\* Request r ends, and with it sessions or nothing; users change or are added.
LEMMA EndBody ==
  ASSUME SessionsInv, NEW r \in Request, NEW action \in Actions \ {"Login"},
         request[r].pc \notin {"sent", "done", "died"}, request[r].kind # "login",
         Becomes(r, [request[r] EXCEPT !.pc = "done", !.gone = {}]),
         FewerSessions, MoreUsers, workers' = workers,
         UNCHANGED audit \/ Logs(r, action),
         action \in {"User Updated", "User Deactivated"} /\ Logs(r, action) /\ Ending(request[r]) =>
           \A t \in request[r].seen : session'[t] = None,
         OneServer', OneServerSessions'
  PROVE  SessionsInv'
<1>1. PICK p : p = request[r]
  OBVIOUS
<1>2. PICK q : q = [p EXCEPT !.pc = "done", !.gone = {}]
  OBVIOUS
<1>3. /\ p \in RequestState /\ Flow(p) /\ Known(p) /\ Fate(r, p) /\ Audited(r, p)
      /\ p.pc \notin {"sent", "done", "died"} /\ p.kind # "login"
  BY <1>1, OfRequest
<1>4. /\ q \in RequestState /\ q.pc = "done" /\ q.kind = p.kind /\ q.actor = p.actor
      /\ q.target = p.target /\ q.seen = p.seen /\ q.gone = {} /\ q.cookie = p.cookie
      /\ q.form = p.form /\ q.old = p.old
  BY <1>2, <1>3 DEF RequestState
<1>5. /\ request \in [Request -> RequestState] /\ request' = [request EXCEPT ![r] = q]
      /\ request'[r] = q
      /\ \A s \in Request \ {r} : request'[s] = request[s]
  BY <1>1, <1>2 DEF SessionsInv, TypeOK, Becomes
<1>6. ~Committed(r)
  BY <1>3 DEF Audited
<1>7. /\ audit \subseteq audit' /\ audit' \subseteq Request \X Actions
      /\ \A s \in Request \ {r} : Committed(s)' => Committed(s)
  <2>1. audit \subseteq Request \X Actions
    BY DEF SessionsInv, TypeOK
  <2>2. CASE UNCHANGED audit
    BY <2>1, <2>2 DEF Committed
  <2>3. CASE audit' = audit \cup {<<r, action>>}
    <3>1. <<r, action>> \in Request \X Actions
      OBVIOUS
    <3>2. \A s \in Request \ {r} : \A change : <<s, change>> # <<r, action>>
      OBVIOUS
    <3> QED
      BY <2>1, <2>3, <3>1, <3>2 DEF Committed
  <2> QED
    BY <2>2, <2>3 DEF Logs
<1>8. Committed(r)' /\ Ending(p) => \A t \in p.seen : session'[t] = None
  <2>1. CASE UNCHANGED audit
    BY <1>6, <2>1 DEF Committed
  <2>2. CASE Logs(r, action) /\ action \in {"User Updated", "User Deactivated"}
    BY <1>1, <2>2
  <2>3. CASE Logs(r, action) /\ action \notin {"User Updated", "User Deactivated"}
    <3>1. \A change \in {"User Updated", "User Deactivated"} : <<r, change>> # <<r, action>>
      BY <2>3
    <3> QED
      BY <1>6, <2>3, <3>1 DEF Logs, Committed
  <2> QED
    BY <2>1, <2>2, <2>3
<1>9. \A t : Opened(t) => Opened(t)'
  BY <1>1, <1>3, <1>5 DEF Opened
<1>10. TypeOK'
  BY <1>4, <1>5, <1>7 DEF SessionsInv, TypeOK, FewerSessions, MoreUsers
<1>11. ASSUME NEW s \in Request  PROVE Local(s, request[s])'
  <2>1. PICK o : o = request[s]
    OBVIOUS
  <2>2. /\ o \in RequestState /\ Flow(o) /\ Known(o) /\ Fate(s, o) /\ Audited(s, o)
    BY <2>1, OfRequest
  <2>3. o.seen \subseteq Token /\ o.gone \subseteq Token
    BY <2>2 DEF RequestState
  <2>4. Known(o)'
    BY <2>2 DEF Known, MoreUsers, RequestState
  <2>5. CASE s = r
    <3>1. Flow(q)
      BY <1>3, <1>4 DEF Flow, Changing
    <3>2. Known(q)'
      BY <1>1, <1>4, <2>1, <2>4, <2>5 DEF Known
    <3>3. Ending(q) <=> Ending(p)
      BY <1>4 DEF Ending
    <3>4. Fate(r, q)'
      <4>1. o = p
        BY <1>1, <2>1, <2>5
      <4>2. ASSUME NEW t \in q.seen
            PROVE  /\ Opened(t)'
                   /\ session'[t] # None => session'[t].owner = q.target
        BY <1>4, <1>9, <2>2, <2>3, <4>1 DEF Fate, FewerSessions
      <4>3. Committed(r)' /\ Ending(q) => \A t \in q.seen : session'[t] = None
        BY <1>4, <1>8, <3>3
      <4> QED
        BY <1>4, <4>2, <4>3 DEF Fate, Ending
    <3>5. Audited(r, q)'
      BY <1>3, <1>4, <1>7 DEF Audited
    <3> QED
      BY <1>5, <2>5, <3>1, <3>2, <3>4, <3>5, LocalAfter
  <2>6. CASE s # r
    <3>1. request'[s] = o /\ (Committed(s)' => Committed(s))
      BY <1>5, <1>7, <2>1, <2>6
    <3>2. Fate(s, o)'
      BY <1>9, <2>2, <2>3, <3>1 DEF Fate, FewerSessions
    <3>3. Audited(s, o)'
      BY <1>7, <2>2, <3>1 DEF Audited
    <3> QED
      BY <2>2, <2>4, <3>1, <3>2, <3>3, LocalAfter
  <2> QED
    BY <2>5, <2>6
<1>12. Owned'
  BY <1>9 DEF SessionsInv, TypeOK, SessionRow, Owned, FewerSessions, MoreUsers
<1>13. Exclusive'
  <2>1. Becomes(r, q) /\ ~InBody(r)'
    BY <1>4, <1>5 DEF Becomes, InBody
  <2> QED
    BY <2>1, StaysExclusive DEF SessionsInv
<1> QED
  BY <1>10, <1>11, <1>12, <1>13 DEF SessionsInv

\* The users there were stay as they are.
LEMMA QuietForOneServer ==
  ASSUME SessionsInv, NEW r \in Request, NEW q, q.pc = "done", Becomes(r, q),
         FewerSessions, workers' = workers, \A u \in User : user[u] # None => user'[u] = user[u]
  PROVE  OneServer' /\ OneServerSessions'
<1>1. request'[r] = q /\ \A s \in Request \ {r} : request'[s] = request[s]
  BY DEF SessionsInv, TypeOK, Becomes
<1>2. ASSUME workers = 1, NEW s \in Request, s # r
      PROVE  LET o == request[s] IN
             /\ o.pc = "verified" => user'[o.actor].active /\ user'[o.actor].hash = o.me.hash
             /\ o.pc \in {"waiting", "removed"} =>
                  {t \in Token : session'[t] # None /\ session'[t].owner = o.target} \subseteq o.gone
  <2>1. PICK o : o = request[s]
    OBVIOUS
  <2>2. o \in RequestState /\ Flow(o) /\ Known(o)
    BY <2>1, OfRequest
  <2>3. o.pc = "verified" => user'[o.actor] = user[o.actor]
    BY <2>2 DEF Flow, Known, RequestState
  <2>4. /\ o.pc = "verified" => user[o.actor].active /\ user[o.actor].hash = o.me.hash
        /\ o.pc \in {"waiting", "removed"} => SessionsOf(o.target) \subseteq o.gone
    BY <1>2, <2>1 DEF SessionsInv, OneServer
  <2>5. {t \in Token : session'[t] # None /\ session'[t].owner = o.target} \subseteq SessionsOf(o.target)
    BY DEF FewerSessions, SessionsOf
  <2> QED
    BY <2>1, <2>3, <2>4, <2>5
<1>3. OneServer'
  BY <1>1, <1>2 DEF OneServer, SessionsOf
<1>4. OneServerSessions'
  <2> SUFFICES ASSUME workers = 1, NEW t \in Token, session'[t] # None
               PROVE  LET u == session'[t].owner IN
                      user'[u].active /\ session'[t].hash = user'[u].hash
    BY DEF OneServerSessions
  <2>1. /\ session[t] # None /\ session'[t].owner = session[t].owner
        /\ session'[t].hash = session[t].hash
    BY DEF FewerSessions
  <2>2. session[t].owner \in User /\ user[session[t].owner] # None
    BY <2>1 DEF SessionsInv, TypeOK, SessionRow, Owned
  <2> QED
    BY <2>1, <2>2 DEF SessionsInv, OneServerSessions
<1> QED
  BY <1>3, <1>4

\* With nothing to delete, the two ways of ending are one.
LEMMA EndsTheSame ==
  ASSUME SessionsInv, NEW r \in Request, request[r].pc \notin {"waiting", "removed"}
  PROVE  [request[r] EXCEPT !.pc = "done", !.gone = {}] = [request[r] EXCEPT !.pc = "done"]
<1>1. request[r] \in RequestState /\ request[r].gone = {}
  BY OfRequest DEF Flow
<1> QED
  BY <1>1 DEF RequestState

\* A logout ends the session of its cookie.
LEMMA LogoutSessions ==
  ASSUME SessionsInv, NEW r \in Request, Logout(r)
  PROVE  SessionsInv'
<1>1. /\ request[r].pc = "in" /\ request[r].kind = "logout"
      /\ Becomes(r, [request[r] EXCEPT !.pc = "done"])
      /\ session' = Without({request[r].cookie})
      /\ UNCHANGED audit \/ Logs(r, "Logout")
      /\ UNCHANGED <<workers, user>>
  BY DEF Logout
<1>2. PICK q : q = [request[r] EXCEPT !.pc = "done", !.gone = {}]
  OBVIOUS
<1>3. Becomes(r, q) /\ q.pc = "done"
  BY <1>1, <1>2, EndsTheSame, OfRequest DEF RequestState
<1>4. FewerSessions /\ MoreUsers
  BY <1>1, WithoutIsFewer DEF MoreUsers, SessionsInv, TypeOK
<1>5. OneServer' /\ OneServerSessions'
  BY <1>1, <1>3, <1>4, QuietForOneServer
<1>6. "Logout" \in Actions \ {"Login"}
  BY DEF Actions
<1> QED
  BY <1>1, <1>2, <1>3, <1>4, <1>5, <1>6, EndBody

\* A new user has no sessions.
LEMMA CreateCommitSessions ==
  ASSUME SessionsInv, NEW r \in Request, CreateCommit(r)
  PROVE  SessionsInv'
<1>1. PICK p : p = request[r]
  OBVIOUS
<1>2. /\ p \in RequestState /\ Flow(p)
      /\ p.pc = "checked" /\ p.kind \in {"create", "script"}
      /\ p.form \in FormType /\ ValidRole(p.form)
      /\ UNCHANGED <<workers, session>>
      /\ Becomes(r, [request[r] EXCEPT !.pc = "done"])
  BY <1>1, OfRequest, SessionsAssumption DEF CreateCommit, Flow, RequestState
<1>3. PICK q : q = [request[r] EXCEPT !.pc = "done", !.gone = {}]
  OBVIOUS
<1>4. Becomes(r, q) /\ q.pc = "done"
  BY <1>1, <1>2, <1>3, EndsTheSame DEF RequestState
<1>5. FewerSessions
  BY <1>2 DEF FewerSessions, SessionsInv, TypeOK
<1> DEFINE row == [name |-> p.form.name, role |-> p.form.role, active |-> p.form.active, hash |-> r]
<1>6. row \in UserRow /\ row # None
  <2>1. row \in UserRow
    BY <1>2 DEF FormType, ValidRole, UserRow, Hash
  <2> QED
    BY <2>1, NoneAssumption
<1>7. \/ UNCHANGED user
      \/ \E u \in User : user[u] = None /\ user' = [user EXCEPT ![u] = row]
  BY <1>1 DEF CreateCommit
<1> HIDE DEF row
<1>8. MoreUsers /\ \A u \in User : user[u] # None => user'[u] = user[u]
  BY <1>6, <1>7 DEF MoreUsers, SessionsInv, TypeOK
<1>9. OneServer' /\ OneServerSessions'
  BY <1>2, <1>4, <1>5, <1>8, QuietForOneServer
<1>10. UNCHANGED audit \/ Logs(r, "User Created")
  BY DEF CreateCommit
<1>11. "User Created" \in Actions \ {"Login"}
  BY DEF Actions
<1> QED
  BY <1>1, <1>2, <1>3, <1>4, <1>5, <1>8, <1>9, <1>10, <1>11, EndBody

\* What a commit of a change does, by cases that the handler tells apart.
LEMMA ChangeCommitFacts ==
  ASSUME SessionsInv, NEW r \in Request, ChangeCommit(r)
  PROVE  LET p == request[r]
             row == ChangedColumns(user[p.target], p.old, Assigned(r)) IN
         /\ p \in RequestState /\ Flow(p) /\ Changing(p) /\ p.kind \in {"edit", "deactivate"}
         /\ p.pc = "removed" \/ (p.pc = "checked" /\ p.kind = "edit" /\ ~EndsSessions(p.old, p.form))
         /\ p.target \in User /\ user[p.target] \in UserRow /\ p.old \in UserRow
         /\ Assigned(r) \in UserRow /\ row \in UserRow
<1>1. /\ request[r] \in RequestState /\ Flow(request[r]) /\ Known(request[r])
  BY OfRequest
<1>2. \/ request[r].pc = "removed"
      \/ /\ request[r].pc = "checked" /\ request[r].kind = "edit"
         /\ ~EndsSessions(request[r].old, request[r].form)
  BY DEF ChangeCommit
<1>3. Changing(request[r]) /\ request[r].kind \in {"edit", "deactivate"}
  BY <1>1, <1>2 DEF Changing, Flow
<1>4. /\ request[r].target \in User /\ user[request[r].target] \in UserRow
      /\ request[r].old \in UserRow
  BY <1>1, <1>3 DEF Flow, Known, SessionsInv, TypeOK, RequestState
<1>5. Assigned(r) \in UserRow
  BY <1>1, <1>2, <1>3, AssignedRow
<1>6. ChangedColumns(user[request[r].target], request[r].old, Assigned(r)) \in UserRow
  BY <1>4, <1>5, ColumnsOfChange
<1> QED
  BY <1>1, <1>2, <1>3, <1>4, <1>5, <1>6

\* A committed change ends what its request saw; one that fails changes nothing.
LEMMA ChangeCommitSessions ==
  ASSUME SessionsInv, NEW r \in Request, ChangeCommit(r)
  PROVE  SessionsInv'
<1>1. PICK p : p = request[r]
  OBVIOUS
<1>2. PICK row : row = ChangedColumns(user[p.target], p.old, Assigned(r))
  OBVIOUS
<1>3. /\ p \in RequestState /\ Flow(p) /\ Changing(p) /\ p.kind \in {"edit", "deactivate"}
      /\ p.pc = "removed" \/ (p.pc = "checked" /\ p.kind = "edit" /\ ~EndsSessions(p.old, p.form))
      /\ p.target \in User /\ user[p.target] \in UserRow /\ p.old \in UserRow
      /\ Assigned(r) \in UserRow /\ row \in UserRow
      /\ workers' = workers
      /\ Fate(r, p)
  BY <1>1, <1>2, ChangeCommitFacts, OfRequest DEF ChangeCommit
<1>4. PICK q : q = [p EXCEPT !.pc = "done", !.gone = {}]
  OBVIOUS
<1>5. Becomes(r, q) /\ q.pc = "done"
  BY <1>1, <1>3, <1>4 DEF ChangeCommit, RequestState
<1> DEFINE action == IF p.kind = "edit" THEN "User Updated" ELSE "User Deactivated"
<1>6. \/ UNCHANGED <<user, session, audit>>
      \/ /\ user' = [user EXCEPT ![p.target] = row]
         /\ session' = Without(p.gone)
         /\ Logs(r, action)
  BY <1>1, <1>2 DEF ChangeCommit
<1>7. action \in Actions \ {"Login"} /\ action \in {"User Updated", "User Deactivated"}
  BY DEF Actions
<1> HIDE DEF action
<1>8. CASE UNCHANGED <<user, session, audit>>
  <2>1. FewerSessions /\ MoreUsers /\ \A u \in User : user[u] # None => user'[u] = user[u]
    BY <1>8 DEF FewerSessions, MoreUsers, SessionsInv, TypeOK
  <2>2. OneServer' /\ OneServerSessions'
    BY <1>3, <1>5, <2>1, QuietForOneServer
  <2>3. "Failed Login" \in Actions \ {"Login"} /\ "Failed Login" \notin {"User Updated", "User Deactivated"}
    BY DEF Actions
  <2> QED
    BY <1>1, <1>3, <1>4, <1>5, <1>8, <2>1, <2>2, <2>3, EndBody DEF Changing
<1>9. CASE /\ user' = [user EXCEPT ![p.target] = row]
           /\ session' = Without(p.gone)
           /\ Logs(r, action)
  <2>1. row # None
    BY <1>3, NoneAssumption
  <2>2. FewerSessions /\ \A t \in Token : session'[t] = IF t \in p.gone THEN None ELSE session[t]
    BY <1>9, WithoutIsFewer
  <2>3. MoreUsers /\ user'[p.target] = row /\ \A u \in User \ {p.target} : user'[u] = user[u]
    BY <1>3, <1>9, <2>1 DEF MoreUsers, SessionsInv, TypeOK
  <2>4. ASSUME Ending(p), NEW t \in p.seen  PROVE session'[t] = None
    <3>1. t \in Token
      BY <1>3 DEF RequestState
    <3>2. p.pc = "removed"
      BY <1>3, <2>4 DEF Ending, EndsSessions
    <3> QED
      BY <1>3, <2>2, <3>1, <3>2 DEF Fate
  <2>5. workers = 1 => \A s \in Request \ {r} :
          request'[s].pc \notin {"verified", "waiting", "removed"}
    <3>1. InBody(r)
      BY <1>1, <1>3 DEF InBody
    <3>2. \A s \in Request \ {r} : request'[s] = request[s]
      BY <1>5 DEF Becomes, SessionsInv, TypeOK
    <3> QED
      BY <3>1, <3>2 DEF SessionsInv, Exclusive, InBody
  <2>6. OneServer'
    BY <1>3, <1>5, <2>5, AfterStep DEF OneServer
  <2>7. OneServerSessions'
    <3> SUFFICES ASSUME workers = 1, NEW t \in Token, session'[t] # None
                 PROVE  LET u == session'[t].owner IN
                        user'[u].active /\ session'[t].hash = user'[u].hash
      BY <1>3 DEF OneServerSessions
    <3>1. /\ session[t] # None /\ session'[t] = session[t] /\ t \notin p.gone
          /\ session[t].owner \in User
      BY <2>2 DEF SessionsInv, TypeOK, SessionRow
    <3>2. user[session[t].owner].active /\ session[t].hash = user[session[t].owner].hash
      BY <3>1 DEF SessionsInv, OneServerSessions
    <3>3. CASE session[t].owner # p.target
      BY <2>3, <3>1, <3>2, <3>3
    <3>4. CASE session[t].owner = p.target
      <4>1. p.pc # "removed"
        BY <1>1, <3>1, <3>4 DEF SessionsInv, OneServer, SessionsOf
      <4>2. p.pc = "checked" /\ p.kind = "edit" /\ ~EndsSessions(p.old, p.form)
        BY <1>3, <4>1
      <4>3. /\ Assigned(r).active = p.form.active
            /\ p.form.password # "good" => Assigned(r).hash = p.old.hash
        BY <1>1, <1>3, <4>2, AssignedRow
      <4>4. p.form.password # "good" /\ (p.old.active => p.form.active)
        BY <4>2 DEF EndsSessions
      <4>5. /\ row.active = IF Assigned(r).active = p.old.active THEN user[p.target].active
                            ELSE Assigned(r).active
            /\ row.hash = IF Assigned(r).hash = p.old.hash THEN user[p.target].hash
                          ELSE Assigned(r).hash
        BY <1>2, <1>3, ColumnsOfChange
      <4>6. row.hash = user[p.target].hash
        BY <4>3, <4>4, <4>5
      <4>7. row.active
        BY <1>3, <3>2, <3>4, <4>3, <4>4, <4>5 DEF UserRow
      <4> QED
        BY <2>3, <3>1, <3>2, <3>4, <4>6, <4>7
    <3> QED
      BY <3>3, <3>4
  <2> QED
    BY <1>1, <1>3, <1>4, <1>5, <1>7, <1>9, <2>2, <2>3, <2>4, <2>6, <2>7, EndBody DEF Changing
<1> QED
  BY <1>6, <1>8, <1>9
-----------------------------------------------------------------------------
(* The theorems. *)

\* Every step keeps the invariant.
LEMMA NextSessions == SessionsInv /\ [Next]_vars => SessionsInv'
<1> SUFFICES ASSUME SessionsInv, [Next]_vars  PROVE SessionsInv'
  OBVIOUS
<1>1. CASE UNCHANGED vars
  BY <1>1, SessionsOnly DEF vars, FewerSessions, SessionsInv, TypeOK
<1>2. ASSUME NEW r \in Request, Handle(r)  PROVE SessionsInv'
  <2>1. CASE EditDeletes(r) \/ DeactivationDeletes(r)
    BY <2>1, DeleteStep DEF EditDeletes, DeactivationDeletes
  <2> QED
    BY <1>2, <2>1, LoginVerifySessions, LoginOpenSessions, LoginAuditSessions,
       ReadSessionSessions, ReadUserSessions, LogoutSessions, CreateCheckSessions,
       ScriptCheckSessions, CreateCommitSessions, LoadSessions, EditCheckSessions,
       SessionsDeletedSessions, ChangeCommitSessions, DieSessions
    DEF Handle
<1> QED
  BY <1>1, <1>2, ExpireSessions, CleanupSessions DEF Next

\* The invariant holds whatever requests, clocks and cleanups do.
THEOREM SessionsInvariance == Spec => []SessionsInv
BY InitSessions, NextSessions, PTL DEF Spec

\* Users, sessions and requests keep their types.
THEOREM SessionsTypeCorrect == Spec => []TypeOK
<1>1. SessionsInv => TypeOK
  BY DEF SessionsInv
<1> QED
  BY <1>1, SessionsInvariance, PTL

\* A committed change leaves none of the sessions that existed when it loaded its user.
THEOREM ChangesEndSessions == Spec => []ChangeEndsEarlierSessions
<1>1. SessionsInv => ChangeEndsEarlierSessions
  BY DEF SessionsInv, Local, Fate, Ending, ChangeEndsEarlierSessions
<1> QED
  BY <1>1, SessionsInvariance, PTL

\* With one server process, no session outlives its password or its user.
THEOREM OneServerIsEnough == Spec => []OneServerSessions
<1>1. SessionsInv => OneServerSessions
  BY DEF SessionsInv
<1> QED
  BY <1>1, SessionsInvariance, PTL

\* Whoever uses a session has an audited login.
THEOREM UseIsAudited == Spec => []UsedSessionsAreAudited
<1>1. SessionsInv => UsedSessionsAreAudited
  BY DEF SessionsInv, Local, Audited, UsedSessionsAreAudited
<1> QED
  BY <1>1, SessionsInvariance, PTL

\* A user becomes active again only where a commit writes the column.
LEMMA WhoReactivates ==
  ASSUME SessionsInv, Next, NEW u \in User, user[u] # None, ~user[u].active, user'[u].active
  PROVE  \E r \in Request : /\ request[r].pc # "done" /\ request'[r].pc = "done"
                            /\ request[r].target = u
                            /\ ~request[r].old.active /\ request[r].form.active
<1>1. PICK r \in Request : CreateCommit(r) \/ ChangeCommit(r)
  BY DEF Next, Handle, Expire, Cleanup, LoginVerify, LoginOpen, LoginAudit, ReadSession,
         ReadUser, Logout, CreateCheck, ScriptCheck, Load, EditCheck, EditDeletes,
         DeactivationDeletes, SessionsDeleted, Die
<1>2. CASE CreateCommit(r)
  <2>1. user'[u] = user[u]
    BY <1>2 DEF CreateCommit, SessionsInv, TypeOK
  <2> QED
    BY <2>1
<1>3. CASE ChangeCommit(r)
  <2>1. PICK p : p = request[r]
    OBVIOUS
  <2>2. PICK row : row = ChangedColumns(user[p.target], p.old, Assigned(r))
    OBVIOUS
  <2>3. /\ p \in RequestState /\ Flow(p) /\ Changing(p) /\ p.kind \in {"edit", "deactivate"}
        /\ p.pc \in {"removed", "checked"}
        /\ p.target \in User /\ user[p.target] \in UserRow /\ p.old \in UserRow
        /\ Assigned(r) \in UserRow
    BY <1>3, <2>1, <2>2, ChangeCommitFacts
  <2>4. u = p.target /\ user'[u] = row
    BY <1>3, <2>1, <2>2 DEF ChangeCommit, SessionsInv, TypeOK
  <2>5. row.active = IF Assigned(r).active = p.old.active THEN user[u].active
                     ELSE Assigned(r).active
    BY <2>2, <2>3, <2>4, ColumnsOfChange
  <2>6. Assigned(r).active = TRUE /\ p.old.active = FALSE
    BY <2>3, <2>4, <2>5 DEF UserRow
  <2>7. p.kind = "edit" /\ p.form.active = TRUE
    BY <2>1, <2>3, <2>6, AssignedRow
  <2>8. request'[r].pc = "done"
    BY <1>3, <2>1, <2>3, AfterStep DEF ChangeCommit, RequestState
  <2> QED
    BY <2>1, <2>3, <2>4, <2>6, <2>7, <2>8
<1> QED
  BY <1>1, <1>2, <1>3

\* No edit undoes a deactivation it did not see.
THEOREM DeactivationsStick == Spec => ReactivationIsExplicit
<1>1. SessionsInv /\ [Next]_vars =>
        [\A u \in User : user[u] # None /\ ~user[u].active /\ user'[u].active =>
           \E r \in Request : /\ request[r].pc # "done" /\ request'[r].pc = "done"
                              /\ request[r].target = u
                              /\ ~request[r].old.active /\ request[r].form.active]_vars
  BY WhoReactivates
<1> QED
  BY <1>1, SessionsInvariance, PTL DEF Spec, ReactivationIsExplicit

\* A valid session is deleted only by its logout or a committed change.
LEMMA WhoEndsSessions ==
  ASSUME SessionsInv, Next, NEW t \in Token,
         session[t] # None, ~session[t].expired, session'[t] = None
  PROVE  \E r \in Request :
           /\ request[r].pc # "done" /\ request'[r].pc = "done"
           /\ \/ request[r].kind = "logout" /\ request[r].cookie = t
              \/ request[r].target = session[t].owner /\ Committed(r)'
<1>1. ~Cleanup
  BY WithoutIsFewer DEF Cleanup
<1>2. ASSUME NEW s \in Token, Expire(s)  PROVE FALSE
  BY <1>2, NoneAssumption DEF Expire, SessionsInv, TypeOK, SessionRow
<1>3. ASSUME NEW r \in Request, LoginOpen(r)  PROVE FALSE
  <2> DEFINE row == [owner |-> request[r].actor, hash |-> request[r].me.hash, expired |-> FALSE]
  <2>1. request[r].actor \in User /\ request[r].me.hash \in Hash
    BY <1>3, OfRequest DEF LoginOpen, Flow, RequestState, UserRow
  <2>2. row \in SessionRow
    BY <2>1 DEF SessionRow
  <2>3. session' = [session EXCEPT ![r] = row] /\ row # None
    BY <1>3, <2>2, NoneAssumption DEF LoginOpen
  <2> QED
    BY <2>3 DEF SessionsInv, TypeOK
<1>4. PICK r \in Request : Logout(r) \/ ChangeCommit(r)
  BY <1>1, <1>2, <1>3
  DEF Next, Handle, LoginVerify, LoginAudit, ReadSession, ReadUser, CreateCheck,
      ScriptCheck, CreateCommit, Load, EditCheck, EditDeletes, DeactivationDeletes,
      SessionsDeleted, Die
<1>5. PICK p : p = request[r]
  OBVIOUS
<1>6. p \in RequestState /\ Fate(r, p)
  BY <1>5, OfRequest
<1>7. CASE Logout(r)
  <2>1. t = p.cookie
    BY <1>5, <1>7, WithoutIsFewer DEF Logout
  <2>2. request'[r].pc = "done"
    BY <1>5, <1>6, <1>7, AfterStep DEF Logout, RequestState
  <2> QED
    BY <1>5, <1>7, <2>1, <2>2 DEF Logout
<1>8. CASE ChangeCommit(r)
  <2>1. /\ session' = Without(p.gone)
        /\ Logs(r, IF p.kind = "edit" THEN "User Updated" ELSE "User Deactivated")
    BY <1>5, <1>8 DEF ChangeCommit
  <2>2. t \in p.gone
    BY <2>1, WithoutIsFewer
  <2>3. session[t].owner = p.target
    BY <1>6, <2>2 DEF Fate
  <2>4. Committed(r)'
    BY <2>1 DEF Logs, Committed
  <2>5. Becomes(r, [p EXCEPT !.pc = "done", !.gone = {}]) /\ p.pc # "done"
    BY <1>5, <1>8 DEF ChangeCommit
  <2>6. request'[r].pc = "done"
    BY <1>6, <2>5, AfterStep DEF RequestState
  <2> QED
    BY <1>5, <2>3, <2>4, <2>5, <2>6
<1> QED
  BY <1>4, <1>7, <1>8

\* Sessions end for a reason.
THEOREM SessionsEndDuly == Spec => SessionsEndForAReason
<1>1. SessionsInv /\ [Next]_vars =>
        [\A t \in Token : session[t] # None /\ ~session[t].expired /\ session'[t] = None =>
           \E r \in Request :
             /\ request[r].pc # "done" /\ request'[r].pc = "done"
             /\ \/ request[r].kind = "logout" /\ request[r].cookie = t
                \/ request[r].target = session[t].owner /\ Committed(r)']_vars
  BY WhoEndsSessions
<1> QED
  BY <1>1, SessionsInvariance, PTL DEF Spec, SessionsEndForAReason
=============================================================================
