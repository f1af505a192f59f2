------------------------------- MODULE Sessions -------------------------------
(* Users and their sessions (app/web/auth.py, app/web/admin_users.py,
   app/auth/sessions.py), with several requests at a time.

   Atomicity.  A handler's body has no await, so it holds the event loop of its
   server process until it ends; authentication of management requests runs
   before the body, in a thread.  The deployment runs one or two server
   processes, and bodies in two of them interleave at every statement.  Nothing
   but the DELETE of sessions and the insert of a new session reaches the
   database before the commit that ends the handler.  Transactions are READ
   COMMITTED.

   Data.  A password hash is named by the request that set it.  Display names,
   addresses and agents are left out, as is is_deleted, which nothing sets. *)
EXTENDS Integers, FiniteSets

CONSTANTS
  User,          \* ids of users
  Name,          \* usernames
  Request,       \* requests; each is sent once
  Form,          \* what the forms of user administration may contain
  First,         \* a session from before, of user Founder
  Founder,
  InitialUsers,  \* the users table at the start
  Workers,       \* numbers of server processes to consider
  None

Token == Request \cup {First}     \* a session is named by its login
Hash == Request \cup {None}       \* None: the password of an initial user

UserRow == [name : Name, role : {"admin", "user"}, active : BOOLEAN, hash : Hash]

SessionRow == [owner : User,
               hash : Hash,          \* history: what the login verified
               expired : BOOLEAN]

FormType == [name : Name, role : {"admin", "user", "other"}, active : BOOLEAN,
             password : {"none", "weak", "good"}]

ASSUME SessionsAssumption ==
  /\ IsFiniteSet(Request)
  /\ Form \subseteq FormType
  /\ InitialUsers \in [User -> UserRow \cup {None}]
  /\ Founder \in User /\ InitialUsers[Founder] # None
  /\ InitialUsers[Founder].active
  /\ \A u \in User : InitialUsers[u] # None => InitialUsers[u].hash = None
  /\ First \notin Request
  /\ Workers \subseteq Nat \ {0}

ASSUME NoneAssumption == /\ None \notin UserRow /\ None \notin SessionRow
                         /\ None \notin User /\ None \notin Token /\ None \notin Form

VARIABLES
  workers,   \* number of server processes
  user,      \* user[u]: the row of users
  session,   \* session[t]: the row of user_sessions
  request,   \* request[r]: request r
  audit      \* rows of audit_logs: request and action

vars == <<workers, user, session, request, audit>>
-----------------------------------------------------------------------------
(* pc of a request:
     sent      not handled yet
     session   its session row was found, its user not read
     in        authenticated; the body has not begun, except of a logout
     verified  login: the password matches
     opened    login: the session is committed
     loaded    the user to change has been read
     checked   the form is acceptable
     waiting   DELETE of the sessions has its snapshot, it may have to wait
     removed   the sessions are deleted, not committed
     done      answered
     died      its process was killed *)
RequestState ==
  [pc : {"sent", "session", "in", "verified", "opened", "loaded", "checked",
         "waiting", "removed", "done", "died"},
   kind : {"login", "logout", "create", "script", "edit", "deactivate"},
   cookie : Token \cup {None},
   actor : User \cup {None},        \* current_user; the user who logs in
   me : UserRow \cup {None},        \* the actor's row as the session has it
   target : User \cup {None},
   old : UserRow \cup {None},       \* the target's row as the session has it
   form : Form \cup {None},
   seen : SUBSET Token,             \* history: sessions of the target at its load
   gone : SUBSET Token]             \* rows its DELETE takes

Sent == [pc |-> "sent", kind |-> "login", cookie |-> None, actor |-> None, me |-> None,
         target |-> None, old |-> None, form |-> None, seen |-> {}, gone |-> {}]

Actions == {"Login", "Failed Login", "Logout", "User Created", "User Updated",
            "User Deactivated"}

TypeOK == /\ workers \in Workers
          /\ user \in [User -> UserRow \cup {None}]
          /\ session \in [Token -> SessionRow \cup {None}]
          /\ request \in [Request -> RequestState]
          /\ audit \subseteq Request \X Actions

Init == /\ workers \in Workers
        /\ user = InitialUsers
        /\ session = [t \in Token |->
             IF t = First THEN [owner |-> Founder, hash |-> None, expired |-> FALSE]
             ELSE None]
        /\ request = [r \in Request |-> Sent]
        /\ audit = {}
-----------------------------------------------------------------------------
Becomes(r, state) == request' = [request EXCEPT ![r] = state]
Logs(r, action) == audit' = audit \cup {<<r, action>>}

\* The request's handler holds the event loop of a server process.
InBody(r) ==
  \/ request[r].pc \in {"verified", "opened", "loaded", "waiting", "removed"}
  \/ request[r].pc = "checked" /\ request[r].kind # "script"
  \/ request[r].pc \in {"session", "in"} /\ request[r].kind = "logout"

FreeWorker == Cardinality({r \in Request : InBody(r)}) < workers

\* Cookies that were sent to a client.
Cookies == {First} \cup {r \in Request : /\ request[r].kind = "login"
                                         /\ request[r].actor # None
                                         /\ request[r].pc = "done"}

\* Wrong variant: the condition on the user is missing.
AllSessions(u) == {t \in Token : session[t] # None}

SessionsOf(u) == {t \in Token : session[t] # None /\ session[t].owner = u}

Without(tokens) == [t \in Token |-> IF t \in tokens THEN None ELSE session[t]]

NameTaken(name, self) == \E u \in User \ {self} : user[u] # None /\ user[u].name = name

ValidRole(f) == f.role \in {"admin", "user"}

\* What password_errors finds; it is asked only of a password that is there.
password_errors(f) == f.password = "weak"

\* Wrong variant: all columns are written.
WholeRow(current, old, new) == new

\* The UPDATE of a flush sets the columns whose value differs from the loaded one.
ChangedColumns(current, old, new) ==
  [c \in DOMAIN current |-> IF new[c] = old[c] THEN current[c] ELSE new[c]]
-----------------------------------------------------------------------------
(* login_submit up to verify_password: too many attempts, invalid credentials
   with an audit row, or a user whose password matches. *)
LoginVerify(r) ==
  /\ request[r].pc = "sent"
  /\ FreeWorker
  /\ \/ \E u \in User :
          /\ user[u] # None /\ user[u].active
          /\ Becomes(r, [Sent EXCEPT !.pc = "verified", !.actor = u, !.me = user[u]])
          /\ UNCHANGED audit
     \/ /\ Becomes(r, [Sent EXCEPT !.pc = "done"])
        /\ Logs(r, "Failed Login")
     \/ /\ Becomes(r, [Sent EXCEPT !.pc = "done"])       \* 429
        /\ UNCHANGED audit
  /\ UNCHANGED <<workers, user, session>>

\* Wrong variant: the response is sent without the second commit.
AnsweredAtOnce == "done"

\* create_user_session has committed; the audit row is still to come.
AfterOpen == "opened"

\* create_user_session
LoginOpen(r) ==
  /\ request[r].pc = "verified"
  /\ Becomes(r, [request[r] EXCEPT !.pc = AfterOpen])
  /\ session' = [session EXCEPT ![r] = [owner |-> request[r].actor,
                                        hash |-> request[r].me.hash, expired |-> FALSE]]
  /\ UNCHANGED <<workers, user, audit>>

\* The audit row is committed and the cookie sent.
LoginAudit(r) ==
  /\ request[r].pc = "opened"
  /\ Becomes(r, [request[r] EXCEPT !.pc = "done"])
  /\ Logs(r, "Login")
  /\ UNCHANGED <<workers, user, session>>

\* get_user_from_session_token finds nobody: only a logout goes on.
Nobody(r, kind, t) ==
  Becomes(r, [Sent EXCEPT !.pc = IF kind = "logout" THEN "in" ELSE "done",
                          !.kind = kind, !.cookie = t])

(* get_user_from_session_token, the query of the session, with a cookie a client
   may still have. *)
ReadSession(r) ==
  /\ request[r].pc = "sent"
  /\ \E t \in Cookies, kind \in {"logout", "create", "edit", "deactivate"} :
       /\ kind = "logout" => FreeWorker
       /\ IF session[t] # None /\ ~session[t].expired
          THEN Becomes(r, [Sent EXCEPT !.pc = "session", !.kind = kind, !.cookie = t,
                                       !.actor = session[t].owner])
          ELSE Nobody(r, kind, t)
  /\ UNCHANGED <<workers, user, session, audit>>

require_admin(me) == me.role = "admin"

\* The query of the user, and require_admin for what is not a logout.
ReadUser(r) ==
  LET me == user[request[r].actor]
      kind == request[r].kind IN
  /\ request[r].pc = "session"
  /\ \/ /\ ~me.active
        /\ Nobody(r, kind, request[r].cookie)
     \/ /\ me.active
        /\ kind = "logout" \/ require_admin(me)
        /\ Becomes(r, [request[r] EXCEPT !.pc = "in", !.me = me])
     \/ /\ me.active
        /\ kind # "logout" /\ ~require_admin(me)
        /\ Becomes(r, [request[r] EXCEPT !.pc = "done"])
  /\ UNCHANGED <<workers, user, session, audit>>

\* Another transaction has deleted a row and not committed.
Locked(r, tokens) ==
  \E q \in Request \ {r} : request[q].pc = "removed" /\ request[q].gone \cap tokens # {}

(* logout: the session is deleted, whoever it was of; the audit row only if its user
   was found. *)
Logout(r) ==
  /\ request[r].pc = "in" /\ request[r].kind = "logout"
  /\ ~Locked(r, {request[r].cookie})
  /\ Becomes(r, [request[r] EXCEPT !.pc = "done"])
  /\ session' = Without({request[r].cookie})
  /\ IF request[r].actor # None THEN Logs(r, "Logout") ELSE UNCHANGED audit
  /\ UNCHANGED <<workers, user>>

\* A new user may be inserted.
Creatable(f) == f.password # "none" /\ ~password_errors(f) /\ ~NameTaken(f.name, None)

\* user_create_submit up to its checks
CreateCheck(r) ==
  /\ request[r].pc = "in" /\ request[r].kind = "create"
  /\ FreeWorker
  /\ \E f \in Form :
       IF ValidRole(f) /\ Creatable(f)
       THEN Becomes(r, [request[r] EXCEPT !.pc = "checked", !.form = f])
       ELSE Becomes(r, [request[r] EXCEPT !.pc = "done"])
  /\ UNCHANGED <<workers, user, session, audit>>

\* create_admin.py, a process of its own, up to its checks
ScriptCheck(r) ==
  /\ request[r].pc = "sent"
  /\ \E f \in Form :
       /\ f.role = "admin" /\ f.active
       /\ IF Creatable(f)
          THEN Becomes(r, [Sent EXCEPT !.pc = "checked", !.kind = "script", !.form = f])
          ELSE Becomes(r, [Sent EXCEPT !.pc = "done"])
  /\ UNCHANGED <<workers, user, session, audit>>

(* The insert with its audit row, or the rollback on the unique index. *)
CreateCommit(r) ==
  LET f == request[r].form IN
  /\ request[r].pc = "checked" /\ request[r].kind \in {"create", "script"}
  /\ Becomes(r, [request[r] EXCEPT !.pc = "done"])
  /\ IF NameTaken(f.name, None) THEN UNCHANGED <<user, audit>>
     ELSE /\ \E u \in User :
               /\ user[u] = None
               /\ user' = [user EXCEPT ![u] = [name |-> f.name, role |-> f.role,
                                               active |-> f.active, hash |-> r]]
          /\ IF request[r].kind = "create" THEN Logs(r, "User Created")
             ELSE UNCHANGED audit
  /\ UNCHANGED <<workers, session>>

(* Edit and deactivation load the user.  One's own row is in the session since
   authentication, and a query does not refresh it. *)
Load(r) ==
  /\ request[r].pc = "in" /\ request[r].kind \in {"edit", "deactivate"}
  /\ FreeWorker
  /\ \E u \in User :
       IF user[u] = None THEN Becomes(r, [request[r] EXCEPT !.pc = "done"])
       ELSE Becomes(r, [request[r] EXCEPT
                          !.pc = "loaded", !.target = u, !.seen = SessionsOf(u),
                          !.old = IF u = request[r].actor THEN request[r].me ELSE user[u]])
  /\ UNCHANGED <<workers, user, session, audit>>

\* user_edit_submit up to its checks
EditCheck(r) ==
  /\ request[r].pc = "loaded" /\ request[r].kind = "edit"
  /\ \E f \in Form :
       IF ValidRole(f) /\ ~NameTaken(f.name, request[r].target) /\ ~password_errors(f)
       THEN Becomes(r, [request[r] EXCEPT !.pc = "checked", !.form = f])
       ELSE Becomes(r, [request[r] EXCEPT !.pc = "done"])
  /\ UNCHANGED <<workers, user, session, audit>>

\* Wrong variant: disabling through the form leaves the sessions.
EndsAtNewPassword(old, f) == f.password = "good"

\* password_changed or (was_active and not is_active)
EndsSessions(old, f) == f.password = "good" \/ (old.active /\ ~f.active)

\* delete_user_sessions: the DELETE takes the rows committed when it starts.
delete_user_sessions(r) ==
  Becomes(r, [request[r] EXCEPT !.pc = "waiting", !.gone = SessionsOf(request[r].target)])

EditDeletes(r) ==
  /\ request[r].pc = "checked" /\ request[r].kind = "edit"
  /\ EndsSessions(request[r].old, request[r].form)
  /\ delete_user_sessions(r)
  /\ UNCHANGED <<workers, user, session, audit>>

DeactivationDeletes(r) ==
  /\ request[r].pc = "loaded" /\ request[r].kind = "deactivate"
  /\ delete_user_sessions(r)
  /\ UNCHANGED <<workers, user, session, audit>>

\* The DELETE has all its row locks; rows deleted meanwhile are passed over.
SessionsDeleted(r) ==
  /\ request[r].pc = "waiting"
  /\ ~Locked(r, request[r].gone)
  /\ Becomes(r, [request[r] EXCEPT !.pc = "removed",
                                   !.gone = {t \in @ : session[t] # None}])
  /\ UNCHANGED <<workers, user, session, audit>>

\* What the two handlers assign to the loaded row.
Deactivated(old) == [old EXCEPT !.active = FALSE]

Edited(old, f, r) == [name |-> f.name, role |-> f.role, active |-> f.active,
                      hash |-> IF f.password = "good" THEN r ELSE old.hash]

Assigned(r) == IF request[r].kind = "deactivate" THEN Deactivated(request[r].old)
               ELSE Edited(request[r].old, request[r].form, r)

(* Flush and commit of an edit or a deactivation, or the rollback on the unique
   index. *)
ChangeCommit(r) ==
  LET u == request[r].target
      row == ChangedColumns(user[u], request[r].old, Assigned(r)) IN
  /\ \/ request[r].pc = "removed"
     \/ /\ request[r].pc = "checked" /\ request[r].kind = "edit"
        /\ ~EndsSessions(request[r].old, request[r].form)
  /\ Becomes(r, [request[r] EXCEPT !.pc = "done", !.gone = {}])
  /\ IF NameTaken(row.name, u) THEN UNCHANGED <<user, session, audit>>
     ELSE /\ user' = [user EXCEPT ![u] = row]
          /\ session' = Without(request[r].gone)
          /\ Logs(r, IF request[r].kind = "edit" THEN "User Updated" ELSE "User Deactivated")
  /\ UNCHANGED workers

(* The process of a request is killed; its transaction is rolled back. *)
Die(r) ==
  /\ request[r].pc \notin {"sent", "done", "died"}
  /\ Becomes(r, [request[r] EXCEPT !.pc = "died", !.gone = {}])
  /\ UNCHANGED <<workers, user, session, audit>>

\* expires_at has passed.
Expire(t) ==
  /\ session[t] # None /\ ~session[t].expired
  /\ session' = [session EXCEPT ![t].expired = TRUE]
  /\ UNCHANGED <<workers, user, request, audit>>

(* cleanup_expired_data deletes sessions that expired long enough ago.  In the same
   transaction it deletes audit rows of a certain age (retention.py:31); that is left
   out here, where audit is the history of the rows that were committed. *)
Cleanup ==
  /\ \E old \in SUBSET {t \in Token : session[t] # None /\ session[t].expired} :
       /\ old # {}
       /\ \A t \in old : \A r \in Request : ~(request[r].pc = "removed" /\ t \in request[r].gone)
       /\ session' = Without(old)
  /\ UNCHANGED <<workers, user, request, audit>>

Handle(r) == \/ LoginVerify(r) \/ LoginOpen(r) \/ LoginAudit(r)
             \/ ReadSession(r) \/ ReadUser(r) \/ Logout(r)
             \/ CreateCheck(r) \/ ScriptCheck(r) \/ CreateCommit(r)
             \/ Load(r) \/ EditCheck(r) \/ EditDeletes(r) \/ DeactivationDeletes(r)
             \/ SessionsDeleted(r) \/ ChangeCommit(r) \/ Die(r)

Next == \/ \E r \in Request : Handle(r)
        \/ \E t \in Token : Expire(t)
        \/ Cleanup

Spec == Init /\ [][Next]_vars
-----------------------------------------------------------------------------
Committed(r) == \E action \in {"User Updated", "User Deactivated"} : <<r, action>> \in audit

(* README.md:194: password changes and user disabling invalidate that user's existing
   sessions.  Whatever logins, logouts and other changes come between: the
   sessions that existed when a committed change loaded its user are gone, if the
   change set a password or took active away (admin_users.py:300, 338). *)
ChangeEndsEarlierSessions ==
  \A r \in Request :
    /\ Committed(r)
    /\ request[r].kind = "edit" =>
         request[r].form.password = "good" \/ (request[r].old.active /\ ~request[r].form.active)
    => \A t \in request[r].seen : session[t] = None

(* With one server process no session outlives the password it was opened with
   or the deactivation of its user: login_submit and the DELETE cannot
   interleave (auth.py:38-45). *)
OneServerSessions ==
  workers = 1 =>
    \A t \in Token : session[t] # None =>
      LET u == session[t].owner IN user[u].active /\ session[t].hash = user[u].hash

(* A user becomes active again only by an edit that loaded it inactive and was
   told so: an edit that loaded it before a deactivation and commits after it
   does not undo the deactivation (admin_users.py:295). *)
ReactivationIsExplicit ==
  [][\A u \in User : user[u] # None /\ ~user[u].active /\ user'[u].active =>
       \E r \in Request : /\ request[r].pc # "done" /\ request'[r].pc = "done"
                          /\ request[r].target = u
                          /\ ~request[r].old.active /\ request[r].form.active]_vars

(* A valid session ends only by its own logout or by a committed change of its
   user; a change that fails on the unique index leaves all sessions as they
   are (admin_users.py:301, 311). *)
SessionsEndForAReason ==
  [][\A t \in Token : session[t] # None /\ ~session[t].expired /\ session'[t] = None =>
       \E r \in Request :
         /\ request[r].pc # "done" /\ request'[r].pc = "done"
         /\ \/ request[r].kind = "logout" /\ request[r].cookie = t
            \/ request[r].target = session[t].owner /\ Committed(r)']_vars

(* A session whose cookie a client holds is in the audit log, although it is
   committed before its audit row; what a killed login leaves behind nobody can
   use (auth.py:45-47).  That is about the order of the two commits: how long the row
   is kept afterwards, nothing in the settings relates to the life of a session. *)
UsedSessionsAreAudited ==
  \A r \in Request : request[r].cookie \in Request => <<request[r].cookie, "Login">> \in audit
=============================================================================
