# A formal model of Billson's Forms

TLA+ specifications of Billson's Forms, the self-hosted service that accepts HTML
form submissions and delivers them by e-mail, with the TLC configurations that
model-check them and TLAPS proofs of the results that should hold whatever the
deployment. Paths are relative to the repository; `delivery_queue.py:248` stands
for `app/services/delivery_queue.py`, line 248, and so on.

The specifications are translated from the code, not from its documentation.
Where the two disagree the model follows the code, and the section *Findings*
says so.

## 1. The system

A browser posts a form to `POST /api/v1/forms/{slug}`. The API process (uvicorn,
two worker processes, each an asyncio loop) checks origin, rate limit, body and
CAPTCHA, resolves the endpoint's configuration into an encrypted snapshot, stores
it as a row of `email_delivery_jobs` together with a row of
`endpoint_delivery_logs`, and answers 202. Any number of worker processes poll
the table, claim a job, send the message through the SMTP server named in the
snapshot and record how it went. A cleanup process deletes old rows every hour.
Administrators edit endpoints and users through server-rendered pages. Everything
is shared through one PostgreSQL database; no process talks to another directly.

### Inventory

| Component | Source | State it keeps | Operations | What makes it correct |
|---|---|---|---|---|
| Delivery queue | `services/delivery_queue.py` | rows of `email_delivery_jobs` | enqueue, claim, refresh heartbeat, complete, fail (release or give up) | one owner at a time; only the owner ends a claim; the snapshot lives as long as the job is pending; every job ends |
| Worker, heartbeat | `services/worker.py` | the claimed job, its ORM session, heartbeat task, `stop_event`, `ownership_lost` | `process_one`, `heartbeat_job`, `stop_heartbeat`, `update_delivery_log` | a result counts only while the claim is current; the log tells the outcome |
| SMTP dialogue | `services/email.py` | a connection in a thread | connect, STARTTLS, login, send, quit | errors are temporary or permanent; success only after the server took the message |
| Cleanup | `services/retention.py` | none | one transaction over five tables | deletes nothing that is still needed |
| Submission API | `api/forms.py`, `services/payloads.py`, `services/cap.py` | a request's ORM session | preflight, submit | what is accepted was configured; rejections leave no job; order of the checks |
| Endpoint management | `web/endpoints.py` | `form_endpoints`, `form_endpoint_recipients` | create, edit, delete, test SMTP, test CAP | configurations stay valid under concurrent edits |
| Rate limiter | `services/rate_limit.py` | `rate_limit_buckets` | `check_rate_limit` | at most `limit` accepted per window; a client that waits `retry_after` is in a new window |
| Sessions and users | `auth/sessions.py`, `web/auth.py`, `web/admin_users.py`, `web/admin.py`, `web/dashboard.py`, `scripts/create_admin.py` | `users`, `user_sessions`, `audit_logs` | login, logout, authentication, create, edit, deactivate | a password change or deactivation ends the user's sessions, nothing else does, and a disabled user stays disabled |
| Gateway | `core/origins.py`, `core/cors.py`, `core/client_ip.py`, the first half of `api/forms.py` | `form_endpoints.allowed_origins` | normalise, store and read back a list, preflight, check, answer; find the client's address | a list admits what was typed and nothing else; a listed page is served; a client is counted under its own address |
| Endpoint validation | `core/endpoint_validation.py`, `core/network_validation.py` | none | accept or refuse a form | what validation relied on holds of the row that is written |
| Settings | `core/config.py` | none | start-up validation | the timing the queue relies on |
| The rest | CSRF, headers, encryption, audit, health, templates, scripts, migrations, CI | | | see *Not modelled* |

`PROJECT.json` lists every component with its status, and under `hazards` the
places of the code that are hard to test.

### How the parts meet

* API and workers meet in a row of `email_delivery_jobs` and the log row that
  carries its id; both are inserted in one transaction (`forms.py:146-151`), and
  nothing but the id ties them together afterwards (there is no foreign key).
* Workers meet each other in `status`, `locked_by`, `locked_at`,
  `available_at`. Rows are locked only inside a transaction; between two of them
  a claim is nothing but these columns and the clock.
* A worker meets its own heartbeat task in two asyncio events. The heartbeat
  runs its transaction in a thread with a session of its own.
* Workers meet the cleanup in terminal rows, the API meets it in expired
  buckets and sessions.
* Administrators meet submissions in endpoint and recipient rows, read at
  different moments of a request.
* Logins meet changes of their user in `user_sessions`: a login verifies a row of
  `users` and inserts a session, a change deletes the sessions it sees and
  commits later.
* The mail server meets the queue in how an attempt ends: `email.py` turns the
  exceptions of smtplib into a delivery, a retry or an end.
* Reverse proxies meet the API in `X-Forwarded-For`, which grows as a request is
  carried.

### What is hard

Stale claims of live workers; crashes between sending and recording; values the
ORM session cached before a long SMTP dialogue; the log updated in a second
transaction; a heartbeat that fails alone; clock margins; a row purged under a
slow worker. In the API: configuration read before and after an `await`,
concurrent edits. In administration: a login racing a password change in the other
server process, an edit that loaded a user before its deactivation, a change that
fails after it deleted sessions. In the SMTP dialogue: a connection that is lost
after the message was taken, an error in QUIT that takes the place of the error
before it. At the gateway: a stored list that cannot be read back and then admits
everybody, an answer given after an edit, and a saved list that another edit's
comparison loses.

## 2. Plan

| Order | Module | Contents | State |
|---|---|---|---|
| 1 | `JobLedger` | abstract specification: what the queue promises of a job | done |
| 2 | `RetryBackoff` | the back-off function | done |
| 3 | `DeliveryQueue` | rows, workers, heartbeat, cleanup of jobs | done |
| 4 | `DeliveryQueueSafety` | invariants, inductive invariant, refinement of 1 | done |
| 5 | `TimelyDelivery` | timed behaviour, fairness, liveness | done |
| 6 | `DeliveryQueueProofs` | TLAPS proofs of 4 | done |
| 7 | `EndpointConfig` | endpoints and recipients as concurrent management transactions | done |
| 8 | `SubmissionAPI` | the submit handler's steps between awaits, over 7 | done |
| 9 | `RateLimiter` | windows, upsert, cleanup of buckets | done |
| 10 | `EndpointConfigProofs`, `SubmissionProofs`, `RateLimiterProofs` | TLAPS proofs of 7, 8 and 9 | done |
| 11 | `Sessions`, `SessionsProofs` | users, sessions and their audit rows under concurrent requests, and the proofs | done |
| 12 | `SmtpSession`, `SmtpSessionProofs` | the dialogue command by command over several attempts; refines 1 | done |
| 13 | `Origins`, `ClientIp`, `Gateway`, `GatewayProofs` | the decisions on origins and addresses, composed with edits, preflights, proxies and answers | done |
| 14 | `TimelyProofs` | the real-time invariant behind the properties of 5 that are not liveness, and the back-off | done |

How modules use one another: `DeliveryQueueSafety` extends 3 and instantiates 1,
`TimelyDelivery` and `DeliveryQueueProofs` extend it; `SmtpSession` instantiates 1 as
well, so that the dialogue and the queue are two implementations of one ledger;
`SubmissionAPI` extends 7; `Gateway` extends `Origins` and `ClientIp`. Proofs extend
the module they are about, `SubmissionProofs` those of 7 too, and `TimelyProofs` those of 3
and the back-off.

A composition of submission, limiter and queue into one system was considered and
left out. They meet in one transaction, the accepting one (`Commit` of 8, `Enqueue`
of 3), and nothing that follows it reads what preceded it: the worker uses the
snapshot and never the endpoint. The composed state space would add interleavings
but no behaviour.

## 3. The queue model

### State

| Variable | Code |
|---|---|
| `row[j]` | the row of `email_delivery_jobs`: status, attempts, presence of `encrypted_payload`, `available_at`, `locked_at`, `locked_by`, `terminal_at` |
| `log[j]` | the row of `endpoint_delivery_logs` with `delivery_job_id` = j: `success`, `delivery_status`; `None` when absent |
| `wk[w]` | a worker process: its place in `process_one`, the job, `job.attempts` as its session cached it, the heartbeat task, `ownership_lost`, the outcome of the send |
| `mailed[j]`, `wk[w].claim` | history: under which attempts the mail server took the message; which attempt a worker's claim is |
| `crashes` | history and bound |

`max_attempts` of a row is the setting at the time of the submission; the model
has one value. `last_error`, `delivered_at`, the snapshot's contents and the log's
metadata are left out: no decision reads them. A purged row keeps `attempts` in
the model, as history.

### Actions

| Action | Code |
|---|---|
| `Enqueue` | the accepting transaction of `submit_form` |
| `ClaimSelect`, `ClaimCommit`, `RefreshFails` / `SnapshotInvalid` / `StartSending` | `claim_job` as SELECT ... FOR UPDATE SKIP LOCKED, commit, refresh without lock; then `decrypt_job_snapshot` and the start of the two tasks |
| `HeartbeatStart`, `HeartbeatRefresh`, `HeartbeatError` | one round of `heartbeat_job`: clock read, UPDATE under the owner's conditions, or an exception |
| `SmtpAccept`, `SendEnd` | the server takes the message; the thread returns or raises |
| `StopHeartbeat` | `stop_heartbeat` has joined the task, `ownership_lost` is looked at |
| `CompleteJob`, `FailJob`, `NotOwner` | the final transition, or no row under the owner's conditions |
| `WriteLog` | `update_delivery_log` |
| `Crash`, `Restart` | a process dies, Compose restarts it |
| `Cleanup` | `cleanup_expired_data`, for jobs and log rows |
| `Tick` | time |

One action is one transaction or one resumption of the event loop. A waiting
transaction is a guard (`~RowLocked`), a skipping one passes over the row.
`process_one` runs synchronous database calls on the event loop, so its own
heartbeat cannot run between the final transition and the log update; it has been
joined before in any case.

What the session caches matters. `claim_job` commits, which expires the job's
attributes, and reads them back; from then on `fail_job`'s locking SELECT returns
the row but does not overwrite loaded attributes, so `job.attempts` is the value
read before the SMTP dialogue (`wk[w].att`). `update_delivery_log(db, job.id, ...)`
comes after another commit and reloads the attribute, which raises when the row
has been purged; nothing catches it and the process ends (`WriteLog`).

### Time

Timestamps are kept as distances from now, and `Tick` moves them all, so the state
space is finite without a clock variable. Every age saturates one past the bound it
is compared with. `available_at` of a job overdue by `Horizon` ticks is no longer
distinguished from an older one: only the order among long-overdue jobs is lost,
and `ClaimSelect` then allows either. The model assumes that hosts share a clock.

`Spec` lets any step take any time. `TimelySpec` (module `TimelyDelivery`) lets
time pass only while every worker is within `Latency` ticks of its last clock
reading and its heartbeat is not overdue: the assumption under which a lock timeout
means anything. The SMTP thread is never limited.

### Properties

Under `Spec`, whatever the delays (run `queue_safety`, and proved):

* `OwnerHoldsLatestClaim`: passing the ownership check implies holding the newest
  claim, and the cached attempts are the row's. This is what makes the
  stale cache of `fail_job` harmless.
* `DeliveredWasMailed`: *delivered* is recorded only when the server took the
  message under the claim that was current.
* `SnapshotLifetime`: the encrypted snapshot exists exactly while the job is
  pending.
* `RetriesWithinLimit`: a job waiting for a retry has an attempt left.
* `LogNeverAheadOfJob`: the log never reports an end the job has not come to.
* `OnlyHolderEndsClaim`: no step ends a claim but the final transition of the worker
  that made it, and not when it found its ownership lost.
* `LedgerSpec`: every step is a step of `JobLedger` or invisible to it. The mapping
  takes the row's status to the ledger's phase and `attempts` to its epoch.

Under `TimelySpec` (run `queue_timely`, and proved under the conditions of section 9):

* `NoConcurrentProcessing`, `LiveHeartbeatPreventsReclaim`: no two live workers
  process one job, no claim is taken from a live one.
* `DuplicatesNeedCrashes`, `ExtraAttemptsNeedCrashes`: at most one message more than
  crashes, if the server's answer to an accepted message arrives; at most `AttemptsGranted` plus crashes attempts. `AttemptsGranted` is
  `MaxAttempts`, or 1 where that is 0: a setting of zero is not refused, and the first
  claim does not ask for it.
* `LogWriterHasLatestClaim`: log entries are written in the order of attempts.
* `HistoryOutlivesJob`: the row is purged only after the log has the outcome.
* `TimelyInv`: the invariant the proofs of these rest on.

The run has no heartbeat that raises and no lost answer to a message: the properties on
processing, attempts and copies do not hold with them (sections 9 and 10). Both faults
are in `queue_safety`, whose properties hold whatever the heartbeat does.

Under `FairSpec` (run `queue_liveness`): `EventuallyFinished`, crashes included, and
`OutcomeEventuallyLogged` unless there is one (after a crash between the two last
transactions the log says *queued* forever). The latter also needs a back-off
longer than a worker's delay between these transactions, as the run has it
(section 10).

### Fairness

Weak fairness of the clock, of each worker's own steps (a process that can run
does; the loop polls forever, `worker.py:140`), of the end of a send (every socket
operation has `smtp_timeout_seconds`, `email.py:37`), of `Restart`
(`restart: unless-stopped`, `docker-compose.yml:3`) and of `Cleanup` (it loops
forever). No fairness for `Enqueue`, `SmtpAccept`, faults or crashes: the mail
server may refuse forever. Weak fairness is enough for the workers because a
worker's pending transaction is only ever blocked by another's row lock, which
that worker's own fairness releases, and claimable jobs stay claimable until
claimed.

### Bounds

| Bound | Why it is enough |
|---|---|
| 1 job in `queue_safety`, `queue_liveness` | rows meet only in the ordering of `ClaimSelect` and in the time a worker has; `queue_timely` has two jobs |
| 2 workers | every conflict is between an owner and one contender; a third contender conflicts with the second in the same way |
| `MaxAttempts` 2, `MaxClaims` 3 or 4 | a retry, the last attempt, and claims past the limit. Where liveness is checked, `MaxClaims` is at least `MaxAttempts` + `MaxCrashes`, so that the bound never stops a behaviour |
| `LockTimeout` 2 or 3, interval 1 | the smallest values with and without the margin the heartbeat needs |
| `MaxCrashes` 0 to 2 | a crash at every step, also of the worker that takes over |

`MaxClaims` is the only bound that cuts behaviours of `Spec`: there a job can
change hands forever. Deadlock checking stays on in all runs of the queue; time can always
pass, or a step is possible.

## 4. Endpoint management and submission

### EndpointConfig

`endpoint[e]` is the row of `form_endpoints` (the columns that guards and
validation look at), `recipients[e]` its rows of `form_endpoint_recipients`, named
by the request that inserted them and their address, `edit[a]` a management
request with the row it loaded and the form it was sent.

| Action | Code |
|---|---|
| `CreateCheck`, `CreateCommit` | `endpoint_create_submit`: validation and slug query; inserts and commit |
| `Load`, `EditCheck`, `DeleteRecipients`, `RecipientsRemoved`, `EditCommit` | `endpoint_edit_submit`: the row, validation and slug query, the DELETE of `replace_recipients` (its snapshot; its row locks), flush and commit |
| `Load`, `DeleteCommit` | `endpoint_delete_submit` |

Three facts about the database and the session carry the model. Sessions have
`autoflush=False`, so of an edit only the DELETE, a statement of its own, reaches
the database before the commit. The UPDATE of a flush sets only the columns whose
value differs from the loaded one (`ChangedColumns`). Under READ COMMITTED a
DELETE takes the rows committed when it starts, waits for rows another
transaction deletes, and passes over those it finds deleted then.

Run `endpoint_config`: two endpoints, two slugs, three requests of any kind on
them, forms with and without new secrets. Two requests make each race and the third
lets it happen to a row that was created or edited before. A management request
is sent once, so the instance comes to an end and deadlock is not checked.

* `SlugNamesOneEndpoint`: the race between the slug query and the insert is
  decided by the unique index.
* `SecretsPresent`: a form may omit a secret that the loaded row has. Because a
  flush never clears a secret, the committed row has it whatever was committed in
  between.
* `DeletionIsFinal`: an edit that loaded the endpoint before its deletion does not
  bring it back.

### SubmissionAPI

Extends `EndpointConfig` by submissions. `req[r]` is a request with its place in
`submit_form`, the endpoint's columns as its session has them (`cfg`), the
verdict of CAP and the recipients of the snapshot; `past[e]` is history, the
configurations that were committed.

| Action | Code (`forms.py`) |
|---|---|
| `Lookup` | endpoint, `is_active`, origin check |
| `Limit` | `check_rate_limit`; its commit expires the endpoint object, which is read again |
| `Body` | `parse_submission_payload`, the first await |
| `Cap` | `verify_cap_token`, the second await, with every status it can return or raise |
| `Compose` | recipients, Reply-To, `create_delivery_snapshot` |
| `Commit` | job and log row, or the rollback |

What clients send, the limiter's verdict and the CAP service's answer are
choices of the environment. A redirect (303) counts as the answer it replaces.

Run `submission`: one endpoint, three management requests and one submission at
a time that can be repeated. Submissions do not meet one another in these tables,
so one is enough; three requests are a creation and two edits.

* `SnapshotWasConfigured`: an accepted snapshot uses columns that were committed at
  one time since the request began, recipients of the same time or later, of an
  endpoint that was enabled when the request began.
* `CapEnforced`: while an endpoint requires CAP, nothing is accepted without the
  service's consent, whatever edits do to URL and secret meanwhile.

That a snapshot has recipients, and each once, is checked when it is made (`Compose`)
and needs no property: nothing comes between the check and its use.

## 5. The rate limiter

`RateLimiter` models one scope and client address. `bucket[s]` is the row of the window
that starts at tick s, `req[c]` a request, `granted[s]` history. `Read` is the clock
reading of `check_rate_limit`, `Count` the upsert and the decision, `Cleanup` the
DELETE of `cleanup_expired_data` with a clock reading that may be old. Ticks are
fractions of a second, so `int(...)` truncates as in the code. Limit and window
length are constants, an edit of the endpoint between two requests is left out.
The branch for other databases (`rate_limit.py:46-63`) serves the tests.

Under `TimelySpec` a request counts within `Delay` ticks of reading the clock. Run
`rate_limit`: a limit of 1, two windows of two seconds of two ticks each, three
requests at a time, each client again and again, `Retention` as short as
`Delay` = `Retention` + 1 allows. `MaxTime` ends the instance, so deadlock is not
checked; `MaxCount` is beyond the limit by two.

* `WindowLimit`: a window lets at most `Limit` requests through.
* `RefusedWhenFull`: nobody is refused before that.
* `RetryAfterLeadsOut`: who waits as told is past the end of the window. No shorter wait
  in whole seconds would do, unless what was left were whole seconds: then the wait is
  one second longer than needed (section 10).

## 6. Users and sessions

`Sessions` models the requests that touch `users` and `user_sessions`, several at a
time. `user[u]` and `session[t]` are rows, `request[r]` is a request with its place
in the handler, the rows its ORM session has loaded and its form, `audit` the audit
rows. A session is named by the login that opened it, a password hash by the
request that set it. `session[t].hash` and `request[r].seen` are history.

| Action | Code |
|---|---|
| `LoginVerify`, `LoginOpen`, `LoginAudit` | `login_submit`: credentials; the commit of `create_user_session`; the commit of the audit row |
| `ReadSession`, `ReadUser` | `get_user_from_session_token`, two queries, then `require_admin` |
| `Logout` | `logout`, with or without an audit row |
| `CreateCheck`, `ScriptCheck`, `CreateCommit` | `user_create_submit`, `create_admin.py`: checks, insert or rollback on the unique index |
| `Load`, `EditCheck`, `EditDeletes`, `DeactivationDeletes`, `SessionsDeleted`, `ChangeCommit` | `user_edit_submit`, `user_deactivate`: the row, the checks, the DELETE of `delete_user_sessions` (its snapshot; its row locks), flush and commit or rollback |
| `Die` | a server process is killed, its transactions are rolled back |
| `Expire`, `Cleanup` | `expires_at` passes; `cleanup_expired_data` |

Bodies of these handlers have no await: in one server process they run one after
the other (`FreeWorker`), in two they interleave. Authentication runs before the
body in a thread and interleaves always, but for `logout`, which authenticates in
its body. `workers` is a variable that is chosen once, so that one run covers
deployments with one process and with two.

Run `sessions`: an administrator with a session, a user, a third id; three
requests, which are a change, a login that races it and another change or a use of
the session; forms that change nothing, the password, `is_active`, name with role
and password, or are refused. A request is sent once, so the instance comes to an
end and deadlock is not checked.

* `ChangeEndsEarlierSessions`: the sessions that existed when a committed password
  change or deactivation loaded its user are gone, whatever else ran.
* `OneServerSessions`: with one server process this holds of every session: a
  session of a disabled user, or from before a password change, does not exist.
  With two it does not; see *Findings*.
* `SessionsEndForAReason`: nothing else ends a session, in particular no change that
  fails on the unique index after its DELETE, and no kill.
* `ReactivationIsExplicit`: a user becomes active only by an edit that loaded it
  inactive. An edit that loaded it active and commits after a deactivation does
  not write `is_active`, because the value did not change.
* `UsedSessionsAreAudited`: a session whose cookie a client has got is in the audit
  log, although it is committed before its audit row. It is about the order of the
  commits. The cleanup's deletion of old audit rows (`retention.py:31`) is left out of
  `Cleanup`; the settings do not relate `AUDIT_LOG_RETENTION_DAYS` to the life of a
  session, so a row may be deleted while its session is in use.

## 7. The SMTP dialogue

`SmtpSession` takes apart what `DeliveryQueue` has as one step: `email.py` as smtplib
carries it out, command by command, attempt after attempt. smtplib is not part of
the repository; what its calls send, when they raise and what its context manager
does at the end are taken from how `email.py` uses them and from the library's
documented behaviour, and are marked external.

| Variable | Meaning |
|---|---|
| `snapshot`, `job`, `attempts` | what of the snapshot selects commands; the job's status and attempts |
| `stage`, `open`, `refused` | the next command; whether the connection is open; the recipients refused in this attempt |
| `raised`, `cause` | the exception that propagates; what raised before QUIT |
| `taken`, `upset` | history: attempts in which the server took a recipient's message; attempts whose message or QUIT had no proper reply |

A command gets consent, a refusal with or without the end of the connection, or no
reply. `Text` is the message itself: the server may take it and its reply be
lost. `Quit` is the context manager's: with the connection open, an improper reply
raises and takes the place of the exception that propagates; a lost connection
does not. `Settle` is `complete_job` or `fail_job`.

Run `smtp`: two recipients, so that one can be refused, three attempts, so that
there is one between the first and the last, every kind of security and credentials.
A job ends, so deadlock is not checked.

* `DeliveredToTheOthers`: a delivered job has reached exactly those recipients whom
  the server did not refuse, and at least one.
* `RepeatedOnlyWhenUpset`: a recipient gets the message again only after an attempt
  with an improper end: the fault is the cost of at-least-once delivery, and
  nothing else is.
* `RefusalsAreTerminal`: a refusal of sender, credentials or all recipients ends the
  job, unless an error in QUIT hid it.
* `LedgerSpec`: the dialogue implements `JobLedger`.

## 8. Origins, addresses and the way in

`Origins` and `ClientIp` are the functions; `Gateway` is one request at a time from
the preflight to the answer, with the steps of edits of the endpoint between its own.
Requests share nothing here but the endpoint, so one is enough. `edit[a]` is an edit
with the list and `is_active` it has loaded; edits overlap. `typed` is history: what
was typed in the form that wrote the column.

A text of an origin is a record of what `normalize_origin` tells apart: scheme,
port, whether it is canonical, whether it has parts that are refused, and of the host
the branches that `normalize_hostname` takes. `origins_to_storage` normalises what
was normalised before, and `origins_from_storage` does so again and falls back to
the empty list, which admits everybody; that this never happens to a list that was
saved is what `AdmittedWereListed` is about.

| Action | Code |
|---|---|
| `Load`, `EditRefused`, `EditCommit` | `endpoint_edit_submit`: the row; a form that is refused, or raises; the form's list through `origins_from_text` and `origins_to_storage`, and the flush, which writes the column only if the text differs from the loaded one |
| `Delete` | `endpoint_delete_submit`: soft deletion |
| `Preflight` | `form_preflight`, `preflight_response`, and the browser's reading of it |
| `Post`, `Forward` | external: a client posts with anything in its header, proxies carry the request and add to the header |
| `Arrive` | `submit_form` from the lookup to the check of the origin; `get_client_ip` |
| `Answer` | `endpoint_response` with `apply_cors`, after the awaits, with the list as it was read; the plain 404 |
| `Fail` | an exception that nothing catches, of the CAP client (`forms.py:108`) or the database: a plain 500 |
| `Again` | the next request |

Run `gateway` has three installations, so that what does not matter together need not
be multiplied; the one is chosen at the start. In the first, no list is saved, and three
addresses give a client, a stranger and a trusted proxy in any order with up to two
proxies on the way. In the second, one editor saves any of eight lists of ten texts (two
hosts, three spellings of one of them, the default ports of both schemes on both, a port
that is out of range, a path, digits separated by wide dots, a name with an underscore)
and every text is a page. In the third, two editors overlap over three lists: the empty
one, one and two entries, which is what it takes to lose a list either way. Deadlock is
not checked: it is nobody's duty to send another request.

The list in force is the one typed in the form that wrote the column. It need not be
the one that was saved last: an edit that was overtaken can leave the column to
another (section 10). What the properties say of it is

* `AdmittedWereListed`: with a list, a request is admitted, a preflight approved and
  an answer readable only for an origin that was typed.
* `ListedPagesAreServed`: a page that the list names, however it was typed, is not refused,
  and can read every answer of the handler. The plain 404 of an endpoint that is gone
  and the plain 500 of an exception have no CORS headers and are excepted.
* `SavedListsTakeEffect`: after the commit of an edit that no other edit overtook since
  its load, the column names the origins that were typed and no other, written or not.
* `ClientAddressIsTheirs`: a client outside the trusted networks is counted under its
  own address or, if it wrote rubbish, under its proxy's; a header cannot choose.

## 9. Proofs

`DeliveryQueueProofs` proves, for every set of jobs and workers, every setting and
every value of the bounds:

* `Invariance`: `Spec => []IInv`;
* from it `TypeCorrect`, `OwnershipIsCurrent`, `DeliveryIsReal`,
  `SnapshotIsDestroyedInTime`, `RetriesAreLimited`, `LogIsNeverAhead`,
  `ClaimsEndByTheirHolder`;
* `QueueImplementsLedger`: `Spec => LedgerSpec`, step by step;
* `AcceptedJobsAreKept`: no accepted job is lost, ended twice or attempted after its
  end. This is a property of the ledger (`JobsAreKept`), which the queue has because it
  implements the ledger.

The properties are not inductive. That a completed job was mailed, say, depends on
what the worker knew when it was still sending, through its stop and its final
transaction, while its row may have been taken, finished by another, or purged.
`IInv` says what a worker may rely on at each place:

* `RowOK` ties the columns of a row to its status (an owner exactly while
  *processing*, a snapshot exactly while pending, accepted mails only of
  attempts made);
* `ControlOK` is what holds of a worker alone: it has a job while busy, a
  heartbeat only around the send, a result once it stops;
* `HoldsOK` relates a worker to the row of its job: its claim is one of the
  attempts made; if it still passes the ownership check it is the last; a
  successful result means the claim was mailed; what it is about to log has
  happened, or the row is gone;
* `OneSelector` is the row lock: two workers never hold the same row between
  SELECT and commit;
* `LogOK` is `LogNeverAheadOfJob` of one job.

The proof has one lemma per action, each with one step per conjunct that the
action can disturb; frame lemmas carry the conjuncts over for rows and workers
the action leaves alone. TLC checks `IInv` in `queue_safety`.

Assumptions: the named `ASSUME`s of `DeliveryQueue`, among them `TimingAssumption`,
which `Settings` enforces at start-up, that `None` is no job, worker, integer or log
entry, and that delays are natural numbers.

`TimelyProofs` proves the safety properties of `TimelySpec`, for any number of jobs,
workers and crashes. Each theorem has the conditions it rests on as hypotheses:

| Theorem | Property | Hypothesis |
|---|---|---|
| `TimelyImplementsLedger` | `LedgerSpec` | none |
| `HeartbeatsPreventReclaim` | `LiveHeartbeatPreventsReclaim` | `HeartbeatsFit` |
| `OneLiveClaimPerJob` | two workers that have not lost their claim hold different jobs | `HeartbeatsFit` |
| `OneWorkerPerJob` | `NoConcurrentProcessing` | `Reliable` |
| `OnlyCrashesExceedTheLimit` | `ExtraAttemptsNeedCrashes` | `Reliable` |
| `OnlyCrashesDuplicate` | `DuplicatesNeedCrashes` | `Unambiguous` |
| `LogsComeInOrder` | `LogWriterHasLatestClaim` | `DelaysFit` |
| `HistoryIsWritten` | `HistoryOutlivesJob` | `RetentionFits` |
| `TimelyInvariance` | `IInv` and `TimelyInv` | `Unambiguous`, `RetentionFits` |

* `HeartbeatsFit`: the lock timeout is at least the heartbeat interval and two
  latencies. A heartbeat may read the clock one latency after it was due and write
  another one later, so `locked_at` can be that old before it is renewed.
* `Reliable`: `HeartbeatsFit`, and no heartbeat transaction raises.
* `Unambiguous`: `Reliable`, and the server's answer to an accepted message arrives.
* `DelaysFit`: the lock timeout is at least a latency, and every back-off longer than
  one. A job that is claimed again before its last worker came to the log would
  have its outcomes written in any order.
* `RetentionFits`: `DelaysFit`, terminal rows are kept for a latency, and log rows are
  not deleted before their job.

These are hypotheses and not `ASSUME`s, because `Settings` enforces none of them;
section 10 says what happens without the first two. They hold of the defaults: `DefaultsFit`
derives the timing ones from an interval of 60 and a timeout of 300 seconds, a retention
of at least the timeout (seven days by default) and the deployed back-off, if no step
of a worker takes 15 seconds. That rests on `BackoffIsBounded`: for every number of
attempts, `retry_backoff_seconds` lies between 15 seconds and an hour, never falls with
another attempt, at most doubles, and does double up to the eighth attempt.

None of the properties is inductive, since they say nothing of clocks. `TimelyInv`
does, in parts that are proved one upon the other, each for all steps:

* `InTime`: a worker's timer is within the bound of its place, and a worker that sends
  has a heartbeat task;
* `Secure`: a worker past the commit of its claim that has not been told to have lost
  it owns its row, no other transaction has the row locked, and `locked_at` is no older
  than the worker's timer and a `Margin` that depends on where the heartbeat is. With
  `HeartbeatsFit` that is never stale, which is all that `ClaimSelect` asks for;
* `Reporting`: until its log is written, a released job is not due and a finished one
  not old enough for the cleanup;
* `AttemptsPaid`: a pending job that no worker holds has an attempt left, or a crash has
  paid for one;
* `CopiesPaid` with `Unsent`: a copy of the message is the one that ends the job, or
  its sender still works on the claim, or a crash has paid for it;
* `Remembered`: a job that ended is in its log, or its last worker is about to write it,
  or there was a crash.

The crash of a worker is where two of these trade: it takes away the worker that
the job was held by, and pays for the attempt and the copy it leaves behind. TLC checks
`TimelyInv` in `queue_timely`.

`EndpointConfigProofs` proves `ConfigInvariance`, and from it `ConfigTypeCorrect`,
`SlugsAreUnique`, `SecretsAreThere` and `DeletionsAreFinal`, for any number of
endpoints and concurrent requests and any set of forms. `SecretsPresent` is not
inductive: the row that an edit commits is made of columns of the current row,
of the loaded one and of the form. `EditInv` adds that the current row has every
secret the loaded one has. The argument is `RowsGrow`, which every step
satisfies: a row loses no secret and a deleted one stays deleted. Then the
request that acts is looked at alone (`StepOfOne`), and what the others rely on
follows from `RowsGrow` (`OthersRely`). Assumed is that `None` is no endpoint and
no row, and that forms have their type.

`RateLimiterProofs` proves, for every limit, window length and clock resolution,
under `Spec` that refusals are due (`RefusalsAreDue`) and that Retry-After leads out of
the window, and when it is a second too long (`RetryAfterIsRight`, from
`TruncatedPlusOne`), and under `TimelySpec` with `Delay` at
most `Retention` + 1 the limiter's invariant `IInv` (`TimelyLimiterInvariance`) and from it
the limit itself (`LimitIsShared`). The last is not inductive
because a deleted bucket forgets its grants; `TimelyInv` adds that this happens only
to windows that ended more than `Retention` ago, in which no request that is on
time counts.

`SubmissionProofs` proves `SubmissionInvariance`, and from it `SubmissionTypeCorrect`,
`SnapshotsWereConfigured` and `CapIsEnforced`, for any number of requests and of
concurrent edits. A submission reads the endpoint several times
and every read finds the last committed configuration. Two facts carry the
argument: `history` only grows and its last entry is what the tables hold, and
`RequestOK` says at each place of the handler which reads have been made and
between which entries of the history what they returned can lie. That what is
accepted was validated comes from `ConfigInv` of `EndpointConfigProofs`, which this
module extends.

`SessionsProofs` proves `SessionsInvariance`, and from it `SessionsTypeCorrect` and the
five properties of `sessions`, for any users, requests and forms. Sessions are
inserted and deleted by different transactions, so that "deleted" is not an
inductive notion; `SessionsInv` adds `Opened` (a session is opened once, by a
login that has passed that point), `Fate` (each session that a deletion saw is
about to be deleted by it or has ended otherwise), and for one server process
`Exclusive` (at most one handler body is under way) and `OneServer` (a login that has
verified a user finds it unchanged). Assumed is `SessionsAssumption`; the requests
are finitely many.

`SmtpSessionProofs` proves `DialogueInvariance`, from it `DialogueTypeCorrect`,
`DeliveryReachesTheOthers`, `RepetitionsNeedUpsets` and `RefusalsStayTerminal`, and
`DialogueImplementsLedger`: `Spec => LedgerSpec`, for any recipients and number of
attempts. `DialogueInv` says what an attempt has done so far at each stage and
that an attempt that is over left its recipients the message only if it delivered
the job or was upset.

`GatewayProofs` proves `GatewayInvariance`, and from it `GatewayTypeCorrect`,
`ListsMeanWhatWasTyped`, `ListedAreServed`, `EditsTakeEffect` and `AddressesAreTheirs`, for
any installations, texts, lists, addresses, numbers of proxies and overlapping edits. A
stored list is `Faithful`: in normal form, with an entry for every origin that was typed
in the form that wrote it and for no other. It is the flush that keeps it so, since it
either writes column and history or neither. An edit that nobody overtook is `Current`:
what it loaded is what is stored, so that leaving the column alone is as good as
writing it. The header without what
its client put there is the path of the request without its last hop, so that the
last address outside the trusted networks, which exists by `LastPosition` (a
well-founded induction over positions), is the client's. Assumed are `OriginAssumption`,
`AddressAssumption`, `GatewayAssumption` and `NameAssumption` (two hosts with one name differ
at most in how their dots are written).

Every property of the passing runs is proved but two. `EventuallyFinished` and
`OutcomeEventuallyLogged` are only model-checked: liveness under fairness, and the
`ENABLED` in it, is outside the prover's reach.

## 10. Findings

Runs that end in a counterexample, each against a sentence of the documentation:

* `finding_cap_url`: "The full CAP siteverify URL is required when CAP is enabled"
  (`core/endpoint_validation.py:112`); two edits that are each valid, one clearing the
  URL while CAP is off, one turning CAP on, commit a row with CAP and no URL.
  `verify_cap_token` then lets an exception of the HTTP client through.
* `finding_recipients`: "snapshot recipients must not contain duplicates"
  (`services/delivery_queue.py:47`); of two concurrent edits the second deletes none of
  the rows the first inserts, and no index forbids the duplicate. Every
  submission is answered 503 until the next edit.
* `finding_snapshot`: an accepted delivery "uses exactly the configuration that was
  valid at acceptance time" (`README.md:184`); columns are read before the awaits,
  recipients after them, so a snapshot can mix two configurations.

What the models showed besides, without a run of its own because it is the other
side of a property that holds:

* `QUEUE_MAX_ATTEMPTS` is "Maximum worker attempts before terminal failure"
  (`docs/settings_registry.md:24`); `claim_job` takes a stale row whatever its
  attempts, so a crash of the last attempt is followed by another.
  `ExtraAttemptsNeedCrashes` bounds them by the crashes.
* "A worker that lost ownership cannot overwrite the legitimate new owner's state"
  (`README.md:186`); `update_delivery_log` filters by the job id alone and runs in a
  second transaction. `LogWriterHasLatestClaim` holds under the timing assumption only.
* Claiming with `SKIP LOCKED` prevents "duplicate concurrent processing across
  containers" (`README.md:186`); a heartbeat transaction that raises ends the heartbeat
  and not the send. `NoConcurrentProcessing` is checked without such faults.
* "Password changes and user disabling invalidate that user's existing sessions"
  (`README.md:194`); with the two server processes of `docker-compose.yml:41` a login in
  flight, which verified the old password, can insert its session after the DELETE.
  `ChangeEndsEarlierSessions` holds there too; `OneServerSessions`, which covers that
  login, holds with one process only (`docker-compose.dev.yml:48`).
* `normalize_hostname` turns the wide dots of `https://1。2。3` into `https://1.2.3`, which
  a second normalisation refuses. `origins_to_storage` raises where nobody catches
  it: the edit is answered 500 and saves nothing.
* Of two overlapping edits the list that is committed last can be lost. With {A} in the
  column, one edit loads it; another saves {B}, or none; the first then saves {A}, which
  is no change against what it loaded, and the column stays {B} or empty
  (`endpoints.py:166-177`). A is refused or, with the empty list, everybody is admitted,
  until the next edit. `SavedListsTakeEffect` supposes that no other edit commits in
  between, and `AdmittedWereListed` speaks of the list that is in force.
* Retry-After is one second too long when whole seconds are left of the window:
  `int(...) + 1` (`rate_limit.py:64`) rounds 2.0 to 3. A window of two seconds that is
  used up as it begins is answered 3.
* An exception of the CAP client (see `finding_cap_url`) or of the database after the
  lookup ends in a plain 500 without CORS headers, which the page cannot read
  (`Fail`).
* An endpoint without a list admits a page on a host with an underscore and never
  lets it read its answer, since `normalize_origin` refuses its origin.

Two properties that hold rest on conditions the code does not enforce:

* `LiveHeartbeatPreventsReclaim` needs `HeartbeatsFit`, a timeout of at least the interval
  and two delays of a heartbeat transaction; `validate_queue_timing` (`config.py:60`) and
  `README.md:186` ask only that the interval is shorter. The defaults (60 and 300
  seconds) have that room. `queue_timely` with `LockTimeout = 3` and
  `HeartbeatInterval = 2` ends with two live workers on one job.
* `WindowLimit` needs buckets that are kept as long as a request can be held up
  between its clock reading and its upsert; the default retention is zero hours
  (`config.py:33`), and a cleanup in that gap lets the count begin again.
  `rate_limit` with `Retention = 0` shows it.

## 11. Not modelled

* CSRF and the header middleware are stateless; encryption, hashing and token
  generation are primitives of libraries. A snapshot that does not decrypt is a
  fault of the queue model.
* The test buttons for SMTP and the CAP service on the endpoint pages write an audit
  row and nothing else. The audit rows of endpoint management share the commit of the
  change they report, so that they say nothing the row does not.
* The limiter's branch for other databases serves the tests.
* The deletion of old audit rows by the cleanup (`retention.py:31`): `audit` in `Sessions`
  is the history of the rows that were committed.
* Pages, dashboards and health probes only read. Templates, migrations, scripts other
  than `create_admin` and CI run before or outside the program.
* The character-level syntax of host names, addresses and URLs is left to the unit
  tests. The models keep the branches by which two texts are the same or are refused.
* The runs use small delays in place of the back-off, of which the queue needs only
  `DelaysFit`; the function itself is in `RetryBackoff` and bounded in `TimelyProofs`.

## 12. Running

    tlc -workers 2 -config queue_safety.cfg MCDeliveryQueue
    tlc -workers 2 -config queue_timely.cfg MCDeliveryQueue
    tlc -workers 2 -config queue_liveness.cfg MCDeliveryQueue
    tlc -workers 2 -config endpoint_config.cfg MCEndpointConfig
    tlc -workers 2 -config submission.cfg MCSubmissionAPI
    tlc -workers 2 -config rate_limit.cfg MCRateLimiter
    tlc -workers 2 -config sessions.cfg MCSessions
    tlc -workers 2 -config smtp.cfg MCSmtpSession
    tlc -workers 2 -config gateway.cfg MCGateway

    tlc -workers 2 -config finding_cap_url.cfg MCEndpointConfig
    tlc -workers 2 -config finding_recipients.cfg MCEndpointConfig
    tlc -workers 2 -config finding_snapshot.cfg MCSubmissionAPI

    tlapm DeliveryQueueProofs.tla
    tlapm TimelyProofs.tla
    tlapm EndpointConfigProofs.tla
    tlapm SubmissionProofs.tla
    tlapm RateLimiterProofs.tla
    tlapm SessionsProofs.tla
    tlapm SmtpSessionProofs.tla
    tlapm GatewayProofs.tla

The longest runs (`queue_safety`, `sessions`, `gateway`) take one to two minutes on two
cores, each proof module at most about three. The `finding_` runs end in a
counterexample.
