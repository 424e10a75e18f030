# Verification of the assistant runtime

TLA+ models, TLC configurations and TLAPS proofs for the multi-tenant chatbot
runtime in `app/`: a FastAPI service and a background worker that share one
Postgres database.

- `tlc -workers 2 -config MCJobQueue.cfg MCJobQueue` runs one check;
- `tlapm JobQueueProofs.tla` runs one module of proofs;
- `PROJECT.json` holds the source lines behind every definition, the runs, the
  hazards each property is for, and a mutant of the code that breaks each property.

## The system

One or more API processes (uvicorn) serve the widget, WhatsApp/SMS and the admin
console. One `ingest` container runs `app.rag.worker`. They interact only through
Postgres: `session_scope()` commits on success and rolls back on an exception, at
READ COMMITTED. There is no Redis and no message broker. A step of a model is a
committed transaction, or the part of one between two awaits where its reads and
its commit can be told apart.

| Component | State | Operations | Hard because |
|---|---|---|---|
| Job queue and worker (`rag/worker.py`, `services/email.py`, `services/webhooks.py`) | `job_queue` rows; the locals of `loop()` | enqueue, CLAIM, handle, FINISH, RETRY, daily `schedule_retention` | the handler runs after the row lock is gone; crashes; effects that happened and answers that got lost |
| Reminders (`services/reminders.py`) | `reminders` rows, `appointments` | plan, cancel, `send_due` | three transactions per reminder, each of which can fail; cancellation meanwhile |
| Turn graph (`graph/`) | `AgentState` of one turn | guard_in, retrieve, agent, tools, guard_out | a parallel superstep, an iteration cap, two transports |
| Turn persistence (`services/turn.py`, `history.py`, `tenants.py`, `api/chat.py`, `api/whatsapp.py`) | `conversations`, `messages`, `inbound_messages`, the usage columns of `tenants` | dedupe, admit, open_turn, close_turn | read-modify-write of ORM objects, retries by Twilio, purges meanwhile |
| Rate limiter (`services/ratelimit.py`) | a dict of token buckets per process | `allow`, `_sweep` | lazy refill, forgetting buckets |
| Retention and erasure (`services/retention.py`) | every table of a tenant | purge, erase, export | runs in batches, beside everything else and beside another purge |
| Configuration (`config/`), admin API (`api/admin.py`), credentials | `tenants.config_overrides`, `config_version`, `locations`; a 60 s cache per process | resolve, create_tenant, update_tenant, add_location, erase | the cache is invalidated before the commit, and in one process only |
| Booking (`tools/booking.py`, `services/scheduling.py`, `integrations/google_calendar.py`) | `appointments`, a remote calendar, a token cache | search, book | two systems without a common transaction |
| Lead and handoff tools (`tools/lead.py`, `tools/handoff.py`) | `leads`, `conversations.status` | capture, escalate | commit, then two enqueues |
| Crawler, ingest and retrieval (`rag/`) | `documents`, `chunks`; the frontier of a crawl | crawl, chunk, embed, replace, search | one long transaction per crawl, two crawls at once |
| Evaluations (`evals/`) | the results of one run | run a case, judge it, grade the run | a judge that fails must not decide |
| Observability, backup, language, prompts, widget, scripts | - | - | I/O, statistics or pure text |

What makes each correct: the queue runs a job at most a bounded number of times,
never twice at once, and says of it what happened; a reminder is not sent twice,
not sent after a cancellation, and does not get stuck; a prohibited request never
reaches the model or a tool, and what the visitor sees was checked; a message is
answered at most once, transcripts stay whole and usage is counted; the limiter
lets through what it promises; configuration changes become visible; a slot is not
booked twice; a crawl leaves the index in step with the site; a purge deletes what it says it did;
a release passes because of its answers.

## Modules

### JobQueue, JobContract, JobQueueProofs

`JobQueue` has one action per transaction of `loop()` and of those who meet it.
`row`, `attempts` and `due` are the columns `status`, `attempts` and
`run_after <= now()`; `pc`, `held`, `seen`, `verdict`, `todo`, `staged` and
`dayDue` are the locals of `loop()` and `schedule_retention()`. `Claim` is CLAIM
and its commit. `TakeEffect`, `NoEffect` and `Reject` are what a handler can have
done by the time it returns or raises; an effect whose answer is lost is one of
them. `Sink` is `deliver_email` without `RESEND_API_KEY` (the constant `Keyless`): it
sends nothing, logs "not sent" and returns ok, so the worker writes `done`. `Settle` is FINISH or RETRY. `CheckTenant` is one SELECT of the scheduler,
`CommitSchedule` its commit, so two schedulers interleave between them. `EraseJobs`
and `DropTenant` are the two transactions of `erase_tenant` that concern the queue;
the tables it deletes in between are not in the module. `Crash` is the death of
the process in any state, also by a database error outside the try blocks of
`loop()`; `Restart` starts the loop anew.

Abstracted: the payload, the backoff (a retried row is simply not due until
`BecomeDue`), `ORDER BY run_after` (the claim picks any due row), and what a handler
does (one effect; a crawl is one transaction, a purge is idempotent). A job of an
unknown kind, which `_handle` fails, is never enqueued by the application; neither is a
purge with `retention_days <= 0`, which `purge_tenant` answers without doing anything
(`schedule_retention` only queues a positive number and puts it in the payload).

`JobContract` is what the code that enqueues relies on: a bounded number of tries,
at most one effect per try, done only after an effect or after a try that dropped a
job of `Droppable` (an email without a key), closed for good.

### Reminders, ReminderProofs

A reminder is identified by `UNIQUE(appointment_id, rule_key)`. `PlanRule` is one
INSERT of `plan_for_appointment`; `Claim`, `Check`, `EnqueueEmail` and `Finish` are
the transactions of `send_due`, `Fail` and `Recover` its except branch, and
`Release` the end of the read transaction inside which `cancelled` is committed by
a second one. `Abandon` is the death of the worker or a failure of the except branch
itself. The clock is two monotone sets: reminders that are due, appointments that
have started. They are independent, because leaving the quiet hours may move a
`send_at` past the start of its appointment. A COMMIT that raises is taken not to
have happened. Nothing in `app/` cancels an appointment: `CancelAppointment` is
the staff editing the row.

### TurnGraph, TurnGraphProofs

The node functions and the edges of `build_graph`, followed by what each transport hands to
`extract_reply` and `close_turn`. A node ends with `Return(u)`, where `u` is the dictionary it
returns, with the keys the code puts in it and no others (but without `retrieved` and `block_reason`,
which decide nothing). `Return` does with it what the graph does
(`AgentState`: `messages` and `trace` are appended to, any other key is overwritten) and
what `chat_stream` does: `Merged` is the merge into its own `final`, where a key is missing
until some node has returned it and `messages` are those of the last update only. `Kept(d)` is
what `close_turn` saves, bills and reports of such a dictionary; `State` is the one `chat` passes.
A message is its `add_messages` id and whether it is blank; the model answers with any mix of
text and tool calls; classifiers answer anything or fail. `trace` is a set of marks, because
the order of those of guard_in and retrieve is open. `usage` counts answers of
the model. `known` is the intake the turn was opened with. `blockedBy` is `blocked` and
who set it. `cleared` (what guard_out judged clean) and `ran` are ghosts; `cleared` starts with the
history: whether a reply that is loaded was judged is a question about its own turn, which is over.

`TransportsAgree` leaves out one difference that no document denies: in a turn without tool
calls no node returns `intake`, so the payload of the stream shows `{}` where that of `chat` shows the
facts known before (what is saved is the same, by `or ctx.intake`). With a blank final draft the two may
reply with different texts (`emitted` has all of them).

### RateLimiter, IdealLimiter, RateLimiterProofs

`allow()` contains no await, so a call is a step. Tokens are measured in ticks of
refill (`Cost` ticks earn a message, a full bucket is `Capacity = burst * Cost`),
which makes the code's float arithmetic exact integer arithmetic; rounding is not
modelled. `LimiterAssumption` records what the three instances satisfy: a bucket is
full again (20 to 30 s) long before it may be swept (900 s). `IdealLimiter` never
forgets a key; `IdealSpec` says that nobody can tell the difference.

### Turns, TurnsProofs

Requests of one tenant from admission to the commit of the reply. A SELECT and the
COMMIT of its transaction are two steps wherever the ORM writes back what it read:
`LookUp`/`PersistQuestion` for the conversation, `LoadForClose`/`CommitReply` for
intake and usage, `ReadTenant`/`ResetPeriod` for the period. `NewUsed` and `NewIntake`
say which columns the ORM writes (those whose value changed). The graph is one step
that costs tokens and may capture a fact. A conversation is named after the request
that created it, a fact after the request that captured it. `stale`, `bill`, `peak`,
`captured` and `overlaps` are ghosts.

### Slots, Tools, ToolProofs

`Slots` is the arithmetic of `services/scheduling.py`: which starts are candidates, in
which order, and which of them a list of busy blocks leaves; and the period
`free_busy` is asked for. Time is counted in units of the booking grid and a day has a
fixed number of them. The order in which a day's ranges are configured is kept, because
the query takes the first and the last candidate for its bounds.

`Tools` has the executors of `tools/`. A conversation has at most one call under way
(the tools node runs them one after another); a call is cut at its awaits: credential,
calendar, database, each queued notice. An insert sent to the calendar is in `flight`
until the calendar processes it, refuses it or never sees it, and the call may give up
on it at any time (`InsertFails`), so it may take place after it was reported as
failed. `Raise` is any exception `registry.execute` turns into `{"ok": False}`, `Crash`
the death of the process. `told` holds the results the model has read. Which tools the
model calls is fixed by `script` when a behaviour starts; the arguments are arbitrary.
An event carries as a ghost (`cleared`) the events its slot was offered as clear of.

### ConfigCache, ConfigCacheProofs

One tenant's configuration: the row `tenants` with `config_overrides` (the set of edits
merged into it) and `config_version`, one location, and `_CACHE` in every API process.
`ReadTenant` and `ReadPlace` are the two SELECTs of `resolve_tenant`; `Serve` is
`get_cached`, `resolve` and `put_cached`, between which nothing is awaited. All requests
ask for the same key and channel, so an entry is found by its version. `LoadEdit` is
`update_tenant` up to its return (it invalidates there), `CommitEdit` the commit that
`session_scope` makes afterwards, which writes what was loaded; `AddPlace` and
`CommitPlace` the same of `add_location`. `EraseLocations` is the
transaction of `erase_tenant` that deletes the locations, `EraseTenant` the later one that deletes the
tenant (and by ON DELETE CASCADE what was added meanwhile), `FailErase` an exception between or in
them, after which the locations may be gone and the tenant not; `EndErase` is the invalidation after it; `Create` makes a tenant with the
same key, whose version starts at 1 again. `until` and `untilPlace` remember when each
layer was last the committed one, `contents` every row there ever was.

### Crawler, Ingest

`Crawler` is the loop of `crawl`: `Ask` takes a batch off the frontier, `Arrive` and `Miss`
handle its results in order (`gather` returns them in the order asked, whatever order
they came in). A site is a sequence of links per page. `Follow` is one round of the loop
over the links of a page (`found`). `Near` is the reference definition of distance that
the crawl is held against.

`Ingest` is `ingest_site` as a transaction at READ COMMITTED, with any number of others:
`Look` is the SELECT of the document, `StartDelete` the snapshot of the DELETE of its
chunks, `Replace` the moment the DELETE has its row locks, `Insert` a new document,
`Commit` and `Fail` the end. Rows another transaction holds are waited for; what was
committed after the statement began is not seen by it. A text is its revision and so is
its hash; `Publish` edits the site. A page that `crawl` returns has more than 120
characters, so it has chunks; they count as one.

### Purge

`purge_tenant`, called by the worker and by `/retention/run`, perhaps at once. `Select` is
the subquery of a batch, `Delete` the rest of the statement with its commit: it waits
for rows another purge holds and then passes over them, so fewer may be removed than
selected. `Interrupt` is a crash or a statement timeout. Conversations are numbered by
age; new ones are younger than every cutoff and are left out. `taken` remembers as a ghost
which conversations each purge has removed.

### EvalGate

`run` and `judge`: a case runs (`RunCase`, `CaseFails`), is judged up to `Attempts` times
(`JudgeFails`, `Judged`), and the run is graded. A score is 0 or 1. Two of the four
dimensions are kept, since the code treats all alike; rounding to four digits is left out.

### Operator, OperatorProofs

ConfigCache, Crawler, Ingest, Purge and EvalGate share no state. `Operator` chooses one of
them when a behaviour starts and leaves the variables of the others alone (those of all but
`ConfigCache` are then absent), so that one run looks at each of the five by itself, and one
proof is about all five. `MCOperator` has the values of the constants.

## What is checked

| Run | Instance | Shows |
|---|---|---|
| `job_queue` | 2 workers, no email key, 4 job rows (three purges and an email), 1 tenant, 2 attempts, 1 crash; every worker schedules when it starts and when it restarts; symmetric workers | `TypeOK` (no row is tried more than MAX_ATTEMPTS times), `ExclusiveClaim`, `HonestVerdict`, `StrandedOnlyByCrash`, `RetentionBounded`, `NoOrphanRow`, and that the queue implements `JobContract` |
| `job_queue_progress` | one email and one purge, 1 crash, 1 further daily tick, under `FairSpec` | `NoJobForgotten` |
| `job_queue_restart` | as above without the tick, under `SupervisedSpec` | finds the counterexample to `SurvivesRestart` |
| `reminders` | 2 appointments (one without an email address), 1 rule, 2 sweepers, 2 attempts, under `FairSpec` | `TypeOK`, `ExclusiveSweep`, `DuplicatesOnlyBySlips`, `StuckOnlyIfOrphaned`, `SettledForGood`, `EveryReminderEnds` |
| `reminders_twice` | the same | finds the counterexample to `SentOnce` |
| `turn_graph` | the 2 tools that write to the state, a cap of 3, 1 fact, known before or not, both transports, with and without history and prohibitions, under `FairSpec` | `TypeOK`, `BlockedNeverActs`, `SeenWasCleared`, `TransportsAgree`, `TurnEnds` |
| `turn_graph_held` | the same | finds the counterexample to `HeldUntilCleared` |
| `rate_limiter` | 2 keys, small costs and intervals, a clock that ends | `TypeOK`, `WindowBound`, `IdealSpec` |
| `turns` | 3 requests at once: three of one web visitor, or a WhatsApp message delivered twice beside another of the same sender; budget 1, cost at most 1 | `TypeOK`, `OneTurnPerMessage`, `TranscriptsWhole`, `UsageExact`, `OverspendBounded`, `IntakeLostOnlyByOverlap` |
| `tools` | 2 conversations with 2 calls each (search and book; book twice beside a handoff; lead and handoff beside a lead), 3 starts of which two overlap, 1 event of the staff, 2 moments | `TypeOK`, `TruthfulReport`, `OrphansOnlyByFailure`, `DoubleBookedOnlyByRace` |
| `tools_buffer` | the same, a buffer of one unit, and the two ranges of the first day configured in the wrong order | finds the counterexample to `OfferKeepsBuffer` |
| `operator` | one of: 2 API processes, 2 requests, 3 operations of the admin (2 edits, a location, erasures, a second life), 4 moments; 3 crawls (one for a location) over 2 pages with 2 revisions; 2 sites of 8 and 10 pages for a crawl of 7 pages, depth 3, 2 at a time; 2 purges of 5 conversations, 2 batches of 2; up to 5 cases judged in 2 attempts, gates of 60 % and 75 %, 25 % errors | `AllTypes`, `ServedRecent`, `StaleOnlyByReusedVersion`, `EditsLostOnlyByOverlap` (ConfigCache), `IndexInStep` (Ingest), `CoversSmallSites` (Crawler), `CompleteIsTrue` (Purge), `GateHonest` (EvalGate) |

Why the bounds are enough to be interesting: every race in this code is between two
actors over one row, so two workers, sweepers or concurrent turns show it, and the
third request of `turns` lets a retry race with another message; two bookings and one
event of the staff show every collision; a third crawl shows that a page two others left
out of step is put right when it changes; the two sites have a page with a short and a long
way to it, and more pages than a crawl remembers; with gates of 60 and 75 % among five cases
one bad answer decides or does not, as it does with the real gates among a hundred; two attempts
distinguish the first, a retry and the last; one crash meets every step. The proofs
remove the bounds where there are any. The attempts of `MAX_ATTEMPTS` (5), of `send_due` (3)
and of `judge` (2), `max_graph_iterations` (6), `_TTL_SECONDS` (60), `max_pages` (40),
`max_depth` (3), `concurrency` (4) and the factor of 4 for the addresses a crawl remembers,
`BATCH_SIZE` (500), `MAX_BATCHES` (200), `GATES` and `MAX_JUDGE_ERROR_RATE` (0.10) are
constants of the modules. `MaxCrashes`, `MaxDays`, `MaxTime`, `MaxCost`, `MaxCalls`,
`Scripts`, `Clock`, `MaxLives`, `MaxOps`, `MaxRev`, `MaxCases`, `Oldest` and `Sites` are bounds of the
models, not of the code. `Slack` is one too: a request that reads the tenant and reaches the
cache `Slack` ticks later may cache what it read for another `TTL`, so the bound of
`ServedRecent` is their sum. Deadlock is not checked (`CHECK_DEADLOCK FALSE`) in those models where everything
can be over: all jobs are settled, the turn is closed, the calls are used up, the clock has ended, the crawl, the purge or the
evaluation is over.

### Five places where the code and its documents disagree

- **A webhook survives a restart** (`webhooks.py:50`). It survives a restart while
  `pending`. A worker that dies while handling it leaves it `running`, which nothing
  ever claims again, however often the worker is restarted. `StrandedOnlyByCrash` says
  this is the only way to lose a job, `NoJobForgotten` that without it none is lost.
- **"Sent twice" is not a bug this code can have** (`reminders.py:6-8`). The email job
  and the status `sent` are committed by two transactions. If the second fails, the
  except branch plans the reminder again. `DuplicatesOnlyBySlips` is the exact bound:
  one email, plus one for each such failure.
- **Replies are held until cleared** (`README.md:196`). `guard_out` looks at the last
  message only. If that is blank, nothing is judged, and the reply is an earlier text of
  the same turn, one that came with a tool call and that nothing ever checked. The trace
  of `turn_graph_held` is such a turn. `SeenWasCleared` holds with exactly this exception beside
  those the documents make (live tokens, an unverified check).
- **Drop candidates whose slot (plus buffer) collides with a busy block**
  (`scheduling.py:104`). `subtract_busy` does, with the blocks it is given; `_search_real`
  asks Google only for the period the candidates themselves cover. An event that ends
  where the first candidate starts is never seen, whatever `buffer_minutes` says.
  `DoubleBookedOnlyByRace` shows that the slot itself is still safe, where the hours of
  each day are in order.
- **Open slot starts, ascending** (`scheduling.py:69`). They are, if the ranges of each day
  are configured in ascending order: neither `parse_ranges` nor `day_windows` sorts them.
  If a later range comes first, the first candidate is not the earliest, the free/busy
  query begins too late, and a start is offered as confirmed although an event in the
  calendar collides with it. The proof of `DoubleBookedOnlyByRace` failed at this point and
  has the order of the hours as its hypothesis (`HoursInOrder`). The counterexample
  of `tools_buffer` has both flaws in one offer.

Not a run, but seen while modelling: `insert_event` calls itself idempotent "via a
caller-stable request id" (`google_calendar.py:193`) and sends none, so a booking that is
repeated after a timeout can leave two events (`OrphansOnlyByFailure` says which calls
can leave one without an appointment). In the configuration, in `rag/` and in the operator's tools:

- `config_version` is "a row update + a version bump" (`admin.py:141`), and bumping it does
  make an edit visible at once, in every process; but two overlapping PATCHes, or a tenant
  that is created again, give one version to two rows, and then what a process cached is
  served until the TTL ends (`StaleOnlyByReusedVersion`, `ServedRecent`). One of two
  overlapping PATCHes is lost although both were answered with "ok".
- Two crawls that rewrite one page at once leave the chunks of both; the page is then
  skipped as unchanged until its text changes (`IndexInStep` has the exact exception).
- A page that was crawled for one location and has not changed is skipped when another
  location is crawled, so that location never retrieves it.
- "a single violation fails the run" (`runner.py:45`) is true of fewer than 100 scored cases.
  A judge's answer that lacks one dimension counts as 0.0 in it, although "a judge that FAILS
  must never look like a case that SCORED ZERO" (`judge.py:6`): `GateHonest` excepts it.
- A purge beside another can report `complete` while rows are left, and a purge that deleted
  exactly `MAX_BATCHES * BATCH_SIZE` rows reports the opposite with nothing left.
- `redact` in `export_tenant` is given `str()` of every column, so it sees no nested keys,
  which its comment ("at any nesting depth") is about (`retention.py:42`).

The properties named after an overlap (`UsageExact`, `OverspendBounded`, `IntakeLostOnlyByOverlap`,
`EditsLostOnlyByOverlap`, `IndexInStep`, and `CompleteIsTrue` for two purges) do not say that such a race
goes well. It does not: the later write wins. They say that nothing else loses anything, and
when exactly a race can.

### Fairness

`JobQueue!Fairness`: a running worker takes its next step, because every await in
`loop()` is a database statement or an HTTP call with a timeout, and time passes
(`BecomeDue`). Crashes, restarts, rejections and erasures are not fair; `Restart` is
fair only in `SupervisedSpec`, since `docker-compose.yml` sets no restart policy for the
worker. `Reminders!Fairness`: `loop()` calls `send_due` every five minutes; one weak
fairness condition per sweeper over its whole sweep, failures included, so nothing
forces a particular outcome. A sweeper that died sweeps again under it: `EveryReminderEnds` presupposes
that someone restarts the worker, which `docker-compose.yml` does not; with no worker left, planned reminders
wait. `TurnGraph!FairSpec`: LangGraph runs the enabled nodes and
model calls time out. `RateLimiter`, `Turns`, `Tools`
and the five modules of the `operator` run have no liveness property: what they do is started
by a request, and ends with it or fails.

## What is proved

TLAPS proves, for every value of the constants that the named assumptions
(`QueueAssumption`, `ReminderAssumption`, `LimiterAssumption`, `GraphAssumption`,
`TurnsAssumption`, `CacheAssumption`, `SlotsAssumption`, `ToolsAssumption`, `InstancesAssumption`) allow. They say
that bounds are natural numbers, that the flag `Keyless` is a Boolean, that the enabled tools are tools, that `None` is no name, that requests are finitely many, that events of the staff
have ids of their own, and of the limiter that a bucket is full before it may be swept. No other hypothesis is used, with one exception: `DoubleBookedByRace`
assumes `HoursInOrder`.


- `JobQueueProofs`: `TypeCorrect`, `ClaimsAreExclusive`, `VerdictsAreHonest`,
  `OnlyCrashesStrand`, `RetentionIsBounded`, `ErasureIsComplete`, `ClosedStaysClosed`,
  `ImplementsContract`, and `OneWorkerOnePurge`, the docstring of `schedule_retention`
  ("Idempotent") for the deployment with one worker: in every state that `Spec` reaches, through
  crashes and restarts, a tenant has at most one active purge and none staged beside it.
- `ReminderProofs`: `TypeCorrect`, `SweepsAreExclusive`, `DuplicatesAreSlips`,
  `StuckAreOrphans`, `TerminalIsForGood`, `SilenceIsForGood`, together `SettledIsForGood`.
- `RateLimiterProofs`: `TypeCorrect`, `AdmissionsAreBounded`, `InsertionsSweep`,
  `ImplementsIdeal`.
- `TurnGraphProofs`: `TypeCorrect`, `BlockedIsInert`, `SeenIsCleared`,
  `TransportsGiveTheSame`.
- `TurnsProofs`: `TypeCorrect`, `MessageRunsOnce`, `TranscriptsStayWhole`, `UsageIsExact`,
  `OverspendIsBounded`, `FactsLostByOverlap`.
- `ConfigCacheProofs`: `TypeCorrect`, `ServedIsRecent` (of every step), `StaleOnlyByReuse`,
  `EditsLostByOverlap`.
- `ToolProofs`: `TypeCorrect`, `ReportsAreTrue`, `OrphansByFailure`, `DoubleBookedByRace`, and
  the lemmas about `Slots` they rest on.
- `OperatorProofs`: `OperatorTypes`, `IndexStaysInStep`, `SmallSitesCovered`, `CompleteIsSo`,
  `GateIsHonest`.

The argument is the same in all: an inductive invariant `IInv`, one lemma per action,
and a temporal step. None of the checked invariants is inductive alone.

- *JobQueue.* Exclusiveness needs to know that a held row is `running` or erased and
  that the worker saw its present count of attempts; the type bound on `attempts` needs
  that a `pending` row has attempts left, which holds because RETRY is only reached
  below the cap. An honest `done` needs that a worker about to write it has had its
  effect or has sunk an email; effects stay below attempts because a worker that has not finished handling
  has an attempt without one. The bound on purges adds up active purges and
  workers that have staged one: a worker stages only when it sees no active purge, so
  that only stagers count, and its commit turns one stager into one active row.
  Erasure is complete because rows of a tenant that is gone are absent or erased, and
  every insertion is refused by the foreign key.
- *Reminders.* A worker that is not idle holds a row that is `sending`, that it has just
  cancelled, or that was deleted with its appointment. The bound on duplicates needs that
  a claimed row which is not about to be marked `sent` has at most as many emails as slips,
  and that each slip used up an attempt.
- *RateLimiter.* What a key has spent since the window opened, plus what it could spend
  now, is at most `Capacity` plus the length of the window. A key that was swept
  would have been full (`IdleAfter >= Capacity`), so the credit of the refinement
  mapping does not jump.
- *TurnGraph.* What a node may find in `messages` is tied to `pc` (`Control`), because the guards
  of a node are the edges that lead to it. `Blocked` follows a block by `guard_in` through the
  superstep in which `retrieve` may still be running; `Guarded` says that past `guard_out` a reply has been
  judged or is marked as unverified, `Given` that this is what the client gets. `Mirror` is why the
  transports agree: key by key, what the stream has merged is what the graph has, or the key is missing
  and the graph still has its initial value; of the messages it has the last one. Every update
  keeps it (`ReturnMirrors`), `trace` because the code adds it up by hand.
- *Turns.* A request in flight counts: usage plus `MaxCost` for everyone let through
  stays below the budget plus `MaxCost * peak` (`Bounded`); one that passes the check turns a
  token of the budget into a place in the sum. At most one request with a given
  MessageSid is past the inbox (`Once`). A conversation belongs to the session of the
  request it is named after (`Homes`), so that a transcript cannot get into another. Two open turns of
  a visitor have met (`Met`); a fact of a turn that met no other is therefore known
  to every later turn that will write the intake (`Remembered`).
- *ConfigCache.* `Aged` bounds how long ago the layers a request has read, and those of a cache entry,
  were the committed ones, by `began` and by `ts`; the sum of the two bounds is `ServedRecent`. `Dated`
  says that whatever a request, an edit or an entry holds was committed under its version (`Sourced`),
  that without overlap a version stands for one row of a life (`Counted`), and that what one edit has
  merged is in what the next one loads (`Kept`).
- *Slots, Tools.* Events, rows, results and deeds carry the number of the call they stem from;
  `Numbered` and `Phased` say that a call that has not got to some point has left none of what comes after it,
  `Agreed` what a call that is under way may believe: that its event is in the calendar, that its
  row is there. That is what makes a report true at the moment it is given, and the ids are unique,
  so it stays true. For `DoubleBookedByRace` the candidates are ordered by day, window and
  start; that the first `n` of a finite set in this order are at most `n` follows from the rank being
  injective, and that the query covers every candidate from the first being the
  earliest and the last the latest, which is where the order of the hours comes in.
- *Ingest.* Two crawls that are rewriting one page have met (`CrawlsMet`); so a crawl that met no
  other has seen every chunk of the page when its DELETE starts and has dropped them all when it
  commits (`SeenWhole`).
- *Crawler.* There is an assignment of levels to the pages (`Levelled`) such that a page has
  the level it was queued with, one more than that of a page which arrived and links to it; levels never
  decrease along the queue and differ by one at most; and the links of a page that arrived are
  known at its level plus one or less, unless memory ran out. So nothing out of reach is
  ever seen, and when nothing waits everything in reach has been. If memory does run out, or all pages wanted have been
  kept, a site of at most `max_pages` pages is exhausted, by counting. The inductions over levels,
  over `Near` and over finite sets are done by a smallest counterexample (`Minimum`), since the
  induction theorems of the library cannot be used.
- *Purge.* A purge that ran beside no other removes all that it selects (`WholeBatches`), so that a
  short batch was the last, and what it deleted is at least `BATCH_SIZE` per batch: a purge that is
  stopped by its ceiling does not report `complete`.
- *EvalGate.* The sums the gate compares, and the answers the judge gave, are the same but
  for dimensions an answer lacked (`ScoresCounted`); the rest is arithmetic.

### Only model-checked

Liveness under fairness (`NoJobForgotten`, `EveryReminderEnds`, `TurnEnds`) and whatever
rests on ENABLED is outside the prover's reach, as is induction over data.
Every safety invariant of a passing run, and every action property, is the subject of a theorem
above. What the constants stand for is
not proved: that `Sites`, `Scripts` and the like contain the sites and scripts of the world.

## Not modelled

See `PROJECT.json` for every component and the reason. In short: language models and
classifiers are arbitrary; prompts, wording, language detection, encryption, signature
checks, origin matching, tracing, the ranking of retrieval
and backups are left out. HTTP, Postgres and LangGraph
are taken to do what their documentation says (`SKIP LOCKED`, unique and foreign keys,
READ COMMITTED, the superstep barrier).

## Plan

1. JobQueue, JobContract and proofs - done.
2. Reminders and proofs - done.
3. TurnGraph and proofs - done.
4. RateLimiter, IdealLimiter and proofs - done.
5. Turns and proofs - done.
6. ConfigCache and proofs - done.
7. Slots, Tools and proofs - done.
8. Ingest, Crawler, Purge, EvalGate, Operator and proofs - done.
9. Perhaps: the pure algorithms (rank fusion, quiet hours, deep merge, context budget) against
   reference definitions.
