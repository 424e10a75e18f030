------------------------------ MODULE JobQueue ------------------------------
(***************************************************************************)
(* The Postgres-backed job queue (app/rag/worker.py): workers that claim   *)
(* rows with FOR UPDATE SKIP LOCKED, run the handler outside any           *)
(* transaction, and write the verdict in a transaction of its own; the     *)
(* daily scheduler of retention jobs; tenant erasure; worker crashes.      *)
(*                                                                         *)
(* A committed transaction is one step.  CLAIM is one statement and one    *)
(* commit, and SKIP LOCKED makes concurrent claims serialisable.  The      *)
(* clock is abstracted to `due`, the rows whose run_after has passed, and  *)
(* CLAIM's ORDER BY to a free choice among them.  A row's kind and tenant  *)
(* never change, so they are functions of its id.                          *)
(***************************************************************************)
EXTENDS Naturals, FiniteSets

CONSTANTS
    Workers,      \* worker processes
    Tenants,
    Retaining,    \* tenants with status # paused and retention_days > 0
    Jobs,         \* row ids, each drawn fresh (uuid4) by one INSERT
    Kind,         \* Jobs -> {"crawl", "retention", "email", "webhook"}
    Owner,        \* Jobs -> Tenants
    Keyless,      \* some worker's environment has no RESEND_API_KEY
    Idle,         \* `job` is None
    MaxAttempts,  \* webhooks.MAX_ATTEMPTS, 5 in the code
    MaxCrashes,   \* bound on worker crashes
    MaxDays       \* bound on the daily ticks after the one at start-up

ASSUME QueueAssumption ==
    /\ MaxAttempts \in Nat \ {0}
    /\ MaxCrashes \in Nat
    /\ MaxDays \in Nat
    /\ Retaining \subseteq Tenants
    /\ Keyless \in BOOLEAN
    /\ IsFiniteSet(Workers) /\ Workers # {}
    /\ IsFiniteSet(Jobs) /\ Idle \notin Jobs
    /\ Kind \in [Jobs -> {"crawl", "retention", "email", "webhook"}]
    /\ Owner \in [Jobs -> Tenants]

VARIABLES
    row,       \* job_queue.status, "absent" before INSERT, "erased" after DELETE
    attempts,  \* job_queue.attempts
    due,       \* rows with run_after <= now()
    tenant,    \* "live" | "erasing" (its job rows are deleted) | "gone"
    pc,        \* where each worker is in loop()
    held,      \* the job in a worker's local variable `job`
    seen,      \* job["attempts"] as RETURNED by CLAIM
    verdict,   \* what _handle gave: "done", "failed" or "raise"
    todo,      \* tenants schedule_retention has still to look at
    staged,    \* rows it has added to its open transaction
    dayDue,    \* now >= next_retention in this worker
    effects,   \* ghost: how often the outside world felt the job
    sunk,      \* ghost: emails that deliver_email only logged
    rejected,  \* ghost: jobs whose receiver answered with a permanent 4xx
    lost,      \* ghost: jobs a crashed worker was holding
    crashes, days

table == <<row, attempts, due, tenant>>
local == <<pc, held, seen, verdict, todo, staged, dayDue>>
world == <<effects, sunk, rejected, lost>>
bounds == <<crashes, days>>
vars == <<table, local, world, bounds>>

DeliveryKinds == {"email", "webhook"}

Holding(w) == pc[w] \in {"handle", "settle"}
Settled(j) == row[j] \in {"done", "failed", "erased"}

Init ==
    /\ row = [j \in Jobs |-> "absent"]
    /\ attempts = [j \in Jobs |-> 0]
    /\ due = {}
    /\ tenant = [t \in Tenants |-> "live"]
    /\ pc = [w \in Workers |-> "top"]
    /\ held = [w \in Workers |-> Idle]
    /\ seen = [w \in Workers |-> 0]
    /\ verdict = [w \in Workers |-> "raise"]
    /\ todo = [w \in Workers |-> {}]
    /\ staged = [w \in Workers |-> {}]
    /\ dayDue = [w \in Workers |-> TRUE]
    /\ effects = [j \in Jobs |-> 0]
    /\ sunk = {}
    /\ rejected = {}
    /\ lost = {}
    /\ crashes = 0
    /\ days = 0

-----------------------------------------------------------------------------
(* Enqueueing, the clock, and erasure *)

\* The INSERT of enqueue_email and webhooks.enqueue, and of whoever queues a
\* crawl.  The foreign key refuses a tenant that is gone.
Enqueue(j) ==
    /\ Kind[j] # "retention"
    /\ row[j] = "absent"
    /\ tenant[Owner[j]] # "gone"
    /\ row' = [row EXCEPT ![j] = "pending"]
    /\ due' = due \cup {j}
    /\ UNCHANGED <<attempts, tenant, local, world, bounds>>

\* run_after of a retried row passes.
BecomeDue(j) ==
    /\ row[j] = "pending"
    /\ j \notin due
    /\ due' = due \cup {j}
    /\ UNCHANGED <<row, attempts, tenant, local, world, bounds>>

RowsOf(t) == {j \in Jobs : Owner[j] = t /\ row[j] # "absent"}
Delete(S) == [j \in Jobs |-> IF j \in S THEN "erased" ELSE row[j]]

\* erase_tenant deletes the tenant's job rows, among other tables, ...
EraseJobs(t) ==
    /\ tenant[t] = "live"
    /\ tenant' = [tenant EXCEPT ![t] = "erasing"]
    /\ row' = Delete(RowsOf(t))
    /\ UNCHANGED <<attempts, due, local, world, bounds>>

DropTenant_NoCascade(t) ==
    /\ tenant[t] = "erasing"
    /\ tenant' = [tenant EXCEPT ![t] = "gone"]
    /\ UNCHANGED <<row, attempts, due, local, world, bounds>>

\* ... and then the tenant; ON DELETE CASCADE takes what was queued meanwhile.
DropTenant(t) ==
    /\ tenant[t] = "erasing"
    /\ tenant' = [tenant EXCEPT ![t] = "gone"]
    /\ row' = Delete(RowsOf(t))
    /\ UNCHANGED <<attempts, due, local, world, bounds>>

-----------------------------------------------------------------------------
(* schedule_retention *)

\* next_retention has passed: move it a day on, read the tenants.
BeginSchedule(w) ==
    /\ pc[w] = "top"
    /\ dayDue[w]
    /\ dayDue' = [dayDue EXCEPT ![w] = FALSE]
    /\ todo' = [todo EXCEPT ![w] = {t \in Retaining : tenant[t] # "gone"}]
    /\ pc' = [pc EXCEPT ![w] = "schedule"]
    /\ UNCHANGED <<table, held, seen, verdict, staged, world, bounds>>

ActiveRetention(t) ==
    {j \in Jobs : Kind[j] = "retention" /\ Owner[j] = t /\ row[j] \in {"pending", "running"}}

AlreadyQueued_PendingOnly(t) == \E j \in ActiveRetention(t) : row[j] = "pending"
AlreadyQueued(t) == ActiveRetention(t) # {}

Fresh(j) == row[j] = "absent" /\ \A w \in Workers : j \notin staged[w]

\* The SELECT for one tenant.  It sees committed rows only, so another
\* scheduler's staged rows are invisible.
CheckTenant(w, t) ==
    /\ pc[w] = "schedule"
    /\ t \in todo[w]
    /\ todo' = [todo EXCEPT ![w] = @ \ {t}]
    /\ \/ /\ AlreadyQueued(t)
          /\ staged' = staged
       \/ /\ ~AlreadyQueued(t)
          /\ \E j \in Jobs :
                /\ Kind[j] = "retention" /\ Owner[j] = t /\ Fresh(j)
                /\ staged' = [staged EXCEPT ![w] = @ \cup {j}]
    /\ UNCHANGED <<table, pc, held, seen, verdict, dayDue, world, bounds>>

EndSchedule(w) ==
    /\ pc' = [pc EXCEPT ![w] = "top"]
    /\ todo' = [todo EXCEPT ![w] = {}]
    /\ staged' = [staged EXCEPT ![w] = {}]
    /\ UNCHANGED <<attempts, tenant, held, seen, verdict, dayDue, world, bounds>>

CommitSchedule(w) ==
    /\ pc[w] = "schedule"
    /\ todo[w] = {}
    /\ \A j \in staged[w] : tenant[Owner[j]] # "gone"
    /\ row' = [j \in Jobs |-> IF j \in staged[w] THEN "pending" ELSE row[j]]
    /\ due' = due \cup staged[w]
    /\ EndSchedule(w)

\* Any exception, a foreign key refusal included, rolls back and is logged.
FailSchedule(w) ==
    /\ pc[w] = "schedule"
    /\ UNCHANGED <<row, due>>
    /\ EndSchedule(w)

\* 24 hours pass in one worker.
Day(w) ==
    /\ days < MaxDays
    /\ ~dayDue[w]
    /\ pc[w] # "down"
    /\ days' = days + 1
    /\ dayDue' = [dayDue EXCEPT ![w] = TRUE]
    /\ UNCHANGED <<table, pc, held, seen, verdict, todo, staged, world, crashes>>

-----------------------------------------------------------------------------
(* Claim, handle, settle *)

Claimable_AnyStatus(j) == row[j] \in {"pending", "running"} /\ j \in due
Claimable(j) == row[j] = "pending" /\ j \in due

Counted_Not(j) == attempts
Counted(j) == [attempts EXCEPT ![j] = @ + 1]

Claim(w, j) ==
    /\ pc[w] = "top"
    /\ ~dayDue[w]
    /\ Claimable(j)
    /\ row' = [row EXCEPT ![j] = "running"]
    /\ attempts' = Counted(j)
    /\ held' = [held EXCEPT ![w] = j]
    /\ seen' = [seen EXCEPT ![w] = attempts'[j]]
    /\ pc' = [pc EXCEPT ![w] = "handle"]
    /\ UNCHANGED <<due, tenant, verdict, todo, staged, dayDue, world, bounds>>

\* _handle ends with verdict v.
Handled(w, v) ==
    /\ pc[w] = "handle"
    /\ pc' = [pc EXCEPT ![w] = "settle"]
    /\ verdict' = [verdict EXCEPT ![w] = v]
    /\ UNCHANGED <<table, held, seen, todo, staged, dayDue, lost, bounds>>

\* The effect takes place: the crawl is ingested, expired conversations are
\* purged, the provider or the receiver acts on the request.  The answer comes
\* back ("done") or is lost on the way: timeout, 5xx after acting ("raise").
TakeEffect(w, v) ==
    /\ v \in {"done", "raise"}
    /\ Handled(w, v)
    /\ effects' = [effects EXCEPT ![held[w]] = @ + 1]
    /\ UNCHANGED <<sunk, rejected>>

NoEffect_Done(w) == Handled(w, "done") /\ UNCHANGED <<effects, sunk, rejected>>
\* Nothing happened: connection refused, 5xx, 429, a crawl rolled back.
NoEffect(w) == Handled(w, "raise") /\ UNCHANGED <<effects, sunk, rejected>>

\* Without RESEND_API_KEY deliver_email logs the email, sends nothing and says ok.
Sink(w) ==
    /\ Keyless
    /\ Handled(w, "done")
    /\ Kind[held[w]] = "email"
    /\ sunk' = sunk \cup {held[w]}
    /\ UNCHANGED <<effects, rejected>>

\* A 4xx other than 429 is permanent, and so is an email without a recipient.
Reject(w) ==
    /\ Handled(w, "failed")
    /\ Kind[held[w]] \in DeliveryKinds
    /\ rejected' = rejected \cup {held[w]}
    /\ UNCHANGED <<effects, sunk>>

Handle(w) ==
    \/ TakeEffect(w, "done") \/ TakeEffect(w, "raise")
    \/ NoEffect(w) \/ Sink(w) \/ Reject(w)

Exhausted_OneMore(w) == seen[w] > MaxAttempts
Exhausted_OneLess(w) == seen[w] >= MaxAttempts - 1
Exhausted(w) == seen[w] >= MaxAttempts

Verdict_RetryLeftRunning(w) ==
    IF verdict[w] # "raise" THEN verdict[w] ELSE IF Exhausted(w) THEN "failed" ELSE "running"
\* The status written: FINISH's :s, or RETRY's 'pending'.
Verdict(w) ==
    IF verdict[w] # "raise" THEN verdict[w] ELSE IF Exhausted(w) THEN "failed" ELSE "pending"

\* FINISH and RETRY are UPDATEs by id: they match nothing once the row is erased.
StillThere(w) == row[held[w]] # "erased"

\* The locals of this iteration are dead; clearing them keeps the states few.
Forget(w) ==
    /\ held' = [held EXCEPT ![w] = Idle]
    /\ seen' = [seen EXCEPT ![w] = 0]
    /\ verdict' = [verdict EXCEPT ![w] = "raise"]

Settle(w) ==
    /\ pc[w] = "settle"
    /\ row' = IF StillThere(w) THEN [row EXCEPT ![held[w]] = Verdict(w)] ELSE row
    /\ due' = IF Verdict(w) = "pending" THEN due \ {held[w]} ELSE due
    /\ pc' = [pc EXCEPT ![w] = "top"]
    /\ Forget(w)
    /\ UNCHANGED <<attempts, tenant, todo, staged, dayDue, world, bounds>>

\* The process dies: killed, or a database error outside loop()'s try blocks.
\* Its open transaction rolls back; the row it claimed stays as it is.
Crash(w) ==
    /\ crashes < MaxCrashes
    /\ pc[w] # "down"
    /\ crashes' = crashes + 1
    /\ pc' = [pc EXCEPT ![w] = "down"]
    /\ lost' = IF Holding(w) THEN lost \cup {held[w]} ELSE lost
    /\ Forget(w)
    /\ todo' = [todo EXCEPT ![w] = {}]
    /\ staged' = [staged EXCEPT ![w] = {}]
    /\ UNCHANGED <<table, dayDue, effects, sunk, rejected, days>>

\* loop() starts with next_retention = now; nothing looks for running rows.
Restart(w) ==
    /\ pc[w] = "down"
    /\ pc' = [pc EXCEPT ![w] = "top"]
    /\ dayDue' = [dayDue EXCEPT ![w] = TRUE]
    /\ UNCHANGED <<table, held, seen, verdict, todo, staged, world, bounds>>

-----------------------------------------------------------------------------
Schedule(w) ==
    \/ BeginSchedule(w)
    \/ \E t \in Tenants : CheckTenant(w, t)
    \/ CommitSchedule(w)
    \/ FailSchedule(w)

\* What a running worker does of its own accord.
Step(w) == Schedule(w) \/ (\E j \in Jobs : Claim(w, j)) \/ Handle(w) \/ Settle(w)

Next ==
    \/ \E j \in Jobs : Enqueue(j) \/ BecomeDue(j)
    \/ \E t \in Tenants : EraseJobs(t) \/ DropTenant(t)
    \/ \E w \in Workers : Step(w) \/ Day(w) \/ Crash(w) \/ Restart(w)

Spec == Init /\ [][Next]_vars

\* loop() never blocks for ever: every await is a database statement or an HTTP
\* call with a timeout.  Time passes.  Nothing restarts a dead worker.
Fairness ==
    /\ \A w \in Workers : WF_vars(Step(w))
    /\ \A j \in Jobs : WF_vars(BecomeDue(j))

FairSpec == Spec /\ Fairness

\* As FairSpec, for a deployment whose supervisor restarts dead workers.
SupervisedSpec == FairSpec /\ \A w \in Workers : WF_vars(Restart(w))

-----------------------------------------------------------------------------
(* Properties *)

\* Every variable has its type; in particular no row is tried more often than
\* MAX_ATTEMPTS, whatever the workers, the receivers and the crashes do.
TypeOK ==
    /\ row \in [Jobs -> {"absent", "pending", "running", "done", "failed", "erased"}]
    /\ attempts \in [Jobs -> 0..MaxAttempts]
    /\ due \subseteq Jobs
    /\ tenant \in [Tenants -> {"live", "erasing", "gone"}]
    /\ pc \in [Workers -> {"top", "schedule", "handle", "settle", "down"}]
    /\ held \in [Workers -> Jobs \cup {Idle}]
    /\ seen \in [Workers -> 0..MaxAttempts]
    /\ verdict \in [Workers -> {"done", "failed", "raise"}]
    /\ todo \in [Workers -> SUBSET Tenants]
    /\ staged \in [Workers -> SUBSET Jobs]
    /\ dayDue \in [Workers -> BOOLEAN]
    /\ effects \in [Jobs -> 0..MaxAttempts]
    /\ sunk \subseteq Jobs
    /\ rejected \subseteq Jobs
    /\ lost \subseteq Jobs
    /\ crashes \in 0..MaxCrashes
    /\ days \in 0..MaxDays

\* No two workers ever run the same job at the same time, although the handler
\* runs after the claiming transaction has released its row lock.
ExclusiveClaim ==
    \A v, w \in Workers : Holding(v) /\ Holding(w) /\ held[v] = held[w] => v = w

\* The final status is honest: done only after an effect, except for an email
\* that a worker without RESEND_API_KEY took off the queue and did not send;
\* failed only after a permanent rejection or after every attempt was used.
HonestVerdict ==
    \A j \in Jobs :
        /\ row[j] = "done" => effects[j] > 0 \/ (Keyless /\ Kind[j] = "email" /\ j \in sunk)
        /\ row[j] = "failed" => j \in rejected \/ attempts[j] = MaxAttempts

\* Only a crash leaves a row 'running' that no worker is running.
StrandedOnlyByCrash ==
    \A j \in Jobs :
        row[j] = "running" => j \in lost \/ \E w \in Workers : Holding(w) /\ held[w] = j

\* The schedulers' check-then-insert races, but a tenant never has more active
\* or staged purges than there are workers: with the one worker of
\* docker-compose.yml scheduling is idempotent, as its docstring says.
Stagers(t) == {w \in Workers : \E j \in staged[w] : Owner[j] = t}
RetentionBounded ==
    \A t \in Tenants : Cardinality(ActiveRetention(t)) + Cardinality(Stagers(t)) <= Cardinality(Workers)

\* Erasure is complete: no job row outlives its tenant, whatever was queued or
\* staged while the erasure ran.
NoOrphanRow ==
    \A j \in Jobs : row[j] \notin {"absent", "erased"} => tenant[Owner[j]] # "gone"

\* A closed or erased job is never reopened, not even by a worker that was
\* still handling it when it was erased.
ClosedForGood ==
    [][\A j \in Jobs : Settled(j) => row'[j] \in {row[j], "erased"}]_vars

\* The queue implements its contract: at most MaxAttempts tries, at most one
\* effect per try, done only after an effect or by way of the email sink.
Contract == INSTANCE JobContract WITH
    phase <- [j \in Jobs |->
                CASE row[j] = "absent" -> "none"
                  [] row[j] \in {"pending", "running"} -> "open"
                  [] row[j] = "erased" -> "gone"
                  [] OTHER -> row[j]],
    tries <- attempts,
    hits <- effects,
    swallowed <- sunk,
    Droppable <- {j \in Jobs : Keyless /\ Kind[j] = "email"}
ContractSpec == Contract!Spec

\* While a worker survives, every queued job is settled, however often it has
\* to be retried, unless a crash took it.
NoJobForgotten == \A j \in Jobs : row[j] = "pending" ~> Settled(j) \/ j \in lost

\* webhooks.enqueue: "Cheap, non-blocking, survives a restart."
SurvivesRestart == \A j \in Jobs : row[j] = "pending" ~> Settled(j)
=============================================================================
