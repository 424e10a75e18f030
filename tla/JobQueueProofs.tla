--------------------------- MODULE JobQueueProofs ---------------------------
(***************************************************************************)
(* Theorems about JobQueue for any number of workers, tenants and rows,    *)
(* any MAX_ATTEMPTS and any number of crashes.                             *)
(***************************************************************************)
EXTENDS JobQueue, FiniteSetTheorems, TLAPS

\* A worker holding a job holds a running (or meanwhile erased) row, its copy
\* of `attempts` is current, and this attempt's effect is still to come.
HeldInv ==
    \A w \in Workers :
        /\ ~Holding(w) => held[w] = Idle
        /\ Holding(w) =>
            /\ held[w] \in Jobs
            /\ row[held[w]] \in {"running", "erased"}
            /\ seen[w] = attempts[held[w]]
            /\ attempts[held[w]] > 0
        /\ pc[w] = "handle" => effects[held[w]] < attempts[held[w]]

\* Only emails are sunk, and only where a worker has no RESEND_API_KEY.
SunkInv == \A j \in sunk : Keyless /\ Kind[j] = "email"

\* The verdict a worker is about to write is earned.
VerdictInv ==
    /\ SunkInv
    /\ \A w \in Workers : pc[w] = "settle" =>
        /\ verdict[w] = "done" => effects[held[w]] > 0 \/ held[w] \in sunk
        /\ verdict[w] = "failed" => held[w] \in rejected

\* A row waiting for a claim has an attempt left; no effect without an attempt.
AttemptsInv ==
    \A j \in Jobs :
        /\ row[j] \in {"absent", "pending"} => attempts[j] < MaxAttempts
        /\ effects[j] <= attempts[j]

\* The rows of an open scheduling transaction do not exist yet, and no two
\* transactions insert the same row.
StagedInv ==
    /\ \A w \in Workers : \A j \in staged[w] : row[j] = "absent" /\ Kind[j] = "retention"
    /\ \A v, w \in Workers : v # w => staged[v] \cap staged[w] = {}

IInv ==
    /\ TypeOK
    /\ HeldInv
    /\ ExclusiveClaim
    /\ VerdictInv
    /\ AttemptsInv
    /\ StagedInv
    /\ HonestVerdict
    /\ NoOrphanRow
    /\ StrandedOnlyByCrash

LEMMA InitInv == Init => IInv
<1> USE QueueAssumption
<1> SUFFICES ASSUME Init PROVE IInv OBVIOUS
<1>1. TypeOK BY DEF Init, TypeOK
<1>2. HeldInv /\ ExclusiveClaim /\ VerdictInv
    BY DEF Init, HeldInv, ExclusiveClaim, VerdictInv, SunkInv, Holding
<1>3. AttemptsInv /\ StagedInv BY DEF Init, AttemptsInv, StagedInv
<1>4. HonestVerdict /\ NoOrphanRow /\ StrandedOnlyByCrash
    BY DEF Init, HonestVerdict, NoOrphanRow, StrandedOnlyByCrash
<1> QED BY <1>1, <1>2, <1>3, <1>4 DEF IInv

\* One lemma per action of the system: it preserves the inductive invariant.
LEMMA EnqueueInv == ASSUME IInv, NEW j \in Jobs, Enqueue(j) PROVE IInv'
<1> USE QueueAssumption DEF Enqueue, local, world, bounds, IInv
<1>1. TypeOK' BY DEF TypeOK
<1>2. HeldInv' /\ ExclusiveClaim' /\ VerdictInv'
    BY DEF TypeOK, HeldInv, ExclusiveClaim, VerdictInv, SunkInv, Holding
<1>3. AttemptsInv' /\ StagedInv' BY DEF TypeOK, AttemptsInv, StagedInv
<1>4. HonestVerdict' /\ NoOrphanRow' /\ StrandedOnlyByCrash'
    BY DEF TypeOK, HonestVerdict, NoOrphanRow, StrandedOnlyByCrash, Holding
<1> QED BY <1>1, <1>2, <1>3, <1>4

LEMMA BecomeDueInv == ASSUME IInv, NEW j \in Jobs, BecomeDue(j) PROVE IInv'
<1> USE QueueAssumption DEF BecomeDue, table, local, world, bounds, IInv
<1>1. TypeOK' BY DEF TypeOK, HeldInv, AttemptsInv, Holding
<1>2. HeldInv' /\ ExclusiveClaim' /\ VerdictInv'
    BY DEF TypeOK, HeldInv, ExclusiveClaim, VerdictInv, SunkInv, Holding
<1>3. AttemptsInv' /\ StagedInv' BY DEF TypeOK, AttemptsInv, StagedInv, HeldInv, Holding
<1>4. HonestVerdict' /\ NoOrphanRow' /\ StrandedOnlyByCrash'
    BY DEF TypeOK, HonestVerdict, NoOrphanRow, StrandedOnlyByCrash, Holding, HeldInv, VerdictInv, SunkInv
<1> QED BY <1>1, <1>2, <1>3, <1>4

LEMMA EraseJobsInv == ASSUME IInv, NEW t \in Tenants, EraseJobs(t) PROVE IInv'
<1> USE QueueAssumption DEF EraseJobs, Delete, RowsOf, table, local, world, bounds, IInv
<1>1. TypeOK' BY DEF TypeOK, HeldInv, AttemptsInv, Holding
<1>2. HeldInv' /\ ExclusiveClaim' /\ VerdictInv'
    BY DEF TypeOK, HeldInv, ExclusiveClaim, VerdictInv, SunkInv, Holding
<1>3. AttemptsInv' /\ StagedInv' BY DEF TypeOK, AttemptsInv, StagedInv, HeldInv, Holding
<1>4. HonestVerdict' /\ NoOrphanRow' /\ StrandedOnlyByCrash'
    BY DEF TypeOK, HonestVerdict, NoOrphanRow, StrandedOnlyByCrash, Holding, HeldInv, VerdictInv, SunkInv
<1> QED BY <1>1, <1>2, <1>3, <1>4

LEMMA DropTenantInv == ASSUME IInv, NEW t \in Tenants, DropTenant(t) PROVE IInv'
<1> USE QueueAssumption DEF DropTenant, Delete, RowsOf, table, local, world, bounds, IInv
<1>1. TypeOK' BY DEF TypeOK, HeldInv, AttemptsInv, Holding
<1>2. HeldInv' /\ ExclusiveClaim' /\ VerdictInv'
    BY DEF TypeOK, HeldInv, ExclusiveClaim, VerdictInv, SunkInv, Holding
<1>3. AttemptsInv' /\ StagedInv' BY DEF TypeOK, AttemptsInv, StagedInv, HeldInv, Holding
<1>4. HonestVerdict' /\ NoOrphanRow' /\ StrandedOnlyByCrash'
    BY DEF TypeOK, HonestVerdict, NoOrphanRow, StrandedOnlyByCrash, Holding, HeldInv, VerdictInv, SunkInv
<1> QED BY <1>1, <1>2, <1>3, <1>4

LEMMA BeginScheduleInv == ASSUME IInv, NEW w \in Workers, BeginSchedule(w) PROVE IInv'
<1> USE QueueAssumption DEF BeginSchedule, table, local, world, bounds, IInv
<1>1. TypeOK' BY DEF TypeOK, HeldInv, AttemptsInv, Holding
<1>2. HeldInv' /\ ExclusiveClaim' /\ VerdictInv'
    BY DEF TypeOK, HeldInv, ExclusiveClaim, VerdictInv, SunkInv, Holding
<1>3. AttemptsInv' /\ StagedInv' BY DEF TypeOK, AttemptsInv, StagedInv, HeldInv, Holding
<1>4. HonestVerdict' /\ NoOrphanRow' /\ StrandedOnlyByCrash'
    BY DEF TypeOK, HonestVerdict, NoOrphanRow, StrandedOnlyByCrash, Holding, HeldInv, VerdictInv, SunkInv
<1> QED BY <1>1, <1>2, <1>3, <1>4

LEMMA CheckTenantInv == ASSUME IInv, NEW w \in Workers, NEW t \in Tenants, CheckTenant(w, t) PROVE IInv'
<1> USE QueueAssumption DEF CheckTenant, AlreadyQueued, Fresh, table, local, world, bounds, IInv
<1>1. TypeOK' BY DEF TypeOK, HeldInv, AttemptsInv, Holding
<1>2. HeldInv' /\ ExclusiveClaim' /\ VerdictInv'
    BY DEF TypeOK, HeldInv, ExclusiveClaim, VerdictInv, SunkInv, Holding
<1>3. AttemptsInv' /\ StagedInv' BY DEF TypeOK, AttemptsInv, StagedInv, HeldInv, Holding
<1>4. HonestVerdict' /\ NoOrphanRow' /\ StrandedOnlyByCrash'
    BY DEF TypeOK, HonestVerdict, NoOrphanRow, StrandedOnlyByCrash, Holding, HeldInv, VerdictInv, SunkInv
<1> QED BY <1>1, <1>2, <1>3, <1>4

LEMMA CommitScheduleInv == ASSUME IInv, NEW w \in Workers, CommitSchedule(w) PROVE IInv'
<1> USE QueueAssumption DEF CommitSchedule, EndSchedule, table, local, world, bounds, IInv
<1>1. TypeOK' BY DEF TypeOK, HeldInv, AttemptsInv, Holding
<1>2. HeldInv' /\ ExclusiveClaim' /\ VerdictInv'
    BY DEF TypeOK, HeldInv, ExclusiveClaim, VerdictInv, SunkInv, Holding, StagedInv
<1>3. AttemptsInv' /\ StagedInv' BY DEF TypeOK, AttemptsInv, StagedInv, HeldInv, Holding
<1>4. HonestVerdict' /\ NoOrphanRow' /\ StrandedOnlyByCrash'
    BY DEF TypeOK, HonestVerdict, NoOrphanRow, StrandedOnlyByCrash, Holding, HeldInv, VerdictInv, SunkInv
<1> QED BY <1>1, <1>2, <1>3, <1>4

LEMMA FailScheduleInv == ASSUME IInv, NEW w \in Workers, FailSchedule(w) PROVE IInv'
<1> USE QueueAssumption DEF FailSchedule, EndSchedule, table, local, world, bounds, IInv
<1>1. TypeOK' BY DEF TypeOK, HeldInv, AttemptsInv, Holding
<1>2. HeldInv' /\ ExclusiveClaim' /\ VerdictInv'
    BY DEF TypeOK, HeldInv, ExclusiveClaim, VerdictInv, SunkInv, Holding
<1>3. AttemptsInv' /\ StagedInv' BY DEF TypeOK, AttemptsInv, StagedInv, HeldInv, Holding
<1>4. HonestVerdict' /\ NoOrphanRow' /\ StrandedOnlyByCrash'
    BY DEF TypeOK, HonestVerdict, NoOrphanRow, StrandedOnlyByCrash, Holding, HeldInv, VerdictInv, SunkInv
<1> QED BY <1>1, <1>2, <1>3, <1>4

LEMMA DayInv == ASSUME IInv, NEW w \in Workers, Day(w) PROVE IInv'
<1> USE QueueAssumption DEF Day, table, local, world, bounds, IInv
<1>1. TypeOK' BY DEF TypeOK, HeldInv, AttemptsInv, Holding
<1>2. HeldInv' /\ ExclusiveClaim' /\ VerdictInv'
    BY DEF TypeOK, HeldInv, ExclusiveClaim, VerdictInv, SunkInv, Holding
<1>3. AttemptsInv' /\ StagedInv' BY DEF TypeOK, AttemptsInv, StagedInv, HeldInv, Holding
<1>4. HonestVerdict' /\ NoOrphanRow' /\ StrandedOnlyByCrash'
    BY DEF TypeOK, HonestVerdict, NoOrphanRow, StrandedOnlyByCrash, Holding, HeldInv, VerdictInv, SunkInv
<1> QED BY <1>1, <1>2, <1>3, <1>4

LEMMA ClaimInv == ASSUME IInv, NEW w \in Workers, NEW j \in Jobs, Claim(w, j) PROVE IInv'
<1> USE QueueAssumption DEF Claim, Claimable, Counted, table, local, world, bounds, IInv
<1>1. TypeOK' BY DEF TypeOK, HeldInv, AttemptsInv, Holding
<1>2. HeldInv' /\ ExclusiveClaim' /\ VerdictInv'
    BY DEF TypeOK, HeldInv, ExclusiveClaim, VerdictInv, SunkInv, Holding, AttemptsInv
<1>3. AttemptsInv' /\ StagedInv' BY DEF TypeOK, AttemptsInv, StagedInv, HeldInv, Holding
<1>4. HonestVerdict' /\ NoOrphanRow' /\ StrandedOnlyByCrash'
    BY DEF TypeOK, HonestVerdict, NoOrphanRow, StrandedOnlyByCrash, Holding, HeldInv, VerdictInv, SunkInv
<1> QED BY <1>1, <1>2, <1>3, <1>4

LEMMA TakeEffectInv == ASSUME IInv, NEW w \in Workers, NEW v, TakeEffect(w, v) PROVE IInv'
<1> USE QueueAssumption DEF TakeEffect, Handled, table, local, world, bounds, IInv
<1>1. TypeOK' BY DEF TypeOK, HeldInv, AttemptsInv, Holding
<1>2. HeldInv' /\ ExclusiveClaim' /\ VerdictInv'
    BY DEF TypeOK, HeldInv, ExclusiveClaim, VerdictInv, SunkInv, Holding
<1>3. AttemptsInv' /\ StagedInv' BY DEF TypeOK, AttemptsInv, StagedInv, HeldInv, Holding
<1>4. HonestVerdict' /\ NoOrphanRow' /\ StrandedOnlyByCrash'
    BY DEF TypeOK, HonestVerdict, NoOrphanRow, StrandedOnlyByCrash, Holding, HeldInv, VerdictInv, SunkInv
<1> QED BY <1>1, <1>2, <1>3, <1>4

LEMMA NoEffectInv == ASSUME IInv, NEW w \in Workers, NoEffect(w) PROVE IInv'
<1> USE QueueAssumption DEF NoEffect, Handled, table, local, world, bounds, IInv
<1>1. TypeOK' BY DEF TypeOK, HeldInv, AttemptsInv, Holding
<1>2. HeldInv' /\ ExclusiveClaim' /\ VerdictInv'
    BY DEF TypeOK, HeldInv, ExclusiveClaim, VerdictInv, SunkInv, Holding
<1>3. AttemptsInv' /\ StagedInv' BY DEF TypeOK, AttemptsInv, StagedInv, HeldInv, Holding
<1>4. HonestVerdict' /\ NoOrphanRow' /\ StrandedOnlyByCrash'
    BY DEF TypeOK, HonestVerdict, NoOrphanRow, StrandedOnlyByCrash, Holding, HeldInv, VerdictInv, SunkInv
<1> QED BY <1>1, <1>2, <1>3, <1>4

LEMMA SinkInv == ASSUME IInv, NEW w \in Workers, Sink(w) PROVE IInv'
<1> USE QueueAssumption DEF Sink, Handled, table, local, world, bounds, IInv
<1>1. TypeOK' BY DEF TypeOK, HeldInv, AttemptsInv, Holding
<1>2. HeldInv' /\ ExclusiveClaim' /\ VerdictInv'
    BY DEF TypeOK, HeldInv, ExclusiveClaim, VerdictInv, SunkInv, Holding
<1>3. AttemptsInv' /\ StagedInv' BY DEF TypeOK, AttemptsInv, StagedInv, HeldInv, Holding
<1>4. HonestVerdict' /\ NoOrphanRow' /\ StrandedOnlyByCrash'
    BY DEF TypeOK, HonestVerdict, NoOrphanRow, StrandedOnlyByCrash, Holding, HeldInv, VerdictInv, SunkInv
<1> QED BY <1>1, <1>2, <1>3, <1>4

LEMMA RejectInv == ASSUME IInv, NEW w \in Workers, Reject(w) PROVE IInv'
<1> USE QueueAssumption DEF Reject, Handled, table, local, world, bounds, IInv
<1>1. TypeOK' BY DEF TypeOK, HeldInv, AttemptsInv, Holding
<1>2. HeldInv' /\ ExclusiveClaim' /\ VerdictInv'
    BY DEF TypeOK, HeldInv, ExclusiveClaim, VerdictInv, SunkInv, Holding
<1>3. AttemptsInv' /\ StagedInv' BY DEF TypeOK, AttemptsInv, StagedInv, HeldInv, Holding
<1>4. HonestVerdict' /\ NoOrphanRow' /\ StrandedOnlyByCrash'
    BY DEF TypeOK, HonestVerdict, NoOrphanRow, StrandedOnlyByCrash, Holding, HeldInv, VerdictInv, SunkInv
<1> QED BY <1>1, <1>2, <1>3, <1>4

LEMMA SettleInv == ASSUME IInv, NEW w \in Workers, Settle(w) PROVE IInv'
<1> USE QueueAssumption DEF Settle, StillThere, Verdict, Exhausted, Forget, table, local, world, bounds, IInv
<1>1. TypeOK' BY DEF TypeOK, HeldInv, AttemptsInv, Holding
<1>2. HeldInv' /\ ExclusiveClaim' /\ VerdictInv'
    BY DEF TypeOK, HeldInv, ExclusiveClaim, VerdictInv, SunkInv, Holding
<1>3. AttemptsInv' /\ StagedInv' BY DEF TypeOK, AttemptsInv, StagedInv, HeldInv, Holding
<1>4. HonestVerdict' /\ NoOrphanRow' /\ StrandedOnlyByCrash'
    BY DEF TypeOK, HonestVerdict, NoOrphanRow, StrandedOnlyByCrash, Holding, HeldInv, VerdictInv, SunkInv
<1> QED BY <1>1, <1>2, <1>3, <1>4

LEMMA CrashInv == ASSUME IInv, NEW w \in Workers, Crash(w) PROVE IInv'
<1> USE QueueAssumption DEF Crash, Forget, table, local, world, bounds, IInv
<1>1. TypeOK' BY DEF TypeOK, HeldInv, AttemptsInv, Holding
<1>2. HeldInv' /\ ExclusiveClaim' /\ VerdictInv'
    BY DEF TypeOK, HeldInv, ExclusiveClaim, VerdictInv, SunkInv, Holding
<1>3. AttemptsInv' /\ StagedInv' BY DEF TypeOK, AttemptsInv, StagedInv, HeldInv, Holding
<1>4. HonestVerdict' /\ NoOrphanRow' /\ StrandedOnlyByCrash'
    BY DEF TypeOK, HonestVerdict, NoOrphanRow, StrandedOnlyByCrash, Holding, HeldInv, VerdictInv, SunkInv
<1> QED BY <1>1, <1>2, <1>3, <1>4

LEMMA RestartInv == ASSUME IInv, NEW w \in Workers, Restart(w) PROVE IInv'
<1> USE QueueAssumption DEF Restart, table, local, world, bounds, IInv
<1>1. TypeOK' BY DEF TypeOK, HeldInv, AttemptsInv, Holding
<1>2. HeldInv' /\ ExclusiveClaim' /\ VerdictInv'
    BY DEF TypeOK, HeldInv, ExclusiveClaim, VerdictInv, SunkInv, Holding
<1>3. AttemptsInv' /\ StagedInv' BY DEF TypeOK, AttemptsInv, StagedInv, HeldInv, Holding
<1>4. HonestVerdict' /\ NoOrphanRow' /\ StrandedOnlyByCrash'
    BY DEF TypeOK, HonestVerdict, NoOrphanRow, StrandedOnlyByCrash, Holding, HeldInv, VerdictInv, SunkInv
<1> QED BY <1>1, <1>2, <1>3, <1>4
LEMMA StepInv == IInv /\ [Next]_vars => IInv'
<1> SUFFICES ASSUME IInv, [Next]_vars PROVE IInv' OBVIOUS
<1>1. CASE UNCHANGED vars
    BY <1>1 DEF vars, table, local, world, bounds, IInv, TypeOK, HeldInv, ExclusiveClaim, VerdictInv, SunkInv,
        AttemptsInv, StagedInv, HonestVerdict, NoOrphanRow, StrandedOnlyByCrash, Holding
<1>2. CASE \E j \in Jobs : Enqueue(j) \/ BecomeDue(j)
    BY <1>2, EnqueueInv, BecomeDueInv
<1>3. CASE \E t \in Tenants : EraseJobs(t) \/ DropTenant(t)
    BY <1>3, EraseJobsInv, DropTenantInv
<1>4. CASE \E w \in Workers : Step(w) \/ Day(w) \/ Crash(w) \/ Restart(w)
    <2> PICK w \in Workers : Step(w) \/ Day(w) \/ Crash(w) \/ Restart(w) BY <1>4
    <2>1. CASE Schedule(w)
        BY <2>1, BeginScheduleInv, CheckTenantInv, CommitScheduleInv, FailScheduleInv DEF Schedule
    <2>2. CASE \E j \in Jobs : Claim(w, j) BY <2>2, ClaimInv
    <2>3. CASE Handle(w) BY <2>3, TakeEffectInv, NoEffectInv, SinkInv, RejectInv DEF Handle
    <2>4. CASE Settle(w) BY <2>4, SettleInv
    <2>5. CASE Day(w) \/ Crash(w) \/ Restart(w) BY <2>5, DayInv, CrashInv, RestartInv
    <2> QED BY <2>1, <2>2, <2>3, <2>4, <2>5 DEF Step
<1> QED BY <1>1, <1>2, <1>3, <1>4 DEF Next

\* IInv is an inductive invariant of the queue.
THEOREM Inductive == Spec => []IInv
BY InitInv, StepInv, PTL DEF Spec

\* Type correctness; in particular no job is ever tried more than MAX_ATTEMPTS
\* times, however often workers die and come back.
THEOREM TypeCorrect == Spec => []TypeOK
<1>1. IInv => TypeOK BY DEF IInv
<1> QED BY <1>1, Inductive, PTL

\* SKIP LOCKED claims are exclusive for as long as the handler runs.
THEOREM ClaimsAreExclusive == Spec => []ExclusiveClaim
<1>1. IInv => ExclusiveClaim BY DEF IInv
<1> QED BY <1>1, Inductive, PTL

\* 'done' and 'failed' mean what they say.
THEOREM VerdictsAreHonest == Spec => []HonestVerdict
<1>1. IInv => HonestVerdict BY DEF IInv
<1> QED BY <1>1, Inductive, PTL

\* Rows left 'running' are the ones a dead worker was holding, and no others.
THEOREM OnlyCrashesStrand == Spec => []StrandedOnlyByCrash
<1>1. IInv => StrandedOnlyByCrash BY DEF IInv
<1> QED BY <1>1, Inductive, PTL

\* No job row outlives its tenant.
THEOREM ErasureIsComplete == Spec => []NoOrphanRow
<1>1. IInv => NoOrphanRow BY DEF IInv
<1> QED BY <1>1, Inductive, PTL

\* Closed and erased jobs stay so: the only writer of a row is the worker that
\* holds it, and a row that is held is running or erased.
THEOREM ClosedStaysClosed == Spec => ClosedForGood
<1> DEFINE Closed == \A j \in Jobs : Settled(j) => row'[j] \in {row[j], "erased"}
<1>1. IInv /\ [Next]_vars => [Closed]_vars
    <2> SUFFICES ASSUME IInv, Next PROVE Closed OBVIOUS
    <2> USE QueueAssumption DEF IInv, TypeOK, Settled, table, local, world, bounds
    <2>1. ASSUME NEW j \in Jobs, Enqueue(j) \/ BecomeDue(j) PROVE Closed
        BY <2>1 DEF Enqueue, BecomeDue
    <2>2. ASSUME NEW t \in Tenants, EraseJobs(t) \/ DropTenant(t) PROVE Closed
        BY <2>2 DEF EraseJobs, DropTenant, Delete, RowsOf
    <2>3. ASSUME NEW w \in Workers, Schedule(w) PROVE Closed
        BY <2>3 DEF Schedule, BeginSchedule, CheckTenant, AlreadyQueued, CommitSchedule, FailSchedule, EndSchedule, StagedInv
    <2>4. ASSUME NEW w \in Workers, NEW j \in Jobs, Claim(w, j) PROVE Closed
        BY <2>4 DEF Claim, Claimable
    <2>5. ASSUME NEW w \in Workers, Handle(w) PROVE Closed
        BY <2>5 DEF Handle, TakeEffect, NoEffect, Sink, Reject, Handled
    <2>6. ASSUME NEW w \in Workers, Settle(w) PROVE Closed
        BY <2>6 DEF Settle, StillThere, HeldInv, Holding
    <2>7. ASSUME NEW w \in Workers, Day(w) \/ Crash(w) \/ Restart(w) PROVE Closed
        BY <2>7 DEF Day, Crash, Restart
    <2> HIDE DEF Closed
    <2> QED BY <2>1, <2>2, <2>3, <2>4, <2>5, <2>6, <2>7 DEF Next, Step
<1> QED BY <1>1, Inductive, PTL DEF Spec, ClosedForGood, Closed

-----------------------------------------------------------------------------
(* The queue implements JobContract *)

\* Every step of the queue is a step of the contract or leaves it unchanged.
LEMMA ContractStep == IInv /\ [Next]_vars => [Contract!Next]_Contract!vars
<1> SUFFICES ASSUME IInv, [Next]_vars PROVE [Contract!Next]_Contract!vars OBVIOUS
<1> USE QueueAssumption DEF IInv, table, local, world, bounds
<1> DEFINE Same == row' = row /\ attempts' = attempts /\ effects' = effects /\ sunk' = sunk
<1>0. ASSUME Same PROVE [Contract!Next]_Contract!vars
    BY <1>0 DEF Contract!vars
<1>1. CASE UNCHANGED vars BY <1>0, <1>1 DEF vars
<1>2. ASSUME NEW j \in Jobs, Enqueue(j) PROVE Contract!Submit({j})
    BY <1>2 DEF Enqueue, TypeOK, Contract!Submit, Contract!Phase
<1>3. ASSUME NEW j \in Jobs, BecomeDue(j) PROVE Same
    BY <1>3 DEF BecomeDue
<1>4. ASSUME NEW t \in Tenants, EraseJobs(t) \/ DropTenant(t), NEW S, S = RowsOf(t) PROVE Contract!Drop(S)
    BY <1>4 DEF EraseJobs, DropTenant, Delete, RowsOf, TypeOK, Contract!Drop, Contract!Phase
<1>5. ASSUME NEW w \in Workers, CommitSchedule(w), NEW S, S = staged[w] PROVE Contract!Submit(S)
    BY <1>5 DEF CommitSchedule, EndSchedule, StagedInv, TypeOK, Contract!Submit, Contract!Phase
<1>6. ASSUME NEW w \in Workers, BeginSchedule(w) \/ FailSchedule(w) \/ \E t \in Tenants : CheckTenant(w, t)
      PROVE Same
    BY <1>6 DEF BeginSchedule, FailSchedule, CheckTenant, AlreadyQueued, EndSchedule
<1>7. ASSUME NEW w \in Workers, NEW j \in Jobs, Claim(w, j) PROVE Contract!Try(j)
    BY <1>7 DEF Claim, Claimable, Counted, AttemptsInv, TypeOK, Contract!Try
<1>8. ASSUME NEW w \in Workers, NEW v, TakeEffect(w, v), NEW j, j = held[w] PROVE Contract!Hit(j)
    BY <1>8 DEF TakeEffect, Handled, HeldInv, TypeOK, Contract!Hit
<1>8a. ASSUME NEW w \in Workers, Sink(w), NEW j \in Jobs, j = held[w] PROVE Contract!Swallow(j)
    BY <1>8a DEF Sink, Handled, HeldInv, Holding, Contract!Swallow
<1>9. ASSUME NEW w \in Workers, NoEffect(w) \/ Reject(w) PROVE Same
    BY <1>9 DEF NoEffect, Reject, Handled
<1>10. ASSUME NEW w \in Workers, Settle(w), row[held[w]] # "erased",
              NEW j, j = held[w], NEW p \in {"done", "failed"}, p = Verdict(w)
       PROVE Contract!Close(j, p)
    BY <1>10 DEF Settle, StillThere, Verdict, Forget, HeldInv, Holding, VerdictInv, TypeOK,
        Contract!Close, Contract!Phase
<1>11. ASSUME NEW w \in Workers, Settle(w), row[held[w]] # "erased" => Verdict(w) = "pending"
       PROVE UNCHANGED Contract!vars
    BY <1>11 DEF Settle, StillThere, Forget, HeldInv, Holding, TypeOK, Contract!vars
<1>12. ASSUME NEW w \in Workers, Day(w) \/ Crash(w) \/ Restart(w) PROVE Same
    BY <1>12 DEF Day, Crash, Restart
<1>13. ASSUME NEW S \in SUBSET Jobs, Contract!Submit(S) \/ Contract!Drop(S) PROVE Contract!Next
    BY <1>13 DEF Contract!Next
<1>14. ASSUME NEW w \in Workers, Handle(w) PROVE [Contract!Next]_Contract!vars
    <2> PICK j \in Jobs : j = held[w]
        BY <1>14 DEF Handle, TakeEffect, NoEffect, Sink, Reject, Handled, HeldInv, Holding
    <2>1. CASE \E v : TakeEffect(w, v) BY <2>1, <1>8 DEF Contract!Next
    <2>2. CASE Sink(w) BY <2>2, <1>8a DEF Contract!Next
    <2> QED BY <1>0, <1>9, <1>14, <2>1, <2>2 DEF Handle
<1>15. ASSUME NEW w \in Workers, Settle(w) PROVE [Contract!Next]_Contract!vars
    <2> PICK j \in Jobs : j = held[w] BY <1>15 DEF Settle, HeldInv, Holding
    <2>1. CASE row[held[w]] # "erased" /\ Verdict(w) # "pending"
        <3> PICK p \in {"done", "failed"} : p = Verdict(w) BY <2>1 DEF Verdict, TypeOK
        <3> QED BY <1>10, <1>15, <2>1 DEF Contract!Next
    <2> QED BY <1>11, <1>15, <2>1
<1>16. ASSUME NEW w \in Workers, Schedule(w) PROVE [Contract!Next]_Contract!vars
    <2>1. CASE CommitSchedule(w)
        <3> PICK S \in SUBSET Jobs : S = staged[w] BY DEF TypeOK
        <3> QED BY <2>1, <1>5, <1>13
    <2> QED BY <1>0, <1>6, <1>16, <2>1 DEF Schedule
<1>17. ASSUME NEW w \in Workers, Step(w) PROVE [Contract!Next]_Contract!vars
    <2>1. CASE \E j \in Jobs : Claim(w, j) BY <2>1, <1>7 DEF Contract!Next
    <2> QED BY <1>14, <1>15, <1>16, <1>17, <2>1 DEF Step
<1>18. ASSUME NEW j \in Jobs, Enqueue(j) \/ BecomeDue(j) PROVE [Contract!Next]_Contract!vars
    <2>1. CASE Enqueue(j)
        <3> PICK S \in SUBSET Jobs : S = {j} OBVIOUS
        <3> QED BY <2>1, <1>2, <1>13
    <2> QED BY <1>0, <1>3, <1>18, <2>1
<1>19. ASSUME NEW t \in Tenants, EraseJobs(t) \/ DropTenant(t) PROVE [Contract!Next]_Contract!vars
    <2> PICK S \in SUBSET Jobs : S = RowsOf(t) BY DEF RowsOf
    <2> QED BY <1>4, <1>13, <1>19
<1> HIDE DEF Same
<1> QED BY <1>0, <1>1, <1>12, <1>17, <1>18, <1>19 DEF Next

\* JobQueue implements JobContract: bounded tries, at most one effect per try,
\* done only after an effect or by way of the email sink, closed for good.
THEOREM ImplementsContract == Spec => ContractSpec
<1>1. Init => Contract!Init BY DEF Init, Contract!Init
<1> QED BY <1>1, ContractStep, Inductive, PTL DEF Spec, ContractSpec, Contract!Spec

-----------------------------------------------------------------------------
(* Scheduling of retention jobs *)

\* A scheduler stages at most one row per tenant, and only after its check.
StagedOnce ==
    \A w \in Workers :
        /\ pc[w] # "schedule" => staged[w] = {}
        /\ \A j \in staged[w] :
            /\ Owner[j] \notin todo[w]
            /\ \A k \in staged[w] : Owner[k] = Owner[j] => k = j

LEMMA InitStaged == Init => StagedOnce /\ RetentionBounded
<1> SUFFICES ASSUME Init PROVE StagedOnce /\ RetentionBounded OBVIOUS
<1>1. StagedOnce BY DEF Init, StagedOnce
<1>2. ASSUME NEW t \in Tenants
      PROVE Cardinality(ActiveRetention(t)) + Cardinality(Stagers(t)) <= Cardinality(Workers)
    <2>1. ActiveRetention(t) = {} /\ Stagers(t) = {}
        BY DEF Init, ActiveRetention, Stagers
    <2>2. Cardinality(Workers) \in Nat BY QueueAssumption, FS_CardinalityType
    <2> QED BY <2>1, <2>2, FS_EmptySet
<1> QED BY <1>1, <1>2 DEF RetentionBounded

LEMMA StagedStep == IInv /\ StagedOnce /\ [Next]_vars => StagedOnce'
<1> SUFFICES ASSUME IInv, StagedOnce, [Next]_vars PROVE StagedOnce' OBVIOUS
<1> USE QueueAssumption DEF IInv, TypeOK, StagedOnce, table, local, world, bounds
<1>1. CASE UNCHANGED vars BY <1>1 DEF vars
<1>2. ASSUME NEW j \in Jobs, Enqueue(j) \/ BecomeDue(j) PROVE StagedOnce'
    BY <1>2 DEF Enqueue, BecomeDue
<1>3. ASSUME NEW t \in Tenants, EraseJobs(t) \/ DropTenant(t) PROVE StagedOnce'
    BY <1>3 DEF EraseJobs, DropTenant
<1>4. ASSUME NEW w \in Workers, BeginSchedule(w) PROVE StagedOnce'
    BY <1>4 DEF BeginSchedule
<1>5. ASSUME NEW w \in Workers, NEW t \in Tenants, CheckTenant(w, t) PROVE StagedOnce'
    BY <1>5 DEF CheckTenant, AlreadyQueued
<1>6. ASSUME NEW w \in Workers, CommitSchedule(w) \/ FailSchedule(w) PROVE StagedOnce'
    BY <1>6 DEF CommitSchedule, FailSchedule, EndSchedule
<1>7. ASSUME NEW w \in Workers, NEW j \in Jobs, Claim(w, j) PROVE StagedOnce'
    BY <1>7 DEF Claim
<1>8. ASSUME NEW w \in Workers, Handle(w) PROVE StagedOnce'
    BY <1>8 DEF Handle, TakeEffect, NoEffect, Sink, Reject, Handled
<1>9. ASSUME NEW w \in Workers, Settle(w) PROVE StagedOnce'
    BY <1>9 DEF Settle, Forget
<1>10. ASSUME NEW w \in Workers, Day(w) \/ Crash(w) \/ Restart(w) PROVE StagedOnce'
    BY <1>10 DEF Day, Crash, Restart, Forget
<1> HIDE DEF StagedOnce
<1> QED BY <1>1, <1>2, <1>3, <1>4, <1>5, <1>6, <1>7, <1>8, <1>9, <1>10 DEF Next, Step, Schedule

\* A step that neither activates nor stages a purge keeps the bound.
LEMMA FewerKeepBound ==
    ASSUME NEW A, NEW B, NEW A2 \in SUBSET A, NEW B2 \in SUBSET B, NEW n \in Nat,
           IsFiniteSet(A), IsFiniteSet(B), Cardinality(A) + Cardinality(B) <= n
    PROVE  Cardinality(A2) + Cardinality(B2) <= n
<1>1. Cardinality(A) \in Nat /\ Cardinality(B) \in Nat BY FS_CardinalityType
<1>2. IsFiniteSet(A2) /\ IsFiniteSet(B2) BY FS_Subset
<1>3. Cardinality(A2) \in Nat /\ Cardinality(B2) \in Nat BY <1>2, FS_CardinalityType
<1>4. Cardinality(A2) <= Cardinality(A) /\ Cardinality(B2) <= Cardinality(B) BY FS_Subset
<1> QED BY <1>1, <1>3, <1>4

\* Committing turns a scheduler that had staged a purge into an active purge.
LEMMA MoveKeepsBound ==
    ASSUME NEW A, NEW B, NEW j, NEW w \in B, NEW A2 \in SUBSET (A \cup {j}), NEW n \in Nat,
           IsFiniteSet(A), IsFiniteSet(B), Cardinality(A) + Cardinality(B) <= n
    PROVE  Cardinality(A2) + Cardinality(B \ {w}) <= n
<1>0. IsFiniteSet(A \cup {j}) /\ Cardinality(A) \in Nat
    BY FS_AddElement, FS_CardinalityType
<1>1. IsFiniteSet(A \cup {j}) /\ Cardinality(A \cup {j}) <= Cardinality(A) + 1
    <2>1. Cardinality(A \cup {j}) = IF j \in A THEN Cardinality(A) ELSE Cardinality(A) + 1
        BY FS_AddElement
    <2> QED BY <1>0, <2>1
<1>2. IsFiniteSet(A2) /\ Cardinality(A2) <= Cardinality(A \cup {j}) BY <1>1, FS_Subset
<1>3. IsFiniteSet(B \ {w}) /\ Cardinality(B \ {w}) = Cardinality(B) - 1 BY FS_RemoveElement
<1>4. /\ Cardinality(A) \in Nat /\ Cardinality(B) \in Nat /\ Cardinality(A2) \in Nat
      /\ Cardinality(A \cup {j}) \in Nat /\ Cardinality(B \ {w}) \in Nat
    BY <1>1, <1>2, <1>3, FS_CardinalityType
<1> QED BY <1>1, <1>2, <1>3, <1>4

LEMMA BoundStep == IInv /\ StagedOnce /\ RetentionBounded /\ [Next]_vars => RetentionBounded'
<1> SUFFICES ASSUME IInv, StagedOnce, RetentionBounded, [Next]_vars, NEW t \in Tenants
             PROVE (Cardinality(ActiveRetention(t)) + Cardinality(Stagers(t)) <= Cardinality(Workers))'
    BY DEF RetentionBounded
<1> USE QueueAssumption DEF IInv, TypeOK, table, local, world, bounds
<1> DEFINE A == ActiveRetention(t)
           B == Stagers(t)
           Bound == Cardinality(A) + Cardinality(B) <= Cardinality(Workers)
<1>a. IsFiniteSet(A) /\ A \subseteq Jobs BY FS_Subset DEF ActiveRetention
<1>b. IsFiniteSet(B) /\ B \subseteq Workers BY FS_Subset DEF Stagers
<1>c. Cardinality(Workers) \in Nat BY FS_CardinalityType
<1>d. Bound BY DEF RetentionBounded
<1>e. ASSUME A' \subseteq A, B' \subseteq B PROVE Bound'
    BY <1>a, <1>b, <1>c, <1>d, <1>e, FewerKeepBound
<1>1. ASSUME UNCHANGED vars PROVE Bound'
    BY <1>1, <1>e DEF vars, ActiveRetention, Stagers
<1>2. ASSUME NEW j \in Jobs, Enqueue(j) \/ BecomeDue(j) PROVE Bound'
    BY <1>2, <1>e DEF Enqueue, BecomeDue, ActiveRetention, Stagers
<1>3. ASSUME NEW s \in Tenants, EraseJobs(s) \/ DropTenant(s) PROVE Bound'
    BY <1>3, <1>e DEF EraseJobs, DropTenant, Delete, RowsOf, ActiveRetention, Stagers
<1>4. ASSUME NEW w \in Workers, BeginSchedule(w) \/ FailSchedule(w) PROVE Bound'
    BY <1>4, <1>e DEF BeginSchedule, FailSchedule, EndSchedule, ActiveRetention, Stagers
<1>5. ASSUME NEW w \in Workers, NEW s \in Tenants, CheckTenant(w, s) PROVE Bound'
    <2>1. A' = A BY <1>5 DEF CheckTenant, AlreadyQueued, ActiveRetention
    <2>2. CASE s = t /\ A = {}
        <3>1. B' \in SUBSET Workers BY DEF Stagers
        <3>2. Cardinality(B') <= Cardinality(Workers) BY <3>1, FS_Subset
        <3>3. Cardinality(B') \in Nat BY <3>1, FS_Subset, FS_CardinalityType
        <3>4. Cardinality(A') = 0 BY <2>1, <2>2, FS_EmptySet
        <3> QED BY <3>2, <3>3, <3>4, <1>c
    <2>3. CASE ~(s = t /\ A = {})
        <3>1. B' \subseteq B BY <1>5, <2>3 DEF CheckTenant, AlreadyQueued, Stagers
        <3> QED BY <2>1, <3>1, <1>e
    <2> QED BY <2>2, <2>3
<1>6. ASSUME NEW w \in Workers, CommitSchedule(w) PROVE Bound'
    <2> USE <1>6 DEF CommitSchedule, EndSchedule
    <2>1. B' = B \ {w} BY DEF Stagers
    <2>2. CASE w \notin B
        <3>1. A' \subseteq A BY <2>2 DEF Stagers, ActiveRetention
        <3> QED BY <2>1, <3>1, <1>e
    <2>3. CASE w \in B
        <3> PICK j \in staged[w] : Owner[j] = t BY <2>3 DEF Stagers
        <3>1. A' \in SUBSET (A \cup {j}) BY DEF StagedOnce, ActiveRetention
        <3>2. IsFiniteSet(A) /\ IsFiniteSet(B) /\ Cardinality(A) + Cardinality(B) <= Cardinality(Workers)
            BY <1>a, <1>b, <1>d
        <3>3. Cardinality(A') + Cardinality(B \ {w}) <= Cardinality(Workers)
            <4> HIDE DEF A, B
            <4> QED BY <2>3, <3>1, <3>2, <1>c, MoveKeepsBound
        <3>4. Cardinality(A') + Cardinality(B') <= Cardinality(Workers)
            <4> HIDE DEF A, B
            <4> QED BY <2>1, <3>3
        <3> QED BY <3>4
    <2> QED BY <2>2, <2>3
<1>7. ASSUME NEW w \in Workers, NEW j \in Jobs, Claim(w, j) PROVE Bound'
    BY <1>7, <1>e DEF Claim, Claimable, ActiveRetention, Stagers
<1>8. ASSUME NEW w \in Workers, Handle(w) PROVE Bound'
    BY <1>8, <1>e DEF Handle, TakeEffect, NoEffect, Sink, Reject, Handled, ActiveRetention, Stagers
<1>9. ASSUME NEW w \in Workers, Settle(w) PROVE Bound'
    BY <1>9, <1>e DEF Settle, StillThere, Forget, HeldInv, Holding, ActiveRetention, Stagers
<1>10. ASSUME NEW w \in Workers, Day(w) \/ Crash(w) \/ Restart(w) PROVE Bound'
    BY <1>10, <1>e DEF Day, Crash, Restart, Forget, ActiveRetention, Stagers
<1> HIDE DEF A, B, Bound, IInv, TypeOK, table, local, world, bounds
<1>11. Bound'
    BY <1>1, <1>2, <1>3, <1>4, <1>5, <1>6, <1>7, <1>8, <1>9, <1>10 DEF Next, Step, Schedule
<1> QED BY <1>11 DEF Bound, A, B

\* However the schedulers interleave, active and staged purges of one tenant
\* never outnumber the workers.
THEOREM RetentionIsBounded == Spec => []RetentionBounded
<1>1. Spec => [](StagedOnce /\ RetentionBounded)
    <2> DEFINE R == StagedOnce /\ RetentionBounded
    <2>1. Init => R BY InitStaged
    <2>2. IInv /\ R /\ [Next]_vars => R' BY StagedStep, BoundStep
    <2> QED BY <2>1, <2>2, Inductive, PTL DEF Spec
<1> QED BY <1>1, PTL

\* schedule_retention is idempotent for this tenant: it has one active purge at
\* most, and while it has one no scheduler has staged another.
Idempotent(t) ==
    /\ Cardinality(ActiveRetention(t)) <= 1
    /\ ActiveRetention(t) # {} => Stagers(t) = {}

\* With the single worker of docker-compose.yml, schedule_retention is
\* idempotent at every moment, as its docstring says, although it is called by
\* every process that starts, and jobs are retried, crash and are erased.
THEOREM OneWorkerOnePurge ==
    ASSUME NEW w, Workers = {w}
    PROVE  Spec => [](\A t \in Tenants : Idempotent(t))
<1> USE QueueAssumption
<1>1. RetentionBounded /\ TypeOK => \A t \in Tenants : Idempotent(t)
    <2> SUFFICES ASSUME RetentionBounded, TypeOK, NEW t \in Tenants PROVE Idempotent(t) OBVIOUS
    <2>1. Cardinality(Workers) = 1 BY FS_Singleton
    <2>2. IsFiniteSet(ActiveRetention(t)) /\ IsFiniteSet(Stagers(t))
        BY FS_Subset DEF ActiveRetention, Stagers
    <2>3. Cardinality(ActiveRetention(t)) \in Nat /\ Cardinality(Stagers(t)) \in Nat
        BY <2>2, FS_CardinalityType
    <2>4. Cardinality(ActiveRetention(t)) + Cardinality(Stagers(t)) <= 1
        BY <2>1 DEF RetentionBounded
    <2>5. ActiveRetention(t) # {} => Cardinality(ActiveRetention(t)) # 0 BY <2>2, FS_EmptySet
    <2>6. Cardinality(Stagers(t)) = 0 => Stagers(t) = {} BY <2>2, FS_EmptySet
    <2> QED BY <2>3, <2>4, <2>5, <2>6 DEF Idempotent
<1> QED BY <1>1, RetentionIsBounded, TypeCorrect, PTL
=============================================================================
