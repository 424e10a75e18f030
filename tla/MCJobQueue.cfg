CONSTANTS
    w1 = w1
    w2 = w2
    t1 = t1
    e1 = e1
    r1 = r1
    r2 = r2
    r3 = r3
    Workers <- MCWorkers
    Tenants <- MCTenants
    Retaining <- MCTenants
    Jobs <- MCJobs
    Kind <- MCKind
    Owner <- MCOwner
    Keyless = TRUE
    Idle = Idle
    MaxAttempts = 2
    MaxCrashes = 1
    MaxDays = 0
SPECIFICATION Spec
SYMMETRY Symmetry
INVARIANT TypeOK
INVARIANT ExclusiveClaim
INVARIANT HonestVerdict
INVARIANT StrandedOnlyByCrash
INVARIANT RetentionBounded
INVARIANT NoOrphanRow
PROPERTY ContractSpec
CHECK_DEADLOCK FALSE
