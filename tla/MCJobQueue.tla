----------------------------- MODULE MCJobQueue -----------------------------
(* A small instance of JobQueue: two workers, one tenant with a retention   *)
(* window, one email row and three retention rows: one more than two        *)
(* schedulers may have active.                                              *)
EXTENDS JobQueue, TLC

CONSTANTS w1, w2, t1, e1, r1, r2, r3

MCWorkers == {w1, w2}
MCTenants == {t1}
MCJobs == {e1, r1, r2, r3}
MCKind == e1 :> "email" @@ [j \in {r1, r2, r3} |-> "retention"]
MCOwner == [j \in MCJobs |-> t1]

\* Workers are interchangeable, and so are unused retention row ids.
Symmetry == Permutations(MCWorkers) \cup Permutations({r1, r2, r3})

\* One row of either kind: what the liveness runs need.
MCFewJobs == {e1, r1}
MCFewKind == e1 :> "email" @@ r1 :> "retention"
MCFewOwner == [j \in MCFewJobs |-> t1]
=============================================================================
