---------------------------- MODULE JobContract ----------------------------
(***************************************************************************)
(* What the job queue promises to the code that enqueues work: a submitted *)
(* job is tried a bounded number of times, has its effect at most once per *)
(* try, is reported done only after an effect (or, if it is one that may   *)
(* be dropped, after it was), and never comes back once it is closed.      *)
(* JobQueue is shown to implement this specification.                      *)
(***************************************************************************)
EXTENDS Naturals

CONSTANTS
    Jobs, MaxAttempts,
    Droppable   \* jobs that may be reported done without having been done

VARIABLES
    phase,     \* "none" | "open" | "done" | "failed" | "gone", per job
    tries,     \* how often a worker has taken the job
    hits,      \* how often the outside world has felt the job
    swallowed \* jobs a try has dropped on purpose

vars == <<phase, tries, hits, swallowed>>

Init ==
    /\ phase = [j \in Jobs |-> "none"]
    /\ tries = [j \in Jobs |-> 0]
    /\ hits = [j \in Jobs |-> 0]
    /\ swallowed = {}

Phase(S, p) == [j \in Jobs |-> IF j \in S THEN p ELSE phase[j]]

\* Some transaction inserts a set of jobs.
Submit(S) ==
    /\ \A j \in S : phase[j] = "none"
    /\ phase' = Phase(S, "open")
    /\ UNCHANGED <<tries, hits, swallowed>>

Try(j) ==
    /\ phase[j] = "open"
    /\ tries[j] < MaxAttempts
    /\ tries' = [tries EXCEPT ![j] = @ + 1]
    /\ UNCHANGED <<phase, hits, swallowed>>

\* An effect needs a try of its own, even when the row has been erased since.
Hit(j) ==
    /\ hits[j] < tries[j]
    /\ hits' = [hits EXCEPT ![j] = @ + 1]
    /\ UNCHANGED <<phase, tries, swallowed>>

\* A try drops the job instead.
Swallow(j) ==
    /\ j \in Droppable
    /\ tries[j] > 0
    /\ swallowed' = swallowed \cup {j}
    /\ UNCHANGED <<phase, tries, hits>>

Close(j, p) ==
    /\ phase[j] = "open"
    /\ tries[j] > 0
    /\ p = "done" => hits[j] > 0 \/ j \in swallowed
    /\ phase' = Phase({j}, p)
    /\ UNCHANGED <<tries, hits, swallowed>>

\* Erasure of the tenant removes its rows.
Drop(S) ==
    /\ \A j \in S : phase[j] # "none"
    /\ phase' = Phase(S, "gone")
    /\ UNCHANGED <<tries, hits, swallowed>>

Next ==
    \/ \E j \in Jobs :
        \/ Try(j)
        \/ Hit(j)
        \/ Swallow(j)
        \/ Close(j, "done")
        \/ Close(j, "failed")
    \/ \E S \in SUBSET Jobs : Submit(S) \/ Drop(S)

Spec == Init /\ [][Next]_vars
=============================================================================
