------------------------------- MODULE Purge -------------------------------
(***************************************************************************)
(* purge_tenant (app/services/retention.py): the conversations older than  *)
(* the retention window are deleted, oldest first, a batch per             *)
(* transaction.  The worker's daily job and the operator's                 *)
(* /retention/run may purge one tenant at the same time.                   *)
(*                                                                         *)
(* Conversations are numbered by created_at; a purge deletes those up to   *)
(* its cutoff.                                                             *)
(***************************************************************************)
EXTENDS Integers, FiniteSets

CONSTANTS
    Purges,      \* calls of purge_tenant
    Oldest,      \* how many conversations there are to begin with
    BatchSize,   \* BATCH_SIZE
    MaxBatches   \* MAX_BATCHES

PurgeAssumption ==
    Oldest \in Nat /\ BatchSize \in Nat \ {0} /\ MaxBatches \in Nat \ {0}

VARIABLES
    convs,      \* rows of conversations
    pc,
    cutoff,     \* the cutoff of each purge
    preview,    \* what _count_expiring found
    picked,     \* the rows the DELETE of the current batch selected
    deleted,    \* conversations a purge has deleted
    batches,    \* batches it has committed
    beside,     \* ghost: purges that ran while another one did
    taken       \* ghost: the conversations each purge has removed

vars == <<convs, pc, cutoff, preview, picked, deleted, batches, beside, taken>>

Ids == 1..Oldest

Init ==
    /\ convs = Ids
    /\ pc = [p \in Purges |-> "new"]
    /\ cutoff = [p \in Purges |-> 0]
    /\ preview = [p \in Purges |-> 0]
    /\ picked = [p \in Purges |-> {}]
    /\ deleted = [p \in Purges |-> 0]
    /\ batches = [p \in Purges |-> 0]
    /\ beside = {}
    /\ taken = [p \in Purges |-> {}]

Expired(p) == {i \in convs : i <= cutoff[p]}
Running(p) == pc[p] \in {"select", "delete"}

\* The cutoff is taken, then the preview is counted; a dry run ends here.
Begin(p, n, dry) ==
    /\ pc[p] = "new"
    /\ pc' = [pc EXCEPT ![p] = IF dry THEN "dry" ELSE "select"]
    /\ cutoff' = [cutoff EXCEPT ![p] = n]
    /\ preview' = [preview EXCEPT ![p] = Cardinality({i \in convs : i <= n})]
    /\ beside' = LET others == {q \in Purges : Running(q)}
                 IN IF dry \/ others = {} THEN beside ELSE beside \cup others \cup {p}
    /\ UNCHANGED <<convs, picked, deleted, batches, taken>>

\* The subquery: the oldest rows past the cutoff, a batch of them.
Select(p) ==
    /\ pc[p] = "select"
    /\ picked' = [picked EXCEPT ![p] =
            {i \in Expired(p) : Cardinality({k \in Expired(p) : k < i}) < BatchSize}]
    /\ pc' = [pc EXCEPT ![p] = "delete"]
    /\ UNCHANGED <<convs, cutoff, preview, deleted, batches, beside, taken>>

LastBatch_OneMore(p, removed) == removed <= BatchSize \/ batches[p] + 1 = MaxBatches
LastBatch(p, removed) == removed < BatchSize \/ batches[p] + 1 = MaxBatches

\* The DELETE and its commit.  It waits for rows that another purge holds and
\* then passes over those that are gone.
Delete(p) ==
    LET removed == Cardinality(picked[p] \cap convs)
    IN /\ pc[p] = "delete"
       /\ convs' = convs \ picked[p]
       /\ taken' = [taken EXCEPT ![p] = @ \cup (picked[p] \cap convs)]
       /\ deleted' = [deleted EXCEPT ![p] = @ + removed]
       /\ batches' = [batches EXCEPT ![p] = @ + 1]
       /\ picked' = [picked EXCEPT ![p] = {}]
       /\ pc' = [pc EXCEPT ![p] = IF LastBatch(p, removed) THEN "done" ELSE "select"]
       /\ UNCHANGED <<cutoff, preview, beside>>

\* The process dies or the statement times out; what was committed stays.
Interrupt(p) ==
    /\ Running(p)
    /\ pc' = [pc EXCEPT ![p] = "stopped"]
    /\ picked' = [picked EXCEPT ![p] = {}]
    /\ UNCHANGED <<convs, cutoff, preview, deleted, batches, beside, taken>>

Next ==
    \E p \in Purges :
        \/ \E n \in 0..Oldest, dry \in BOOLEAN : Begin(p, n, dry)
        \/ Select(p) \/ Delete(p) \/ Interrupt(p)

Spec == Init /\ [][Next]_vars

\* What a finished purge reports.
Complete(p) == deleted[p] < MaxBatches * BatchSize

-----------------------------------------------------------------------------
(* Properties *)

\* Every variable has its type; a purge commits at most MAX_BATCHES batches.
TypeOK ==
    /\ convs \subseteq Ids
    /\ pc \in [Purges -> {"new", "dry", "select", "delete", "done", "stopped"}]
    /\ cutoff \in [Purges -> 0..Oldest] /\ preview \in [Purges -> 0..Oldest]
    /\ picked \in [Purges -> SUBSET Ids]
    /\ deleted \in [Purges -> 0..Oldest] /\ batches \in [Purges -> 0..MaxBatches]
    /\ beside \subseteq Purges /\ taken \in [Purges -> SUBSET Ids]

\* A purge that reports "complete" has left nothing that was past its cutoff,
\* unless another one ran beside it: then its last batch may have come up short
\* only because the rows it had picked were gone.  A dry run and the rows inside
\* the window are no concern of it: the purges together never delete more than
\* the widest cutoff, and each row is counted by the one purge that removed it.
CompleteIsTrue ==
    /\ \A p \in Purges : pc[p] = "done" /\ Complete(p) /\ p \notin beside => Expired(p) = {}
    /\ \A i \in Ids \ convs : \E p \in Purges : i <= cutoff[p] /\ pc[p] # "dry" /\ i \in taken[p]
    /\ \A p, q \in Purges : p # q => taken[p] \cap taken[q] = {}
    /\ \A p \in Purges : deleted[p] = Cardinality(taken[p])
=============================================================================
