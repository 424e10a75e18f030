---------------------------- MODULE IdealLimiter ----------------------------
(***************************************************************************)
(* What a rate limiter promises: every key owns a credit that grows with   *)
(* time up to Capacity; a request is allowed exactly when a whole message  *)
(* can be paid for.  Nothing is ever forgotten.  RateLimiter implements it *)
(* with lazily refilled buckets that a sweep throws away.                  *)
(***************************************************************************)
EXTENDS Integers

CONSTANTS Keys, Cost, Capacity

VARIABLES
    now,
    credit,   \* per key, in ticks of refill
    answer    \* the last answer given: <<key, allowed>>

vars == <<now, credit, answer>>

Capped(x) == IF x > Capacity THEN Capacity ELSE x

Init ==
    /\ now = 0
    /\ credit = [k \in Keys |-> Capacity]
    /\ answer = <<>>

Elapse ==
    /\ now' \in Nat
    /\ now' > now
    /\ credit' = [k \in Keys |-> Capped(credit[k] + (now' - now))]
    /\ UNCHANGED answer

Allow(k) ==
    /\ credit[k] >= Cost
    /\ credit' = [credit EXCEPT ![k] = @ - Cost]
    /\ answer' = <<k, TRUE>>
    /\ UNCHANGED now

Refuse(k) ==
    /\ credit[k] < Cost
    /\ answer' = <<k, FALSE>>
    /\ UNCHANGED <<now, credit>>

Next ==
    \/ Elapse
    \/ \E k \in Keys : Allow(k) \/ Refuse(k)

Spec == Init /\ [][Next]_vars
=============================================================================
