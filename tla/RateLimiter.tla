---------------------------- MODULE RateLimiter ----------------------------
(***************************************************************************)
(* The in-process token bucket (app/services/ratelimit.py).  allow() has   *)
(* no await, so a call is one step.  A bucket's tokens are measured in     *)
(* ticks of refill: rate becomes one per tick, a message costs Cost ticks  *)
(* and a full bucket holds Capacity = burst * Cost.  Rounding of the       *)
(* floats is not modelled.                                                 *)
(***************************************************************************)
EXTENDS Integers

CONSTANTS
    Keys,        \* session ids, addresses, tenants
    Cost,        \* ticks that earn one message: 60 / rate_per_min seconds
    Capacity,    \* burst * Cost
    SweepEvery,  \* 300 seconds
    IdleAfter,   \* 900 seconds
    MaxTime      \* bound on the clock; any value will do in the proofs

\* The three instances of the module: a full refill takes 20 to 30 seconds.
ASSUME LimiterAssumption ==
    /\ Cost \in Nat \ {0}
    /\ Capacity \in Nat /\ Capacity >= Cost
    /\ SweepEvery \in Nat /\ IdleAfter \in Nat
    /\ IdleAfter >= Capacity
    /\ MaxTime \in Nat

VARIABLES
    now,        \* time.monotonic()
    known,      \* keys with a bucket in _buckets
    tokens,     \* Bucket.tokens of those keys
    updated,    \* Bucket.updated of those keys
    lastSweep,  \* _last_sweep
    answer,     \* the last answer of allow(): <<key, allowed>>
    window,     \* ghost: a moment from which on admissions are counted
    spent       \* ghost: ticks each key has paid since then

buckets == <<known, tokens, updated, lastSweep>>
vars == <<now, buckets, answer, window, spent>>

Init ==
    /\ now = 0
    /\ known = {}
    /\ tokens = [k \in Keys |-> 0]
    /\ updated = [k \in Keys |-> 0]
    /\ lastSweep = 0
    /\ answer = <<>>
    /\ window = 0
    /\ spent = [k \in Keys |-> 0]

Elapse(d) ==
    /\ now + d <= MaxTime
    /\ now' = now + d
    /\ UNCHANGED <<buckets, answer, window, spent>>

\* Ghost: start counting afresh, at any moment.
OpenWindow ==
    /\ window < now
    /\ window' = now
    /\ spent' = [k \in Keys |-> 0]
    /\ UNCHANGED <<now, buckets, answer>>

Charge(k) == spent' = [spent EXCEPT ![k] = @ + Cost]

SweepDue == now - lastSweep >= SweepEvery

Idle(k) == updated[k] < now - IdleAfter

FirstTokens_Full == Capacity
FirstTokens == Capacity - Cost

\* A key without a bucket gets a full one, pays, and sets off the sweep.  The
\* new bucket is as old as `now` and survives it.
AllowNew(k) ==
    /\ k \notin known
    /\ known' = {k} \cup IF SweepDue THEN {j \in known : ~Idle(j)} ELSE known
    /\ tokens' = [tokens EXCEPT ![k] = FirstTokens]
    /\ updated' = [updated EXCEPT ![k] = now]
    /\ lastSweep' = IF SweepDue THEN now ELSE lastSweep
    /\ answer' = <<k, TRUE>>
    /\ Charge(k)
    /\ UNCHANGED <<now, window>>

Refilled_Uncapped(k) == tokens[k] + (now - updated[k])
Refilled(k) ==
    IF tokens[k] + (now - updated[k]) > Capacity THEN Capacity
    ELSE tokens[k] + (now - updated[k])

\* The refill is stored whether or not the request can be paid for.
AllowKnown(k) ==
    /\ k \in known
    /\ Refilled(k) >= Cost
    /\ tokens' = [tokens EXCEPT ![k] = Refilled(k) - Cost]
    /\ updated' = [updated EXCEPT ![k] = now]
    /\ answer' = <<k, TRUE>>
    /\ Charge(k)
    /\ UNCHANGED <<now, known, lastSweep, window>>

RefuseKnown_NotStamped(k) ==
    /\ k \in known
    /\ Refilled(k) < Cost
    /\ tokens' = [tokens EXCEPT ![k] = Refilled(k)]
    /\ answer' = <<k, FALSE>>
    /\ UNCHANGED <<now, known, updated, lastSweep, window, spent>>

RefuseKnown(k) ==
    /\ k \in known
    /\ Refilled(k) < Cost
    /\ tokens' = [tokens EXCEPT ![k] = Refilled(k)]
    /\ updated' = [updated EXCEPT ![k] = now]
    /\ answer' = <<k, FALSE>>
    /\ UNCHANGED <<now, known, lastSweep, window, spent>>

Next ==
    \/ \E d \in 1..MaxTime : Elapse(d)
    \/ OpenWindow
    \/ \E k \in Keys : AllowNew(k) \/ AllowKnown(k) \/ RefuseKnown(k)

Spec == Init /\ [][Next]_vars

-----------------------------------------------------------------------------
(* Properties *)

\* Every variable has its type; in particular no bucket ever holds more than a
\* burst or less than nothing, and none is stamped in the future.
TypeOK ==
    /\ now \in Nat
    /\ known \subseteq Keys
    /\ tokens \in [Keys -> 0..Capacity]
    /\ updated \in [Keys -> 0..now]
    /\ lastSweep \in 0..now
    /\ window \in 0..now
    /\ spent \in [Keys -> Nat]

\* The bound the limiter is for: over any window of time a key is let through
\* at most burst times plus once per Cost ticks of the window, however its
\* bucket is refilled, swept away and created again.
WindowBound == \A k \in Keys : spent[k] <= Capacity + (now - window)

\* The memory bound: whenever a new key is admitted, no bucket remains that
\* has been idle for IdleAfter + SweepEvery, so cycling through keys keeps only
\* the recent ones.
InsertionSweeps ==
    [][\A k \in known' \ known : \A j \in known' :
            now' - updated'[j] <= IdleAfter + SweepEvery]_vars

\* What a key could spend now.
Credit(k) == IF k \in known THEN Refilled(k) ELSE Capacity

\* Lazy refills and the sweep cannot be observed: the limiter answers exactly
\* like one that keeps every key's credit for ever.
Ideal == INSTANCE IdealLimiter WITH credit <- [k \in Keys |-> Credit(k)]
IdealSpec == Ideal!Spec
=============================================================================
