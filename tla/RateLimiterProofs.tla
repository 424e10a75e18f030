------------------------- MODULE RateLimiterProofs -------------------------
(***************************************************************************)
(* Theorems about RateLimiter for any set of keys, any rate and burst, any *)
(* sweep interval, and any idle time no shorter than a full refill.        *)
(***************************************************************************)
EXTENDS RateLimiter, TLAPS

\* What a key has spent in the window and what it could still spend now,
\* together, are bounded: the potential that makes WindowBound inductive.
\* A bucket that is not known counts as full.
PotentialInv == \A k \in Keys : spent[k] + Credit(k) <= Capacity + (now - window)

\* The last sweep left no bucket that had been idle for longer than IdleAfter.
FreshInv == \A k \in known : lastSweep - updated[k] <= IdleAfter

IInv == TypeOK /\ PotentialInv /\ FreshInv

\* A key's credit is a number between nothing and a burst.
LEMMA CreditType == ASSUME TypeOK, NEW k \in Keys PROVE Credit(k) \in 0..Capacity
BY LimiterAssumption DEF TypeOK, Credit, Refilled

\* A bucket the sweep may drop is full, so dropping it takes nothing away.
LEMMA IdleIsFull ==
    ASSUME TypeOK, NEW k \in known, Idle(k) PROVE Refilled(k) = Capacity
BY LimiterAssumption DEF TypeOK, Idle, Refilled

\* Between two calls every credit grows by the time that passes, up to a burst.
LEMMA CreditGrows ==
    ASSUME TypeOK, NEW d \in Nat, Elapse(d), NEW k \in Keys
    PROVE  Credit(k)' = IF Credit(k) + d > Capacity THEN Capacity ELSE Credit(k) + d
BY LimiterAssumption DEF TypeOK, Elapse, Credit, Refilled, buckets

\* Admission by a new bucket costs its key one message and no key anything else.
LEMMA CreditNew ==
    ASSUME TypeOK, NEW j \in Keys, AllowNew(j), NEW k \in Keys
    PROVE  Credit(k)' = IF k = j THEN Credit(k) - Cost ELSE Credit(k)
<1> USE LimiterAssumption DEF TypeOK, AllowNew, FirstTokens, Credit, Refilled
<1>1. CASE k = j BY <1>1
<1>2. CASE k # j /\ k \in known'
    BY <1>2
<1>3. CASE k # j /\ k \notin known'
    <2>1. CASE k \in known
        <3>1. Idle(k) BY <1>3, <2>1
        <3> QED BY <1>3, <2>1, <3>1, IdleIsFull
    <2>2. CASE k \notin known BY <1>3, <2>2
    <2> QED BY <2>1, <2>2
<1> QED BY <1>1, <1>2, <1>3

\* So does admission by a known bucket, and refusal costs nothing at all.
LEMMA CreditKnown ==
    ASSUME TypeOK, NEW j \in Keys, AllowKnown(j), NEW k \in Keys
    PROVE  Credit(k)' = IF k = j THEN Credit(k) - Cost ELSE Credit(k)
BY LimiterAssumption DEF TypeOK, AllowKnown, Credit, Refilled

LEMMA CreditRefused ==
    ASSUME TypeOK, NEW j \in Keys, RefuseKnown(j), NEW k \in Keys
    PROVE  Credit(k)' = Credit(k)
BY LimiterAssumption DEF TypeOK, RefuseKnown, Credit, Refilled

LEMMA InitInv == Init => IInv
BY LimiterAssumption DEF Init, IInv, TypeOK, PotentialInv, FreshInv, Credit

LEMMA StepInv == IInv /\ [Next]_vars => IInv'
<1> SUFFICES ASSUME IInv, [Next]_vars PROVE IInv' OBVIOUS
<1> USE LimiterAssumption DEF IInv
<1>1. CASE UNCHANGED vars
    BY <1>1 DEF vars, buckets, TypeOK, PotentialInv, FreshInv, Credit, Refilled
<1>2. ASSUME NEW d \in 1..MaxTime, Elapse(d) PROVE IInv'
    <2>1. TypeOK' BY <1>2 DEF Elapse, TypeOK, buckets
    <2>2. FreshInv' BY <1>2 DEF Elapse, FreshInv, buckets
    <2>3. PotentialInv'
        BY <1>2, CreditGrows, CreditType DEF PotentialInv, Elapse, TypeOK
    <2> QED BY <2>1, <2>2, <2>3
<1>3. CASE OpenWindow
    <2>1. TypeOK' BY <1>3 DEF OpenWindow, TypeOK, buckets
    <2>2. FreshInv' BY <1>3 DEF OpenWindow, FreshInv, buckets
    <2>3. \A k \in Keys : Credit(k)' = Credit(k) BY <1>3 DEF OpenWindow, buckets, Credit, Refilled
    <2>4. PotentialInv' BY <1>3, <2>3, CreditType DEF PotentialInv, OpenWindow, TypeOK
    <2> QED BY <2>1, <2>2, <2>4
<1>4. ASSUME NEW j \in Keys, AllowNew(j) PROVE IInv'
    <2>1. TypeOK' BY <1>4 DEF AllowNew, Charge, FirstTokens, TypeOK
    <2>2. FreshInv' BY <1>4 DEF AllowNew, FreshInv, Idle, TypeOK
    <2>3. ASSUME NEW k \in Keys PROVE (spent[k] + Credit(k) <= Capacity + (now - window))'
        <3>1. Credit(k)' = IF k = j THEN Credit(k) - Cost ELSE Credit(k) BY <1>4, CreditNew
        <3>2. spent'[k] = IF k = j THEN spent[k] + Cost ELSE spent[k]
            BY <1>4 DEF AllowNew, Charge, TypeOK
        <3>3. now' = now /\ window' = window BY <1>4 DEF AllowNew
        <3>4. Credit(k) \in 0..Capacity /\ spent[k] \in Nat BY CreditType DEF TypeOK
        <3> QED BY <3>1, <3>2, <3>3, <3>4 DEF PotentialInv, TypeOK
    <2> QED BY <2>1, <2>2, <2>3 DEF PotentialInv
<1>5. ASSUME NEW j \in Keys, AllowKnown(j) PROVE IInv'
    <2>1. TypeOK' BY <1>5 DEF AllowKnown, Charge, Refilled, TypeOK
    <2>2. FreshInv' BY <1>5 DEF AllowKnown, FreshInv, TypeOK
    <2>3. ASSUME NEW k \in Keys PROVE (spent[k] + Credit(k) <= Capacity + (now - window))'
        <3>1. Credit(k)' = IF k = j THEN Credit(k) - Cost ELSE Credit(k) BY <1>5, CreditKnown
        <3>2. spent'[k] = IF k = j THEN spent[k] + Cost ELSE spent[k]
            BY <1>5 DEF AllowKnown, Charge, TypeOK
        <3>3. now' = now /\ window' = window BY <1>5 DEF AllowKnown
        <3>4. Credit(k) \in 0..Capacity /\ spent[k] \in Nat BY CreditType DEF TypeOK
        <3> QED BY <3>1, <3>2, <3>3, <3>4 DEF PotentialInv, TypeOK
    <2> QED BY <2>1, <2>2, <2>3 DEF PotentialInv
<1>6. ASSUME NEW j \in Keys, RefuseKnown(j) PROVE IInv'
    <2>1. TypeOK' BY <1>6 DEF RefuseKnown, Refilled, TypeOK
    <2>2. FreshInv' BY <1>6 DEF RefuseKnown, FreshInv, TypeOK
    <2>3. PotentialInv'
        BY <1>6, CreditRefused, CreditType DEF PotentialInv, RefuseKnown, TypeOK
    <2> QED BY <2>1, <2>2, <2>3
<1> QED BY <1>1, <1>2, <1>3, <1>4, <1>5, <1>6 DEF Next

THEOREM Inductive == Spec => []IInv
BY InitInv, StepInv, PTL DEF Spec

\* Type correctness: every bucket holds between nothing and a burst.
THEOREM TypeCorrect == Spec => []TypeOK
<1>1. IInv => TypeOK BY DEF IInv
<1> QED BY <1>1, Inductive, PTL

\* Over every window of time, a key is admitted at most burst + rate * time.
THEOREM AdmissionsAreBounded == Spec => []WindowBound
<1>1. IInv => WindowBound
    <2> SUFFICES ASSUME IInv, NEW k \in Keys PROVE spent[k] <= Capacity + (now - window)
        BY DEF WindowBound
    <2>1. Credit(k) \in 0..Capacity BY CreditType DEF IInv
    <2> QED BY <2>1, LimiterAssumption DEF IInv, PotentialInv, TypeOK
<1> QED BY <1>1, Inductive, PTL

\* Whenever a new key is admitted, no long-idle bucket remains.
THEOREM InsertionsSweep == Spec => InsertionSweeps
<1> DEFINE Swept == \A k \in known' \ known : \A j \in known' :
                        now' - updated'[j] <= IdleAfter + SweepEvery
<1>1. IInv /\ [Next]_vars => [Swept]_vars
    <2> SUFFICES ASSUME IInv, Next, NEW k \in known' \ known, NEW j \in known'
                 PROVE now' - updated'[j] <= IdleAfter + SweepEvery
        OBVIOUS
    <2> USE LimiterAssumption DEF IInv, TypeOK
    <2>1. PICK i \in Keys : AllowNew(i)
        BY DEF Next, Elapse, OpenWindow, AllowKnown, RefuseKnown, buckets
    <2>2. CASE SweepDue BY <2>1, <2>2 DEF AllowNew, Idle
    <2>3. CASE ~SweepDue BY <2>1, <2>3 DEF AllowNew, SweepDue, FreshInv
    <2> QED BY <2>2, <2>3
<1> QED BY <1>1, Inductive, PTL DEF Spec, InsertionSweeps, Swept

LEMMA IdealStep == IInv /\ [Next]_vars => [Ideal!Next]_Ideal!vars
<1> SUFFICES ASSUME IInv, [Next]_vars PROVE [Ideal!Next]_Ideal!vars OBVIOUS
<1> USE LimiterAssumption DEF IInv
<1>1. CASE UNCHANGED vars
    BY <1>1 DEF vars, buckets, Ideal!vars, Credit, Refilled
<1>2. ASSUME NEW d \in 1..MaxTime, Elapse(d) PROVE Ideal!Elapse
    BY <1>2, CreditGrows DEF Ideal!Elapse, Ideal!Capped, Elapse, TypeOK
<1>3. CASE OpenWindow
    BY <1>3 DEF OpenWindow, buckets, Ideal!vars, Credit, Refilled
<1>4. ASSUME NEW j \in Keys, AllowNew(j) PROVE Ideal!Allow(j)
    <2>1. Credit(j) >= Cost BY <1>4 DEF AllowNew, Credit
    <2> QED BY <1>4, <2>1, CreditNew DEF Ideal!Allow, AllowNew
<1>5. ASSUME NEW j \in Keys, AllowKnown(j) PROVE Ideal!Allow(j)
    <2>1. Credit(j) >= Cost BY <1>5 DEF AllowKnown, Credit
    <2> QED BY <1>5, <2>1, CreditKnown DEF Ideal!Allow, AllowKnown
<1>6. ASSUME NEW j \in Keys, RefuseKnown(j) PROVE Ideal!Refuse(j)
    <2>1. Credit(j) < Cost BY <1>6 DEF RefuseKnown, Credit
    <2> QED BY <1>6, <2>1, CreditRefused DEF Ideal!Refuse, RefuseKnown
<1> QED BY <1>1, <1>2, <1>3, <1>4, <1>5, <1>6 DEF Next, Ideal!Next

\* The limiter with its lazy refills and its sweep implements the one that
\* never forgets a key.
THEOREM ImplementsIdeal == Spec => IdealSpec
<1>1. Init => Ideal!Init BY DEF Init, Ideal!Init, Credit
<1> QED BY <1>1, IdealStep, Inductive, PTL DEF Spec, IdealSpec, Ideal!Spec
=============================================================================
