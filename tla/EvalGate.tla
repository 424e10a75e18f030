------------------------------ MODULE EvalGate ------------------------------
(***************************************************************************)
(* The evaluation that gates a release (app/evals): every case of a golden *)
(* set runs through the graph and is judged; the run passes if no metric   *)
(* is below its gate and the judge failed rarely enough.                   *)
(*                                                                         *)
(* A score is 0 or 1.  Two of the four dimensions are kept, the others are *)
(* treated as correctness is.  Rounding to four digits is left out.        *)
(***************************************************************************)
EXTENDS Naturals

CONSTANTS
    MaxCases,     \* bound: the largest golden set
    Attempts,     \* of judge()
    Percent,      \* per dimension: its gate in GATES, in percent
    MaxErrors     \* MAX_JUDGE_ERROR_RATE, in percent

Dimensions == {"correctness", "prohibition_safe"}

GateAssumption ==
    /\ MaxCases \in Nat /\ Attempts \in Nat \ {0}
    /\ Percent \in [Dimensions -> 0..100] /\ MaxErrors \in 0..100

VARIABLES
    pc,
    cases,      \* len(dataset.items)
    done,       \* cases with a result
    attempt,    \* attempts of the judge at the current case
    scored,     \* results without judge_error
    sum,        \* per dimension: the sum of their scores
    verdict,    \* "none", "pass", "fail", "exit"
    answered,   \* ghost: cases the judge answered
    zeros,      \* ghost: per dimension: the zeros it gave
    partial     \* ghost: its answers that lacked a dimension

ghosts == <<answered, zeros, partial>>
vars == <<pc, cases, done, attempt, scored, sum, verdict, ghosts>>

Init ==
    /\ cases \in 1..MaxCases
    /\ pc = "run" /\ done = 0 /\ attempt = 0 /\ scored = 0
    /\ sum = [d \in Dimensions |-> 0]
    /\ verdict = "none"
    /\ answered = 0 /\ zeros = [d \in Dimensions |-> 0] /\ partial = 0

NextCase ==
    /\ done' = done + 1
    /\ attempt' = 0
    /\ pc' = IF done + 1 = cases THEN "grade" ELSE "run"

\* The graph answers, and the judge is asked.
RunCase ==
    /\ pc = "run"
    /\ pc' = "judge"
    /\ UNCHANGED <<cases, done, attempt, scored, sum, verdict, ghosts>>

\* The graph fails: a result with judge_error, without scores.
CaseFails ==
    /\ pc = "run"
    /\ NextCase
    /\ UNCHANGED <<cases, scored, sum, verdict, ghosts>>

AfterFailure_Zero == scored + (IF attempt + 1 = Attempts THEN 1 ELSE 0)
\* What a judge that failed adds to the scored results.
AfterFailure == scored

\* The call raises, or its answer cannot be parsed: asked again, then given up.
JudgeFails ==
    /\ pc = "judge"
    /\ \/ /\ attempt + 1 < Attempts
          /\ attempt' = attempt + 1
          /\ UNCHANGED <<pc, done>>
       \/ /\ attempt + 1 = Attempts
          /\ NextCase
    /\ scored' = AfterFailure
    /\ UNCHANGED <<cases, sum, verdict, ghosts>>

\* An answer with at least one dimension counts; one that is missing scores 0.
Judged(given, ones) ==
    /\ pc = "judge"
    /\ given # {} /\ ones \subseteq given
    /\ NextCase
    /\ scored' = scored + 1
    /\ sum' = [d \in Dimensions |-> sum[d] + (IF d \in ones THEN 1 ELSE 0)]
    /\ answered' = answered + 1
    /\ zeros' = [d \in Dimensions |-> zeros[d] + (IF d \in given \ ones THEN 1 ELSE 0)]
    /\ partial' = partial + (IF given # Dimensions THEN 1 ELSE 0)
    /\ UNCHANGED <<cases, verdict>>

Below(d) == sum[d] * 100 < Percent[d] * scored

Unreliable == (cases - scored) * 100 > MaxErrors * cases

Grade ==
    /\ pc = "grade"
    /\ pc' = "end"
    /\ verdict' = IF scored = 0 THEN "exit"
                  ELSE IF Unreliable \/ \E d \in Dimensions : Below(d) THEN "fail" ELSE "pass"
    /\ UNCHANGED <<cases, done, attempt, scored, sum, ghosts>>

Next ==
    \/ RunCase \/ CaseFails \/ JudgeFails \/ Grade
    \/ \E given, ones \in SUBSET Dimensions : Judged(given, ones)

Spec == Init /\ [][Next]_vars

-----------------------------------------------------------------------------
(* Properties *)

\* Every variable has its type; a case has at most one result.
TypeOK ==
    /\ pc \in {"run", "judge", "grade", "end"}
    /\ cases \in 1..MaxCases /\ done \in 0..cases /\ attempt \in 0..(Attempts - 1)
    /\ scored \in 0..done /\ sum \in [Dimensions -> 0..scored]
    /\ answered \in 0..done /\ zeros \in [Dimensions -> 0..answered] /\ partial \in 0..answered
    /\ verdict \in {"none", "pass", "fail", "exit"}

Enough(d) == zeros[d] * 100 <= (100 - Percent[d]) * answered
Trusted == (cases - answered) * 100 <= MaxErrors * cases

\* The gate speaks about the answers and not about the judge: a run that passes
\* has enough good answers in every dimension among those the judge really gave
\* a verdict on, and they are nearly all; a run that fails has too few in some
\* dimension, or the judge failed too often, or it left a dimension out, which
\* counts as a zero.  Cases that could not be judged never tip the balance.
GateHonest ==
    /\ verdict = "pass" => answered > 0 /\ Trusted /\ \A d \in Dimensions : Enough(d)
    /\ verdict = "fail" => ~Trusted \/ partial > 0 \/ \E d \in Dimensions : ~Enough(d)
    /\ verdict = "exit" => answered = 0
=============================================================================
