----------------------------- MODULE MCOperator -----------------------------
(***************************************************************************)
(* Instances for the model checker.                                        *)
(***************************************************************************)
EXTENDS Operator, TLC

\* The parts share model values, so that a few permutations serve all of them.
CONSTANTS p1, p2, r1, r2, e1, e2, c3, here

ProcsDef == {p1, p2}
RequestsDef == {r1, r2}
EditsDef == {e1, e2}
Symmetry == Permutations(ProcsDef) \cup Permutations(RequestsDef) \cup Permutations(EditsDef)

CrawlsDef == {e1, e2, c3}
UrlsDef == {r1, r2}
LocationOfDef == (c3 :> here) @@ [c \in {e1, e2} |-> None]

PagesDef == {"h", "a", "b", "c", "d", "e", "f", "g", "x", "y"}
Lone == [u \in PagesDef |-> <<>>]

\* Two ways to d, of different lengths, and a way back to the start.
Diamond == ("h" :> <<"a", "x", "b">>) @@ ("a" :> <<"d", "h">>) @@ ("b" :> <<"c">>)
             @@ ("c" :> <<"d">>) @@ ("d" :> <<"e">>) @@ ("e" :> <<"f">>) @@ Lone
\* More pages than will be remembered.
Wide == ("h" :> <<"a", "b", "c", "d", "e">>) @@ ("a" :> <<"f", "g", "x", "y">>) @@ Lone
SitesDef == {Diamond, Wide}

PurgesDef == {r1, r2}
PercentDef == [d \in {"correctness", "prohibition_safe"} |-> IF d = "correctness" THEN 60 ELSE 75]
=============================================================================
