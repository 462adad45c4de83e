----------------------- MODULE MCCaptureContinuation -----------------------
(* A small instance of CaptureContinuation for TLC.                        *)
EXTENDS CaptureContinuation, TLC

CONSTANTS r1, r2, s1

\* Two variables, one of which has two spellings: r1 and s1.
ThreeRoots == {r1, s1, r2}
TwoVariables == [r \in Roots |-> IF r = r2 THEN "second" ELSE "first"]

\* The two spellings are interchangeable; the run has no liveness property.
SpellingSymmetry == Permutations({r1, s1})

TwoPoints == {"original", "successor"}
=============================================================================
