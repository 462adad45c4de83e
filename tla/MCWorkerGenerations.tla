------------------------ MODULE MCWorkerGenerations ------------------------
(* Small instances of WorkerGenerations for TLC.                           *)
EXTENDS WorkerGenerations, TLC

CONSTANTS a, b, x, v, m, n, nb

\* One common module; two methods; a breakpoint in the first method alone.
OneUnit == {[module |-> x, content |-> v]}
NoMethods == {}
TwoMethods == {m, n}
NoMarks == {}
MarksInNotebook == NotebookModule({m})
OneCaller == {a}
TwoCallers == {a, b}

CallerSymmetry == Permutations(Callers)
=============================================================================
