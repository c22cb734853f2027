--------------------------- MODULE MCWorkflowRuns ---------------------------
(* Instances of WorkflowRuns for TLC. *)
EXTENDS WorkflowRuns, TLC

\* Calls and items are interchangeable: no action orders them.
CallItemSymmetry == Permutations(Calls) \cup Permutations(Items)

\* Coroutines that outlive their run are explored in histories of calls that do
\* not overlap, overlapping calls in histories without such coroutines.
StraysAlone == overlapped => stray = {} /\ late = {}
=============================================================================
