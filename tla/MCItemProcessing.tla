-------------------------- MODULE MCItemProcessing --------------------------
(* Instances of ItemProcessing for TLC. *)
EXTENDS ItemProcessing, TLC

\* Runs, items and datasets are interchangeable: no action orders them.
Symmetry == Permutations(Runs) \cup Permutations(Items) \cup Permutations(Datasets)

\* A run or deletion begins only when nothing else is in flight.
OneAtATime == ~overlapped
=============================================================================
