------------------------ MODULE MCPlaygroundSession ------------------------
(* Instances of PlaygroundSession for TLC. *)
EXTENDS PlaygroundSession, TLC

\* Faces, datasets and task slots are interchangeable.
SessionSymmetry == Permutations(Faces) \cup Permutations(Datasets) \cup Permutations(Tasks)

\* Bound: no dataset is linked to anonymous speakers.
KnownSpeakers == mapping[Anonymous] = {}
=============================================================================
