----------------------------- MODULE CodeIndex -----------------------------
(***************************************************************************)
(* What an index over source files promises, whatever it stores: the view  *)
(* of a file is nothing, a damaged remainder, or a text that was read from *)
(* the source by the pass now under way.  A pass reads before it shows; it *)
(* may stop anywhere, and may hide or damage views, but it never invents a *)
(* text and never shows one that an earlier pass has read.                 *)
(***************************************************************************)
CONSTANTS Files,    \* source files
          Texts,    \* texts a file may hold
          Absent,   \* no file, nothing read, nothing shown
          Torn      \* a view that is neither empty nor a text

VARIABLES source,   \* source[f]: the text of f now, or Absent
          read,     \* read[f]: the text the pass holds for f, or Absent
          view      \* view[f]: what the index shows of f

vars == <<source, read, view>>

Init == /\ source \in [Files -> Texts \cup {Absent}]
        /\ read = [f \in Files |-> Absent]
        /\ view = [f \in Files |-> Absent]

\* The source changes at any time.
Edit(f) ==
    /\ source'[f] \in Texts \cup {Absent}
    /\ source' = [source EXCEPT ![f] = source'[f]]
    /\ UNCHANGED <<read, view>>

\* The pass takes up a set of files, and lets go of the ones it held.
Read(S) ==
    /\ read' = [f \in Files |-> IF f \in S THEN source[f] ELSE Absent]
    /\ UNCHANGED <<source, view>>

\* A write of the text read: the view shows it, or is not complete yet.
Show(f) ==
    /\ read[f] # Absent
    /\ view' = [view EXCEPT ![f] = read[f]] \/ view' = [view EXCEPT ![f] = Torn]
    /\ UNCHANGED <<source, read>>

\* A removal: all of the view at once, or a part of it.
Hide(f) ==
    /\ view[f] # Absent
    /\ view' = [view EXCEPT ![f] = Absent] \/ view' = [view EXCEPT ![f] = Torn]
    /\ UNCHANGED <<source, read>>

Next == \/ \E f \in Files : Edit(f) \/ Show(f) \/ Hide(f)
        \/ \E S \in SUBSET Files : Read(S)

Spec == Init /\ [][Next]_vars
=============================================================================
