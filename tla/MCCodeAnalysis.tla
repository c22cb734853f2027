--------------------------- MODULE MCCodeAnalysis ---------------------------
(* Three files: 1 calls 3 and a class outside the project, 2 extends 3 or  *)
(* calls 1, 3 calls 2 on its name.                                         *)
EXTENDS CodeAnalysis, TLC

T(base, method, typed, static) ==
    [extends |-> base, method |-> method, calls |-> typed, statics |-> static]

MCTextsOf == (1 :> {T(Absent, TRUE, {3}, {Absent})})
          @@ (2 :> {T(3, TRUE, {}, {}), T(3, FALSE, {1}, {})})
          @@ (3 :> {T(Absent, TRUE, {}, {2}), T(Absent, TRUE, {}, {})})
=============================================================================
