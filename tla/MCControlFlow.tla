---------------------------- MODULE MCControlFlow ---------------------------
(***************************************************************************)
(* Small methods for TLC: a compound statement that holds another one, a   *)
(* second one and a last statement.                                        *)
(*                                                                         *)
(*   1 { 2 { 3 4 } 5 } { 6 }   7 { 8 9 }   10                              *)
(***************************************************************************)
EXTENDS ControlFlow

\* The roles of the blocks of a statement of each kind.
OneBlock(kind) == IF kind = "switch" THEN <<"case">> ELSE <<"block">>
TwoBlocks(kind) ==
    CASE kind = "if"     -> {<<"block", "block">>, <<"block", "bare">>}
      [] kind = "try"    -> {<<"block", "catch">>, <<"block", "finally">>}
      [] kind = "switch" -> {<<"case", "case">>}
      [] OTHER           -> {<<"block">>}

Compound == {"if", "loop", "try", "switch", "sync"}
EndKinds == {"plain"} \cup Jumps

\* break and continue stand only where Java allows them.
Allowed(kind, around) ==
    /\ kind = "break" => around \cap {"loop", "switch"} # {}
    /\ kind = "continue" => "loop" \in around

Method(outer, roles, inner, four, five, six) ==
    [kind |-> (1 :> outer) @@ (2 :> inner) @@ (4 :> four) @@ (5 :> five) @@ (6 :> six)
              @@ (7 :> "if") @@ [s \in {3, 8, 9, 10} |-> "plain"],
     parts |-> (1 :> roles) @@ (2 :> OneBlock(inner)) @@ (7 :> <<"block">>)
               @@ [s \in {3, 4, 5, 6, 8, 9, 10} |-> <<>>],
     body |-> (Top :> <<1, 7, 10>>) @@ (<<1, 1>> :> <<2, 5>>) @@ (<<2, 1>> :> <<3, 4>>)
              @@ (<<7, 1>> :> <<8, 9>>)
              @@ (IF Len(roles) = 2 THEN <<1, 2>> :> <<6>> ELSE <<>>)]

SmallCodes ==
    {Method(k.outer, k.roles, k.inner, k.four, k.five, k.six) :
        k \in {x \in [outer : Compound, roles : UNION {TwoBlocks(kind) : kind \in Compound},
                      inner : Compound, four : EndKinds, five : EndKinds, six : {"plain", "continue"}] :
                 /\ x.roles \in TwoBlocks(x.outer)
                 /\ Allowed(x.four, {x.outer, x.inner})
                 /\ Allowed(x.five, {x.outer}) /\ Allowed(x.six, {x.outer})
                 /\ Len(x.roles) = 1 => x.six = "plain"}}
=============================================================================
