----------------------------- MODULE ControlFlow ----------------------------
(***************************************************************************)
(* How the Java plugin draws the control flow of a method                  *)
(* (omnicpg/plugins/java_plugin/cfg_builder.py): a recursive walk over the *)
(* statements that adds FLOWS_TO edges.  The recursion is a stack of       *)
(* tasks, the next one first.                                              *)
(*                                                                         *)
(* Every list of statements is a Python list.  The walk remembers the      *)
(* lists it has connected by id(), the address, and passes over a list     *)
(* whose address it remembers.  A list is freed when the handler that      *)
(* collected it returns or collects the next one, and a new list may be    *)
(* given the address of a freed one.                                       *)
(*                                                                         *)
(* The AST is the statements, numbered in the order of the text, and the   *)
(* blocks under each; expressions and the labels on edges are left out.    *)
(***************************************************************************)
EXTENDS Integers, Sequences, FiniteSets, SequencesExt, FiniteSetsExt

CONSTANTS
    Codes,      \* the methods to walk
    NoTarget,   \* None
    Entry,      \* the synthetic ENTRY
    Exit        \* the synthetic EXIT

(* A method: kind[s] of every statement s; body[b], the statements of block *)
(* b, where b = <<s, i>> is the i-th block under s and Top the method's own; *)
(* parts[s], the roles of the blocks under s.  A "bare" part is a branch    *)
(* that is not in braces, an else-if included.                              *)
Top == <<0, 1>>

Jumps == {"return", "throw", "break", "continue"}

\* The blocks under a statement of a method, and the statements under each of
\* its statements, at any depth.
BlocksIn(m, s) == {<<s, i>> : i \in DOMAIN m.parts[s]}
Beneath(m) ==
    LET under[s \in DOMAIN m.kind] ==
            UNION {ToSet(m.body[b]) \cup UNION {under[x] : x \in ToSet(m.body[b])} :
                   b \in BlocksIn(m, s)}
    IN  under

(* What a parsed method is like: its blocks are those under its statements, *)
(* no statement is in two of them; statements are numbered in the order of  *)
(* the text, those under one right after it; a finally is the last block;   *)
(* break and continue stand where Java allows them.                         *)
Numbered(m) ==
    /\ DOMAIN m.kind \subseteq 1 .. Exit - 1
    /\ DOMAIN m.parts = DOMAIN m.kind
    /\ \A s \in DOMAIN m.kind : m.parts[s] \in Seq({"block", "bare", "case", "catch", "finally"})
    /\ m.body \in [{Top} \cup UNION {BlocksIn(m, s) : s \in DOMAIN m.kind} -> Seq(DOMAIN m.kind)]
    /\ m.body[Top] # <<>>
InTextOrder(m) ==
    /\ \A b, d \in DOMAIN m.body : \A i \in DOMAIN m.body[b], j \in DOMAIN m.body[d] :
          /\ b[1] < m.body[b][i]
          /\ b[1] = d[1] /\ (b[2] < d[2] \/ (b[2] = d[2] /\ i < j)) => m.body[b][i] < m.body[d][j]
          /\ m.body[b][i] = m.body[d][j] => b[1] = d[1]
    /\ LET under == Beneath(m)
       IN  \A s, x, y \in DOMAIN m.kind : x < y /\ s < x /\ y \in under[s] => x \in under[s]
    /\ \A s \in DOMAIN m.kind : \A i, j \in DOMAIN m.parts[s] :
          m.parts[s][i] = "finally" /\ m.parts[s][j] # "finally" => j < i
JumpsInPlace(m) ==
    LET under == Beneath(m)
        inside(x, kinds) == \E s \in DOMAIN m.kind : m.kind[s] \in kinds /\ x \in under[s]
    IN  \A x \in DOMAIN m.kind : /\ m.kind[x] = "continue" => inside(x, {"loop"})
                                 /\ m.kind[x] = "break" => inside(x, {"loop", "switch"})

ASSUME FlowAssumption ==
    /\ Exit \in Nat
    /\ NoTarget \notin Nat \cup (Nat \X Nat)
    /\ \A m \in Codes : Numbered(m) /\ InTextOrder(m) /\ JumpsInPlace(m)

VARIABLES
    code,       \* the method
    todo,       \* what the walk has still to do
    flows,      \* the FLOWS_TO edges, as pairs
    home,       \* the addresses of the lists that are alive
    seen        \* visited, of the walk

flowVars == <<code, todo, flows, home, seen>>

Kind(s) == code.kind[s]
Body(b) == code.body[b]
First(b) == Head(Body(b))
LastOf(b) == Last(Body(b))

\* The blocks under s in a role, and those of them with statements.
Among(bs, chosen) == FlattenSeq([i \in DOMAIN bs |-> IF bs[i] \in chosen THEN <<bs[i]>> ELSE <<>>])
Blocks(s, role) ==
    Among([i \in DOMAIN code.parts[s] |-> <<s, i>>],
          {b \in BlocksIn(code, s) : code.parts[s][b[2]] = role})
Filled(bs) == Among(bs, {b \in ToSet(bs) : Body(b) # <<>>})

\* The block of the role in that place, if it has statements.
BlockAt(s, role, place) == Filled(SubSeq(Blocks(s, role), place, Min({place, Len(Blocks(s, role))})))

-----------------------------------------------------------------------------
(* The tasks.  jumps is loop_ctx: where break and continue go, or NoTarget.    *)

Collect(bs) == [do |-> "collect", blocks |-> bs]
Drop(bs) == [do |-> "drop", blocks |-> bs]
Connect(b, exit, jumps, tail) ==
    [do |-> "connect", block |-> b, exit |-> exit, jumps |-> jumps, tail |-> tail]
Handle(s, next, isLast, exit, jumps, tail) ==
    [do |-> "handle", stmt |-> s, next |-> next, isLast |-> isLast, exit |-> exit,
     jumps |-> jumps, tail |-> tail]
Link(b, after, jumps) == [do |-> "link", block |-> b, after |-> after, jumps |-> jumps]

\* A branch: connected without a tail, then linked to what comes after.
Branch(b, after, t) == <<Connect(b, t.exit, t.jumps, NoTarget), Link(b, after, t.jumps)>>
Branches(bs, after, t) == FlattenSeq([i \in DOMAIN bs |-> Branch(bs[i], after, t)])

\* Every block of a sequence is collected, used and dropped before the next.
OneByOne(bs, Use(_)) ==
    FlattenSeq([i \in DOMAIN bs |-> <<Collect(<<bs[i]>>)>> \o Use(bs[i]) \o <<Drop(<<bs[i]>>)>>])

Held(bs, tasks) == <<Collect(bs)>> \o tasks \o <<Drop(bs)>>

FirstOr(bs, other) == IF bs # <<>> THEN First(bs[1]) ELSE other
Into(s, bs) == {<<s, First(bs[i])>> : i \in DOMAIN bs}

-----------------------------------------------------------------------------
(* The handlers: the edges each adds itself and the tasks it leaves.       *)

\* _handle_branch
Branching(t) ==
    LET thens == BlockAt(t.stmt, "block", 1)
        elses == BlockAt(t.stmt, "block", 2)
    IN  [adds  |-> {<<t.stmt, FirstOr(thens, t.next)>>, <<t.stmt, FirstOr(elses, t.next)>>},
         tasks |-> Held(thens \o elses, Branches(thens \o elses, t.next, t))]

\* As Looping, but a loop in a loop keeps the jumps of the outer one.
LoopingAround(t) ==
    LET body == BlockAt(t.stmt, "block", 1)
    IN  [adds  |-> Into(t.stmt, body) \cup {<<t.stmt, t.next>>},
         tasks |-> Held(body, [i \in DOMAIN body |->
                                 Connect(body[i], t.next, IF t.jumps # NoTarget THEN t.jumps
                                                          ELSE <<t.next, t.stmt>>, t.stmt)])]

\* _handle_loop: break leads to what comes after, continue to the loop.
Looping(t) ==
    LET body == BlockAt(t.stmt, "block", 1)
    IN  [adds  |-> Into(t.stmt, body) \cup {<<t.stmt, t.next>>},
         tasks |-> Held(body, [i \in DOMAIN body |->
                                 Connect(body[i], t.next, <<t.next, t.stmt>>, t.stmt)])]

\* _handle_try
Trying(t) ==
    LET body    == BlockAt(t.stmt, "block", 1)
        catches == Filled(Blocks(t.stmt, "catch"))
        finally == BlockAt(t.stmt, "finally", 1)
        post    == FirstOr(finally, t.next)
    IN  [adds  |-> Into(t.stmt, body \o catches),
         tasks |-> Held(finally \o body,
                        Branches(body, post, t)
                        \o OneByOne(catches, LAMBDA b : Branch(b, post, t))
                        \o Branches(finally, t.next, t))]

\* _handle_switch: break leads to what comes after, continue to the loop around.
Switching(t) ==
    LET cases == Blocks(t.stmt, "case")
        jumps == <<t.next, IF t.jumps # NoTarget THEN t.jumps[2] ELSE t.next>>
    IN  [adds  |-> Into(t.stmt, Filled(cases))
                   \cup (IF cases = <<>> THEN {<<t.stmt, t.next>>} ELSE {}),
         tasks |-> OneByOne(Filled(cases), LAMBDA b : <<Connect(b, t.exit, jumps, NoTarget)>>)]

\* _handle_synchronized
Synchronizing(t) ==
    LET body == BlockAt(t.stmt, "block", 1)
    IN  [adds  |-> {<<t.stmt, FirstOr(body, t.next)>>},
         tasks |-> Held(body, Branches(body, t.next, t))]

\* Any other statement; one that is last flows on only where there is a tail.
Simple(t) ==
    LET jump == IF t.jumps = NoTarget THEN NoTarget
                ELSE CASE Kind(t.stmt) = "break"    -> t.jumps[1]
                       [] Kind(t.stmt) = "continue" -> t.jumps[2]
                       [] OTHER                     -> NoTarget
    IN  [adds  |-> CASE jump # NoTarget -> {<<t.stmt, jump>>}
                     [] jump = NoTarget /\ (~ t.isLast \/ t.tail # NoTarget) -> {<<t.stmt, t.next>>}
                     [] OTHER -> {},
         tasks |-> <<>>]

Handled(t) ==
    CASE Kind(t.stmt) = "if"     -> Branching(t)
      [] Kind(t.stmt) = "loop"   -> Looping(t)
      [] Kind(t.stmt) = "try"    -> Trying(t)
      [] Kind(t.stmt) = "switch" -> Switching(t)
      [] Kind(t.stmt) = "sync"   -> Synchronizing(t)
      [] OTHER                   -> Simple(t)

-----------------------------------------------------------------------------
(* _build_method_cfg: into the first statement, and out of the last one.   *)
CodeInit ==
    /\ code \in Codes
    /\ todo = <<Connect(Top, Exit, NoTarget, NoTarget)>>
    /\ flows = {<<Entry, First(Top)>>}
               \cup (IF Kind(LastOf(Top)) \in {"return", "throw"} THEN {} ELSE {<<LastOf(Top), Exit>>})
    /\ home = [b \in {Top} |-> 1]
    /\ seen = {}

Task == Head(todo)
Doing(what) == todo # <<>> /\ Task.do = what

(* Lists are made, at addresses no living list has: remembered ones, or    *)
(* others, which need not be told apart.                                   *)
CollectLists ==
    /\ Doing("collect")
    /\ LET bs    == Task.blocks
           alive == Range(home)
           other(i) == Max(seen \cup alive) + i
           fits(at) == IsInjective(at) /\ \A i \in DOMAIN bs : at[i] \in seen \cup {other(i)}
       IN  \E at \in [DOMAIN bs -> (seen \ alive) \cup {other(i) : i \in DOMAIN bs}] :
              /\ fits(at)
              /\ home' = home @@ [b \in ToSet(bs) |-> at[CHOOSE i \in DOMAIN bs : bs[i] = b]]
    /\ todo' = Tail(todo)
    /\ UNCHANGED <<code, flows, seen>>

(* Lists are freed.                                                        *)
DropLists ==
    /\ Doing("drop")
    /\ home' = Restrict(home, DOMAIN home \ ToSet(Task.blocks))
    /\ todo' = Tail(todo)
    /\ UNCHANGED <<code, flows, seen>>

(* _connect_statements: a list at an address that is remembered is passed  *)
(* over; the statements of any other one are handled in their order.       *)
ConnectList ==
    /\ Doing("connect")
    /\ LET stmts == Body(Task.block)
           n     == Len(stmts)
           last  == IF Task.tail # NoTarget THEN Task.tail ELSE Task.exit
       IN  IF home[Task.block] \in seen
           THEN todo' = Tail(todo) /\ UNCHANGED seen
           ELSE /\ seen' = seen \cup {home[Task.block]}
                /\ todo' = [i \in 1 .. n |-> Handle(stmts[i], IF i < n THEN stmts[i+1] ELSE last,
                                                   i = n, Task.exit, Task.jumps, Task.tail)]
                           \o Tail(todo)
    /\ UNCHANGED <<code, flows, home>>

HandleStatement ==
    /\ Doing("handle")
    /\ flows' = flows \cup Handled(Task).adds
    /\ todo' = Handled(Task).tasks \o Tail(todo)
    /\ UNCHANGED <<code, home, seen>>

(* _link_branch_tail: a jump inside a loop or a switch gets no such edge.  *)
LinkTail ==
    /\ Doing("link")
    /\ flows' = IF Task.jumps # NoTarget /\ Kind(LastOf(Task.block)) \in Jumps
                THEN flows ELSE flows \cup {<<LastOf(Task.block), Task.after>>}
    /\ todo' = Tail(todo)
    /\ UNCHANGED <<code, home, seen>>

CodeNext == CollectLists \/ DropLists \/ ConnectList \/ HandleStatement \/ LinkTail

CodeSpec == CodeInit /\ [][CodeNext]_flowVars

-----------------------------------------------------------------------------
Statements == DOMAIN code.kind
Under == Beneath(code)

\* The nearest statement of one of the kinds around s; statements are numbered
\* in the order of the text.
Around(s, kinds) == Max({x \in Statements : Kind(x) \in kinds /\ s \in Under[x]})

(* Control never flows back but to a loop it is in; continue goes to the   *)
(* loop it belongs to, and break leaves the loop or the switch it belongs  *)
(* to (_connect_statements, _handle_loop, _handle_switch).                 *)
FlowIsStructured ==
    \A e \in flows : e[1] # Entry =>
        /\ e[2] <= e[1] => Kind(e[2]) = "loop" /\ e[1] \in Under[e[2]]
        /\ Kind(e[1]) = "continue" => e[2] = Around(e[1], {"loop"})
        /\ Kind(e[1]) = "break" => e[2] \notin Under[Around(e[1], {"loop", "switch"})]
                                                \cup {Around(e[1], {"loop", "switch"})}

(* Statements that follow each other in a block are connected, wherever    *)
(* the first is neither a jump nor a statement with blocks of its own: the *)
(* docstrings promise "Sequential statement flow." and to "Connect a list  *)
(* of sequential statements with FLOWS_TO edges.".                         *)
SequencesFlow ==
    todo = <<>> =>
        \A b \in DOMAIN code.body : \A i \in 1 .. Len(Body(b)) - 1 :
            Kind(Body(b)[i]) = "plain" => <<Body(b)[i], Body(b)[i+1]>> \in flows
=============================================================================
