--------------------------- MODULE CallResolution ---------------------------
(***************************************************************************)
(* How a code analysis decides which methods a call may reach              *)
(* (omnicpg/orchestrator/project_orchestrator.py, the streaming call       *)
(* graph).  A run reads its files one after the other into an index of     *)
(* names and declared types; when all are read it answers each call from   *)
(* that index alone.  A call whose receiver's type it can infer is "typed" *)
(* and binds to the declarations of that type; any other call is           *)
(* "heuristic" and binds to every method of the name.                      *)
(*                                                                         *)
(* A file holds one class, at its top level.  The calls are those of one   *)
(* method of one class of the run.  A receiver is an expression, not its   *)
(* text: the splitting of the text at dots, parentheses and type arguments *)
(* is left out.                                                            *)
(*                                                                         *)
(* A receiver is what a call is made on; Nothing is what the code has as   *)
(* None.  The program under analysis compiles.                             *)
(***************************************************************************)
EXTENDS Integers, Sequences, FiniteSets, SequencesExt

CONSTANTS
    Classes,      \* classes, each in a file of its own
    Names,        \* simple names of types, those of no class included
    Packages,     \* names of packages
    Methods,      \* names of methods; a constructor has the name of its class
    Vars,         \* names of variables and fields
    Programs,     \* the programs to analyse
    Calls,        \* the calls of the calling method
    Exprs,        \* the receivers and the expressions they are applied to
    Depth,        \* how many of those an expression has below it
    Nothing,      \* None
    MaxTargets,   \* _MAX_HEURISTIC_CALL_TARGETS
    MaxDepth      \* _MAX_RECEIVER_CHAIN_DEPTH

Maybe(S) == S \cup {Nothing}

\* What the file of a class says: a member has the name of its type.
ClassDecl ==
    [name : Names, package : Packages, supers : {s \in Seq(Names) : IsInjective(s)},
     methods : [Methods -> Maybe(Names)], fields : [Vars -> Maybe(Names)],
     imports : [Names -> Maybe(Packages)]]

\* A call: its kind, the name called and the receiver.
Call == [kind : {"method", "creation", "reference"}, callee : Methods, receiver : Maybe(Exprs)]

(* An expression has the name it mentions and the one it is applied to:    *)
(* [shape, name, on].  The shape "class" stands for the receivers that     *)
(* evaluate to a java.lang.Class.                                          *)
ASSUME CallAssumption ==
    /\ IsFiniteSet(Classes) /\ IsFiniteSet(Names)
    /\ Nothing \notin Classes /\ Nothing \notin Names
    /\ Nothing \notin Packages /\ Nothing \notin Exprs
    /\ \A p \in Programs : /\ p.class \in [Classes -> ClassDecl] /\ p.caller \in Classes
                           /\ p.vars \in [Vars -> Maybe(Names)]
    /\ \A p \in Programs, c, d \in Classes :
          p.class[c].name = p.class[d].name /\ p.class[c].package = p.class[d].package => c = d
    /\ Calls \subseteq Call
    /\ MaxTargets \in Nat /\ MaxDepth \in Nat
    /\ Depth \in [Exprs -> Nat]
    /\ \A e \in Exprs : \/ e.on = Nothing /\ Depth[e] = 0
                        \/ /\ e.shape \in {"call", "field"}
                           /\ e.on \in Exprs /\ Depth[e] = Depth[e.on] + 1

VARIABLES
    program,   \* what the files say
    scope,     \* the files of the run
    index,     \* the classes read so far
    answered,  \* the calls answered
    edges      \* the CALLS edges of the caller, with the call that made them

callVars == <<program, scope, index, answered, edges>>

Decl(c) == program.class[c]
Caller == program.caller

-----------------------------------------------------------------------------
(* The index: what is known of the classes read.                           *)

\* class_by_simple
ClassesNamed(n) == {c \in index : Decl(c).name = n}

OneOf(S) == IF Cardinality(S) = 1 THEN CHOOSE x \in S : TRUE ELSE Nothing

\* supertypes_by_class: the classes the names of the supertypes mean; Nothing
\* stands for a name that is not that of one class.
Supertypes(c) == [i \in DOMAIN Decl(c).supers |-> OneOf(ClassesNamed(Decl(c).supers[i]))]

WithMethod(m) == {c \in Classes : m \in Methods /\ Decl(c).methods[m] # Nothing}
WithField(v) == {c \in Classes : v \in Vars /\ Decl(c).fields[v] # Nothing}

(* The walks up the hierarchy pop a stack.  They stop at a class that      *)
(* declares what they look for; those classes, in the order they are met.  *)
Walks == [stack : Seq(Maybe(Classes)), seen : SUBSET Classes, hits : Seq(Classes)]

Climb(w, declaring) ==
    LET d == Last(w.stack)
        rest == Front(w.stack)
    IN  CASE d \in Maybe(w.seen) -> [w EXCEPT !.stack = rest]
          [] d \notin Maybe(w.seen) /\ d \in declaring ->
                [stack |-> rest, seen |-> w.seen \cup {d}, hits |-> Append(w.hits, d)]
          [] d \notin Maybe(w.seen) /\ d \notin declaring ->
                [w EXCEPT !.stack = rest \o Supertypes(d), !.seen = @ \cup {d}]

Nearest(c, declaring) ==
    LET hits[w \in Walks] == IF w.stack = <<>> THEN w.hits ELSE hits[Climb(w, declaring)]
    IN  hits[[stack |-> <<c>>, seen |-> {}, hits |-> <<>>]]

\* _lookup_streaming_return_type, _lookup_streaming_field_type
ReturnType(c, m) ==
    LET hits == Nearest(c, WithMethod(m))
    IN  IF hits = <<>> THEN Nothing ELSE Decl(Head(hits)).methods[m]
FieldType(c, v) ==
    LET hits == Nearest(c, WithField(v))
    IN  IF hits = <<>> THEN Nothing ELSE Decl(Head(hits)).fields[v]

\* _global_return_type: what every captured method of the name returns.
GlobalReturnType(m) == OneOf({Decl(c).methods[m] : c \in index \cap WithMethod(m)})

\* _streaming_name_ancestor_ids: upwards over every class of a supertype's name.
NameAncestors(c) ==
    LET up[n \in Nat] ==
            IF n = 0 THEN {c}
            ELSE up[n-1] \cup UNION {ClassesNamed(s) : s \in UNION {ToSet(Decl(d).supers) : d \in up[n-1]}}
    IN  up[Cardinality(Classes)]

\* definition_index, restricted to classes.
MethodsNamed(m, cs) == {<<c, m>> : c \in index \cap cs \cap WithMethod(m)}

-----------------------------------------------------------------------------
(* The class a type name means to the caller: the only one of the name, or *)
(* the imported one, or the one in the caller's package.                   *)

\* As ClassOfType, but the package comes before the import.
ClassOfTypeNearFirst(n, imports, package) ==
    LET named    == ClassesNamed(n)
        imported == {c \in named : imports /\ Decl(c).package = Decl(Caller).imports[n]}
        near     == {c \in named : package /\ Decl(c).package = Decl(Caller).package}
    IN  CASE Cardinality(named) = 1 -> CHOOSE c \in named : TRUE
          [] Cardinality(named) # 1 /\ Cardinality(near) = 1 -> CHOOSE c \in near : TRUE
          [] Cardinality(named) # 1 /\ Cardinality(near) # 1 /\ Cardinality(imported) = 1
                                    -> CHOOSE c \in imported : TRUE
          [] OTHER                  -> Nothing

ClassOfType(n, imports, package) ==
    LET named    == ClassesNamed(n)
        imported == {c \in named : imports /\ Decl(c).package = Decl(Caller).imports[n]}
        near     == {c \in named : package /\ Decl(c).package = Decl(Caller).package}
    IN  CASE Cardinality(named) = 1    -> CHOOSE c \in named : TRUE
          [] Cardinality(named) # 1 /\ Cardinality(imported) = 1 -> CHOOSE c \in imported : TRUE
          [] Cardinality(named) # 1 /\ Cardinality(imported) # 1 /\ Cardinality(near) = 1
                                       -> CHOOSE c \in near : TRUE
          [] OTHER                     -> Nothing

\* The declared type of a variable or an own field of the caller.
DeclaredType(v) ==
    IF v \notin Vars THEN Nothing
    ELSE IF program.vars[v] # Nothing THEN program.vars[v]
    ELSE Decl(Caller).fields[v]

\* The type name of an expression that is applied to one of the class base.
TypeOn(base, e) ==
    CASE e.shape \in {"new", "cast"} -> e.name
      [] e.shape = "name" -> IF DeclaredType(e.name) # Nothing THEN DeclaredType(e.name) ELSE e.name
      [] e.shape = "call" /\ base # Nothing -> ReturnType(base, e.name)
      [] e.shape = "field" /\ base # Nothing -> FieldType(base, e.name)
      [] OTHER -> Nothing

ClassOn(base, e, imports) ==
    IF e.shape \in {"this", "super"} THEN Caller ELSE ClassOfType(TypeOn(base, e), imports, TRUE)

\* What the text of an expression begins with.
Root(expr) == LET root[e \in Exprs] == IF e.on = Nothing THEN e ELSE root[e.on] IN root[expr]

\* _infer_streaming_receiver_class; imports says whether the caller's file is
\* passed.  All that begins with `new` is taken for the object created, and a chain
\* that is too long is given up.
InferredClass(expr, imports) ==
    LET infer[e \in Exprs] == ClassOn(IF e.on = Nothing THEN Caller ELSE infer[e.on], e, imports)
    IN  IF Root(expr).shape = "new" THEN ClassOfType(Root(expr).name, imports, TRUE)
        ELSE IF Depth[expr] > MaxDepth THEN Nothing ELSE infer[expr]

\* _streaming_receiver_type_name: the name of the type, when no class is pinned.
ReceiverTypeName(e) ==
    LET base == IF e.on = Nothing THEN Caller ELSE InferredClass(e.on, FALSE)
        returned == IF base = Nothing THEN Nothing ELSE ReturnType(base, e.name)
    IN  CASE Root(e).shape = "new" -> Root(e).name
          [] e.shape = "cast"  -> e.name
          [] e.shape = "name"  -> DeclaredType(e.name)
          [] e.shape = "call" /\ Root(e).shape # "new" ->
                IF returned # Nothing THEN returned ELSE GlobalReturnType(e.name)
          [] e.shape = "field" /\ Root(e).shape # "new" ->
                IF base = Nothing THEN Nothing ELSE FieldType(base, e.name)
          [] OTHER             -> Nothing

-----------------------------------------------------------------------------
(* _resolve_streaming_targets: what the index answers to a call.           *)

Typed(to) == [to |-> to, how |-> "typed"]
Heuristic(to) == [to |-> to, how |-> "heuristic"]

OnItself(k) == k.receiver = Nothing \/ k.receiver.shape \in {"this", "super"}

TargetClass(k) ==
    CASE k.kind = "creation"                    -> ClassOfType(k.callee, TRUE, FALSE)
      [] k.kind # "creation" /\ OnItself(k)     -> Caller
      [] k.kind # "creation" /\ ~ OnItself(k)   -> InferredClass(k.receiver, TRUE)

\* As InHierarchy, but what a nearer declaration hides is kept.
InHierarchyKeepsHidden(c, m) == MethodsNamed(m, NameAncestors(c))

\* The nearest declarations of the class or, when it has none, the methods of
\* the name in the classes its supertypes' names may mean.
InHierarchy(c, m) ==
    LET hits == ToSet(Nearest(c, WithMethod(m)))
    IN  MethodsNamed(m, IF hits # {} THEN hits ELSE NameAncestors(c))

\* _resolve_heuristic_streaming_targets
ByNameOnly(m) ==
    LET all == MethodsNamed(m, Classes)
        own == MethodsNamed(m, {Caller})
    IN  IF Cardinality(all) <= MaxTargets THEN all
        ELSE IF Cardinality(own) <= MaxTargets THEN own ELSE {}

Answer(k) ==
    LET target == TargetClass(k)
        type   == IF k.kind = "creation" \/ OnItself(k) THEN Nothing
                  ELSE ReceiverTypeName(k.receiver)
        meant  == ClassesNamed(IF k.kind = "creation" THEN k.callee ELSE type)
    IN  IF k.kind # "creation" /\ k.receiver # Nothing /\ k.receiver.shape = "class" THEN Typed({})
        ELSE CASE target # Nothing -> Typed(InHierarchy(target, k.callee))
               [] target = Nothing /\ type # Nothing
                     -> Typed(MethodsNamed(k.callee, UNION {NameAncestors(c) : c \in meant}))
               [] target = Nothing /\ k.kind = "creation" /\ meant # {}
                     -> Typed(MethodsNamed(k.callee, meant))
               [] OTHER -> Heuristic(ByNameOnly(k.callee))

-----------------------------------------------------------------------------
CallInit ==
    /\ program \in Programs
    /\ scope \in {s \in SUBSET Classes : Caller \in s}
    /\ index = {}
    /\ answered = {}
    /\ edges = {}

(* _update_call_graph_index: the chunk with the file of c is read.         *)
Read(c) ==
    /\ c \in scope \ index
    /\ index' = index \cup {c}
    /\ UNCHANGED <<program, scope, answered, edges>>

(* _build_call_graph_from_index: one call; a method that calls itself and  *)
(* a pair of methods that has its edge already get none.                   *)
AnswerCall(k) ==
    /\ index = scope
    /\ k \in Calls \ answered
    /\ LET answer == Answer(k)
           linked == {e.to : e \in edges} \cup {<<Caller, program.method>>}
       IN  edges' = edges \cup {[to |-> t, how |-> answer.how, call |-> k] :
                                t \in answer.to \ linked}
    /\ answered' = answered \cup {k}
    /\ UNCHANGED <<program, scope, index>>

CallNext ==
    \/ \E c \in Classes : Read(c)
    \/ \E k \in Calls : AnswerCall(k)

CallSpec == CallInit /\ [][CallNext]_callVars

-----------------------------------------------------------------------------
(* The calls as Java's rules for names, members and inheritance bind them, *)
(* over all classes of the program, read or not.                           *)

\* The class a simple name means in the file of c, as a singleton or {}.
Means(c, n) ==
    {d \in Classes : /\ Decl(d).name = n
                     /\ Decl(d).package = IF Decl(c).imports[n] # Nothing
                                          THEN Decl(c).imports[n] ELSE Decl(c).package}

Extends(c, d) == \E i \in DOMAIN Decl(c).supers : d \in Means(c, Decl(c).supers[i])

\* What can be reached from c through supertypes of classes outside a set: the
\* smallest set with c and the supertypes of its members outside.
Upwards(c, ending) ==
    LET closed == {s \in SUBSET Classes :
                      c \in s /\ \A x \in s \ ending, y \in Classes \ s : ~ Extends(x, y)}
    IN  {d \in Classes : \A s \in closed : d \in s}

\* The declarations that none on the way from c hides.
Inherited(c, declaring) == declaring \cap Upwards(c, declaring)

FieldOf(c, v) == UNION {Means(d, Decl(d).fields[v]) : d \in Inherited(c, WithField(v))}
ReturnOf(c, m) == UNION {Means(d, Decl(d).methods[m]) : d \in Inherited(c, WithMethod(m))}

\* The class of an expression, as a singleton, or {} when it leaves the program;
\* bases is that of what it is applied to.
TypesOn(bases, e) ==
    CASE e.shape = "this" -> {Caller}
      [] e.shape = "super" -> {d \in Classes : Extends(Caller, d)}
      [] e.shape \in {"new", "cast"} -> Means(Caller, e.name)
      [] e.shape = "name" /\ e.name \notin Vars -> Means(Caller, e.name)
      [] e.shape = "name" /\ e.name \in Vars ->
            IF program.vars[e.name] # Nothing THEN Means(Caller, program.vars[e.name])
            ELSE FieldOf(Caller, e.name)
      [] e.shape = "call"  -> UNION {ReturnOf(c, e.name) : c \in bases}
      [] e.shape = "field" -> UNION {FieldOf(c, e.name) : c \in bases}
      [] OTHER -> {}

StaticType(expr) ==
    LET type[e \in Exprs] == TypesOn(IF e.on = Nothing THEN {Caller} ELSE type[e.on], e)
    IN  type[expr]

JavaTargets(k) ==
    LET receivers == CASE k.kind = "creation" -> Means(Caller, k.callee)
                       [] k.kind # "creation" /\ k.receiver = Nothing -> {Caller}
                       [] OTHER -> StaticType(k.receiver)
    IN  {<<d, k.callee>> : d \in UNION {Inherited(c, WithMethod(k.callee)) : c \in receivers}}

-----------------------------------------------------------------------------
\* The type names a file mentions.
MemberTypes(c) ==
    ({Decl(c).methods[m] : m \in Methods} \cup {Decl(c).fields[v] : v \in Vars}) \ {Nothing}

MentionedIn(c) ==
    UNION {MemberTypes(c), ToSet(Decl(c).supers),
           IF c # Caller THEN {}
           ELSE UNION {{program.vars[v] : v \in Vars},
                       {e.name : e \in {x \in Exprs : x.shape \in {"new", "cast", "name"}}},
                       {k.callee : k \in {x \in Calls : x.kind = "creation"}}}}

\* A simple name a file mentions is that of the class it means or of none, and
\* no class has the name of a variable.
OneClassPerName ==
    /\ \A c \in Classes : \A n \in MentionedIn(c), d \in Classes : Decl(d).name = n => Means(c, n) = {d}
    /\ \A d \in Classes : Decl(d).name \notin Vars

\* The names of types a file mentions mean the same in the caller's file, those
\* of supertypes are the names of one class, and what has the name of a class that
\* is created is a constructor.
OneMeaningPerName ==
    /\ \A c \in Classes : \A n \in MemberTypes(c) : Means(c, n) = Means(Caller, n)
    /\ \A c \in Classes : \A n \in ToSet(Decl(c).supers), d \in Classes :
          Decl(d).name = n => Means(c, n) = {d}
    /\ \A d \in Classes : Decl(d).name \notin Vars
    /\ \A k \in Calls, d \in Classes :
          k.kind = "creation" /\ d \in WithMethod(k.callee) => Decl(d).name = k.callee

\* A member a class inherits from several others has one type.
OneTypePerMember ==
    \A c \in Classes :
        /\ \A m \in Methods : \A d, e \in Inherited(c, WithMethod(m)) :
              Decl(d).methods[m] = Decl(e).methods[m]
        /\ \A v \in Vars : \A d, e \in Inherited(c, WithField(v)) :
              Decl(d).fields[v] = Decl(e).fields[v]

\* The receiver does not begin with `super`, nor is it a chain that begins with `new`.
Rooted(k) ==
    k.receiver # Nothing =>
        /\ Root(k.receiver).shape # "super"
        /\ Root(k.receiver).shape = "new" => Root(k.receiver) = k.receiver

\* When the receiver is a call, some class read declares the method it calls.
Grounded(k) ==
    k.receiver # Nothing /\ k.receiver.shape = "call" =>
        \E c \in IF k.receiver.on = Nothing THEN {Caller} ELSE StaticType(k.receiver.on) :
            Inherited(c, WithMethod(k.receiver.name)) \cap index # {}

(* A typed edge is never a wrong guess: where simple names are unique it   *)
(* leads to a declaration Java binds the call to, even when the run reads  *)
(* only some of the files.  Where only the name of the receiver's type is  *)
(* known it leads to a class above that type.                              *)
TypedEdgesAreTrue ==
    \A e \in edges : e.how = "typed" /\ OneClassPerName /\ Rooted(e.call) =>
        \/ e.to \in JavaTargets(e.call)
        \/ /\ TargetClass(e.call) = Nothing
           /\ Grounded(e.call) =>
                 \E c \in StaticType(e.call.receiver) : e.to[1] \in Upwards(c, {})

\* The receiver is not longer than the code follows it.
WithinReach(k) == k.receiver # Nothing => Depth[k.receiver] <= MaxDepth

(* A run over the whole program loses no call, unless it has to guess and  *)
(* the name is so common that guessing is given up: classes that share a   *)
(* simple name are told apart by the caller's imports and package or all   *)
(* kept.                                                                   *)
NoCallIsLost ==
    scope = Classes =>
        \A k \in answered :
            /\ Rooted(k) /\ WithinReach(k)
            /\ OneMeaningPerName /\ OneTypePerMember
            /\ Answer(k).how = "typed" \/ Cardinality(MethodsNamed(k.callee, Classes)) <= MaxTargets
            => JavaTargets(k) \subseteq {e.to : e \in edges} \cup {<<Caller, program.method>>}
=============================================================================
