------------------------------ MODULE LocalMoves ------------------------------
(* Locals of one compiled function: how the frontend lowers the statements of  *)
(* a body one after the other while it tracks which locals exist and which     *)
(* have been consumed (compiler/frontend.py, _lower_statement and the local    *)
(* states), which bindings it declares mutable, and whether every path         *)
(* returns.  Its recursion into branches, loops and arms is a stack of blocks. *)
(*                                                                             *)
(* Beside it goes the judge: one path through the Rust function that the       *)
(* lowered statements make.  A path that goes round each loop at most once     *)
(* meets the statements in the order in which they are lowered, so that each   *)
(* step lowers a statement and, if the path comes by, executes it.             *)
(*                                                                             *)
(* An expression is a record of the locals it reads, in order, those it then   *)
(* consumes as owned arguments, and those it mutates through a method.         *)
(* Statements are records with a field k.                                      *)
EXTENDS Integers, Sequences, SequencesExt

CONSTANTS Statements,  \* of the functions, those within others included
          LocalNames,
          CopyNames,   \* locals of a Copy type
          OpaqueNames  \* locals that hold an iterator, a future or a closure

VARIABLES block,    \* the block being lowered
          stack,    \* the blocks around it, outermost first
          locals,   \* the local states: names in scope, those consumed
          outcome,  \* "lowering", "lowered" or the code of the first error
          route,    \* the Rust bindings of a path, and how it ends: "next" so far
          astray,   \* whether it jumped, or hid a local from outside its block
          mutables  \* names whose bindings are declared mutable

blockVars == <<block, stack>>
moveVars  == <<block, stack, locals, outcome, route, astray, mutables>>

Loops    == {"while", "range", "each"}
Jumps    == {"break", "continue"}
Bindings == {"assign", "annotated"}
Compound == {"if", "match"} \union Loops

\* The blocks of a compound statement, each with the names it binds.
Arm(names, statements) == [binds |-> names, body |-> statements]
Branches(s) ==
  CASE s.k = "if" -> <<Arm({}, s.body), Arm({}, s.orelse)>>
    [] s.k = "while" -> <<Arm({}, s.body)>>
    [] s.k \in {"range", "each"} -> <<Arm({s.to}, s.body)>>
    [] s.k = "match" -> s.arms
    [] OTHER -> <<>>

\* Compound statements are made of statements; a match has an arm.
ASSUME StatementsAssumption ==
  \A s \in Statements :
    /\ s.k = "match" => s.arms # <<>>
    /\ s.k \in Bindings => s.to \in LocalNames
    /\ Branches(s) \in Seq([binds : SUBSET LocalNames, body : Seq(Statements)])

------------------------------------------------------------------------------
(* Facts about the whole body, collected before it is lowered.                 *)

\* A statement and those within it.
Flat[s \in Statements] ==
  LET within(body) == FlattenSeq([i \in DOMAIN body |-> Flat[body[i]]])
      arms == Branches(s)
  IN <<s>> \o FlattenSeq([a \in DOMAIN arms |-> within(arms[a].body)])

Flatten(function) == FlattenSeq([i \in DOMAIN function.body |-> Flat[function.body[i]]])

StoreKinds == {"assign", "annotated", "augmented", "range", "each"}

\* How often a name is written, a shadow with an annotation not counted.
WriteCount(function, name) ==
  Len(SelectSeq(Flatten(function), LAMBDA s :
        /\ s.k \in StoreKinds /\ s.to = name
        /\ ~(s.k = "annotated" /\ s.form = "shadow")))

MutatedNames(function) ==
  UNION {s.value.mutates : s \in {t \in ToSet(Flatten(function)) : t.k \notin Jumps}}

\* A local is mutable where it is written twice, a parameter where it is
\* written at all.
Mutables(function) ==
  MutatedNames(function) \union {n \in LocalNames : WriteCount(function, n) > 1}
MutableParameters(function) ==
  {n \in function.parameters : WriteCount(function, n) > 0} \union MutatedNames(function)

------------------------------------------------------------------------------
(* The local states, and the blocks.                                           *)

\* _declare_local: a fresh binding has not been consumed.
Declare(scope, names) ==
  [env |-> scope.env \union names, moved |-> scope.moved \ names]

\* _consume_local
Consumed(e) ==
  [env |-> locals.env,
   moved |-> locals.moved \union ((e.takes \intersect locals.env) \ CopyNames)]

\* A name a block binds is a fresh one inside and, afterwards, the one outside.
Unscope(scope, base, names) ==
  [env |-> scope.env \ (names \ base.env),
   moved |-> (scope.moved \ names) \union (base.moved \intersect names)]

\* A block of a compound statement.  done holds the local states at the end of
\* its finished branches, returning whether all of those return.  way is the
\* branch the path takes: 0 if it passes a loop by, Apart if it never comes here;
\* outside and hides are the bindings around the branch it takes, as they were
\* when the branch first hid them, and the names it has hidden.
Apart == 0 - 1
Block(branches, loop, base, way, bindings) ==
  [todo |-> branches[1].body, returns |-> FALSE,
   branches |-> branches, loop |-> loop, base |-> base,
   done |-> <<>>, returning |-> TRUE,
   way |-> way, outside |-> bindings, hides |-> branches[1].binds]

Current(b) == Len(b.done) + 1
Binds(b)   == b.branches[Current(b)].binds
Ended(b, scope) == Append(b.done, Unscope(scope, b.base, Binds(b)))

\* Mutant: consumed only where every branch consumed it.
MergeAll(base, ends) ==
  [env |-> base.env, moved |-> {n \in base.env : \A e \in ends : n \in e.moved}]

\* _merge_branch_local_states: the names of the base, consumed where any
\* branch consumed them.
Merge(base, ends) ==
  [env |-> base.env,
   moved |-> {n \in base.env : \E e \in ends : n \in e.env /\ n \in e.moved}]

\* Mutant: one branch that returns is enough.
ReturnsInABranch(b) == ~b.loop /\ (b.returning \/ b.returns)

\* block_returns of a compound statement, once its last branch is lowered.
Returns(b) == ~b.loop /\ b.returning /\ b.returns

Lowering == outcome = "lowering"
InLoop   == block.loop \/ \E i \in DOMAIN stack : stack[i].loop
Upcoming == IF block.todo = <<>> THEN {} ELSE {Head(block.todo)}

\* Why a statement is not lowered: a jump outside loops, a second declaration,
\* a name unknown or consumed (the first one read), a store to an opaque local.
Refusal(s) ==
  LET known == s.k \in Bindings /\ s.to \in locals.env /\ s.form # "shadow"
      bad == {i \in DOMAIN s.value.reads : s.value.reads[i] \notin locals.env \ locals.moved}
      first == CHOOSE i \in bad : \A j \in bad : i <= j
  IN IF s.k \in Jumps
     THEN IF InLoop THEN "none" ELSE IF s.k = "break" THEN "CRAB117" ELSE "CRAB118"
     ELSE IF known /\ s.k = "annotated" THEN "CRAB116"
     ELSE IF bad # {}
          THEN IF s.value.reads[first] \in locals.env THEN "CRAB227" ELSE "CRAB112"
     ELSE IF known /\ s.to \in OpaqueNames THEN "CRAB226"
     ELSE "none"

------------------------------------------------------------------------------
(* The judge: what each name is bound to on a path, whether that still holds   *)
(* its value and is mutable.  A path ends at a return, at a jump until the end *)
(* of the loop, or at a use rustc rejects.                                     *)

Binding(mutable) == [live |-> TRUE, mutable |-> mutable]
Unbound == [live |-> FALSE, mutable |-> FALSE]
Along(env, end) == [env |-> env, end |-> end]

\* The bindings once names are bound anew.
Bound(env, names, mutable) ==
  [n \in LocalNames |-> IF n \in names THEN Binding(mutable) ELSE env[n]]

Evaluate(env, e) ==
  IF \E n \in ToSet(e.reads) : ~env[n].live THEN Along(env, "reused")
  ELSE IF \E n \in e.mutates : ~env[n].mutable THEN Along(env, "immutable")
  ELSE Along([n \in LocalNames |-> [live |-> env[n].live /\ n \notin e.takes \ CopyNames,
                                   mutable |-> env[n].mutable]], "next")

\* Whether the path takes the branch being lowered; is it at this statement?
Comes(b) == b.way = Current(b)
OnPath  == route.end = "next" /\ Comes(block)

\* The path once it has evaluated the expression of s, if it is there.
Evaluated(s) == IF OnPath THEN Evaluate(route.env, s.value) ELSE route
Passes(s)    == OnPath /\ Evaluated(s).end = "next"

\* The path at the end of block b: the bindings outside are visible again, and a
\* loop is left as if it had been gone round once.
Leave(b) ==
  IF ~Comes(b) THEN route
  ELSE Along([n \in LocalNames |-> IF n \in b.hides THEN b.outside[n] ELSE route.env[n]],
          IF b.loop /\ route.end \in Jumps THEN "next" ELSE route.end)

------------------------------------------------------------------------------
(* Lowering, a statement or the end of a block at a time.                      *)

Refuse(s) ==
  /\ Refusal(s) # "none" /\ outcome' = Refusal(s)
  /\ UNCHANGED <<blockVars, locals, route, astray, mutables>>

\* ast.Assign and ast.AnnAssign that declare a name: a new local, a constant or
\* a shadow, in Rust a let.
IsLet(s) == s.to \notin locals.env \/ s.k = "annotated" \/ s.form = "shadow"
LetMutable(s) ==
  /\ s.to \in mutables /\ s.form # "const"
  /\ s.k = "annotated" \/ s.to \notin locals.env
LowerLet(s) ==
  /\ s.k \in Bindings /\ IsLet(s) /\ Refusal(s) = "none"
  /\ locals' = Declare(Consumed(s.value), {s.to})
  /\ LET at == Evaluated(s)
         hidden == IF Passes(s) THEN {s.to} ELSE {}
     IN /\ route' = Along(IF Passes(s) THEN Bound(at.env, {s.to}, LetMutable(s)) ELSE at.env, at.end)
        /\ block' = [block EXCEPT
             !.todo = Tail(@), !.hides = @ \union hidden,
             !.outside = [n \in LocalNames |-> IF n \in hidden \ block.hides THEN at.env[n] ELSE @[n]]]
        /\ astray' = (astray \/ (hidden \intersect block.base.env) \ Binds(block) # {})
  /\ UNCHANGED <<stack, outcome, mutables>>

\* An assignment to a local that exists, or an augmented one, which reads it
\* first and, unlike the plain one, does not revive it.
LowerStore(s) ==
  /\ \/ s.k = "augmented"
     \/ s.k \in Bindings /\ ~IsLet(s)
  /\ Refusal(s) = "none"
  /\ locals' = IF s.k = "augmented" THEN Consumed(s.value)
               ELSE Declare(Consumed(s.value), {s.to})
  /\ LET at == Evaluated(s) IN
     route' = IF ~Passes(s) THEN at
             ELSE IF ~at.env[s.to].mutable THEN Along(at.env, "immutable")
             ELSE Along(Bound(at.env, {s.to}, TRUE), "next")
  /\ block' = [block EXCEPT !.todo = Tail(@)]
  /\ UNCHANGED <<stack, outcome, astray, mutables>>

\* ast.Expr and ast.Return.
LowerExpression(s) ==
  /\ s.k \in {"expression", "return"} /\ Refusal(s) = "none"
  /\ locals' = Consumed(s.value)
  /\ route' = Along(Evaluated(s).env, IF Passes(s) /\ s.k = "return" THEN "return" ELSE Evaluated(s).end)
  /\ block' = [block EXCEPT !.todo = Tail(@), !.returns = @ \/ s.k = "return"]
  /\ UNCHANGED <<stack, outcome, astray, mutables>>

\* ast.Break and ast.Continue.
LowerJump(s) ==
  /\ s.k \in Jumps /\ Refusal(s) = "none"
  /\ route' = Along(route.env, IF OnPath THEN s.k ELSE route.end)
  /\ astray' = (astray \/ OnPath)
  /\ block' = [block EXCEPT !.todo = Tail(@)]
  /\ UNCHANGED <<stack, locals, outcome, mutables>>

\* ast.If, ast.While, ast.For and a match: their expression, then their first
\* block.  The path chooses its branch here.
Ways(s) ==
  IF ~Passes(s) THEN {Apart}
  ELSE (1 .. Len(Branches(s))) \union (IF s.k \in Loops THEN {0} ELSE {})
Entering(env, binds, enters) == IF enters THEN Bound(env, binds, FALSE) ELSE env
OpenCompound(s) ==
  /\ s.k \in Compound /\ Refusal(s) = "none"
  /\ LET at == Evaluated(s)
         base == Consumed(s.value)
         names == Branches(s)[1].binds
     IN /\ locals' = Declare(base, names)
        /\ \E way \in Ways(s) :
             /\ block' = Block(Branches(s), s.k \in Loops, base, way, at.env)
             /\ route' = Along(Entering(at.env, names, way = 1), at.end)
  /\ stack' = Append(stack, [block EXCEPT !.todo = Tail(@)])
  /\ UNCHANGED <<outcome, astray, mutables>>

\* The next branch starts from the local states before the statement.
NextBranch ==
  /\ block.todo = <<>> /\ Current(block) < Len(block.branches)
  /\ LET next  == block.branches[Current(block) + 1]
         leave == Leave(block)
     IN /\ locals' = Declare(block.base, next.binds)
        /\ block' = [block EXCEPT
             !.todo = next.body, !.returns = FALSE,
             !.done = Ended(block, locals), !.returning = @ /\ block.returns,
             !.outside = leave.env, !.hides = next.binds]
        /\ route' = Along(Entering(leave.env, next.binds, block.way = Current(block) + 1), leave.end)
  /\ UNCHANGED <<stack, outcome, astray, mutables>>

\* The branches merge, for a loop with the states before it, and the block
\* around the statement goes on.
CloseCompound ==
  /\ block.todo = <<>> /\ Current(block) = Len(block.branches) /\ stack # <<>>
  /\ locals' = Merge(block.base, ToSet(Ended(block, locals))
                                 \union (IF block.loop THEN {block.base} ELSE {}))
  /\ block' = [Last(stack) EXCEPT !.returns = @ \/ Returns(block)]
  /\ stack' = Front(stack)
  /\ route' = Leave(block)
  /\ UNCHANGED <<outcome, astray, mutables>>

\* lower() of a function with a result: unless it can end without a return.
Finish ==
  /\ block.todo = <<>> /\ stack = <<>>
  /\ outcome' = IF block.returns THEN "lowered" ELSE "CRAB109"
  /\ UNCHANGED <<blockVars, locals, route, astray, mutables>>

MovesInit(functions) ==
  /\ \E function \in functions :
       LET parameters == function.parameters
           nothing == [env |-> {}, moved |-> {}]
           unbound == [n \in LocalNames |-> Unbound]
       IN /\ block = Block(<<Arm(parameters, function.body)>>, FALSE, nothing, 1, unbound)
          /\ locals = Declare(nothing, parameters)
          /\ route = Along([n \in LocalNames |->
                       IF n \in parameters THEN Binding(n \in MutableParameters(function))
                       ELSE Unbound], "next")
          /\ mutables = Mutables(function)
  /\ stack = <<>> /\ outcome = "lowering" /\ astray = FALSE

MovesNext ==
  /\ Lowering
  /\ \/ \E s \in Upcoming : \/ Refuse(s) \/ LowerLet(s) \/ LowerStore(s)
                            \/ LowerExpression(s) \/ LowerJump(s) \/ OpenCompound(s)
     \/ NextBranch \/ CloseCompound \/ Finish

MovesSpec(functions) == MovesInit(functions) /\ [][MovesNext]_moveVars

------------------------------------------------------------------------------
Lowered == outcome = "lowered"

(* A function the frontend lowers never uses a consumed local again on a path  *)
(* that goes round each loop at most once, unless the path jumps or hides a    *)
(* local from outside its block: the states of branches, loops and arms merge  *)
(* soundly (CRAB227).                                                          *)
MovesAreCaught == Lowered /\ ~astray => route.end # "reused"

(* Every path through a lowered function ends in a return, unless rustc rejects *)
(* it before (CRAB109): what block_returns accepts never falls off the end of   *)
(* the Rust function, and no jump leaves it.                                    *)
ReturnsOnEveryPath == Lowered => route.end \in {"return", "reused", "immutable"}
==============================================================================
