----------------------------- MODULE MovesProofs -----------------------------
(* Theorems about the lowering of function bodies, for any set of statements   *)
(* and any functions made of them: what the frontend's local states promise of *)
(* the Rust bindings, and what block_returns promises of the paths.            *)
EXTENDS LocalMoves, TLAPS

Scopes == [env : SUBSET LocalNames, moved : SUBSET LocalNames]
Slots  == [live : BOOLEAN, mutable : BOOLEAN]
Slotted == [LocalNames -> Slots]
Arms   == Seq([binds : SUBSET LocalNames, body : Seq(Statements)])
Ends   == {"next", "return", "reused", "immutable"} \union Jumps
Routes == [env : Slotted, end : Ends]

Blocks ==
  [todo : Seq(Statements), returns : BOOLEAN, branches : Arms, loop : BOOLEAN,
   base : Scopes, done : Seq(Scopes), returning : BOOLEAN, way : Int,
   outside : Slotted, hides : SUBSET LocalNames]

\* Where a block is between its branches.
Shaped(b) ==
  /\ Current(b) <= Len(b.branches) /\ b.way <= Len(b.branches) /\ Apart <= b.way
  /\ b.loop => Len(b.branches) = 1
  /\ b.way = 0 => b.loop
  /\ \A k \in DOMAIN b.done : b.base.env \subseteq b.done[k].env

MovesTypeOK ==
  /\ block \in Blocks /\ stack \in Seq(Blocks) /\ locals \in Scopes
  /\ route \in Routes /\ astray \in BOOLEAN

\* The blocks, outermost first.
Depth == Len(stack) + 1
Frame(i) == IF i \in DOMAIN stack THEN stack[i] ELSE block

\* The names in scope grow inwards.
Shapes ==
  /\ \A i \in 1 .. Depth : Shaped(Frame(i))
  /\ \A i, j \in 1 .. Depth : j = i + 1 => Frame(i).base.env \subseteq Frame(j).base.env
  /\ block.base.env \subseteq locals.env

Functions == [parameters : SUBSET LocalNames, body : Seq(Statements)]

------------------------------------------------------------------------------
(* Types.                                                                      *)

LEMMA BlockFields ==
  ASSUME NEW b \in Blocks
  PROVE  /\ b.todo \in Seq(Statements) /\ b.returns \in BOOLEAN /\ b.branches \in Arms
         /\ b.loop \in BOOLEAN /\ b.base \in Scopes /\ b.done \in Seq(Scopes)
         /\ b.returning \in BOOLEAN /\ b.way \in Int /\ b.outside \in Slotted
         /\ b.hides \in SUBSET LocalNames
         /\ Len(b.done) \in Nat /\ Len(b.branches) \in Nat /\ Current(b) \in Nat \ {0}
         /\ b.base.env \subseteq LocalNames /\ b.base.moved \subseteq LocalNames
<1>1. /\ b.todo \in Seq(Statements) /\ b.returns \in BOOLEAN /\ b.branches \in Arms
      /\ b.loop \in BOOLEAN /\ b.base \in Scopes /\ b.done \in Seq(Scopes)
      /\ b.returning \in BOOLEAN /\ b.way \in Int /\ b.outside \in Slotted
      /\ b.hides \in SUBSET LocalNames
  BY DEF Blocks
<1>2. Len(b.done) \in Nat /\ Len(b.branches) \in Nat
  BY <1>1 DEF Arms
<1>3. QED
  BY <1>1, <1>2 DEF Current, Scopes

LEMMA ArmFields ==
  ASSUME NEW arms \in Arms, NEW a \in 1 .. Len(arms)
  PROVE  arms[a].binds \in SUBSET LocalNames /\ arms[a].body \in Seq(Statements)
<1> DEFINE T == [binds : SUBSET LocalNames, body : Seq(Statements)]
<1>1. arms \in Seq(T)
  BY DEF Arms
<1>2. arms[a] \in T
  <2> HIDE DEF T
  <2> QED
    BY <1>1
<1>3. QED
  BY <1>2

\* A statement's branches, as the assumption has them.
LEMMA BranchesTyped ==
  ASSUME NEW s \in Statements, s.k \in Compound
  PROVE  /\ Branches(s) \in Arms /\ Len(Branches(s)) \in Nat \ {0}
         /\ s.k \in Loops => Len(Branches(s)) = 1
<1>1. Branches(s) \in Arms
  BY StatementsAssumption DEF Arms
<1>2. Branches(s) # <<>>
  BY StatementsAssumption DEF Branches, Compound, Loops
<1>3. s.k \in Loops => Len(Branches(s)) = 1
  BY DEF Branches, Loops
<1>4. Len(Branches(s)) \in Nat \ {0}
  BY <1>1, <1>2 DEF Arms
<1>5. QED
  BY <1>1, <1>3, <1>4

LEMMA BlockTyped ==
  ASSUME NEW branches \in Arms, Len(branches) \in Nat \ {0}, NEW loop \in BOOLEAN,
         loop => Len(branches) = 1, NEW base \in Scopes, NEW way \in Int,
         Apart <= way, way <= Len(branches), way = 0 => loop, NEW bindings \in Slotted
  PROVE  LET b == Block(branches, loop, base, way, bindings)
         IN b \in Blocks /\ Shaped(b) /\ Current(b) = 1
<1> DEFINE b == Block(branches, loop, base, way, bindings)
<1>1. branches[1].binds \in SUBSET LocalNames /\ branches[1].body \in Seq(Statements)
  BY ArmFields
<1>2. b \in Blocks
  BY <1>1 DEF Block, Blocks
<1>3. b.done = <<>> /\ b.branches = branches /\ b.loop = loop /\ b.way = way
  BY DEF Block
<1>4. QED
  BY <1>2, <1>3 DEF Shaped, Current

LEMMA ScopesMade ==
  ASSUME NEW scope \in Scopes, NEW base \in Scopes, NEW names \in SUBSET LocalNames
  PROVE  Declare(scope, names) \in Scopes /\ Unscope(scope, base, names) \in Scopes
  BY DEF Scopes, Declare, Unscope

LEMMA ConsumedTyped ==
  ASSUME locals \in Scopes, NEW e
  PROVE  Consumed(e) \in Scopes /\ Consumed(e).env = locals.env
  BY DEF Scopes, Consumed

LEMMA BoundTyped ==
  ASSUME NEW env \in Slotted, NEW names, NEW mutable \in BOOLEAN
  PROVE  Bound(env, names, mutable) \in Slotted
  BY DEF Slotted, Slots, Bound, Binding

LEMMA RouteFields ==
  ASSUME NEW r \in Routes PROVE r.env \in Slotted /\ r.end \in Ends
  BY DEF Routes

LEMMA AlongTyped ==
  ASSUME NEW env \in Slotted, NEW end \in Ends
  PROVE  Along(env, end) \in Routes /\ Along(env, end).env = env /\ Along(env, end).end = end
  BY DEF Routes, Along

LEMMA EvaluateTyped ==
  ASSUME NEW env \in Slotted, NEW e PROVE Evaluate(env, e) \in Routes
<1>1. [n \in LocalNames |-> [live |-> env[n].live /\ n \notin e.takes \ CopyNames,
                             mutable |-> env[n].mutable]] \in Slotted
  BY DEF Slotted, Slots
<1>2. "reused" \in Ends /\ "immutable" \in Ends /\ "next" \in Ends
  BY DEF Ends
<1>3. QED
  BY <1>1, <1>2, AlongTyped DEF Evaluate

LEMMA EvaluatedTyped ==
  ASSUME route \in Routes, NEW s PROVE Evaluated(s) \in Routes
  BY EvaluateTyped, RouteFields DEF Evaluated

LEMMA LeaveTyped ==
  ASSUME NEW b \in Blocks, route \in Routes PROVE Leave(b) \in Routes
<1>1. route.env \in Slotted /\ route.end \in Ends /\ b.outside \in Slotted
  BY RouteFields, BlockFields
<1>2. [n \in LocalNames |-> IF n \in b.hides THEN b.outside[n] ELSE route.env[n]] \in Slotted
  BY <1>1 DEF Slotted
<1>3. (IF b.loop /\ route.end \in Jumps THEN "next" ELSE route.end) \in Ends
  BY <1>1 DEF Ends
<1>4. QED
  BY <1>2, <1>3, AlongTyped DEF Leave

------------------------------------------------------------------------------
(* Lowering a statement that has no blocks of its own.                         *)

\* It stays in its block, declares at most, and ends the path at most.
Continues ==
  /\ block' \in Blocks /\ block'.todo = Tail(block.todo)
  /\ block'.branches = block.branches /\ block'.loop = block.loop
  /\ block'.base = block.base /\ block'.done = block.done
  /\ block'.returning = block.returning /\ block'.way = block.way
  /\ stack' = stack /\ outcome' = outcome
  /\ locals' \in Scopes /\ locals.env \subseteq locals'.env
  /\ route' \in Routes /\ astray' \in BOOLEAN /\ (astray => astray')
  /\ route'.end = "next" => route.end = "next"
  /\ block'.returns => block.returns \/ (Comes(block) => route'.end # "next")
  /\ route'.end \in Jumps => route.end \in Jumps \/ (InLoop /\ OnPath /\ astray')
  /\ ~OnPath => route' = route /\ block'.hides = block.hides /\ block'.outside = block.outside

LEMMA HeadTyped ==
  ASSUME block \in Blocks, NEW s \in Upcoming
  PROVE  s \in Statements /\ block.todo # <<>> /\ Tail(block.todo) \in Seq(Statements)
<1>1. block.todo \in Seq(Statements)
  BY BlockFields
<1>2. QED
  BY <1>1 DEF Upcoming

\* The path when the expression of a statement has been evaluated.
LEMMA EvaluatedFacts ==
  ASSUME route \in Routes, NEW s
  PROVE  /\ Evaluated(s) \in Routes /\ Evaluated(s).env \in Slotted /\ Evaluated(s).end \in Ends
         /\ ~OnPath => Evaluated(s) = route /\ ~Passes(s)
         /\ OnPath => Evaluated(s).end \in {"next", "reused", "immutable"} /\ route.end = "next" /\ Comes(block)
         /\ Passes(s) => Evaluated(s).end = "next" /\ OnPath
         /\ OnPath /\ ~Passes(s) => Evaluated(s).end # "next"
<1>1. Evaluated(s) \in Routes /\ Evaluated(s).env \in Slotted /\ Evaluated(s).end \in Ends
  BY EvaluatedTyped, RouteFields
<1>2. OnPath => Evaluated(s).end \in {"next", "reused", "immutable"}
  BY DEF Evaluated, Evaluate, Along
<1>3. QED
  BY <1>1, <1>2 DEF Evaluated, Passes, OnPath

LEMMA EndsApart ==
  /\ "next" \notin Jumps /\ "return" \notin Jumps /\ "reused" \notin Jumps /\ "immutable" \notin Jumps
  /\ "next" \in Ends /\ "return" \in Ends /\ "reused" \in Ends /\ "immutable" \in Ends /\ Jumps \subseteq Ends
  BY DEF Jumps, Ends

LEMMA LetContinues ==
  ASSUME MovesTypeOK, NEW s \in Upcoming, LowerLet(s)
  PROVE  Continues
<1> USE DEF MovesTypeOK
<1>1. s \in Statements /\ Tail(block.todo) \in Seq(Statements)
  BY HeadTyped
<1>2. s.to \in LocalNames
  BY <1>1, StatementsAssumption DEF LowerLet
<1> DEFINE at == Evaluated(s)
           hidden == IF Passes(s) THEN {s.to} ELSE {}
           outside == [n \in LocalNames |-> IF n \in hidden \ block.hides THEN at.env[n] ELSE block.outside[n]]
<1>3. /\ block' = [block EXCEPT !.todo = Tail(block.todo), !.hides = block.hides \union hidden, !.outside = outside]
      /\ route' = Along(IF Passes(s) THEN Bound(at.env, {s.to}, LetMutable(s)) ELSE at.env, at.end)
      /\ astray' = (astray \/ (hidden \intersect block.base.env) \ Binds(block) # {})
      /\ locals' = Declare(Consumed(s.value), {s.to}) /\ stack' = stack /\ outcome' = outcome
  BY DEF LowerLet
<1>4. at.env \in Slotted /\ at.end \in Ends
  BY EvaluatedFacts
<1>5. outside \in Slotted /\ hidden \subseteq LocalNames
  BY <1>2, <1>4, BlockFields DEF Slotted
<1>6. /\ block' \in Blocks /\ block'.todo = Tail(block.todo)
      /\ block'.branches = block.branches /\ block'.loop = block.loop
      /\ block'.base = block.base /\ block'.done = block.done
      /\ block'.returning = block.returning /\ block'.way = block.way
      /\ block'.returns = block.returns
      /\ block'.hides = block.hides \union hidden /\ block'.outside = outside
  <2> HIDE DEF at, hidden, outside
  <2> QED
    BY <1>1, <1>3, <1>5 DEF Blocks
<1>7. locals' \in Scopes /\ locals.env \subseteq locals'.env
  BY <1>2, <1>3, ConsumedTyped, ScopesMade DEF Declare, Scopes
<1>8. route' \in Routes /\ route'.end = at.end
  <2>1. LetMutable(s) \in BOOLEAN
    BY DEF LetMutable
  <2>2. (IF Passes(s) THEN Bound(at.env, {s.to}, LetMutable(s)) ELSE at.env) \in Slotted
    BY <1>4, <2>1, BoundTyped
  <2>3. QED
    BY <1>3, <1>4, <2>2, AlongTyped
<1>9. ~OnPath => route' = route /\ block'.hides = block.hides /\ block'.outside = block.outside
  <2> SUFFICES ASSUME ~OnPath PROVE route' = route /\ block'.hides = block.hides /\ block'.outside = block.outside
    OBVIOUS
  <2>1. at = route /\ hidden = {} /\ ~Passes(s)
    BY EvaluatedFacts
  <2>2. Along(route.env, route.end) = route
    BY DEF Along, Routes
  <2>3. outside = block.outside
    BY <2>1, BlockFields DEF Slotted
  <2>4. QED
    BY <1>3, <1>6, <2>1, <2>2, <2>3
<1>10. route'.end = "next" => route.end = "next"
  BY <1>8, EvaluatedFacts
<1>11. route'.end \in Jumps => route.end \in Jumps
  BY <1>8, EvaluatedFacts, EndsApart
<1>12. QED
  BY <1>3, <1>6, <1>7, <1>8, <1>9, <1>10, <1>11 DEF Continues

LEMMA StoreContinues ==
  ASSUME MovesTypeOK, NEW s \in Upcoming, LowerStore(s)
  PROVE  Continues
<1> USE DEF MovesTypeOK
<1>1. s \in Statements /\ Tail(block.todo) \in Seq(Statements)
  BY HeadTyped
<1> DEFINE at == Evaluated(s)
<1>2. /\ block' = [block EXCEPT !.todo = Tail(block.todo)]
      /\ route' = IF ~Passes(s) THEN at
                  ELSE IF ~at.env[s.to].mutable THEN Along(at.env, "immutable")
                  ELSE Along(Bound(at.env, {s.to}, TRUE), "next")
      /\ stack' = stack /\ outcome' = outcome /\ astray' = astray
  BY DEF LowerStore
<1>3. at \in Routes /\ at.env \in Slotted
  BY EvaluatedFacts
<1>4. /\ block' \in Blocks /\ block'.todo = Tail(block.todo)
      /\ block'.branches = block.branches /\ block'.loop = block.loop
      /\ block'.base = block.base /\ block'.done = block.done
      /\ block'.returning = block.returning /\ block'.way = block.way
      /\ block'.returns = block.returns
      /\ block'.hides = block.hides /\ block'.outside = block.outside
  BY <1>1, <1>2 DEF Blocks
<1>5. locals' \in Scopes /\ locals.env \subseteq locals'.env
  <2>1. CASE s.k = "augmented"
    BY <2>1, ConsumedTyped DEF LowerStore
  <2>2. CASE s.k # "augmented"
    <3>1. s.to \in LocalNames /\ locals' = Declare(Consumed(s.value), {s.to})
      BY <1>1, <2>2, StatementsAssumption DEF LowerStore
    <3>2. QED
      BY <3>1, ConsumedTyped, ScopesMade DEF Declare, Scopes
  <2>3. QED
    BY <2>1, <2>2
<1>6. /\ route' \in Routes
      /\ route'.end = (IF ~Passes(s) THEN at.end
                       ELSE IF ~at.env[s.to].mutable THEN "immutable" ELSE "next")
  <2> HIDE DEF at
  <2>1. Bound(at.env, {s.to}, TRUE) \in Slotted
    BY <1>3, BoundTyped
  <2>2. CASE ~Passes(s)
    BY <1>2, <1>3, <2>2
  <2>3. CASE Passes(s) /\ ~at.env[s.to].mutable
    BY <1>2, <1>3, <2>3, AlongTyped, EndsApart
  <2>4. CASE Passes(s) /\ at.env[s.to].mutable
    <3>1. route' = Along(Bound(at.env, {s.to}, TRUE), "next")
      BY <1>2, <2>4
    <3>2. route' \in Routes /\ route'.end = "next"
      BY <2>1, <3>1, AlongTyped, EndsApart
    <3>3. QED
      BY <2>4, <3>2
  <2>5. QED
    BY <2>2, <2>3, <2>4
<1>7. ~OnPath => route' = route
  BY <1>2, EvaluatedFacts
<1>8. route'.end = "next" => route.end = "next"
  BY <1>6, EvaluatedFacts
<1>9. route'.end \in Jumps => route.end \in Jumps
  BY <1>6, EvaluatedFacts, EndsApart
<1>10. QED
  BY <1>2, <1>4, <1>5, <1>6, <1>7, <1>8, <1>9 DEF Continues

LEMMA ExpressionContinues ==
  ASSUME MovesTypeOK, NEW s \in Upcoming, LowerExpression(s)
  PROVE  Continues
<1> USE DEF MovesTypeOK
<1>1. s \in Statements /\ Tail(block.todo) \in Seq(Statements)
  BY HeadTyped
<1> DEFINE at == Evaluated(s)
<1>2. /\ block' = [block EXCEPT !.todo = Tail(block.todo), !.returns = (block.returns \/ s.k = "return")]
      /\ route' = Along(at.env, IF Passes(s) /\ s.k = "return" THEN "return" ELSE at.end)
      /\ locals' = Consumed(s.value)
      /\ stack' = stack /\ outcome' = outcome /\ astray' = astray
  BY DEF LowerExpression
<1>3. at \in Routes /\ at.env \in Slotted /\ at.end \in Ends
  BY EvaluatedFacts
<1>4. /\ block' \in Blocks /\ block'.todo = Tail(block.todo)
      /\ block'.branches = block.branches /\ block'.loop = block.loop
      /\ block'.base = block.base /\ block'.done = block.done
      /\ block'.returning = block.returning /\ block'.way = block.way
      /\ block'.returns = (block.returns \/ s.k = "return")
      /\ block'.hides = block.hides /\ block'.outside = block.outside
  BY <1>1, <1>2 DEF Blocks
<1>5. locals' \in Scopes /\ locals.env \subseteq locals'.env
  BY <1>2, ConsumedTyped
<1>6. /\ route' \in Routes
      /\ route'.end = (IF Passes(s) /\ s.k = "return" THEN "return" ELSE at.end)
  BY <1>2, <1>3, AlongTyped, EndsApart
<1>7. ~OnPath => route' = route
  <2>1. Along(route.env, route.end) = route
    BY DEF Along, Routes
  <2>2. QED
    BY <1>2, <2>1, EvaluatedFacts
<1>8. route'.end = "next" => route.end = "next"
  BY <1>6, EvaluatedFacts
<1>9. route'.end \in Jumps => route.end \in Jumps
  BY <1>6, EvaluatedFacts, EndsApart
<1>10. block'.returns => block.returns \/ (Comes(block) => route'.end # "next")
  <2> SUFFICES ASSUME s.k = "return", Comes(block), route'.end = "next" PROVE FALSE
    BY <1>4
  <2>1. ~Passes(s) /\ at.end = "next"
    BY <1>6
  <2>2. ~OnPath /\ route.end = "next"
    BY <1>6, <1>8, <2>1, EvaluatedFacts
  <2>3. QED
    BY <2>2 DEF OnPath
<1>11. QED
  BY <1>2, <1>4, <1>5, <1>6, <1>7, <1>8, <1>9, <1>10 DEF Continues

LEMMA JumpContinues ==
  ASSUME MovesTypeOK, NEW s \in Upcoming, LowerJump(s)
  PROVE  Continues
<1> USE DEF MovesTypeOK
<1>1. s \in Statements /\ Tail(block.todo) \in Seq(Statements)
  BY HeadTyped
<1>2. /\ block' = [block EXCEPT !.todo = Tail(block.todo)]
      /\ route' = Along(route.env, IF OnPath THEN s.k ELSE route.end)
      /\ astray' = (astray \/ OnPath)
      /\ stack' = stack /\ outcome' = outcome /\ locals' = locals /\ s.k \in Jumps
  BY DEF LowerJump
<1>3. InLoop
  <2>1. Refusal(s) = "none"
    BY DEF LowerJump
  <2>2. QED
    BY <1>2, <2>1 DEF Refusal
<1>4. /\ block' \in Blocks /\ block'.todo = Tail(block.todo)
      /\ block'.branches = block.branches /\ block'.loop = block.loop
      /\ block'.base = block.base /\ block'.done = block.done
      /\ block'.returning = block.returning /\ block'.way = block.way
      /\ block'.returns = block.returns
      /\ block'.hides = block.hides /\ block'.outside = block.outside
  BY <1>1, <1>2 DEF Blocks
<1>5. /\ route' \in Routes
      /\ route'.end = (IF OnPath THEN s.k ELSE route.end)
  BY <1>2, RouteFields, AlongTyped, EndsApart
<1>6. ~OnPath => route' = route
  BY <1>2 DEF Along, Routes
<1>7. astray' \in BOOLEAN
  BY <1>2
<1>8. QED
  BY <1>2, <1>3, <1>4, <1>5, <1>6, <1>7, EndsApart DEF Continues

------------------------------------------------------------------------------
(* Blocks that open, go on to their next branch, and close.                    *)

LEMMA FrameFacts ==
  ASSUME stack \in Seq(Blocks), block \in Blocks
  PROVE  /\ Depth \in Nat \ {0} /\ DOMAIN stack = 1 .. Depth - 1 /\ Len(stack) = Depth - 1
         /\ \A i \in DOMAIN stack : Frame(i) = stack[i] /\ i \in 1 .. Depth /\ i + 1 \in 1 .. Depth
         /\ \A i \in 1 .. Depth : Frame(i) \in Blocks
         /\ Frame(Depth) = block /\ Depth \in 1 .. Depth
<1>1. Len(stack) \in Nat /\ DOMAIN stack = 1 .. Len(stack)
  OBVIOUS
<1>2. \A i \in DOMAIN stack : stack[i] \in Blocks
  OBVIOUS
<1>3. QED
  BY <1>1, <1>2 DEF Depth, Frame

\* What may differ in a block while it waits for a compound statement.
Same(b, c) ==
  /\ c.branches = b.branches /\ c.loop = b.loop /\ c.base = b.base /\ c.done = b.done
  /\ c.returning = b.returning /\ c.way = b.way /\ c.outside = b.outside /\ c.hides = b.hides

LEMMA SameShaped ==
  ASSUME NEW b, NEW c, Same(b, c)
  PROVE  /\ Current(c) = Current(b) /\ Binds(c) = Binds(b) /\ (Comes(c) <=> Comes(b))
         /\ Shaped(b) => Shaped(c)
  BY DEF Same, Shaped, Current, Binds, Comes

LEMMA PassedTyped ==
  ASSUME NEW b \in Blocks, NEW todo \in Seq(Statements), NEW returns \in BOOLEAN
  PROVE  LET c == [b EXCEPT !.todo = todo, !.returns = returns]
         IN c \in Blocks /\ Same(b, c) /\ c.returns = returns
  BY DEF Blocks, Same

\* The effect of a compound statement's start.
Opens(s, way) ==
  LET names == Branches(s)[1].binds IN
  /\ \E b \in Blocks : stack' = Append(stack, b) /\ Same(block, b) /\ b.returns = block.returns
  /\ block' = Block(Branches(s), s.k \in Loops, Consumed(s.value), way, Evaluated(s).env)
  /\ block' \in Blocks /\ Shaped(block') /\ Current(block') = 1
  /\ locals' = Declare(Consumed(s.value), names) /\ locals' \in Scopes
  /\ route' = Along(Entering(Evaluated(s).env, names, way = 1), Evaluated(s).end)
  /\ route' \in Routes /\ outcome' = outcome /\ astray' = astray
  /\ names \in SUBSET LocalNames

LEMMA OpenFacts ==
  ASSUME MovesTypeOK, NEW s \in Upcoming, OpenCompound(s)
  PROVE  \E way \in Ways(s) : Opens(s, way)
<1> USE DEF MovesTypeOK
<1>1. s \in Statements /\ Tail(block.todo) \in Seq(Statements)
  BY HeadTyped
<1>2. /\ Branches(s) \in Arms /\ Len(Branches(s)) \in Nat \ {0}
      /\ s.k \in Loops => Len(Branches(s)) = 1
  BY <1>1, BranchesTyped DEF OpenCompound
<1> DEFINE at == Evaluated(s)
           base == Consumed(s.value)
           names == Branches(s)[1].binds
<1>3. names \in SUBSET LocalNames
  BY <1>2, ArmFields
<1>4. base \in Scopes /\ Declare(base, names) \in Scopes
  BY <1>3, ConsumedTyped, ScopesMade
<1>5. at.env \in Slotted /\ at.end \in Ends
  BY EvaluatedFacts
<1>6. PICK way \in Ways(s) :
        /\ block' = Block(Branches(s), s.k \in Loops, base, way, at.env)
        /\ route' = Along(Entering(at.env, names, way = 1), at.end)
  BY DEF OpenCompound
<1>7. /\ locals' = Declare(base, names) /\ stack' = Append(stack, [block EXCEPT !.todo = Tail(block.todo)])
      /\ outcome' = outcome /\ astray' = astray
  BY DEF OpenCompound
<1>8. way \in Int /\ Apart <= way /\ way <= Len(Branches(s)) /\ (way = 0 => s.k \in Loops)
  BY <1>2 DEF Ways, Apart
<1>9. block' \in Blocks /\ Shaped(block') /\ Current(block') = 1
  <2> HIDE DEF at, base
  <2>1. (s.k \in Loops) \in BOOLEAN
    OBVIOUS
  <2>2. QED
    BY <1>2, <1>4, <1>5, <1>6, <1>8, <2>1, BlockTyped
<1>10. route' \in Routes
  BY <1>5, <1>6, AlongTyped, BoundTyped DEF Entering
<1>11. \E b \in Blocks : stack' = Append(stack, b) /\ Same(block, b) /\ b.returns = block.returns
  <2> DEFINE c == [block EXCEPT !.todo = Tail(block.todo)]
  <2>1. c \in Blocks /\ Same(block, c) /\ c.returns = block.returns
    BY <1>1 DEF Blocks, Same
  <2>2. QED
    BY <1>7, <2>1
<1>12. QED
  BY <1>3, <1>4, <1>6, <1>7, <1>9, <1>10, <1>11 DEF Opens

\* The effect of going on to the next branch.
Advances ==
  LET next == block.branches[Current(block) + 1] IN
  /\ Current(block) < Len(block.branches)
  /\ block' \in Blocks /\ block'.branches = block.branches /\ block'.loop = block.loop
  /\ block'.base = block.base /\ block'.way = block.way /\ block'.returns = FALSE
  /\ block'.done = Append(block.done, Unscope(locals, block.base, Binds(block)))
  /\ Unscope(locals, block.base, Binds(block)) \in Scopes
  /\ Binds(block) \in SUBSET LocalNames
  /\ block'.returning = (block.returning /\ block.returns)
  /\ block'.outside = Leave(block).env /\ block'.hides = next.binds
  /\ Current(block') = Current(block) + 1 /\ Binds(block') = next.binds
  /\ next.binds \in SUBSET LocalNames
  /\ locals' = Declare(block.base, next.binds) /\ locals' \in Scopes
  /\ route' = Along(Entering(Leave(block).env, next.binds, block.way = Current(block) + 1), Leave(block).end)
  /\ route' \in Routes /\ Leave(block) \in Routes /\ stack' = stack /\ outcome' = outcome /\ astray' = astray

LEMMA NextFacts ==
  ASSUME MovesTypeOK, Shapes, NextBranch
  PROVE  Advances
<1> USE DEF MovesTypeOK
<1> DEFINE next == block.branches[Current(block) + 1]
           leave == Leave(block)
           ended == Unscope(locals, block.base, Binds(block))
<1>1. /\ block.branches \in Arms /\ Current(block) \in Nat \ {0} /\ Len(block.branches) \in Nat
      /\ block.base \in Scopes /\ block.done \in Seq(Scopes)
      /\ block.returning \in BOOLEAN /\ block.returns \in BOOLEAN
  BY BlockFields
<1>2. Current(block) < Len(block.branches)
  BY DEF NextBranch
<1>3. Current(block) \in 1 .. Len(block.branches) /\ Current(block) + 1 \in 1 .. Len(block.branches)
  BY <1>1, <1>2
<1>4. /\ next.binds \in SUBSET LocalNames /\ next.body \in Seq(Statements)
      /\ Binds(block) \in SUBSET LocalNames
  BY <1>1, <1>3, ArmFields DEF Binds
<1>5. leave \in Routes /\ leave.env \in Slotted /\ leave.end \in Ends
  BY LeaveTyped, RouteFields
<1>6. ended \in Scopes /\ Declare(block.base, next.binds) \in Scopes
  BY <1>1, <1>4, ScopesMade
<1>7. /\ block' = [block EXCEPT !.todo = next.body, !.returns = FALSE,
              !.done = Append(block.done, ended), !.returning = (block.returning /\ block.returns),
              !.outside = leave.env, !.hides = next.binds]
      /\ locals' = Declare(block.base, next.binds)
      /\ route' = Along(Entering(leave.env, next.binds, block.way = Current(block) + 1), leave.end)
      /\ stack' = stack /\ outcome' = outcome /\ astray' = astray
  BY DEF NextBranch, Ended
<1>8. Append(block.done, ended) \in Seq(Scopes)
  BY <1>1, <1>6
<1>9. /\ block' \in Blocks /\ block'.branches = block.branches /\ block'.loop = block.loop
      /\ block'.base = block.base /\ block'.way = block.way /\ block'.returns = FALSE
      /\ block'.done = Append(block.done, ended)
      /\ block'.returning = (block.returning /\ block.returns)
      /\ block'.outside = leave.env /\ block'.hides = next.binds
  <2> HIDE DEF next, leave, ended
  <2> QED
    BY <1>1, <1>4, <1>5, <1>7, <1>8 DEF Blocks
<1>10. Current(block') = Current(block) + 1 /\ Binds(block') = next.binds
  BY <1>1, <1>9 DEF Current, Binds
<1>11. route' \in Routes
  BY <1>5, <1>7, AlongTyped, BoundTyped DEF Entering
<1>12. QED
  BY <1>2, <1>4, <1>5, <1>6, <1>7, <1>9, <1>10, <1>11 DEF Advances

\* The effect of a block's end on the one around it.
Closes ==
  LET ended == Unscope(locals, block.base, Binds(block))
      ends == {block.done[k] : k \in DOMAIN block.done} \union {ended}
                \union (IF block.loop THEN {block.base} ELSE {})
  IN
  /\ Current(block) = Len(block.branches) /\ Depth > 1
  /\ block' \in Blocks /\ Same(stack[Depth - 1], block')
  /\ block'.returns = (stack[Depth - 1].returns \/ Returns(block))
  /\ stack' \in Seq(Blocks) /\ DOMAIN stack' = 1 .. Depth - 2
  /\ \A i \in DOMAIN stack' : stack'[i] = stack[i]
  /\ Depth' = Depth - 1
  /\ locals' = Merge(block.base, ends) /\ locals' \in Scopes
  /\ Binds(block) \in SUBSET LocalNames
  /\ route' = Leave(block) /\ route' \in Routes /\ outcome' = outcome /\ astray' = astray

LEMMA CloseFacts ==
  ASSUME MovesTypeOK, Shapes, CloseCompound
  PROVE  Closes
<1> USE DEF MovesTypeOK
<1> DEFINE ended == Unscope(locals, block.base, Binds(block))
           ends == {block.done[k] : k \in DOMAIN block.done} \union {ended}
                     \union (IF block.loop THEN {block.base} ELSE {})
           outer == stack[Depth - 1]
<1>1. /\ block.branches \in Arms /\ Current(block) \in Nat \ {0} /\ Len(block.branches) \in Nat
      /\ block.base \in Scopes /\ block.done \in Seq(Scopes)
      /\ block.returning \in BOOLEAN /\ block.returns \in BOOLEAN /\ block.loop \in BOOLEAN
  BY BlockFields
<1>2. /\ Current(block) = Len(block.branches) /\ stack # <<>>
      /\ block' = [Last(stack) EXCEPT !.returns = (Last(stack).returns \/ Returns(block))]
      /\ stack' = Front(stack) /\ route' = Leave(block) /\ outcome' = outcome /\ astray' = astray
      /\ locals' = Merge(block.base, ToSet(Ended(block, locals))
                                       \union (IF block.loop THEN {block.base} ELSE {}))
  BY DEF CloseCompound
<1>3. Depth > 1 /\ Depth \in Nat /\ Len(stack) = Depth - 1 /\ Depth - 1 \in DOMAIN stack
  BY <1>2, FrameFacts
<1>4. Last(stack) = outer /\ outer \in Blocks
  BY <1>3 DEF Last
<1>5. outer.returns \in BOOLEAN /\ Returns(block) \in BOOLEAN
  BY <1>1, <1>4, BlockFields DEF Returns
<1>6. block' \in Blocks /\ Same(outer, block') /\ block'.returns = (outer.returns \/ Returns(block))
  <2> HIDE DEF outer
  <2> QED
    BY <1>2, <1>4, <1>5 DEF Blocks, Same
<1>7. /\ stack' \in Seq(Blocks) /\ DOMAIN stack' = 1 .. Depth - 2 /\ Len(stack') = Depth - 2
      /\ \A i \in DOMAIN stack' : stack'[i] = stack[i]
  BY <1>2, <1>3 DEF Front
<1>8. ToSet(Ended(block, locals)) = {block.done[k] : k \in DOMAIN block.done} \union {ended}
  <2> DEFINE d == block.done
  <2>1. Ended(block, locals) = Append(d, ended)
    BY DEF Ended
  <2>2. \A x : x \in ToSet(Append(d, ended)) <=> x = ended \/ \E k \in DOMAIN d : x = d[k]
    <3> HIDE DEF ended, d
    <3>1. /\ DOMAIN Append(d, ended) = 1 .. Len(d) + 1 /\ DOMAIN d = 1 .. Len(d) /\ Len(d) \in Nat
          /\ \A k \in 1 .. Len(d) : Append(d, ended)[k] = d[k]
          /\ Append(d, ended)[Len(d) + 1] = ended
      BY <1>1 DEF d
    <3>2. QED
      BY <3>1 DEF ToSet
  <2>3. QED
    BY <2>1, <2>2
<1>9. locals' = Merge(block.base, ends)
  BY <1>2, <1>8
<1>10. locals' \in Scopes
  BY <1>1, <1>9 DEF Merge, Scopes
<1>11. Binds(block) \in SUBSET LocalNames
  BY <1>1, <1>2, ArmFields DEF Binds
<1>12. route' \in Routes
  BY <1>2, LeaveTyped
<1>13. Depth' = Depth - 1
  BY <1>3, <1>7 DEF Depth
<1>14. QED
  BY <1>2, <1>3, <1>6, <1>7, <1>9, <1>10, <1>11, <1>12, <1>13 DEF Closes

------------------------------------------------------------------------------
(* The stack of blocks.                                                        *)

Kept(i) == Same(Frame(i), Frame(i)') /\ Frame(i)'.returns = Frame(i).returns

LEMMA SameItself == \A b : Same(b, b)
  BY DEF Same

LEMMA StayFrames ==
  ASSUME MovesTypeOK, block' \in Blocks, stack' = stack
  PROVE  /\ Depth' = Depth /\ stack' \in Seq(Blocks)
         /\ \A i \in 1 .. Depth : IF i = Depth THEN Frame(i)' = block' ELSE Kept(i)
<1>1. stack \in Seq(Blocks) /\ Depth \in Nat \ {0} /\ DOMAIN stack = 1 .. Depth - 1
  BY FrameFacts DEF MovesTypeOK
<1>2. Depth' = Depth
  BY DEF Depth
<1>3. \A i \in 1 .. Depth : IF i = Depth THEN Frame(i)' = block' ELSE Frame(i)' = Frame(i)
  BY <1>1 DEF Frame
<1>4. QED
  BY <1>1, <1>2, <1>3, SameItself DEF Kept

LEMMA OpenFrames ==
  ASSUME MovesTypeOK, NEW s, NEW way, Opens(s, way)
  PROVE  /\ Depth' = Depth + 1 /\ stack' \in Seq(Blocks)
         /\ \A i \in 1 .. Depth + 1 : IF i = Depth + 1 THEN Frame(i)' = block' ELSE Kept(i)
<1>1. /\ stack \in Seq(Blocks) /\ Depth \in Nat \ {0} /\ DOMAIN stack = 1 .. Depth - 1
      /\ Len(stack) = Depth - 1
  BY FrameFacts DEF MovesTypeOK
<1>2. PICK b \in Blocks : stack' = Append(stack, b) /\ Same(block, b) /\ b.returns = block.returns
  BY DEF Opens
<1>3. /\ stack' \in Seq(Blocks) /\ Len(stack') = Depth /\ DOMAIN stack' = 1 .. Depth
      /\ stack'[Depth] = b /\ \A i \in 1 .. Depth - 1 : stack'[i] = stack[i]
  BY <1>1, <1>2
<1>4. Depth' = Depth + 1
  BY <1>3 DEF Depth
<1>5. \A i \in 1 .. Depth + 1 : i = Depth + 1 => Frame(i)' = block'
  BY <1>1, <1>3 DEF Frame
<1>6. \A i \in 1 .. Depth + 1 : i < Depth => Frame(i)' = Frame(i)
  BY <1>1, <1>3 DEF Frame
<1>7. \A i \in 1 .. Depth + 1 : i = Depth => Frame(i)' = b /\ Frame(i) = block
  BY <1>1, <1>3 DEF Frame
<1>8. \A i \in 1 .. Depth + 1 : i # Depth + 1 => i < Depth \/ i = Depth
  BY <1>1
<1>9. QED
  BY <1>2, <1>3, <1>4, <1>5, <1>6, <1>7, <1>8, SameItself DEF Kept

LEMMA CloseFrames ==
  ASSUME MovesTypeOK, Closes
  PROVE  /\ Depth' = Depth - 1 /\ Depth - 1 \in Nat \ {0} /\ stack' \in Seq(Blocks)
         /\ Frame(Depth - 1) \in Blocks /\ Frame(Depth - 1) = stack[Depth - 1]
         /\ \A i \in 1 .. Depth - 1 :
              IF i = Depth - 1 THEN Frame(i)' = block' /\ Same(Frame(i), Frame(i)') ELSE Kept(i)
<1>1. stack \in Seq(Blocks) /\ Depth \in Nat \ {0} /\ DOMAIN stack = 1 .. Depth - 1
  BY FrameFacts DEF MovesTypeOK
<1>2. Depth > 1 /\ Depth - 1 \in 1 .. Depth - 1 /\ Depth - 1 \in Nat \ {0}
  BY <1>1 DEF Closes
<1>3. \A i \in 1 .. Depth - 1 : i # Depth - 1 => Frame(i)' = Frame(i)
  BY <1>1 DEF Frame, Closes
<1>4. \A i \in 1 .. Depth - 1 : i = Depth - 1 => Frame(i)' = block' /\ Frame(i) = stack[Depth - 1]
  BY <1>1 DEF Frame, Closes
<1>5. Frame(Depth - 1) \in Blocks /\ Frame(Depth - 1) = stack[Depth - 1]
  BY <1>1, <1>2 DEF Frame
<1>6. QED
  BY <1>2, <1>3, <1>4, <1>5, SameItself DEF Kept, Closes

\* A step is one of these.
LEMMA StepCases ==
  ASSUME MovesTypeOK, Shapes, MovesNext
  PROVE  \/ Continues
         \/ \E s \in Upcoming : OpenCompound(s) /\ \E way \in Ways(s) : Opens(s, way)
         \/ Advances
         \/ Closes
         \/ UNCHANGED <<blockVars, locals, route, astray>>
<1>1. ASSUME NEW s \in Upcoming, Refuse(s) PROVE UNCHANGED <<blockVars, locals, route, astray>>
  BY <1>1 DEF Refuse, blockVars
<1>2. ASSUME Finish PROVE UNCHANGED <<blockVars, locals, route, astray>>
  BY <1>2 DEF Finish, blockVars
<1>3. QED
  BY <1>1, <1>2, LetContinues, StoreContinues, ExpressionContinues, JumpContinues, OpenFacts,
     NextFacts, CloseFacts DEF MovesNext

LEMMA TypesKept ==
  ASSUME MovesTypeOK, Shapes, [MovesNext]_moveVars
  PROVE  MovesTypeOK'
<1>1. CASE Continues
  BY <1>1, StayFrames DEF Continues, MovesTypeOK
<1>2. ASSUME NEW s \in Upcoming, NEW way \in Ways(s), Opens(s, way) PROVE MovesTypeOK'
  BY <1>2, OpenFrames DEF Opens, MovesTypeOK
<1>3. CASE Advances
  BY <1>3 DEF Advances, MovesTypeOK
<1>4. CASE Closes
  BY <1>4 DEF Closes, MovesTypeOK
<1>5. CASE UNCHANGED <<blockVars, locals, route, astray>>
  BY <1>5 DEF MovesTypeOK, blockVars
<1>6. CASE UNCHANGED moveVars
  BY <1>6 DEF MovesTypeOK, moveVars
<1>7. QED
  BY <1>1, <1>2, <1>3, <1>4, <1>5, <1>6, StepCases

LEMMA InitialBlock ==
  ASSUME NEW functions \in SUBSET Functions, MovesInit(functions)
  PROVE  /\ MovesTypeOK /\ Depth = 1 /\ Frame(1) = block
         /\ Shaped(block) /\ block.base.env = {} /\ ~block.loop /\ ~block.returns
         /\ Len(block.branches) = 1 /\ Comes(block) /\ block.hides = Binds(block)
         /\ locals.moved = {} /\ (\A n \in locals.env : route.env[n].live) /\ route.end = "next"
<1>1. PICK function \in functions :
        /\ block = Block(<<Arm(function.parameters, function.body)>>, FALSE,
                         [env |-> {}, moved |-> {}], 1, [n \in LocalNames |-> Unbound])
        /\ locals = Declare([env |-> {}, moved |-> {}], function.parameters)
        /\ route = Along([n \in LocalNames |->
                            IF n \in function.parameters
                            THEN Binding(n \in MutableParameters(function)) ELSE Unbound], "next")
  BY DEF MovesInit
<1> DEFINE arms == <<Arm(function.parameters, function.body)>>
           nothing == [env |-> {}, moved |-> {}]
           unbound == [n \in LocalNames |-> Unbound]
<1>2. stack = <<>> /\ astray = FALSE
  BY DEF MovesInit
<1>3. function.parameters \in SUBSET LocalNames /\ function.body \in Seq(Statements)
  BY DEF Functions
<1>4. arms \in Arms /\ Len(arms) = 1
  BY <1>3 DEF Arms, Arm
<1>5. nothing \in Scopes /\ unbound \in Slotted
  BY DEF Scopes, Slotted, Slots, Unbound
<1>6. block \in Blocks /\ Shaped(block) /\ Current(block) = 1
  <2> HIDE DEF arms, nothing, unbound
  <2>1. 1 \in Int /\ Apart <= 1 /\ 1 <= Len(arms) /\ (1 = 0 => FALSE) /\ (FALSE => Len(arms) = 1)
        /\ Len(arms) \in Nat \ {0} /\ FALSE \in BOOLEAN
    BY <1>4 DEF Apart
  <2>2. block = Block(arms, FALSE, nothing, 1, unbound)
    BY <1>1 DEF arms, nothing, unbound
  <2>3. QED
    BY <1>4, <1>5, <2>1, <2>2, BlockTyped
<1>7. /\ block.base = nothing /\ ~block.loop /\ ~block.returns /\ block.way = 1
      /\ block.branches = arms /\ block.hides = arms[1].binds /\ block.done = <<>>
  BY <1>1 DEF Block
<1>8. locals \in Scopes /\ locals.moved = {} /\ locals.env = function.parameters
  BY <1>1, <1>3 DEF Declare, Scopes
<1>9. route \in Routes /\ route.end = "next" /\ \A n \in function.parameters : route.env[n].live
  <2> DEFINE env == [n \in LocalNames |->
                       IF n \in function.parameters
                       THEN Binding(n \in MutableParameters(function)) ELSE Unbound]
  <2>1. env \in Slotted
    BY DEF Slotted, Slots, Binding, Unbound
  <2>2. \A n \in function.parameters : env[n].live
    BY <1>3 DEF Binding
  <2> HIDE DEF env
  <2>3. route = Along(env, "next")
    BY <1>1 DEF env
  <2>4. QED
    BY <2>1, <2>2, <2>3, AlongTyped, EndsApart
<1>10. MovesTypeOK
  <2>1. stack \in Seq(Blocks)
    BY <1>2
  <2>2. QED
    BY <1>2, <1>6, <1>8, <1>9, <2>1 DEF MovesTypeOK
<1>11. Depth = 1 /\ Frame(1) = block
  BY <1>2 DEF Depth, Frame
<1>12. QED
  BY <1>6, <1>7, <1>8, <1>9, <1>10, <1>11 DEF Comes, Binds

LEMMA ShapesKept ==
  ASSUME MovesTypeOK, Shapes, [MovesNext]_moveVars
  PROVE  Shapes'
<1>0. /\ Depth \in Nat \ {0} /\ (\A i \in 1 .. Depth : Frame(i) \in Blocks)
      /\ \A i \in 1 .. Depth : i = Depth => Frame(i) = block
  BY FrameFacts DEF MovesTypeOK
<1>1. CASE Continues
  <2>1. Shaped(block')
    <3>1. Shaped(block)
      BY <1>0 DEF Shapes
    <3>2. QED
      BY <1>1, <3>1 DEF Continues, Shaped, Current
  <2>2. \A i \in 1 .. Depth : Shaped(Frame(i)') /\ Frame(i)'.base = Frame(i).base
    BY <1>0, <1>1, <2>1, StayFrames, SameShaped DEF Continues, Kept, Same, Shapes
  <2>3. Depth' = Depth /\ block'.base.env \subseteq locals'.env
    BY <1>1, StayFrames DEF Continues, Shapes
  <2>4. QED
    BY <2>2, <2>3 DEF Shapes
<1>2. ASSUME NEW s \in Upcoming, NEW way, Opens(s, way) PROVE Shapes'
  <2>1. Depth' = Depth + 1 /\ \A i \in 1 .. Depth + 1 : IF i = Depth + 1 THEN Frame(i)' = block' ELSE Kept(i)
    BY <1>2, OpenFrames
  <2>2. /\ Shaped(block') /\ block'.base = Consumed(s.value)
        /\ locals' = Declare(Consumed(s.value), Branches(s)[1].binds)
    BY <1>2 DEF Opens, Block
  <2>3. \A i \in 1 .. Depth + 1 : Shaped(Frame(i)')
    BY <1>0, <2>1, <2>2, SameShaped DEF Kept, Shapes
  <2>4. \A i \in 1 .. Depth : Frame(i)'.base = Frame(i).base
    BY <1>0, <2>1 DEF Kept, Same
  <2>5. block'.base.env = locals.env /\ block'.base.env \subseteq locals'.env
    BY <2>2 DEF Declare, Consumed
  <2>6. \A i, j \in 1 .. Depth + 1 : j = i + 1 => Frame(i)'.base.env \subseteq Frame(j)'.base.env
    BY <1>0, <2>1, <2>4, <2>5 DEF Shapes
  <2>7. QED
    BY <2>1, <2>3, <2>5, <2>6 DEF Shapes
<1>3. CASE Advances
  <2>1. Depth' = Depth /\ \A i \in 1 .. Depth : IF i = Depth THEN Frame(i)' = block' ELSE Kept(i)
    BY <1>3, StayFrames DEF Advances
  <2>2. Shaped(block')
    <3>1. Shaped(block) /\ block.base.env \subseteq locals.env
      BY <1>0 DEF Shapes
    <3>2. /\ block.done \in Seq(Scopes) /\ Current(block) \in Nat /\ Len(block.branches) \in Nat
          /\ Len(block.done) \in Nat
      BY BlockFields DEF MovesTypeOK
    <3> DEFINE ended == Unscope(locals, block.base, Binds(block))
               d == block.done
    <3>3. block.base.env \subseteq ended.env
      BY <3>1 DEF Unscope
    <3>4. /\ DOMAIN Append(d, ended) = 1 .. Len(d) + 1 /\ DOMAIN d = 1 .. Len(d)
          /\ \A k \in 1 .. Len(d) : Append(d, ended)[k] = d[k]
          /\ Append(d, ended)[Len(d) + 1] = ended
      <4> HIDE DEF ended, d
      <4> QED
        BY <3>2 DEF d
    <3>5. \A k \in DOMAIN block'.done : block.base.env \subseteq block'.done[k].env
      <4>1. block'.done = Append(d, ended)
        BY <1>3 DEF Advances
      <4> HIDE DEF ended
      <4>2. QED
        BY <3>1, <3>2, <3>3, <3>4, <4>1 DEF Shaped
    <3>6. QED
      BY <1>3, <3>1, <3>2, <3>5 DEF Advances, Shaped
  <2>3. \A i \in 1 .. Depth : Shaped(Frame(i)') /\ Frame(i)'.base = Frame(i).base
    BY <1>0, <1>3, <2>1, <2>2, SameShaped DEF Advances, Kept, Same, Shapes
  <2>4. block'.base.env \subseteq locals'.env
    BY <1>3 DEF Advances, Declare
  <2>5. QED
    BY <2>1, <2>3, <2>4 DEF Shapes
<1>4. CASE Closes
  <2>1. /\ Depth' = Depth - 1 /\ Depth - 1 \in Nat \ {0}
        /\ \A i \in 1 .. Depth - 1 : Same(Frame(i), Frame(i)')
    BY <1>4, CloseFrames DEF Kept
  <2>2. \A i \in 1 .. Depth - 1 : Shaped(Frame(i)') /\ Frame(i)'.base = Frame(i).base
    BY <1>0, <2>1, SameShaped DEF Same, Shapes
  <2>3. locals'.env = block.base.env /\ block'.base = Frame(Depth - 1).base
    BY <1>4, CloseFrames DEF Closes, Merge, Same
  <2>4. Frame(Depth - 1).base.env \subseteq block.base.env
    BY <1>0, <2>1 DEF Shapes
  <2>5. QED
    BY <1>0, <2>1, <2>2, <2>3, <2>4 DEF Shapes
<1>5. CASE UNCHANGED <<blockVars, locals, route, astray>>
  BY <1>5 DEF Shapes, Frame, Depth, blockVars
<1>6. CASE UNCHANGED moveVars
  BY <1>6 DEF Shapes, Frame, Depth, moveVars
<1>7. QED
  BY <1>1, <1>2, <1>3, <1>4, <1>5, <1>6, StepCases

------------------------------------------------------------------------------
(* Where the path is: it comes by a block only through the one around it,      *)
(* before anything there returned, and a block that it came through and that   *)
(* returns has ended it.                                                       *)

Together ==
  /\ \A i \in 1 .. Depth : i = 1 => Comes(Frame(i)) /\ ~Frame(i).loop /\ Len(Frame(i).branches) = 1
  /\ \A i, j \in 1 .. Depth : i < j /\ Frame(j).way # Apart => Comes(Frame(i)) /\ ~Frame(i).returns
  /\ \A i, j \in 1 .. Depth : j = i + 1 /\ route.end = "next" /\ Comes(Frame(i)) => Frame(j).way # Apart

Returned(b) == b.way \in 1 .. Len(b.done) /\ b.returning
Returning ==
  /\ \A i \in 1 .. Depth : Comes(Frame(i)) /\ Frame(i).returns => route.end # "next"
  /\ \A i, j \in 1 .. Depth : j = i + 1 /\ Comes(Frame(i)) /\ Returned(Frame(j)) => route.end # "next"

\* A path that jumped is still in the loop it left.
JumpsStay ==
  route.end \in Jumps => \E i \in 1 .. Depth : Comes(Frame(i)) /\ Frame(i).loop

Placed == Together /\ Returning /\ JumpsStay

LEMMA LeaveFacts ==
  ASSUME NEW b
  PROVE  /\ ~Comes(b) => Leave(b) = route
         /\ Comes(b) => /\ Leave(b).env = [n \in LocalNames |-> IF n \in b.hides THEN b.outside[n] ELSE route.env[n]]
                        /\ Leave(b).end = IF b.loop /\ route.end \in Jumps THEN "next" ELSE route.end
  BY DEF Leave, Along

LEMMA WayFacts ==
  ASSUME NEW b, NEW c, Same(b, c)
  PROVE  /\ (Comes(c) <=> Comes(b)) /\ c.way = b.way /\ c.loop = b.loop /\ c.branches = b.branches
         /\ (Returned(c) <=> Returned(b))
  BY DEF Same, Comes, Current, Returned

\* A statement in a block.
LEMMA ContinuesPlaced ==
  ASSUME MovesTypeOK, Placed, Continues
  PROVE  Placed'
<1>0. /\ Depth \in Nat \ {0} /\ (\A i \in 1 .. Depth : Frame(i) \in Blocks)
      /\ (\A i \in 1 .. Depth : i = Depth => Frame(i) = block) /\ Depth \in 1 .. Depth
  BY FrameFacts DEF MovesTypeOK
<1>1. Depth' = Depth /\ \A i \in 1 .. Depth : IF i = Depth THEN Frame(i)' = block' ELSE Kept(i)
  BY StayFrames DEF Continues
<1>2. \A i \in 1 .. Depth :
        /\ (Comes(Frame(i)') <=> Comes(Frame(i))) /\ Frame(i)'.way = Frame(i).way
        /\ Frame(i)'.loop = Frame(i).loop /\ Frame(i)'.branches = Frame(i).branches
        /\ (Returned(Frame(i)') <=> Returned(Frame(i)))
        /\ i # Depth => Frame(i)'.returns = Frame(i).returns
  <2> SUFFICES ASSUME NEW i \in 1 .. Depth
               PROVE  /\ (Comes(Frame(i)') <=> Comes(Frame(i))) /\ Frame(i)'.way = Frame(i).way
                      /\ Frame(i)'.loop = Frame(i).loop /\ Frame(i)'.branches = Frame(i).branches
                      /\ (Returned(Frame(i)') <=> Returned(Frame(i)))
                      /\ i # Depth => Frame(i)'.returns = Frame(i).returns
    OBVIOUS
  <2>1. CASE i = Depth
    BY <1>0, <1>1, <2>1 DEF Continues, Comes, Current, Returned
  <2>2. CASE i # Depth
    BY <1>1, <2>2, WayFacts DEF Kept
  <2>3. QED
    BY <2>1, <2>2
<1>3. /\ route'.end = "next" => route.end = "next"
      /\ block'.returns => block.returns \/ (Comes(block) => route'.end # "next")
      /\ route'.end \in Jumps => route.end \in Jumps \/ (InLoop /\ OnPath)
  BY DEF Continues
<1>4. Together'
  <2>1. \A i, j \in 1 .. Depth : i < j => i # Depth
    BY <1>0
  <2>2. QED
    BY <1>0, <1>1, <1>2, <1>3, <2>1 DEF Together, Placed
<1>5. Returning'
  BY <1>0, <1>1, <1>2, <1>3 DEF Returning, Placed
<1>6. JumpsStay'
  <2>1. OnPath /\ InLoop => \E i \in 1 .. Depth : Comes(Frame(i)) /\ Frame(i).loop
    <3> SUFFICES ASSUME OnPath, InLoop PROVE \E i \in 1 .. Depth : Comes(Frame(i)) /\ Frame(i).loop
      OBVIOUS
    <3>1. Comes(block) /\ block.way # Apart
      <4>1. Current(block) \in Nat
        BY BlockFields DEF MovesTypeOK
      <4>2. QED
        BY <4>1 DEF OnPath, Comes, Apart
    <3>2. \A i \in 1 .. Depth : Comes(Frame(i))
      BY <1>0, <3>1 DEF Placed, Together
    <3>3. \E i \in 1 .. Depth : Frame(i).loop
      <4>1. \A i \in DOMAIN stack : Frame(i) = stack[i] /\ i \in 1 .. Depth
        BY FrameFacts DEF MovesTypeOK
      <4>2. QED
        BY <1>0, <4>1 DEF InLoop
    <3>4. QED
      BY <3>2, <3>3
  <2>2. QED
    BY <1>1, <1>2, <1>3, <2>1 DEF JumpsStay, Placed
<1>7. QED
  BY <1>4, <1>5, <1>6 DEF Placed

\* A compound statement: the path comes along to its first block if it was here.
LEMMA OpensPlaced ==
  ASSUME MovesTypeOK, Placed, NEW s \in Upcoming, s.k \in Compound, NEW way \in Ways(s), Opens(s, way)
  PROVE  Placed'
<1>0. /\ Depth \in Nat \ {0} /\ (\A i \in 1 .. Depth : Frame(i) \in Blocks)
      /\ (\A i \in 1 .. Depth : i = Depth => Frame(i) = block) /\ Depth \in 1 .. Depth
  BY FrameFacts DEF MovesTypeOK
<1>1. Depth' = Depth + 1 /\ \A i \in 1 .. Depth + 1 : IF i = Depth + 1 THEN Frame(i)' = block' ELSE Kept(i)
  BY OpenFrames
<1>2. \A i \in 1 .. Depth :
        /\ (Comes(Frame(i)') <=> Comes(Frame(i))) /\ Frame(i)'.way = Frame(i).way
        /\ Frame(i)'.loop = Frame(i).loop /\ Frame(i)'.branches = Frame(i).branches
        /\ (Returned(Frame(i)') <=> Returned(Frame(i)))
        /\ Frame(i)'.returns = Frame(i).returns
  BY <1>0, <1>1, WayFacts DEF Kept
<1>3. /\ block'.way = way /\ ~block'.returns /\ Len(block'.done) = 0
      /\ (block'.loop <=> s.k \in Loops)
  BY DEF Opens, Block
<1>4. ~Returned(block')
  BY <1>3 DEF Returned
<1>5. route'.end = Evaluated(s).end
  BY DEF Opens, Along
<1>6. /\ ~Passes(s) => way = Apart
      /\ Passes(s) => way # Apart
  <2>1. Len(Branches(s)) \in Nat
    BY HeadTyped, BranchesTyped DEF MovesTypeOK
  <2>2. QED
    BY <2>1 DEF Ways, Apart
<1>7. /\ Passes(s) => route'.end = "next" /\ Comes(block) /\ route.end = "next"
      /\ route'.end = "next" => route.end = "next"
      /\ route'.end = "next" /\ ~Passes(s) => ~Comes(block)
      /\ route'.end \in Jumps => route.end \in Jumps
  BY <1>5, EvaluatedFacts, EndsApart DEF OnPath, MovesTypeOK
<1>8. Passes(s) => \A i \in 1 .. Depth : Comes(Frame(i)) /\ ~Frame(i).returns
  <2> SUFFICES ASSUME Passes(s) PROVE \A i \in 1 .. Depth : Comes(Frame(i)) /\ ~Frame(i).returns
    OBVIOUS
  <2>1. Comes(block) /\ block.way # Apart /\ ~block.returns
    <3>1. Current(block) \in Nat
      BY BlockFields DEF MovesTypeOK
    <3>2. QED
      BY <1>0, <1>7, <3>1 DEF Comes, Apart, Placed, Returning
  <2>2. QED
    BY <1>0, <2>1 DEF Placed, Together
<1>9. Together'
  <2>1. \A i \in 1 .. Depth + 1 : i = Depth + 1 \/ i \in 1 .. Depth
    BY <1>0
  <2>2. \A i \in 1 .. Depth + 1 : i = 1 => Comes(Frame(i)') /\ ~Frame(i)'.loop /\ Len(Frame(i)'.branches) = 1
    BY <1>0, <1>2 DEF Placed, Together
  <2>3. ASSUME NEW i \in 1 .. Depth + 1, NEW j \in 1 .. Depth + 1, i < j, Frame(j)'.way # Apart
        PROVE  Comes(Frame(i)') /\ ~Frame(i)'.returns
    <3>1. i \in 1 .. Depth
      BY <1>0, <2>3
    <3>2. CASE j = Depth + 1
      BY <1>1, <1>2, <1>3, <1>6, <1>8, <2>3, <3>1, <3>2
    <3>3. CASE j # Depth + 1
      BY <1>2, <2>1, <2>3, <3>1, <3>3 DEF Placed, Together
    <3>4. QED
      BY <3>2, <3>3
  <2>4. ASSUME NEW i \in 1 .. Depth + 1, NEW j \in 1 .. Depth + 1, j = i + 1, route'.end = "next",
               Comes(Frame(i)')
        PROVE  Frame(j)'.way # Apart
    <3>1. i \in 1 .. Depth
      BY <1>0, <2>4
    <3>2. CASE j = Depth + 1
      BY <1>0, <1>1, <1>2, <1>3, <1>6, <1>7, <2>4, <3>1, <3>2
    <3>3. CASE j # Depth + 1
      BY <1>2, <1>7, <2>1, <2>4, <3>1, <3>3 DEF Placed, Together
    <3>4. QED
      BY <3>2, <3>3
  <2>5. QED
    BY <1>1, <2>2, <2>3, <2>4 DEF Together
<1>10. Returning'
  <2>1. \A i \in 1 .. Depth + 1 : i = Depth + 1 \/ i \in 1 .. Depth
    BY <1>0
  <2>2. QED
    BY <1>0, <1>1, <1>2, <1>3, <1>4, <1>7, <2>1 DEF Returning, Placed
<1>11. JumpsStay'
  BY <1>0, <1>1, <1>2, <1>7 DEF JumpsStay, Placed
<1>12. QED
  BY <1>9, <1>10, <1>11 DEF Placed

\* The next branch: never of a loop, so that the path ends nowhere here.
LEMMA AdvancesPlaced ==
  ASSUME MovesTypeOK, Shapes, Placed, Advances
  PROVE  Placed'
<1>0. /\ Depth \in Nat \ {0} /\ (\A i \in 1 .. Depth : Frame(i) \in Blocks)
      /\ (\A i \in 1 .. Depth : i = Depth => Frame(i) = block) /\ Depth \in 1 .. Depth
  BY FrameFacts DEF MovesTypeOK
<1>1. Depth' = Depth /\ \A i \in 1 .. Depth : IF i = Depth THEN Frame(i)' = block' ELSE Kept(i)
  BY StayFrames DEF Advances
<1>2. \A i \in 1 .. Depth : i # Depth =>
        /\ (Comes(Frame(i)') <=> Comes(Frame(i))) /\ Frame(i)'.way = Frame(i).way
        /\ Frame(i)'.loop = Frame(i).loop /\ Frame(i)'.branches = Frame(i).branches
        /\ (Returned(Frame(i)') <=> Returned(Frame(i)))
        /\ Frame(i)'.returns = Frame(i).returns
  BY <1>1, WayFacts DEF Kept
<1>3. ~block.loop
  <2>1. Shaped(block)
    BY <1>0 DEF Shapes
  <2>2. Current(block) \in Nat \ {0}
    BY BlockFields DEF MovesTypeOK
  <2>3. QED
    BY <2>1, <2>2 DEF Shaped, Advances
<1>4. /\ block'.way = block.way /\ ~block'.returns /\ block'.loop = block.loop
      /\ block'.returning = (block.returning /\ block.returns)
      /\ Len(block'.done) = Len(block.done) + 1 /\ Len(block.done) \in Nat /\ block.way \in Int
  <2>1. block.done \in Seq(Scopes) /\ Len(block.done) \in Nat /\ block.way \in Int
    BY BlockFields DEF MovesTypeOK
  <2>2. QED
    BY <2>1 DEF Advances
<1>5. route'.end = route.end
  <2>1. route'.end = Leave(block).end
    BY DEF Advances, Along
  <2>2. QED
    BY <1>3, <2>1, LeaveFacts
<1>6. /\ Returned(block') => Returned(block) \/ (Comes(block) /\ block.returns)
      /\ Comes(block') => block.way # Apart
  <2>1. Comes(block') => block.way # Apart
    BY <1>4 DEF Comes, Current, Apart
  <2>2. ASSUME Returned(block'), ~(block.way \in 1 .. Len(block.done))
        PROVE  block.way = Len(block.done) + 1
    BY <1>4, <2>2 DEF Returned
  <2>3. QED
    BY <1>4, <2>1, <2>2 DEF Returned, Comes, Current
<1>7. \A i, j \in 1 .. Depth : j = i + 1 => i # Depth
  BY <1>0
<1>8. Together'
  <2>1. \A i \in 1 .. Depth : i = 1 => Comes(Frame(i)') /\ ~Frame(i)'.loop /\ Len(Frame(i)'.branches) = 1
    <3>1. Depth # 1
      <4>1. Current(block) \in Nat \ {0} /\ Len(block.branches) \in Nat
        BY BlockFields DEF MovesTypeOK
      <4>2. QED
        BY <1>0, <4>1 DEF Placed, Together, Advances
    <3>2. QED
      BY <1>2, <3>1 DEF Placed, Together
  <2>2. \A i, j \in 1 .. Depth : i < j => i # Depth
    BY <1>0
  <2>3. \A i, j \in 1 .. Depth : i < j /\ Frame(j)'.way # Apart => Comes(Frame(i)') /\ ~Frame(i)'.returns
    BY <1>0, <1>1, <1>2, <1>4, <2>2 DEF Placed, Together
  <2>4. \A i, j \in 1 .. Depth : j = i + 1 /\ route'.end = "next" /\ Comes(Frame(i)') => Frame(j)'.way # Apart
    BY <1>0, <1>1, <1>2, <1>4, <1>5, <1>7 DEF Placed, Together
  <2>5. QED
    BY <1>1, <2>1, <2>3, <2>4 DEF Together
<1>9. Returning'
  <2>1. \A i \in 1 .. Depth : Comes(Frame(i)') /\ Frame(i)'.returns => route'.end # "next"
    BY <1>0, <1>1, <1>2, <1>4, <1>5 DEF Placed, Returning
  <2>2. ASSUME NEW i \in 1 .. Depth, NEW j \in 1 .. Depth, j = i + 1, Comes(Frame(i)'), Returned(Frame(j)')
        PROVE  route'.end # "next"
    <3>1. i # Depth /\ Comes(Frame(i))
      BY <1>2, <1>7, <2>2
    <3>2. CASE j = Depth
      <4>1. Returned(block) \/ (Comes(block) /\ block.returns)
        BY <1>1, <1>6, <2>2, <3>2
      <4>2. Frame(j) = block
        BY <1>0, <3>2
      <4>3. QED
        BY <1>5, <2>2, <3>1, <4>1, <4>2 DEF Placed, Returning
    <3>3. CASE j # Depth
      BY <1>2, <1>5, <2>2, <3>1, <3>3 DEF Placed, Returning
    <3>4. QED
      BY <3>2, <3>3
  <2>3. QED
    BY <1>1, <2>1, <2>2 DEF Returning
<1>10. JumpsStay'
  <2>1. \A i \in 1 .. Depth : Frame(i).loop => i # Depth
    BY <1>0, <1>3
  <2>2. QED
    BY <1>1, <1>2, <1>5, <2>1 DEF JumpsStay, Placed
<1>11. QED
  BY <1>8, <1>9, <1>10 DEF Placed

\* The end of a compound statement: a path that is still going has not come
\* through branches that all return, and a loop it jumped out of goes on here.
LEMMA ClosesPlaced ==
  ASSUME MovesTypeOK, Shapes, Placed, Closes
  PROVE  Placed'
<1>0. /\ Depth \in Nat \ {0} /\ (\A i \in 1 .. Depth : Frame(i) \in Blocks)
      /\ (\A i \in 1 .. Depth : i = Depth => Frame(i) = block) /\ Depth \in 1 .. Depth
      /\ Current(block) \in Nat \ {0} /\ block.way \in Int /\ Len(block.done) = Current(block) - 1
  BY FrameFacts, BlockFields DEF MovesTypeOK, Current
<1>1. /\ Depth' = Depth - 1 /\ Depth - 1 \in Nat \ {0}
      /\ \A i \in 1 .. Depth - 1 :
           IF i = Depth - 1 THEN Frame(i)' = block' /\ Same(Frame(i), Frame(i)') ELSE Kept(i)
  BY CloseFrames
<1>2. \A i \in 1 .. Depth - 1 :
        /\ (Comes(Frame(i)') <=> Comes(Frame(i))) /\ Frame(i)'.way = Frame(i).way
        /\ Frame(i)'.loop = Frame(i).loop /\ Frame(i)'.branches = Frame(i).branches
        /\ (Returned(Frame(i)') <=> Returned(Frame(i)))
        /\ i # Depth - 1 => Frame(i)'.returns = Frame(i).returns
  BY <1>1, WayFacts DEF Kept
<1>3. \A i \in 1 .. Depth - 1 : i = Depth - 1 => Frame(i)'.returns = (Frame(i).returns \/ Returns(block))
  BY <1>1, CloseFrames DEF Closes
<1>4. \A i \in 1 .. Depth - 1 : i \in 1 .. Depth /\ i < Depth /\ (i = Depth - 1 => Depth = i + 1)
  BY <1>0
<1>5. /\ Shaped(block) /\ Current(block) = Len(block.branches)
      /\ block.way # Apart => block.way \in 0 .. Current(block)
  <2>1. Shaped(block)
    BY <1>0 DEF Shapes
  <2>2. QED
    BY <1>0, <2>1 DEF Shaped, Closes, Apart
\* The path comes on from an ended block only out of a loop, with all around it.
<1>6. /\ route' = Leave(block)
      /\ route'.end = "next" => route.end = "next" \/ (Comes(block) /\ block.loop)
      /\ route'.end \in Jumps => route.end \in Jumps /\ ~(Comes(block) /\ block.loop)
      /\ ~block.loop => route'.end = route.end
  BY LeaveFacts, EndsApart DEF Closes
<1>7. Comes(block) => \A i \in 1 .. Depth - 1 :
                        Comes(Frame(i)) /\ ~Frame(i).returns /\ Frame(i).way # Apart /\ ~Returned(Frame(i))
  <2> SUFFICES ASSUME Comes(block), NEW i \in 1 .. Depth - 1
               PROVE  Comes(Frame(i)) /\ ~Frame(i).returns /\ Frame(i).way # Apart /\ ~Returned(Frame(i))
    OBVIOUS
  <2>1. block.way # Apart
    BY <1>0 DEF Comes, Apart
  <2>2. Comes(Frame(i)) /\ ~Frame(i).returns
    BY <1>0, <1>4, <2>1 DEF Placed, Together
  <2>3. Len(Frame(i).done) \in Nat
    BY <1>0, <1>4, BlockFields
  <2>4. QED
    BY <2>2, <2>3 DEF Comes, Current, Returned, Apart
<1>8. Together'
  <2>1. \A i \in 1 .. Depth - 1 : i = 1 => Comes(Frame(i)') /\ ~Frame(i)'.loop /\ Len(Frame(i)'.branches) = 1
    BY <1>2, <1>4 DEF Placed, Together
  <2>2. ASSUME NEW i \in 1 .. Depth - 1, NEW j \in 1 .. Depth - 1, i < j, Frame(j)'.way # Apart
        PROVE  Comes(Frame(i)') /\ ~Frame(i)'.returns
    <3>1. i # Depth - 1
      BY <1>0, <2>2
    <3>2. QED
      BY <1>2, <1>4, <2>2, <3>1 DEF Placed, Together
  <2>3. ASSUME NEW i \in 1 .. Depth - 1, NEW j \in 1 .. Depth - 1, j = i + 1, route'.end = "next",
               Comes(Frame(i)')
        PROVE  Frame(j)'.way # Apart
    <3>1. CASE route.end = "next"
      BY <1>2, <1>4, <2>3, <3>1 DEF Placed, Together
    <3>2. CASE Comes(block)
      BY <1>2, <1>7, <3>2
    <3>3. QED
      BY <1>6, <2>3, <3>1, <3>2
  <2>4. QED
    BY <1>1, <2>1, <2>2, <2>3 DEF Together
<1>9. Returning'
  <2>1. ASSUME NEW i \in 1 .. Depth - 1, Comes(Frame(i)'), Frame(i)'.returns
        PROVE  route'.end # "next"
    <3>1. Comes(Frame(i))
      BY <1>2, <2>1
    <3>2. CASE Frame(i).returns
      <4>1. route.end # "next" /\ ~Comes(block)
        BY <1>4, <1>7, <3>1, <3>2 DEF Placed, Returning
      <4>2. QED
        BY <1>6, <4>1
    <3>3. CASE ~Frame(i).returns
      <4>1. i = Depth - 1 /\ Returns(block) /\ Depth = i + 1
        BY <1>2, <1>3, <1>4, <2>1, <3>3
      <4>2. ~block.loop /\ block.returning /\ block.returns
        BY <4>1 DEF Returns
      <4>3. SUFFICES ASSUME route.end = "next" PROVE FALSE
        BY <1>6, <4>2
      <4>4. block.way # Apart
        BY <1>0, <1>4, <3>1, <4>1, <4>3 DEF Placed, Together
      <4>5. block.way # 0
        BY <1>5, <4>2 DEF Shaped
      <4>6. block.way = Current(block) \/ block.way \in 1 .. Len(block.done)
        BY <1>0, <1>5, <4>4, <4>5
      <4>7. ~Comes(block)
        BY <1>0, <4>2, <4>3 DEF Placed, Returning
      <4>8. Returned(block)
        BY <4>2, <4>6, <4>7 DEF Comes, Returned
      <4>9. QED
        BY <1>0, <1>4, <3>1, <4>1, <4>3, <4>8 DEF Placed, Returning
    <3>4. QED
      BY <3>2, <3>3
  <2>2. ASSUME NEW i \in 1 .. Depth - 1, NEW j \in 1 .. Depth - 1, j = i + 1, Comes(Frame(i)'),
               Returned(Frame(j)')
        PROVE  route'.end # "next"
    <3>1. Comes(Frame(i)) /\ Returned(Frame(j))
      BY <1>2, <2>2
    <3>2. route.end # "next" /\ ~Comes(block)
      BY <1>4, <1>7, <2>2, <3>1 DEF Placed, Returning
    <3>3. QED
      BY <1>6, <3>2
  <2>3. QED
    BY <1>1, <2>1, <2>2 DEF Returning
<1>10. JumpsStay'
  <2> SUFFICES ASSUME route'.end \in Jumps
               PROVE  \E i \in 1 .. Depth - 1 : Comes(Frame(i)') /\ Frame(i)'.loop
    BY <1>1 DEF JumpsStay
  <2>1. PICK i \in 1 .. Depth : Comes(Frame(i)) /\ Frame(i).loop
    BY <1>6 DEF Placed, JumpsStay
  <2>2. i # Depth
    BY <1>0, <1>6, <2>1
  <2>3. i \in 1 .. Depth - 1
    BY <1>0, <2>2
  <2>4. QED
    BY <1>2, <2>1, <2>3
<1>11. QED
  BY <1>8, <1>9, <1>10 DEF Placed

LEMMA PlacedKept ==
  ASSUME MovesTypeOK, Shapes, Placed, [MovesNext]_moveVars
  PROVE  Placed'
<1>1. ASSUME UNCHANGED <<blockVars, route>> PROVE Placed'
  BY <1>1 DEF Placed, Together, Returning, JumpsStay, Frame, Depth, blockVars
<1>2. ASSUME NEW s \in Upcoming, OpenCompound(s), NEW way \in Ways(s), Opens(s, way) PROVE Placed'
  BY <1>2, OpensPlaced DEF OpenCompound
<1>3. CASE UNCHANGED moveVars
  BY <1>1, <1>3 DEF moveVars, blockVars
<1>4. QED
  BY <1>1, <1>2, <1>3, StepCases, ContinuesPlaced, AdvancesPlaced, ClosesPlaced

------------------------------------------------------------------------------
(* Every path returns.                                                         *)

RefusalCodes == {"none", "CRAB112", "CRAB116", "CRAB117", "CRAB118", "CRAB226", "CRAB227"}

LEMMA OutcomeFacts ==
  ASSUME MovesNext
  PROVE  Lowering /\ (Lowered' => Finish)
<1>1. \A s : Refusal(s) \in RefusalCodes
  BY DEF Refusal, RefusalCodes
<1>2. ASSUME NEW s, Refuse(s) PROVE ~Lowered'
  BY <1>1, <1>2 DEF Refuse, Lowered, RefusalCodes
<1>3. QED
  BY <1>2 DEF MovesNext, Lowering, Lowered, LowerLet, LowerStore, LowerExpression, LowerJump,
              OpenCompound, NextBranch, CloseCompound

MovesInv == MovesTypeOK /\ Shapes /\ Placed

LEMMA MovesInitial ==
  ASSUME NEW functions \in SUBSET Functions, MovesInit(functions)
  PROVE  MovesInv
<1>1. /\ MovesTypeOK /\ Depth = 1 /\ Frame(1) = block /\ 1 .. Depth = {1}
      /\ Shaped(block) /\ block.base.env = {} /\ ~block.loop /\ ~block.returns
      /\ Comes(block) /\ route.end = "next" /\ Len(block.branches) = 1
  BY InitialBlock
<1>2. Shapes
  BY <1>1 DEF Shapes
<1>3. Placed
  BY <1>1, EndsApart DEF Placed, Together, Returning, JumpsStay
<1>4. QED
  BY <1>1, <1>2, <1>3 DEF MovesInv

LEMMA MovesInvKept == MovesInv /\ [MovesNext]_moveVars => MovesInv'
  BY TypesKept, ShapesKept, PlacedKept DEF MovesInv

\* The function's own block ends: it is no loop, and it returns.
LEMMA FinishReturns ==
  ASSUME MovesInv, Finish, Lowered'
  PROVE  route.end \in {"return", "reused", "immutable"}
<1>1. stack = <<>> /\ block.returns
  BY DEF Finish, Lowered
<1>2. Depth = 1 /\ 1 .. Depth = {1} /\ Frame(1) = block
  BY <1>1 DEF Depth, Frame
<1>3. Comes(block) /\ ~block.loop
  BY <1>2 DEF MovesInv, Placed, Together
<1>4. route.end # "next"
  BY <1>1, <1>2, <1>3 DEF MovesInv, Placed, Returning
<1>5. route.end \notin Jumps
  BY <1>2, <1>3 DEF MovesInv, Placed, JumpsStay
<1>6. route.end \in Ends
  BY RouteFields DEF MovesInv, MovesTypeOK
<1>7. QED
  BY <1>4, <1>5, <1>6 DEF Ends

(* A function that the frontend lowers returns on every path that goes round   *)
(* each loop at most once and that rustc does not reject: for any functions,   *)
(* block_returns is sound (CRAB109), and break and continue stay within loops  *)
(* (CRAB117, CRAB118).                                                         *)
THEOREM LoweredReturns ==
  ASSUME NEW functions \in SUBSET Functions
  PROVE  MovesSpec(functions) => []ReturnsOnEveryPath
<1>1. MovesInit(functions) => MovesInv /\ ReturnsOnEveryPath
  BY MovesInitial DEF MovesInit, ReturnsOnEveryPath, Lowered
<1>2. MovesInv /\ ReturnsOnEveryPath /\ [MovesNext]_moveVars => MovesInv' /\ ReturnsOnEveryPath'
  <2> SUFFICES ASSUME MovesInv, ReturnsOnEveryPath, [MovesNext]_moveVars
               PROVE  MovesInv' /\ ReturnsOnEveryPath'
    OBVIOUS
  <2>1. MovesInv'
    BY MovesInvKept
  <2>2. CASE MovesNext
    <3>1. Finish /\ Lowered' => route'.end \in {"return", "reused", "immutable"}
      BY FinishReturns DEF Finish
    <3>2. QED
      BY <2>1, <2>2, <3>1, OutcomeFacts DEF ReturnsOnEveryPath
  <2>3. CASE UNCHANGED moveVars
    BY <2>1, <2>3 DEF ReturnsOnEveryPath, Lowered, moveVars
  <2>4. QED
    BY <2>2, <2>3
<1>3. QED
  BY <1>1, <1>2, PTL DEF MovesSpec

------------------------------------------------------------------------------
(* What the local states promise: while a path goes on that has not strayed,   *)
(* each name in scope that they do not hold consumed is live on it.            *)

Sound(scope, env) == \A n \in scope.env \ scope.moved : env[n].live

\* The local states after the branch the path took, or before the statement if
\* it has not taken one yet.
Reached(b) == [env |-> b.base.env,
             moved |-> IF b.way \in 1 .. Len(b.done) THEN b.done[b.way].moved ELSE b.base.moved]

\* The end of a branch restores what the branch binds, as it was.
Restores(b) ==
  /\ b.hides \intersect b.base.env \subseteq Binds(b)
  /\ Binds(b) \subseteq b.hides
  /\ \A n \in (Binds(b) \intersect b.base.env) \ b.base.moved : b.outside[n].live

Going == ~astray /\ route.end = "next"
Promised ==
  /\ Comes(block) => Sound(locals, route.env)
  /\ \A i, j \in 1 .. Depth : j = i + 1 /\ Comes(Frame(i)) /\ ~Comes(Frame(j)) =>
                                Sound(Reached(Frame(j)), route.env)
  /\ \A i \in 1 .. Depth : Comes(Frame(i)) => Restores(Frame(i))

Followed ==
  /\ ~astray => route.end # "reused"
  /\ Going => Promised

LEMMA AcceptedReads ==
  ASSUME NEW s, s.k \notin Jumps, Refusal(s) = "none"
  PROVE  \A n \in ToSet(s.value.reads) : n \in locals.env \ locals.moved
<1> DEFINE bad == {i \in DOMAIN s.value.reads : s.value.reads[i] \notin locals.env \ locals.moved}
<1>1. bad = {}
  BY DEF Refusal
<1>2. QED
  BY <1>1 DEF ToSet

\* Evaluating an accepted expression: nothing consumed is read, and what it
\* consumes the local states hold consumed.
LEMMA EvaluatedSound ==
  ASSUME MovesTypeOK, NEW s, s.k \notin Jumps, Refusal(s) = "none", OnPath, Sound(locals, route.env)
  PROVE  /\ Evaluated(s).end # "reused"
         /\ Passes(s) => Sound(Consumed(s.value), Evaluated(s).env)
<1> DEFINE e == s.value
           env == route.env
           after == [n \in LocalNames |-> [live |-> env[n].live /\ n \notin e.takes \ CopyNames,
                                           mutable |-> env[n].mutable]]
<1>1. ~\E n \in ToSet(e.reads) : ~env[n].live
  BY AcceptedReads DEF Sound
<1>2. Evaluated(s) = IF \E n \in e.mutates : ~env[n].mutable THEN Along(env, "immutable")
                     ELSE Along(after, "next")
  BY <1>1 DEF Evaluated, Evaluate
<1>3. Passes(s) => Evaluated(s).env = after
  BY <1>2 DEF Passes, Along
<1>4. Sound(Consumed(e), after)
  <2> SUFFICES ASSUME NEW n \in Consumed(e).env \ Consumed(e).moved PROVE after[n].live
    BY DEF Sound
  <2>1. n \in locals.env \ locals.moved /\ n \notin e.takes \ CopyNames
    BY DEF Consumed
  <2>2. env[n].live /\ n \in LocalNames
    BY <2>1 DEF Sound, MovesTypeOK, Scopes
  <2>3. QED
    BY <2>1, <2>2
<1>5. QED
  BY <1>2, <1>3, <1>4 DEF Along

LEMMA BoundSound ==
  ASSUME NEW scope \in Scopes, NEW env, Sound(scope, env), NEW names \in SUBSET LocalNames, NEW mutable
  PROVE  Sound(Declare(scope, names), Bound(env, names, mutable))
<1> SUFFICES ASSUME NEW n \in Declare(scope, names).env \ Declare(scope, names).moved
             PROVE  Bound(env, names, mutable)[n].live
  BY DEF Sound
<1>1. n \in LocalNames /\ (n \notin names => n \in scope.env \ scope.moved)
  BY DEF Declare, Scopes
<1>2. QED
  BY <1>1 DEF Bound, Binding, Sound

\* A block the path comes by has all the blocks around it on the path.
LEMMA AllCome ==
  ASSUME MovesTypeOK, Placed, Comes(block)
  PROVE  \A i \in 1 .. Depth : Comes(Frame(i))
<1>1. /\ Depth \in Nat \ {0} /\ (\A i \in 1 .. Depth : i = Depth => Frame(i) = block) /\ Depth \in 1 .. Depth
  BY FrameFacts DEF MovesTypeOK
<1>2. block.way # Apart
  <2>1. Current(block) \in Nat
    BY BlockFields DEF MovesTypeOK
  <2>2. QED
    BY <2>1 DEF Comes, Apart
<1>3. QED
  BY <1>1, <1>2 DEF Placed, Together

\* Lowering a statement with no blocks of its own, given what it does on the path.
LEMMA ContinuesFollowed ==
  ASSUME MovesInv, Followed, Continues,
         OnPath /\ ~astray' => route'.end # "reused",
         OnPath /\ ~astray' /\ route'.end = "next" => Sound(locals', route'.env) /\ Restores(block')
  PROVE  Followed'
<1> USE DEF MovesInv
<1>0. /\ Depth \in Nat \ {0} /\ (\A i \in 1 .. Depth : i = Depth => Frame(i) = block) /\ Depth \in 1 .. Depth
      /\ \A i, j \in 1 .. Depth : j = i + 1 => i # Depth
  BY FrameFacts DEF MovesTypeOK
<1>1. Depth' = Depth /\ \A i \in 1 .. Depth : IF i = Depth THEN Frame(i)' = block' ELSE Kept(i)
  BY StayFrames DEF Continues, MovesTypeOK
<1>2. /\ Binds(block') = Binds(block) /\ (Comes(block') <=> Comes(block))
      /\ Reached(block') = Reached(block)
      /\ ~OnPath => (Restores(block') <=> Restores(block))
  BY DEF Continues, Binds, Comes, Current, Reached, Restores
<1>3. \A i \in 1 .. Depth :
        /\ (Comes(Frame(i)') <=> Comes(Frame(i))) /\ Reached(Frame(i)') = Reached(Frame(i))
        /\ i # Depth \/ ~OnPath => (Restores(Frame(i)') <=> Restores(Frame(i)))
  <2> SUFFICES ASSUME NEW i \in 1 .. Depth
               PROVE  /\ (Comes(Frame(i)') <=> Comes(Frame(i))) /\ Reached(Frame(i)') = Reached(Frame(i))
                      /\ i # Depth \/ ~OnPath => (Restores(Frame(i)') <=> Restores(Frame(i)))
    OBVIOUS
  <2>1. CASE i = Depth
    BY <1>0, <1>1, <1>2, <2>1
  <2>2. CASE i # Depth
    <3>1. Same(Frame(i), Frame(i)')
      BY <1>1, <2>2 DEF Kept
    <3>2. QED
      BY <3>1, SameShaped DEF Same, Reached, Restores
  <2>3. QED
    BY <2>1, <2>2
<1>4. (astray => astray') /\ (route'.end = "next" => route.end = "next") /\ (~OnPath => route' = route)
  BY DEF Continues
<1>5. CASE OnPath
  <2>1. Comes(block) /\ route.end = "next"
    BY <1>5 DEF OnPath
  <2>2. \A i \in 1 .. Depth : Comes(Frame(i)')
    BY <1>3, <2>1, AllCome
  <2>3. ASSUME Going' PROVE Promised'
    <3>1. Going /\ Sound(locals', route'.env) /\ Restores(block')
      BY <1>4, <1>5, <2>3 DEF Going
    <3>2. \A i \in 1 .. Depth : Restores(Frame(i)')
      BY <1>0, <1>1, <1>3, <2>1, <3>1, AllCome DEF Followed, Promised
    <3>3. QED
      BY <1>1, <2>2, <3>1, <3>2 DEF Promised
  <2>4. ~astray' => route'.end # "reused"
    BY <1>5
  <2>5. QED
    BY <2>3, <2>4 DEF Followed
<1>6. CASE ~OnPath
  <2>1. route' = route
    BY <1>4, <1>6
  <2>2. ASSUME Going' PROVE Promised'
    <3>1. Going /\ Promised /\ ~Comes(block)
      BY <1>4, <1>6, <2>1, <2>2 DEF Going, OnPath, Followed
    <3>2. \A i, j \in 1 .. Depth : j = i + 1 /\ Comes(Frame(i)') /\ ~Comes(Frame(j)') =>
                                     Sound(Reached(Frame(j)'), route'.env)
      BY <1>3, <2>1, <3>1 DEF Promised
    <3>3. \A i \in 1 .. Depth : Comes(Frame(i)') => Restores(Frame(i)')
      BY <1>3, <1>6, <3>1 DEF Promised
    <3>4. ~Comes(block')
      BY <1>2, <3>1
    <3>5. QED
      BY <1>1, <3>2, <3>3, <3>4 DEF Promised
  <2>3. QED
    BY <1>4, <2>1, <2>2 DEF Followed
<1>7. QED
  BY <1>5, <1>6

\* On the path, what the block restores is unchanged unless it hides a name.
LEMMA OnPathFacts ==
  ASSUME MovesInv, Followed, OnPath, ~astray
  PROVE  Sound(locals, route.env) /\ Restores(block) /\ Promised
<1>1. Promised /\ Comes(block)
  BY DEF Followed, Going, OnPath
<1>2. Depth \in 1 .. Depth /\ \A i \in 1 .. Depth : i = Depth => Frame(i) = block
  BY FrameFacts DEF MovesInv, MovesTypeOK
<1>3. QED
  BY <1>1, <1>2 DEF Promised

LEMMA LetFollowed ==
  ASSUME MovesInv, Followed, NEW s \in Upcoming, LowerLet(s)
  PROVE  Followed'
<1> USE DEF MovesInv
<1>1. Continues /\ s.to \in LocalNames /\ s.k \notin Jumps /\ Refusal(s) = "none"
  <2>1. s \in Statements
    BY HeadTyped DEF MovesTypeOK
  <2>2. QED
    BY <2>1, LetContinues, StatementsAssumption DEF LowerLet, Bindings, Jumps
<1> SUFFICES ASSUME OnPath, ~astray'
             PROVE  /\ route'.end # "reused"
                    /\ route'.end = "next" => Sound(locals', route'.env) /\ Restores(block')
  BY <1>1, ContinuesFollowed
<1> DEFINE at == Evaluated(s)
           outside == [n \in LocalNames |-> IF n \in {s.to} \ block.hides THEN at.env[n] ELSE block.outside[n]]
<1>2. ~astray /\ Sound(locals, route.env) /\ Restores(block)
  BY <1>1, OnPathFacts DEF Continues
<1>3. at.end # "reused" /\ (Passes(s) => Sound(Consumed(s.value), at.env))
  BY <1>1, <1>2, EvaluatedSound
<1>4. /\ route' = Along(IF Passes(s) THEN Bound(at.env, {s.to}, LetMutable(s)) ELSE at.env, at.end)
      /\ locals' = Declare(Consumed(s.value), {s.to})
  BY DEF LowerLet
<1>5. route'.end = at.end
  BY <1>4 DEF Along
<1>6. ASSUME route'.end = "next" PROVE Sound(locals', route'.env) /\ Restores(block')
  <2>1. Passes(s)
    BY <1>5, <1>6 DEF Passes
  <2>2. Sound(locals', route'.env)
    <3>1. route'.env = Bound(at.env, {s.to}, LetMutable(s))
      BY <1>4, <2>1 DEF Along
    <3>2. Consumed(s.value) \in Scopes
      BY ConsumedTyped DEF MovesTypeOK
    <3> HIDE DEF at
    <3>3. QED
      BY <1>1, <1>3, <1>4, <2>1, <3>1, <3>2, BoundSound
  <2>3. /\ ({s.to} \intersect block.base.env) \ Binds(block) = {}
        /\ block'.hides = block.hides \union {s.to} /\ block'.outside = outside
        /\ block'.base = block.base /\ Binds(block') = Binds(block)
    <3>1. block' = [block EXCEPT !.todo = Tail(block.todo), !.hides = block.hides \union {s.to}, !.outside = outside]
      BY <2>1 DEF LowerLet
    <3>2. ({s.to} \intersect block.base.env) \ Binds(block) = {}
      BY <2>1 DEF LowerLet
    <3>3. block'.hides = block.hides \union {s.to} /\ block'.outside = outside
      <4> HIDE DEF outside
      <4> QED
        BY <3>1 DEF MovesTypeOK, Blocks
    <3>4. QED
      BY <1>1, <3>2, <3>3 DEF Continues, Binds, Current
  <2>4. \A n \in Binds(block) \intersect block.base.env : block'.outside[n] = block.outside[n]
    <3>1. block.base.env \subseteq LocalNames
      BY BlockFields DEF MovesTypeOK
    <3>2. QED
      BY <1>2, <2>3, <3>1 DEF Restores
  <2>5. Restores(block')
    BY <1>2, <2>3, <2>4 DEF Restores
  <2>6. QED
    BY <2>2, <2>5
<1>7. QED
  BY <1>3, <1>5, <1>6

LEMMA StoreFollowed ==
  ASSUME MovesInv, Followed, NEW s \in Upcoming, LowerStore(s)
  PROVE  Followed'
<1> USE DEF MovesInv
<1>1. Continues /\ s.k \notin Jumps /\ Refusal(s) = "none"
  BY StoreContinues DEF LowerStore, Bindings, Jumps
<1> SUFFICES ASSUME OnPath, ~astray'
             PROVE  /\ route'.end # "reused"
                    /\ route'.end = "next" => Sound(locals', route'.env) /\ Restores(block')
  BY <1>1, ContinuesFollowed
<1> DEFINE at == Evaluated(s)
           base == Consumed(s.value)
<1>2. ~astray /\ Sound(locals, route.env) /\ Restores(block)
  BY <1>1, OnPathFacts DEF Continues
<1>3. at.end # "reused" /\ (Passes(s) => Sound(base, at.env))
  BY <1>1, <1>2, EvaluatedSound
<1>4. route' = IF ~Passes(s) THEN at
               ELSE IF ~at.env[s.to].mutable THEN Along(at.env, "immutable")
               ELSE Along(Bound(at.env, {s.to}, TRUE), "next")
  BY DEF LowerStore
<1>5. route'.end # "reused"
  BY <1>3, <1>4 DEF Along
<1>6. Restores(block')
  <2>1. block' = [block EXCEPT !.todo = Tail(block.todo)]
    BY DEF LowerStore
  <2>2. Same(block, block')
    BY <2>1 DEF MovesTypeOK, Blocks, Same
  <2>3. QED
    BY <1>2, <2>2, SameShaped DEF Same, Restores
<1>7. ASSUME route'.end = "next" PROVE Sound(locals', route'.env)
  <2>1. Passes(s)
    BY <1>4, <1>7 DEF Passes
  <2>2. route'.env = Bound(at.env, {s.to}, TRUE)
    BY <1>4, <1>7, <2>1 DEF Along
  <2>3. base \in Scopes
    BY ConsumedTyped DEF MovesTypeOK
  <2>4. s.to \notin LocalNames => Declare(base, {s.to}).moved = base.moved
    BY <2>3 DEF Declare, Scopes
  <2>5. \A n \in base.env \ base.moved : route'.env[n].live
    BY <1>3, <2>1, <2>2, <2>3 DEF Sound, Bound, Binding, Scopes
  <2>6. s.to \in LocalNames => route'.env[s.to].live
    BY <2>2 DEF Bound, Binding
  <2>7. locals' = base \/ (locals' = Declare(base, {s.to}) /\ s.to \in LocalNames)
    <3>1. s \in Statements
      BY HeadTyped DEF MovesTypeOK
    <3>2. QED
      BY <3>1, StatementsAssumption DEF LowerStore
  <2>8. QED
    BY <2>5, <2>6, <2>7 DEF Sound, Declare
<1>8. QED
  BY <1>5, <1>6, <1>7

LEMMA ExpressionFollowed ==
  ASSUME MovesInv, Followed, NEW s \in Upcoming, LowerExpression(s)
  PROVE  Followed'
<1> USE DEF MovesInv
<1>1. Continues /\ s.k \notin Jumps /\ Refusal(s) = "none"
  BY ExpressionContinues DEF LowerExpression, Jumps
<1> SUFFICES ASSUME OnPath, ~astray'
             PROVE  /\ route'.end # "reused"
                    /\ route'.end = "next" => Sound(locals', route'.env) /\ Restores(block')
  BY <1>1, ContinuesFollowed
<1>2. ~astray /\ Sound(locals, route.env) /\ Restores(block)
  BY <1>1, OnPathFacts DEF Continues
<1>3. Evaluated(s).end # "reused" /\ (Passes(s) => Sound(Consumed(s.value), Evaluated(s).env))
  BY <1>1, <1>2, EvaluatedSound
<1>4. /\ route' = Along(Evaluated(s).env, IF Passes(s) /\ s.k = "return" THEN "return" ELSE Evaluated(s).end)
      /\ locals' = Consumed(s.value)
      /\ block' = [block EXCEPT !.todo = Tail(block.todo), !.returns = (block.returns \/ s.k = "return")]
  BY DEF LowerExpression
<1>5. Same(block, block')
  BY <1>4 DEF MovesTypeOK, Blocks, Same
<1>6. Restores(block')
  BY <1>2, <1>5, SameShaped DEF Same, Restores
<1>7. /\ route'.env = Evaluated(s).env
      /\ route'.end = IF Passes(s) /\ s.k = "return" THEN "return" ELSE Evaluated(s).end
  BY <1>4 DEF Along
<1>8. route'.end = "next" => Passes(s)
  BY <1>7 DEF Passes
<1>9. QED
  BY <1>3, <1>4, <1>6, <1>7, <1>8

LEMMA JumpFollowed ==
  ASSUME MovesInv, Followed, NEW s \in Upcoming, LowerJump(s)
  PROVE  Followed'
  BY JumpContinues, ContinuesFollowed DEF LowerJump, MovesInv

LEMMA SameFollowed ==
  ASSUME NEW b, NEW c, Same(b, c)
  PROVE  (Comes(c) <=> Comes(b)) /\ Reached(c) = Reached(b) /\ (Restores(c) <=> Restores(b))
  BY SameShaped DEF Same, Reached, Restores

\* A compound statement: on the path its first block starts from the bindings
\* the expression left, and so will the branch the path chose.
LEMMA OpensFollowed ==
  ASSUME MovesInv, Followed, NEW s \in Upcoming, s.k \in Compound, Refusal(s) = "none",
         NEW way \in Ways(s), Opens(s, way)
  PROVE  Followed'
<1> USE DEF MovesInv
<1> DEFINE at == Evaluated(s)
           base == Consumed(s.value)
           names == Branches(s)[1].binds
<1>0. /\ Depth \in Nat \ {0} /\ (\A i \in 1 .. Depth : i = Depth => Frame(i) = block) /\ Depth \in 1 .. Depth
      /\ \A i \in 1 .. Depth + 1 : i = Depth + 1 \/ i \in 1 .. Depth
      /\ \A i, j \in 1 .. Depth + 1 : j = i + 1 => i \in 1 .. Depth /\ (j = Depth + 1 => i = Depth)
  BY FrameFacts DEF MovesTypeOK
<1>1. Depth' = Depth + 1 /\ \A i \in 1 .. Depth + 1 : IF i = Depth + 1 THEN Frame(i)' = block' ELSE Kept(i)
  BY OpenFrames DEF MovesTypeOK
<1>2. \A i \in 1 .. Depth :
        /\ (Comes(Frame(i)') <=> Comes(Frame(i))) /\ Reached(Frame(i)') = Reached(Frame(i))
        /\ (Restores(Frame(i)') <=> Restores(Frame(i)))
  BY <1>0, <1>1, SameFollowed DEF Kept
<1>3. /\ block'.way = way /\ block'.done = <<>> /\ block'.base = base /\ block'.hides = names
      /\ block'.outside = at.env /\ block'.branches = Branches(s)
  BY DEF Opens, Block
<1>4. Binds(block') = names /\ (Comes(block') <=> way = 1) /\ Reached(block') = [env |-> base.env, moved |-> base.moved]
  BY <1>3 DEF Opens, Binds, Comes, Reached
<1>5. route'.end = at.end /\ route'.env = Entering(at.env, names, way = 1) /\ astray' = astray
      /\ locals' = Declare(base, names) /\ names \in SUBSET LocalNames
  BY DEF Opens, Along
<1>6. s.k \notin Jumps /\ base \in Scopes
  BY ConsumedTyped DEF Compound, Loops, Jumps, MovesTypeOK
<1> HIDE DEF at, base, names
<1>7. CASE OnPath
  <2>1. Comes(block) /\ route.end = "next" /\ \A i \in 1 .. Depth : Comes(Frame(i))
    BY <1>7, AllCome DEF OnPath
  <2>2. ~astray => at.end # "reused" /\ (Passes(s) => Sound(base, at.env))
    BY <1>6, <1>7, EvaluatedSound, OnPathFacts DEF at, base
  <2>3. ASSUME Going' PROVE Promised'
    <3>1. ~astray /\ Promised /\ Passes(s)
      BY <1>5, <1>7, <2>1, <2>3, EvaluatedFacts DEF Going, Followed, Passes, at
    <3>2. Sound(base, at.env)
      BY <2>2, <3>1
    <3>3. way = 1 => Sound(locals', route'.env)
      BY <1>5, <1>6, <3>2, BoundSound DEF Entering
    <3>4. way # 1 => Sound(Reached(block'), route'.env)
      BY <1>4, <1>5, <3>2 DEF Entering, Sound
    <3>5. Restores(block')
      BY <1>3, <1>4, <3>2 DEF Restores, Sound
    <3>6. \A i, j \in 1 .. Depth + 1 : j = i + 1 /\ Comes(Frame(i)') /\ ~Comes(Frame(j)') =>
                                         Sound(Reached(Frame(j)'), route'.env)
      BY <1>0, <1>1, <1>2, <1>4, <2>1, <3>4
    <3>7. \A i \in 1 .. Depth + 1 : Comes(Frame(i)') => Restores(Frame(i)')
      BY <1>0, <1>1, <1>2, <2>1, <3>1, <3>5 DEF Promised
    <3>8. Comes(block') => Sound(locals', route'.env)
      BY <1>4, <3>3
    <3>9. QED
      BY <1>1, <3>6, <3>7, <3>8 DEF Promised
  <2>4. ~astray' => route'.end # "reused"
    BY <1>5, <2>2
  <2>5. QED
    BY <2>3, <2>4 DEF Followed
<1>8. CASE ~OnPath
  <2>1. at = route /\ way = Apart /\ way # 1
    BY <1>8, EvaluatedFacts DEF Ways, MovesTypeOK, Apart, at
  <2>2. route'.end = route.end /\ route'.env = route.env /\ ~Comes(block')
    BY <1>4, <1>5, <2>1 DEF Entering
  <2>3. ASSUME Going' PROVE Promised'
    <3>1. Promised /\ ~Comes(block)
      BY <1>5, <1>8, <2>2, <2>3 DEF Going, Followed, OnPath
    <3>2. \A i, j \in 1 .. Depth + 1 : j = i + 1 /\ Comes(Frame(i)') /\ ~Comes(Frame(j)') =>
                                         Sound(Reached(Frame(j)'), route'.env)
      <4> SUFFICES ASSUME NEW i \in 1 .. Depth + 1, NEW j \in 1 .. Depth + 1, j = i + 1, Comes(Frame(i)'),
                          ~Comes(Frame(j)')
                   PROVE  Sound(Reached(Frame(j)'), route'.env)
        OBVIOUS
      <4>1. i \in 1 .. Depth /\ Comes(Frame(i)) /\ i # Depth
        BY <1>0, <1>2, <3>1
      <4>2. j \in 1 .. Depth
        BY <1>0, <4>1
      <4>3. Sound(Reached(Frame(j)), route.env)
        BY <1>2, <3>1, <4>1, <4>2 DEF Promised
      <4>4. QED
        BY <1>2, <2>2, <4>2, <4>3
    <3>3. \A i \in 1 .. Depth + 1 : Comes(Frame(i)') => Restores(Frame(i)')
      BY <1>0, <1>1, <1>2, <2>2, <3>1 DEF Promised
    <3>4. QED
      BY <1>1, <2>2, <3>2, <3>3 DEF Promised
  <2>4. ~astray' => route'.end # "reused"
    BY <1>5, <2>2 DEF Followed
  <2>5. QED
    BY <2>3, <2>4 DEF Followed
<1>9. QED
  BY <1>7, <1>8

\* The bindings restored at the end of a branch the path took.
LEMMA LeaveSound ==
  ASSUME MovesTypeOK, Shapes, Comes(block), Restores(block), Sound(locals, route.env)
  PROVE  \A n \in block.base.env \ Unscope(locals, block.base, Binds(block)).moved : Leave(block).env[n].live
<1> SUFFICES ASSUME NEW n \in block.base.env \ Unscope(locals, block.base, Binds(block)).moved
             PROVE  Leave(block).env[n].live
  OBVIOUS
<1>1. n \in LocalNames /\ n \in locals.env
  BY BlockFields DEF MovesTypeOK, Shapes
<1>2. (n \notin Binds(block) => n \notin locals.moved) /\ (n \in Binds(block) => n \notin block.base.moved)
  BY DEF Unscope
<1>3. CASE n \in block.hides
  <2>1. n \in Binds(block) /\ block.outside[n].live
    BY <1>2, <1>3 DEF Restores
  <2>2. QED
    BY <1>1, <1>3, <2>1, LeaveFacts
<1>4. CASE n \notin block.hides
  <2>1. route.env[n].live
    BY <1>1, <1>2, <1>4 DEF Restores, Sound
  <2>2. QED
    BY <1>1, <1>4, <2>1, LeaveFacts
<1>5. QED
  BY <1>3, <1>4

\* The next branch: the one the path took has been left, the one it will take
\* starts from the bindings before the statement.
LEMMA AdvancesFollowed ==
  ASSUME MovesInv, Followed, Advances
  PROVE  Followed'
<1> USE DEF MovesInv
<1> DEFINE ended == Unscope(locals, block.base, Binds(block))
           next == block.branches[Current(block) + 1]
<1>0. /\ Depth \in Nat \ {0} /\ (\A i \in 1 .. Depth : i = Depth => Frame(i) = block) /\ Depth \in 1 .. Depth
      /\ \A i, j \in 1 .. Depth : j = i + 1 => i # Depth /\ i < j /\ (j = Depth => i = Depth - 1)
      /\ block.way \in Int /\ Len(block.done) \in Nat /\ block.done \in Seq(Scopes) /\ block.base \in Scopes
      /\ Current(block) = Len(block.done) + 1
  BY FrameFacts, BlockFields DEF MovesTypeOK, Current
<1>1. Depth' = Depth /\ \A i \in 1 .. Depth : IF i = Depth THEN Frame(i)' = block' ELSE Kept(i)
  BY StayFrames DEF Advances, MovesTypeOK
<1>2. \A i \in 1 .. Depth : i # Depth =>
        /\ (Comes(Frame(i)') <=> Comes(Frame(i))) /\ Reached(Frame(i)') = Reached(Frame(i))
        /\ (Restores(Frame(i)') <=> Restores(Frame(i)))
  BY <1>1, SameFollowed DEF Kept
<1>3. /\ block'.done = Append(block.done, ended) /\ Len(block'.done) = Len(block.done) + 1
      /\ block'.done[Len(block.done) + 1] = ended
      /\ \A k \in 1 .. Len(block.done) : block'.done[k] = block.done[k]
      /\ block'.base = block.base /\ block'.way = block.way
  <2>1. block'.done = Append(block.done, ended) /\ block'.base = block.base /\ block'.way = block.way
    BY DEF Advances
  <2> HIDE DEF ended
  <2>2. QED
    BY <1>0, <2>1
<1>4. (Comes(block') <=> block.way = Current(block) + 1) /\ (Comes(block) <=> block.way = Current(block))
  BY DEF Advances, Comes
<1>5. /\ route'.end = Leave(block).end /\ astray' = astray
      /\ route'.env = Entering(Leave(block).env, next.binds, block.way = Current(block) + 1)
      /\ block'.outside = Leave(block).env /\ block'.hides = next.binds /\ Binds(block') = next.binds
      /\ locals' = Declare(block.base, next.binds) /\ next.binds \in SUBSET LocalNames
  BY DEF Advances, Along
<1>6. ~block.loop
  <2>1. Shaped(block)
    BY <1>0 DEF Shapes
  <2>2. QED
    BY <1>0, <2>1 DEF Shaped, Advances, Current
<1>7. route'.end = route.end
  BY <1>5, <1>6, LeaveFacts
<1> HIDE DEF ended, next
<1>8. ASSUME Going' PROVE Promised'
  <2>1. Promised
    BY <1>5, <1>7, <1>8 DEF Going, Followed
  <2>2. \A i \in 1 .. Depth : i # Depth /\ Comes(Frame(i)') => Restores(Frame(i)')
    BY <1>2, <2>1 DEF Promised
  <2>3. CASE Comes(block)
    <3>0. block.way = Current(block) /\ block.way # Current(block) + 1
      BY <1>0, <1>4, <2>3
    <3>1. ~Comes(block') /\ route'.env = Leave(block).env
      BY <1>4, <1>5, <3>0 DEF Entering
    <3>2. \A i \in 1 .. Depth : i # Depth => Comes(Frame(i)')
      BY <1>2, <2>3, AllCome
    <3>3. Reached(block') = [env |-> block.base.env, moved |-> ended.moved]
      BY <1>0, <1>3, <1>4, <2>3 DEF Reached
    <3>4. Sound(Reached(block'), route'.env)
      <4>1. Restores(block) /\ Sound(locals, route.env)
        BY <1>0, <2>1, <2>3 DEF Promised
      <4>2. QED
        BY <2>3, <3>1, <3>3, <4>1, LeaveSound DEF Sound, ended
    <3>5. \A i, j \in 1 .. Depth : j = i + 1 /\ Comes(Frame(i)') /\ ~Comes(Frame(j)') =>
                                     Sound(Reached(Frame(j)'), route'.env)
      BY <1>1, <3>2, <3>4
    <3>6. \A i \in 1 .. Depth : Comes(Frame(i)') => Restores(Frame(i)')
      BY <1>1, <2>2, <3>1
    <3>7. QED
      BY <1>1, <3>1, <3>5, <3>6 DEF Promised
  <2>4. CASE block.way = Current(block) + 1
    <3>0. block.way # Current(block) /\ block.way # Apart
      BY <1>0, <2>4 DEF Apart
    <3>1. ~Comes(block) /\ Comes(block') /\ Leave(block) = route /\ block.way # Apart
      BY <1>4, <2>4, <3>0, LeaveFacts
    <3>2. \A i \in 1 .. Depth : i # Depth => Comes(Frame(i)) /\ i < Depth
      BY <1>0, <3>1 DEF Placed, Together
    <3>3. Depth # 1 /\ Depth - 1 \in 1 .. Depth /\ Depth - 1 # Depth
      BY <1>0, <3>1 DEF Placed, Together
    <3>4. Sound(Reached(block), route.env)
      <4>1. \A i \in 1 .. Depth : i = Depth - 1 => Comes(Frame(i)) /\ Depth = i + 1
        BY <1>0, <3>2, <3>3
      <4>2. QED
        BY <1>0, <2>1, <3>1, <3>3, <4>1 DEF Promised
    <3>5. Reached(block) = [env |-> block.base.env, moved |-> block.base.moved]
      BY <1>0, <2>4 DEF Reached
    <3>6. Sound(block.base, route.env)
      BY <3>4, <3>5 DEF Sound
    <3>7. Sound(locals', route'.env)
      BY <1>0, <1>5, <2>4, <3>1, <3>6, BoundSound DEF Entering
    <3>8. Restores(block')
      BY <1>3, <1>5, <3>1, <3>6 DEF Restores, Sound
    <3>9. \A i \in 1 .. Depth : Comes(Frame(i)')
      BY <1>1, <1>2, <3>1, <3>2
    <3>10. \A i \in 1 .. Depth : Restores(Frame(i)')
      BY <1>1, <2>2, <3>8, <3>9
    <3>11. QED
      BY <1>1, <3>7, <3>9, <3>10 DEF Promised
  <2>5. CASE block.way # Current(block) /\ block.way # Current(block) + 1
    <3>1. ~Comes(block) /\ ~Comes(block') /\ route'.env = route.env
      BY <1>4, <1>5, <2>5, LeaveFacts DEF Entering
    <3>2. Reached(block') = Reached(block)
      BY <1>0, <1>3, <2>5 DEF Reached
    <3>3. ASSUME NEW i \in 1 .. Depth, NEW j \in 1 .. Depth, j = i + 1, Comes(Frame(i)'), ~Comes(Frame(j)')
          PROVE  Sound(Reached(Frame(j)'), route'.env)
      <4>1. i # Depth /\ Comes(Frame(i))
        BY <1>0, <1>2, <3>3
      <4>2. ~Comes(Frame(j)) /\ Reached(Frame(j)') = Reached(Frame(j))
        BY <1>0, <1>1, <1>2, <3>1, <3>2, <3>3
      <4>3. Sound(Reached(Frame(j)), route.env)
        BY <2>1, <3>3, <4>1, <4>2 DEF Promised
      <4>4. QED
        BY <3>1, <4>2, <4>3
    <3>4. \A i \in 1 .. Depth : Comes(Frame(i)') => Restores(Frame(i)')
      BY <1>1, <2>2, <3>1
    <3>5. QED
      BY <1>1, <3>1, <3>3, <3>4 DEF Promised
  <2>6. QED
    BY <2>3, <2>4, <2>5, <1>4
<1>9. ~astray' => route'.end # "reused"
  BY <1>5, <1>7 DEF Followed
<1>10. QED
  BY <1>8, <1>9 DEF Followed

\* A jump strays.
Strays == route.end \in Jumps => astray

LEMMA StraysKept ==
  ASSUME MovesInv, Strays, [MovesNext]_moveVars
  PROVE  Strays'
<1> USE DEF MovesInv, Strays
<1>1. CASE Continues
  BY <1>1 DEF Continues
<1>2. ASSUME NEW s \in Upcoming, NEW way \in Ways(s), Opens(s, way) PROVE Strays'
  <2>1. Evaluated(s).end \in Jumps => route.end \in Jumps
    BY EvaluatedFacts, EndsApart DEF MovesTypeOK
  <2>2. route'.end = Evaluated(s).end /\ astray' = astray
    BY <1>2 DEF Opens, Along
  <2>3. QED
    BY <2>1, <2>2
<1>3. \A b : Leave(b).end \in Jumps => route.end \in Jumps
  BY LeaveFacts, EndsApart
<1>4. CASE Advances
  BY <1>3, <1>4 DEF Advances, Along
<1>5. CASE Closes
  BY <1>3, <1>5 DEF Closes
<1>6. CASE UNCHANGED <<blockVars, locals, route, astray>>
  BY <1>6
<1>7. CASE UNCHANGED moveVars
  BY <1>7 DEF moveVars
<1>8. QED
  BY <1>1, <1>2, <1>4, <1>5, <1>6, <1>7, StepCases

\* The end of a compound statement: whichever branch the path took, or none of a
\* loop, a local the branches' states leave unconsumed is live.
LEMMA ClosesFollowed ==
  ASSUME MovesInv, Strays, Followed, Closes
  PROVE  Followed'
<1> USE DEF MovesInv
<1> DEFINE ended == Unscope(locals, block.base, Binds(block))
           ends == {block.done[k] : k \in DOMAIN block.done} \union {ended}
                     \union (IF block.loop THEN {block.base} ELSE {})
<1>0. /\ Depth \in Nat \ {0} /\ (\A i \in 1 .. Depth : i = Depth => Frame(i) = block) /\ Depth \in 1 .. Depth
      /\ block.way \in Int /\ Len(block.done) \in Nat /\ block.done \in Seq(Scopes)
      /\ Current(block) = Len(block.done) + 1 /\ DOMAIN block.done = 1 .. Len(block.done)
  BY FrameFacts, BlockFields DEF MovesTypeOK, Current
<1>1. /\ Depth' = Depth - 1 /\ Depth - 1 \in Nat \ {0}
      /\ \A i \in 1 .. Depth - 1 : Same(Frame(i), Frame(i)')
      /\ \A i \in 1 .. Depth - 1 : i = Depth - 1 => Frame(i)' = block'
  BY CloseFrames DEF MovesTypeOK, Kept
<1>2. \A i \in 1 .. Depth - 1 :
        /\ (Comes(Frame(i)') <=> Comes(Frame(i))) /\ Reached(Frame(i)') = Reached(Frame(i))
        /\ (Restores(Frame(i)') <=> Restores(Frame(i)))
        /\ i \in 1 .. Depth /\ (i = Depth - 1 => Depth = i + 1)
  BY <1>0, <1>1, SameFollowed
<1>3. Shaped(block) /\ block.base.env \subseteq locals.env /\ Current(block) = Len(block.branches)
  BY <1>0 DEF Shapes, Closes
<1>4. route' = Leave(block) /\ astray' = astray /\ locals' = Merge(block.base, ends)
  BY DEF Closes
<1>5. ASSUME NEW n \in locals'.env \ locals'.moved
      PROVE  n \in block.base.env /\ \A e \in ends : n \notin e.env \/ n \notin e.moved
  <2> HIDE DEF ends
  <2> QED
    BY <1>4 DEF Merge
<1>6. ~astray => route'.end # "reused" /\ (route'.end = "next" => route.end = "next")
  BY <1>4, LeaveFacts, EndsApart DEF Strays, Followed
<1>7. ASSUME Going' PROVE Promised'
  <2>1. Promised /\ route.end = "next"
    BY <1>4, <1>6, <1>7 DEF Going, Followed
  <2>2. \A i \in 1 .. Depth - 1 : Comes(Frame(i)') => Restores(Frame(i)')
    BY <1>2, <2>1 DEF Promised
  <2>3. CASE Comes(block)
    <3>1. \A i \in 1 .. Depth - 1 : Comes(Frame(i)')
      BY <1>2, <2>3, AllCome
    <3>2. \A n \in block.base.env \ ended.moved : route'.env[n].live
      <4>1. Restores(block) /\ Sound(locals, route.env)
        BY <1>0, <2>1, <2>3 DEF Promised
      <4>2. QED
        BY <1>4, <2>3, <4>1, LeaveSound
    <3>3. \A n \in block.base.env : n \in ended.env
      BY <1>3 DEF Unscope
    <3>4. ended \in ends
      OBVIOUS
    <3>5. Sound(locals', route'.env)
      <4> HIDE DEF ended, ends
      <4> QED
        BY <1>5, <3>2, <3>3, <3>4 DEF Sound
    <3>6. QED
      BY <1>1, <2>2, <3>1, <3>5 DEF Promised
  <2>4. CASE ~Comes(block)
    <3>1. route' = route
      BY <1>4, <2>4, LeaveFacts
    <3>2. \A i, j \in 1 .. Depth - 1 : j = i + 1 /\ Comes(Frame(i)') /\ ~Comes(Frame(j)') =>
                                         Sound(Reached(Frame(j)'), route'.env)
      BY <1>2, <2>1, <3>1 DEF Promised
    <3>3. ASSUME Comes(block') PROVE Sound(locals', route'.env)
      <4>1. \A i \in 1 .. Depth - 1 : i = Depth - 1 => Comes(Frame(i)) /\ i \in 1 .. Depth /\ Depth = i + 1
        BY <1>1, <1>2, <3>3
      <4>2. Sound(Reached(block), route.env) /\ block.way # Apart
        <5>1. Depth - 1 \in 1 .. Depth - 1
          BY <1>0, <1>1
        <5>2. QED
          BY <1>0, <2>1, <2>4, <4>1, <5>1 DEF Promised, Placed, Together
      <4>3. block.way = 0 \/ block.way \in 1 .. Len(block.done)
        BY <1>0, <1>3, <2>4, <4>2 DEF Shaped, Comes, Apart
      <4>4. \E e \in ends : /\ block.base.env \subseteq e.env
                            /\ Reached(block) = [env |-> block.base.env, moved |-> e.moved]
        <5>1. CASE block.way = 0
          BY <1>3, <5>1 DEF Reached, Shaped
        <5>2. CASE block.way \in 1 .. Len(block.done)
          BY <1>0, <1>3, <5>2 DEF Reached, Shaped
        <5>3. QED
          BY <4>3, <5>1, <5>2
      <4>5. QED
        <5> HIDE DEF ends
        <5> QED
          BY <1>5, <3>1, <4>2, <4>4 DEF Sound
    <3>4. QED
      BY <1>1, <2>2, <3>2, <3>3 DEF Promised
  <2>5. QED
    BY <2>3, <2>4
<1>8. ~astray' => route'.end # "reused"
  BY <1>4, <1>6
<1>9. QED
  BY <1>7, <1>8 DEF Followed

LEMMA FollowedKept ==
  ASSUME MovesInv, Strays, Followed, [MovesNext]_moveVars
  PROVE  Followed'
<1>1. ASSUME UNCHANGED <<blockVars, locals, route, astray>> PROVE Followed'
  <2>1. UNCHANGED <<block, stack, locals, route, astray>>
    BY <1>1 DEF blockVars
  <2>2. Depth' = Depth /\ \A i : Frame(i)' = Frame(i)
    BY <2>1 DEF Depth, Frame
  <2>3. Promised' <=> Promised
    BY <2>1, <2>2 DEF Promised
  <2>4. QED
    BY <2>1, <2>3 DEF Followed, Going
<1>2. CASE MovesNext
  <2>1. ASSUME NEW s \in Upcoming, OpenCompound(s) PROVE Followed'
    <3>1. \E way \in Ways(s) : Opens(s, way)
      BY <2>1, OpenFacts DEF MovesInv
    <3>2. QED
      BY <2>1, <3>1, OpensFollowed DEF OpenCompound
  <2>2. CASE NextBranch
    BY <2>2, NextFacts, AdvancesFollowed DEF MovesInv
  <2>3. CASE CloseCompound
    BY <2>3, CloseFacts, ClosesFollowed DEF MovesInv
  <2>4. ASSUME NEW s \in Upcoming, Refuse(s) PROVE Followed'
    BY <1>1, <2>4 DEF Refuse
  <2>5. CASE Finish
    BY <1>1, <2>5 DEF Finish
  <2>6. QED
    BY <1>2, <2>1, <2>2, <2>3, <2>4, <2>5, LetFollowed, StoreFollowed, ExpressionFollowed, JumpFollowed
    DEF MovesNext
<1>3. CASE UNCHANGED moveVars
  BY <1>1, <1>3 DEF moveVars, blockVars
<1>4. QED
  BY <1>2, <1>3

LEMMA FollowedInitial ==
  ASSUME NEW functions \in SUBSET Functions, MovesInit(functions)
  PROVE  Strays /\ Followed
<1>1. /\ MovesTypeOK /\ Depth = 1 /\ Frame(1) = block /\ block.base.env = {} /\ Comes(block)
      /\ block.hides = Binds(block) /\ locals.moved = {} /\ (\A n \in locals.env : route.env[n].live)
      /\ route.end = "next" /\ 1 .. Depth = {1}
  BY InitialBlock
<1>2. Sound(locals, route.env) /\ Restores(block)
  BY <1>1 DEF Sound, Restores
<1>3. Promised
  BY <1>1, <1>2 DEF Promised
<1>4. QED
  BY <1>1, <1>3, EndsApart DEF Strays, Followed

(* No path through a function that the frontend lowers uses a consumed local   *)
(* again, if it goes round each loop at most once, does not jump and hides no  *)
(* local from outside its block: for any functions, the local states that      *)
(* _lower_statement copies into branches and merges after them hold consumed   *)
(* whatever is consumed on some path (CRAB227).                                *)
THEOREM LoweredMovesAreCaught ==
  ASSUME NEW functions \in SUBSET Functions
  PROVE  MovesSpec(functions) => []MovesAreCaught
<1> DEFINE Inv == MovesInv /\ Strays /\ Followed
<1>1. MovesInit(functions) => Inv
  BY MovesInitial, FollowedInitial
<1>2. Inv /\ [MovesNext]_moveVars => Inv'
  BY MovesInvKept, StraysKept, FollowedKept
<1>3. Inv => MovesAreCaught
  BY DEF Followed, MovesAreCaught
<1>4. QED
  <2> HIDE DEF Inv
  <2> QED
    BY <1>1, <1>2, <1>3, PTL DEF MovesSpec
==============================================================================
