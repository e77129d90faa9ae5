--------------------------- MODULE TypedExpressions ---------------------------
(* _lower_expression of compiler/frontend.py gives an expression and its type  *)
(* to the emitter, which writes Rust text for it.  Lower is the first,         *)
(* RustType the type that rustc gives the text.  Said and Steps are what       *)
(* Python computes and in which order, Done and Ran what the Rust text does.   *)
(*                                                                             *)
(* A source expression has a kind, a name, a number, its operands, its named   *)
(* arguments and a type it mentions; an expression of the IR has besides its   *)
(* type and the type its context wants.  Diagnostics are one, "refused".       *)
EXTENDS SemanticTypes, SequencesExt

CONSTANTS
  Locals,       \* name |-> declared type, of parameters and locals
  Parameters,   \* the names of Locals that are parameters
  Returning,    \* what the function around the expression returns
  Signatures,   \* function |-> [params, result, async]; a parameter is [name, type, default]
  Structs,      \* struct |-> its fields, written like parameters
  Variants,     \* variant |-> [enum, tuple, fields]
  Conversions,  \* <<source, target>> for which an error enum has a From variant
  Operators,    \* <<type name, operator>> |-> [other, result]
  Traits,       \* trait |-> its methods [receiver, params, result] by name
  Impls         \* set of [trait, for, method, params, result]

Free == Primitive("?")      \* no type

I32 == Primitive("i32")
Owned(t)  == Type("Owned", <<t>>)
Future(t) == Type("Future", <<t>>)
Array(t, n) == [Type("Array", <<t>>) EXCEPT !.indexing = ToString(n)]

Src(kind, name, n, args) ==
  [kind |-> kind, name |-> name, n |-> n, args |-> args, named |-> <<>>, of |-> Free]

Refused == [bad |-> TRUE, op |-> "refused", name |-> "", n |-> 0, of |-> Free, type |-> Free,
            wants |-> Free, args |-> <<>>]
Node(e, type, args) ==
  IF \E i \in DOMAIN args : args[i].bad THEN Refused
  ELSE [bad |-> FALSE, op |-> e.kind, name |-> e.name, n |-> e.n, of |-> e.of, type |-> type,
        wants |-> Free, args |-> args]
\* _require_type of the result, where the context wants one.
Checked(node, want) ==
  IF node.bad \/ (want # Free /\ ~Accepts(want, node.type)) THEN Refused ELSE node

------------------------------------------------------------------------------
(* Lowering.                                                                   *)

Signed == {"i8", "i16", "i32", "i64", "i128", "isize"}
Small  == [i8 |-> -128 .. 127, u8 |-> 0 .. 255]
Fits(n, t) == IF t.name \in DOMAIN Small THEN n \in Small[t.name] ELSE n >= 0 \/ t.name \in Signed

RECURSIVE Lower(_, _)
All(args, want) == [i \in DOMAIN args |-> Lower(args[i], want)]
Given(node, holds) == IF node.bad \/ ~holds THEN Refused ELSE node
IsFuture(node) == ~node.bad /\ node.type.name = "Future"

LowerNumber(e, want) ==
  LET t == IF e.kind = "float" THEN IF want.name \in Floats THEN want ELSE F64
           ELSE IF IsNumeric(want) THEN want ELSE I64
  IN Given(Node(e, t, <<>>), t.name \in Floats \/ Fits(e.n, t))

LowerText(e, want) ==
  IF want = Char THEN Given(Node(e, Char, <<>>), e.n = 1)
  ELSE Checked(Node(e, IF want = Str THEN Str ELSE String, <<>>), want)

LowerTuple(e, want) ==
  LET typed == want.name = "Tuple"
      values == [i \in DOMAIN e.args |-> Lower(e.args[i], IF typed THEN Arg(want, i) ELSE Free)]
  IN IF typed /\ Len(want.arguments) # Len(e.args) THEN Refused
     ELSE Node(e, IF typed THEN want ELSE Tuple([i \in DOMAIN values |-> values[i].type]), values)

LowerArray(e, want) ==
  IF want.name # "Array" \/ want # Array(Arg(want, 1), Len(e.args)) THEN Refused
  ELSE Node(e, want, All(e.args, Arg(want, 1)))

LowerName(e, want) ==
  IF e.name \notin DOMAIN Locals THEN Refused
  ELSE Checked(Node(e, Underlying(Locals[e.name]), <<>>), want)

LowerIndex(e, want) ==
  LET r == Lower(e.args[1], Free)
      i == e.args[2]
      At(t, index) == Checked(Node(e, t, <<r, index>>), want)
  IN CASE r.bad -> Refused
       [] r.type.name = "Tuple" ->
            IF i.kind = "int" /\ i.n \in 0 .. Len(r.type.arguments) - 1
            THEN At(Arg(r.type, i.n + 1), Node(i, USize, <<>>)) ELSE Refused
       [] r.type.name \in {"Array", "Vec", "Buffer"} -> At(Arg(r.type, 1), Lower(i, USize))
       [] OTHER -> Refused

FieldType(struct, name) == SelectInSeq(Structs[struct], LAMBDA f : f.name = name)
LowerField(e, want) ==
  LET r == Lower(e.args[1], Free)
      struct == Underlying(r.type).name
  IN IF r.bad \/ struct \notin DOMAIN Structs \/ FieldType(struct, e.name) = 0 THEN Refused
     ELSE Checked(Node(e, Structs[struct][FieldType(struct, e.name)].type, <<r>>), want)

LowerUnary(e, want) ==
  LET t == IF e.kind = "not" THEN Bool ELSE IF want = Free THEN I64 ELSE want
  IN Given(Node(e, t, <<Lower(e.args[1], t)>>),
           e.kind = "not" \/ (IsNumeric(t) /\ (e.kind = "minus" => t.name \in Signed \union Floats)))

\* _peek_expression_type
Peek(e) ==
  CASE e.kind = "name" /\ e.name \in DOMAIN Locals -> Underlying(Locals[e.name])
    [] e.kind = "call" /\ e.name \in DOMAIN Signatures -> Signatures[e.name].result
    [] OTHER -> Free

\* Whether a parameter's ownership allows the use; the root's, for a projection.
RECURSIVE Root(_)
Root(e) == IF e.kind = "name" THEN e.name
           ELSE IF e.kind \in {"field", "index"} THEN Root(e.args[1]) ELSE ""
Grants(e, access) ==
  Root(e) \in Parameters =>
    LET kind == Locals[Root(e)].name
    IN kind \in Ownerships /\ access # "shared" =>
         kind = "Owned" \/ (kind = "Mut" /\ access = "mutable")

\* Python's operator and the compiler's name for it; ** and // have none.
BinaryOperators ==
  "+" :> "add" @@ "-" :> "subtract" @@ "*" :> "multiply" @@ "/" :> "divide" @@ "%" :> "remainder"
    @@ "&" :> "bit_and" @@ "|" :> "bit_or" @@ "^" :> "bit_xor" @@ "<<" :> "shift_left" @@ ">>" :> "shift_right"
Comparisons ==
  "==" :> "eq" @@ "!=" :> "not_eq" @@ "<" :> "lt" @@ "<=" :> "lt_eq" @@ ">" :> "gt" @@ ">=" :> "gt_eq"
Integral == {"bit_and", "bit_or", "bit_xor", "shift_left", "shift_right"}

LowerBinary(e, want) ==
  LET op   == BinaryOperators[e.name]
      left == Lower(e.args[1], IF want # Free THEN want ELSE Peek(e.args[2]))
      key  == <<left.type.name, op>>
      other == IF IsNumeric(left.type) THEN left.type ELSE Underlying(Operators[key].other)
      right == Lower(e.args[2], other)
      Made(t) == Node([e EXCEPT !.name = op], t, <<left, right>>)
  IN CASE e.name \notin DOMAIN BinaryOperators \/ left.bad -> Refused
       [] IsNumeric(left.type) ->
            Given(Made(left.type),
                  (op \in Integral => left.type.name \in Integers) /\ Accepts(other, right.type))
       [] key \in DOMAIN Operators ->
            Given(Checked(Made(Underlying(Operators[key].result)), want),
                  Accepts(other, right.type) /\ Grants(e.args[1], "owned"))
       [] OTHER -> Refused

LowerCompare(e) ==
  LET left  == Lower(e.args[1], Peek(e.args[2]))
      right == Lower(e.args[2], left.type)
  IN IF e.name \notin DOMAIN Comparisons \/ left.bad THEN Refused
     ELSE Given(Node([e EXCEPT !.name = Comparisons[e.name]], Bool, <<left, right>>),
                Accepts(left.type, right.type))

------------------------------------------------------------------------------
(* Calls of functions: generics, binding and ownership of the arguments.       *)

Generics == {"T"}
RECURSIVE HasName(_, _)
HasName(t, names) == t.name \in names \/ \E i \in DOMAIN t.arguments : HasName(Arg(t, i), names)
IsOpen(t) == HasName(t, Generics)

Unknown == [g \in Generics |-> Free]
RECURSIVE Substitute(_, _)
Substitute(t, s) ==
  IF t.name \in Generics THEN IF s[t.name] = Free THEN t ELSE s[t.name]
  ELSE [t EXCEPT !.arguments = [i \in DOMAIN t.arguments |-> Substitute(Arg(t, i), s)]]

RECURSIVE Unify(_, _, _)
Unify(pattern, actual, s) ==
  IF pattern.name \in Generics THEN
    IF s[pattern.name] = Free THEN [ok |-> TRUE, s |-> [s EXCEPT ![pattern.name] = actual]]
    ELSE [ok |-> Accepts(s[pattern.name], actual), s |-> s]
  ELSE IF pattern.name # actual.name \/ Len(pattern.arguments) # Len(actual.arguments)
    THEN [ok |-> Accepts(pattern, actual), s |-> s]
  ELSE FoldLeft(LAMBDA u, i : IF u.ok THEN Unify(Arg(pattern, i), Arg(actual, i), u.s) ELSE u,
                [ok |-> TRUE, s |-> s], [i \in DOMAIN pattern.arguments |-> i])

IsReference(t) == t.name \in {"Ref", "LifetimeRef"}
Borrow(kind, value, t) ==
  IF value.bad THEN Refused ELSE [Refused EXCEPT !.bad = FALSE, !.op = kind, !.type = t, !.args = <<value>>]

\* _apply_call_ownership
Own(e, value, param) ==
  LET root == Root(e)
      lent == IsSharedBorrow(value.type)
                \/ (root \in Parameters /\ IsSharedBorrow(Locals[root]))
  IN CASE value.bad -> Refused
       [] IsReference(param) ->
            Given(IF lent THEN value ELSE Borrow("borrow", value, param),
                  Accepts(Underlying(param), Underlying(value.type)))
       [] param.name = "Mut" ->
            Given(Borrow("borrow mut", value, param), root # "" /\ Grants(e, "mutable"))
       [] OTHER -> Given(value, param.name = "Owned" => Grants(e, "owned"))

LowerArgument(e, param) ==
  Own(e, Lower(e, IF IsReference(param) THEN Free ELSE Underlying(param)), param)

\* The arguments of a generic function, one after the other.
InferArguments(params, sources) ==
  FoldLeft(LAMBDA acc, i :
             LET pattern == Underlying(params[i])
                 known == Substitute(pattern, acc.s)
                 value == Lower(sources[i], IF IsOpen(known) THEN Free ELSE known)
                 unified == Unify(pattern, value.type, acc.s)
                 param == Substitute(params[i], unified.s)
                 ok == ~value.bad /\ unified.ok /\ ~IsOpen(param) /\ Accepts(Underlying(param), value.type)
             IN [s |-> unified.s,
                 values |-> Append(acc.values, IF ok THEN Own(sources[i], value, param) ELSE Refused)],
           [s |-> Unknown, values |-> <<>>], [i \in DOMAIN params |-> i])

PositionOf(params, name) == SelectInSeq(params, LAMBDA p : p.name = name)
\* Mutant: a name may stand for a parameter that has a position already.
FitsAnyPlace(e, params) ==
  /\ Len(e.args) <= Len(params)
  /\ \A k \in DOMAIN e.named : PositionOf(params, e.named[k].name) # 0
  /\ \A i \in Len(e.args) + 1 .. Len(params) :
       params[i].default # <<>> \/ PositionOf(e.named, params[i].name) # 0
\* Which source each parameter gets: positions, then names, then defaults.
ArgumentsFit(e, params) ==
  /\ Len(e.args) <= Len(params)
  /\ \A k \in DOMAIN e.named :
       /\ PositionOf(params, e.named[k].name) > Len(e.args)
       /\ \A j \in 1 .. k - 1 : e.named[j].name # e.named[k].name
  /\ \A i \in Len(e.args) + 1 .. Len(params) :
       params[i].default # <<>> \/ PositionOf(e.named, params[i].name) # 0
Bound(e, params) ==
  [i \in DOMAIN params |->
     IF i <= Len(e.args) THEN e.args[i]
     ELSE LET k == PositionOf(e.named, params[i].name)
          IN IF k # 0 THEN e.named[k].value ELSE params[i].default[1]]

\* _call_result_type, and the future of an async function
ResultType(t, async) ==
  LET kept == IF IsSharedBorrow(t) \/ t.name = "Mut" THEN t ELSE Underlying(t)
  IN IF async THEN Future(kept) ELSE kept

LowerCall(e, want) ==
  LET sig == Signatures[e.name]
      types == [i \in DOMAIN sig.params |-> sig.params[i].type]
      sources == Bound(e, sig.params)
      inferred == InferArguments(types, sources)
      generic == \E i \in DOMAIN types : IsOpen(types[i])
      values == IF generic THEN inferred.values
                ELSE [i \in DOMAIN types |-> LowerArgument(sources[i], types[i])]
      result == IF generic THEN Substitute(sig.result, inferred.s) ELSE sig.result
  IN IF e.name \notin DOMAIN Signatures \/ ~ArgumentsFit(e, sig.params) THEN Refused
     ELSE Given(Checked(Node(e, ResultType(result, sig.async), values), want), ~IsOpen(result))

------------------------------------------------------------------------------
(* Constructors of structs and enums.                                          *)

Fields(values, e, fields) ==
  [i \in DOMAIN fields |-> Lower(values[i], fields[i].type)]
NamesMatch(e, fields) ==
  {e.named[k].name : k \in DOMAIN e.named} = {fields[i].name : i \in DOMAIN fields}
ByName(e, fields) == [i \in DOMAIN fields |-> e.named[PositionOf(e.named, fields[i].name)].value]

\* Positional values are zipped with the fields, so that more values are cut off.
LowerStruct(e, want) ==
  LET fields == Structs[e.name]
      fit == IF e.named = <<>> THEN Len(e.args) >= Len(fields)
             ELSE e.args = <<>> /\ Len(e.named) = Len(fields) /\ NamesMatch(e, fields)
      values == IF e.named = <<>> THEN e.args ELSE ByName(e, fields)
  IN IF fit THEN Checked(Node(e, Primitive(e.name), Fields(values, e, fields)), want) ELSE Refused

LowerVariant(e, want) ==
  LET variant == Variants[e.name]
      fit == IF variant.tuple THEN e.named = <<>> /\ Len(e.args) = Len(variant.fields)
             ELSE e.args = <<>> /\ NamesMatch(e, variant.fields)
      values == IF variant.tuple THEN e.args ELSE ByName(e, variant.fields)
  IN IF fit THEN Checked(Node(e, Primitive(variant.enum), Fields(values, e, variant.fields)), want)
     ELSE Refused

------------------------------------------------------------------------------
(* rust.* calls.                                                               *)

Takes(wants, result) == [wants |-> wants, result |-> result]
\* What each argument is lowered for, and the result.
FixedCalls ==
  [yield_now |-> Takes(<<>>, Future(Unit)), sleep_millis |-> Takes(<<U64>>, Future(Unit)),
   c_abs |-> Takes(<<I32>>, I32), unsafe_static_increment |-> Takes(<<U64>>, U64),
   boxed_closure_call |-> Takes(<<U64, U64>>, U64), closure_vector_total |-> Takes(<<U64>>, U64),
   TcpListener |-> Takes(<<Str>>, Primitive("TcpListener")),
   TcpStream |-> Takes(<<U64>>, Primitive("TcpStream")),
   ThreadPool |-> Takes(<<USize>>, Primitive("ThreadPool")),
   file_open |-> Takes(<<Str>>, ResultOf(Primitive("File"), IoError))]
\* These ignore what the context wants.
UncheckedCalls == [String |-> Takes(<<Str>>, String), PathBuf |-> Takes(<<Str>>, Primitive("PathBuf"))]

LowerFixed(e, want, calls) ==
  IF Len(e.args) # Len(calls[e.kind].wants) THEN Refused
  ELSE Checked(Node(e, calls[e.kind].result, [i \in DOMAIN e.args |-> Lower(e.args[i], calls[e.kind].wants[i])]), want)

LowerOutput(e, want) ==
  CASE e.kind = "println" -> Node(e, Unit, All(e.args, Free))
    [] e.kind = "panic" -> Node(e, IF want = Free THEN Unit ELSE want, All(e.args, Str))
    [] e.kind = "print" ->
         LET v == Lower(e.args[1], Free)
         IN Given(Node(e, Unit, <<v>>), IsNumeric(v.type) \/ v.type \in {Bool, Char, String, Str})

LowerTry(e, want) ==
  LET v == Lower(e.args[1], Free)
  IN IF v.bad \/ v.type.name # "Result" \/ Returning.name # "Result" THEN Refused
     ELSE Given(Checked(Node(e, Arg(v.type, 1), <<v>>), want),
                \/ Arg(v.type, 2) = Arg(Returning, 2)
                \/ <<Arg(v.type, 2), Arg(Returning, 2)>> \in Conversions)

\* await and block_on
LowerAwait(e, want) ==
  LET v == Lower(e.args[1], Free)
  IN IF IsFuture(v) THEN Checked(Node(e, Arg(v.type, 1), <<v>>), want) ELSE Refused

LowerFutures(e, want) ==
  LET both == All(e.args, Free)
      out(i) == Arg(both[i].type, 1)
  IN IF Len(both) # 2 \/ \E i \in DOMAIN both : ~IsFuture(both[i]) THEN Refused
     ELSE IF e.kind = "join" THEN Checked(Node(e, Future(Tuple(<<out(1), out(2)>>)), both), want)
     ELSE Given(Checked(Node(e, Future(out(1)), both), want), Accepts(out(1), out(2)))

\* dyn_box: the trait must be object-safe and implemented.
LowerDynBox(e, want) ==
  LET v == Lower(e.args[1], Free)
      trait == e.of.name
      Safe(m) == /\ m.receiver # "Owned"
                 /\ \A t \in {m.result} \union {m.params[i] : i \in DOMAIN m.params} :
                      ~HasName(t, Generics \union {"Associated"})
  IN IF trait \notin DOMAIN Traits \/ v.bad THEN Refused
     ELSE Given(Checked(Node(e, Type("Box", <<Type("Dyn", <<e.of>>)>>), <<v>>), want),
                /\ \A name \in DOMAIN Traits[trait] : Safe(Traits[trait][name])
                /\ \E impl \in Impls : impl.trait = trait /\ impl.for = v.type.name)

ImplsOf(trait, type, method) ==
  {impl \in Impls : impl.trait = trait /\ impl.for = type.name /\ impl.method = method}

\* The arguments of a trait's method, once want has been unified with its result.
InferMethodArguments(params, sources, s) ==
  FoldLeft(LAMBDA acc, i :
             LET known == Substitute(params[i], acc.s)
                 value == Lower(sources[i], IF IsOpen(known) THEN Free ELSE known)
                 unified == IF IsOpen(known) THEN Unify(params[i], value.type, acc.s)
                            ELSE [ok |-> TRUE, s |-> acc.s]
             IN [s |-> unified.s,
                 values |-> Append(acc.values, IF value.bad \/ ~unified.ok THEN Refused ELSE value)],
           [s |-> s, values |-> <<>>], [i \in DOMAIN params |-> i])

Access == [Ref |-> "shared", Mut |-> "mutable", Owned |-> "owned"]
\* trait_call: associated types come from the implementation.
LowerTraitCall(e, want) ==
  LET trait  == e.of.name
      method == Traits[trait][e.name]
      receiver == Lower(e.args[1], Free)
      sources  == Tail(e.args)
      impl == CHOOSE i \in ImplsOf(trait, receiver.type, e.name) : TRUE
      Actual(declared, concrete) == IF HasName(declared, {"Associated"}) THEN concrete ELSE declared
      params == [i \in DOMAIN method.params |-> Actual(method.params[i], impl.params[i])]
      result == Actual(method.result, impl.result)
      first  == IF want # Free /\ IsOpen(result) THEN Unify(result, want, Unknown)
                ELSE [ok |-> TRUE, s |-> Unknown]
      arguments == InferMethodArguments(params, sources, first.s)
  IN IF \/ trait \notin DOMAIN Traits \/ e.name \notin DOMAIN Traits[trait]
        \/ Len(sources) # Len(method.params)
        \/ receiver.bad \/ ImplsOf(trait, receiver.type, e.name) = {} \/ ~first.ok
     THEN Refused
     ELSE Given(Checked(Node(e, Substitute(result, arguments.s), <<receiver>> \o arguments.values), want),
                Grants(e.args[1], Access[method.receiver]))

LowerPointers(e, want) ==
  LET v == Lower(e.args[1], Free)
      sig == Signatures[e.name]
      t == sig.result
  IN CASE e.kind = "call_twice" ->
            IF \/ e.name \notin DOMAIN Signatures \/ Len(sig.params) # 1
               \/ sig.params[1].type # t \/ ~IsNumeric(t)
            THEN Refused ELSE Checked(Node(e, t, <<Lower(e.args[1], t)>>), want)
       [] e.kind = "unsafe_read" ->
            Given(Checked(Node(e, v.type, <<v>>), want), e.args[1].kind = "name" /\ IsCopy(v.type))
       [] e.kind = "unsafe_write" ->
            Given(Checked(Node(e, Unit, <<v, Lower(e.args[2], v.type)>>), want),
                  e.args[1].kind = "name" /\ IsCopy(v.type))

LowerCollection(e, want) ==
  LET typed == want.name = "Vec"
      item == IF typed THEN Arg(want, 1) ELSE Lower(e.args[1], Free).type
  IN CASE e.kind = "Vec" -> IF ~typed /\ e.args = <<>> THEN Refused ELSE Node(e, Vec(item), All(e.args, item))
       [] OTHER -> Given(Node(e, want, <<>>), e.args = <<>> /\ want.name = e.kind)

Wrappers == {"Arc", "Box", "Mutex", "Rc", "RefCell"}
LowerWrapper(e, want) ==
  IF want.name = e.kind THEN Node(e, want, All(e.args, Arg(want, 1))) ELSE Refused

\* Values that need a type context, or make one.
LowerConstructor(e, want) ==
  LET typed == want.name = "Option"
      v == Lower(e.args[1], IF typed THEN Arg(want, 1) ELSE Free)
  IN CASE e.kind = "Some" -> Node(e, IF typed THEN want ELSE Option(v.type), <<v>>)
       [] want.name # "Result" -> Refused
       [] e.kind = "Ok"  -> Node(e, want, All(e.args, Arg(want, 1)))
       [] e.kind = "Err" -> Node(e, want, All(e.args, Arg(want, 2)))

LowerCast(e, want) ==
  LET v == Lower(e.args[1], Free)
  IN Given(Checked(Node(e, ResultOf(e.of, String), <<v>>), want),
           v.type.name \in Integers /\ e.of.name \in Integers)

LowerChannel(e, want) ==
  LET bounded == e.args # <<>>
      sender == Type(IF bounded THEN "SyncSender" ELSE "Sender", <<e.of>>)
  IN Checked(Node(e, Tuple(<<sender, Type("Receiver", <<e.of>>)>>), All(e.args, USize)), want)

LowerThread(e, want) ==
  LET v == Lower(e.args[1], Free)
  IN IF e.kind = "spawn" THEN Checked(Node(e, Type("ThreadHandle", <<v.type>>), <<v>>), want)
     ELSE Given(Node(e, Unit, <<v>>), want \in {Free, Unit})

LowerRepeat(e, want) ==
  IF want.name # "Array" \/ want # Array(Arg(want, 1), e.n) THEN Refused
  ELSE Node(e, want, All(e.args, Arg(want, 1)))

Form(e, want) ==
  CASE e.kind \in {"int", "float"} -> LowerNumber(e, want)
    [] e.kind = "bool"  -> Checked(Node(e, Bool, <<>>), want)
    [] e.kind = "text"  -> LowerText(e, want)
    [] e.kind = "none"  -> Given(Node(e, want, <<>>), want = Unit \/ want.name = "Option")
    [] e.kind = "tuple" -> LowerTuple(e, want)
    [] e.kind = "list"  -> LowerArray(e, want)
    [] e.kind = "name"  -> LowerName(e, want)
    [] e.kind = "index" -> LowerIndex(e, want)
    [] e.kind = "field" -> LowerField(e, want)
    [] e.kind \in {"not", "plus", "minus"} -> LowerUnary(e, want)
    [] e.kind = "binary" -> LowerBinary(e, want)
    [] e.kind \in {"and", "or"} -> Node(e, Bool, All(e.args, Bool))
    [] e.kind = "compare" -> LowerCompare(e)
    [] e.kind = "call"    -> LowerCall(e, want)
    [] e.kind = "struct"  -> LowerStruct(e, want)
    [] e.kind = "variant" -> LowerVariant(e, want)
    [] e.kind \in DOMAIN FixedCalls -> LowerFixed(e, want, FixedCalls)
    [] e.kind \in DOMAIN UncheckedCalls -> LowerFixed(e, Free, UncheckedCalls)
    [] e.kind \in {"print", "println", "panic"} -> LowerOutput(e, want)
    [] e.kind = "try_" -> LowerTry(e, want)
    [] e.kind \in {"await", "block_on"} -> LowerAwait(e, want)
    [] e.kind \in {"join", "select"} -> LowerFutures(e, want)
    [] e.kind = "dyn_box" -> LowerDynBox(e, want)
    [] e.kind = "trait_call" -> LowerTraitCall(e, want)
    [] e.kind \in {"call_twice", "unsafe_read", "unsafe_write"} -> LowerPointers(e, want)
    [] e.kind = "type_alias_identity" ->
         LET v == Lower(e.args[1], want) IN Node(e, v.type, <<v>>)
    [] e.kind \in {"Vec", "HashMap", "HashSet", "BTreeMap", "BTreeSet"} -> LowerCollection(e, want)
    [] e.kind \in Wrappers -> LowerWrapper(e, want)
    [] e.kind \in {"Some", "Ok", "Err"} -> LowerConstructor(e, want)
    [] e.kind = "checked_cast" -> LowerCast(e, want)
    [] e.kind = "channel" -> LowerChannel(e, want)
    [] e.kind \in {"spawn", "drop"} -> LowerThread(e, want)
    [] e.kind = "repeat" -> LowerRepeat(e, want)
    [] OTHER -> Refused

Lower(e, want) == [Form(e, want) EXCEPT !.wants = want]
\* let name: want = e, and return e: the value's type is required once more.
LowerValue(e, want) == Checked(Lower(e, want), want)
===============================================================================
