------------------------- MODULE RenderedExpressions -------------------------
(* What compiler/rust_emission.py (_render_expression) writes for the          *)
(* expressions of TypedExpressions, by its Rust type and by what it computes,  *)
(* and what Python computes for their sources.                                 *)
EXTENDS TypedExpressions

------------------------------------------------------------------------------
(* The Rust type of the text, Ill if rustc gives it none.                      *)

Ill == Primitive("ill")
When(holds, t) == IF holds THEN t ELSE Ill

\* rustc looks through references for fields, indices and coercions.
RECURSIVE Peeled(_)
Peeled(t) == IF t.name \in {"Ref", "Mut"} THEN Peeled(Arg(t, 1)) ELSE t
Coerces(actual, formal) ==
  IF formal.name \in {"Ref", "Mut"}
  THEN /\ actual.name \in {"Mut", formal.name} /\ Peeled(actual) = Arg(formal, 1)
  ELSE actual = formal
ByValue(t) == IF t.name = "Owned" THEN Arg(t, 1) ELSE t

\* _is_copy_type: what is read in place without .clone().
ReadInPlace(t) == Built(t, Integers \union Floats \union {"bool", "char", "Unit", "Ref"}, {"Tuple", "Array"})
ReadOut(t) == When(ReadInPlace(t) \/ IsClone(t) \/ t.name \in DOMAIN Structs, t)

RECURSIVE TypesIn(_)
TypesIn(t) == {t} \union UNION {TypesIn(Arg(t, i)) : i \in DOMAIN t.arguments}

\* A call whose callee has these parameters: rustc chooses the type arguments.
Called(params, result, actuals) ==
  LET parts == UNION {TypesIn(actuals[i]) : i \in DOMAIN actuals}
      open  == \E i \in DOMAIN params : IsOpen(params[i])
      fit == {s \in [Generics -> IF open THEN parts ELSE {Free}] :
                \A i \in DOMAIN params : Coerces(actuals[i], ByValue(Substitute(params[i], s)))}
  IN IF fit = {} THEN Ill ELSE ByValue(Substitute(result, CHOOSE s \in fit : TRUE))

\* What each text accepts and gives, where it says so itself.
Texts ==
  [String |-> Takes(<<Str>>, String), PathBuf |-> Takes(<<Str>>, Primitive("PathBuf")),
   yield_now |-> Takes(<<>>, Future(Unit)), sleep_millis |-> Takes(<<U64>>, Future(Unit)),
   c_abs |-> Takes(<<I32>>, I32), unsafe_static_increment |-> Takes(<<U64>>, U64),
   boxed_closure_call |-> Takes(<<U64, U64>>, U64), closure_vector_total |-> Takes(<<U64>>, U64),
   TcpListener |-> Takes(<<Str>>, Primitive("TcpListener")),
   TcpStream |-> Takes(<<U64>>, Primitive("TcpStream")),
   ThreadPool |-> Takes(<<USize>>, Primitive("ThreadPool")),
   file_open |-> Takes(<<Str>>, ResultOf(Primitive("File"), IoError))]

FieldsFit(actuals, fields) == \A i \in DOMAIN fields : actuals[i] = fields[i].type

RECURSIVE RustType(_)
Types(n) == [i \in DOMAIN n.args |-> RustType(n.args[i])]

RustOfPlace(n, ts) ==
  LET r == Peeled(ts[1])
  IN CASE n.op = "field" ->
            IF r.name \in DOMAIN Structs THEN ReadOut(Structs[r.name][FieldType(r.name, n.name)].type) ELSE Ill
       [] r.name = "Tuple" -> ReadOut(Arg(r, n.args[2].n + 1))
       [] OTHER -> IF r.name \in {"Array", "Vec", "Buffer"} /\ ts[2] = USize THEN ReadOut(Arg(r, 1)) ELSE Ill

\* &place and &mut place: the latter needs a root that may be written.
RECURSIVE RootOf(_)
RootOf(n) == IF n.op = "name" THEN n.name
             ELSE IF n.op \in {"field", "index"} THEN RootOf(n.args[1]) ELSE ""
RustOfBorrow(n, ts) ==
  IF n.op = "borrow" THEN Ref(ts[1])
  ELSE When(RootOf(n.args[1]) \in Parameters => Locals[RootOf(n.args[1])].name # "Ref", Mut(ts[1]))

RustOfOperator(n, ts) ==
  CASE n.op = "not" -> When(ts[1] = Bool, Bool)
    [] n.op \in {"plus", "minus"} -> When(IsNumeric(ts[1]), ts[1])
    [] n.op \in {"and", "or"} -> When(ts = <<Bool, Bool>>, Bool)
    [] n.op = "compare" -> When(ts[1] = ts[2], Bool)
    [] IsNumeric(ts[1]) -> When(ts[1] = ts[2], ts[1])
    [] OTHER -> LET key == <<ts[1].name, n.name>>
                IN IF key \in DOMAIN Operators
                   THEN When(Coerces(ts[2], ByValue(Operators[key].other)), ByValue(Operators[key].result))
                   ELSE Ill

RustOfCall(n, ts) ==
  LET sig == Signatures[n.name]
      t == Called([i \in DOMAIN sig.params |-> sig.params[i].type], sig.result, ts)
  IN IF sig.async /\ t # Ill THEN Future(t) ELSE t

\* <Concrete as Trait>::method(receiver, ...)
RustOfTraitCall(n, ts) ==
  LET trait == n.of.name
      method == Traits[trait][n.name]
      impl == CHOOSE i \in ImplsOf(trait, n.args[1].type, n.name) : TRUE
      lent == Grants([kind |-> n.args[1].op, name |-> n.args[1].name, args |-> n.args[1].args], Access[method.receiver])
  IN IF Peeled(ts[1]) = n.args[1].type /\ lent
     THEN Called(impl.params, impl.result, Tail(ts)) ELSE Ill

\* Texts that follow their arguments.
RustOfConstructor(n, ts) ==
  LET t == n.type
      same == \A i \in DOMAIN ts : ts[i] = ts[1]
      item == IF ts = <<>> THEN Arg(t, 1) ELSE ts[1]
  IN CASE n.op = "tuple" -> Tuple(ts)
       [] n.op = "list"  -> When(same, Array(item, Len(ts)))
       [] n.op = "Vec"   -> When(same, Vec(item))
       [] n.op = "repeat" -> When(IsCopy(ts[1]), Array(ts[1], n.n))
       [] n.op = "Some"  -> Option(ts[1])
       [] n.op = "Ok"    -> ResultOf(ts[1], Arg(t, 2))
       [] n.op = "Err"   -> ResultOf(Arg(t, 1), ts[1])
       [] n.op \in Wrappers -> Type(n.op, ts)
       [] n.op = "checked_cast" -> When(ts[1].name \in Integers, ResultOf(Arg(t, 1), String))
       [] n.op = "channel" -> When(ts = <<>> \/ ts = <<USize>>, t)
       [] n.op = "spawn" -> Type("ThreadHandle", ts)
       [] n.op = "struct"  -> When(FieldsFit(ts, Structs[n.name]), Primitive(n.name))
       [] n.op = "variant" -> When(FieldsFit(ts, Variants[n.name].fields), Primitive(Variants[n.name].enum))
       [] OTHER -> t          \* literals, empty collections, dyn_box, panic

RustOfFlow(n, ts) ==
  CASE n.op = "try_" -> IF ts[1].name = "Result" THEN Arg(ts[1], 1) ELSE Ill
    [] n.op \in {"await", "block_on"} -> IF ts[1].name = "Future" THEN Arg(ts[1], 1) ELSE Ill
    [] n.op = "join"   -> Future(Tuple(<<Arg(ts[1], 1), Arg(ts[2], 1)>>))
    [] n.op = "select" -> When(ts[1] = ts[2], ts[1])
    [] n.op \in {"drop", "print", "println"} -> Unit
    [] n.op = "unsafe_write" -> When(ts[1] = ts[2], Unit)
    [] n.op = "call_twice" -> When(ts[1] = n.type /\ ~Signatures[n.name].async, n.type)
    [] OTHER -> ts[1]         \* unsafe_read, type_alias_identity

RustType(n) ==
  LET ts == Types(n)
  IN CASE Ill \in {ts[i] : i \in DOMAIN ts} -> Ill
       [] n.op = "name" -> ByValue(Locals[n.name])
       [] n.op \in {"field", "index"} -> RustOfPlace(n, ts)
       [] n.op \in {"borrow", "borrow mut"} -> RustOfBorrow(n, ts)
       [] n.op \in {"not", "plus", "minus", "and", "or", "compare", "binary"} -> RustOfOperator(n, ts)
       [] n.op = "call" -> RustOfCall(n, ts)
       [] n.op = "trait_call" -> RustOfTraitCall(n, ts)
       [] n.op \in DOMAIN Texts -> When(ts = Texts[n.op].wants, Texts[n.op].result)
       [] n.op \in {"try_", "await", "block_on", "join", "select", "drop", "print", "println", "unsafe_write",
                    "call_twice", "unsafe_read", "type_alias_identity"} -> RustOfFlow(n, ts)
       [] OTHER -> RustOfConstructor(n, ts)

------------------------------------------------------------------------------
(* What is computed.  A term is an operation on its operands, the arguments of *)
(* a call in the order of its parameters; a run is the sequence of the         *)
(* operations as they happen, with a test before a right operand of and, or.   *)

Params(e) ==
  CASE e.kind = "call"    -> Signatures[e.name].params
    [] e.kind = "struct"  -> Structs[e.name]
    [] e.kind = "variant" -> Variants[e.name].fields
    [] OTHER -> <<>>
Binds(e) == e.kind \in {"call", "struct", "variant"}

\* Python's binding: each parameter is given once, or has its default.
Positions(e, i) == {i} \intersect DOMAIN e.args
Keywords(e, i)  == {k \in DOMAIN e.named : e.named[k].name = Params(e)[i].name}
PythonBinds(e) ==
  /\ Len(e.args) <= Len(Params(e))
  /\ \A k \in DOMAIN e.named : \E i \in DOMAIN Params(e) : k \in Keywords(e, i)
  /\ \A i \in DOMAIN Params(e) :
       LET times == Cardinality(Positions(e, i)) + Cardinality(Keywords(e, i))
       IN times = 1 \/ (times = 0 /\ Params(e)[i].default # <<>>)
PythonBound(e) ==
  [i \in DOMAIN Params(e) |->
     IF Positions(e, i) # {} THEN e.args[i]
     ELSE IF Keywords(e, i) # {} THEN e.named[CHOOSE k \in Keywords(e, i) : TRUE].value
     ELSE Params(e)[i].default[1]]

Written(e) == e.args \o [k \in DOMAIN e.named |-> e.named[k].value]

\* Every call of the expression is one that Python binds.
RECURSIVE Legal(_)
Legal(e) == (Binds(e) => PythonBinds(e)) /\ \A i \in DOMAIN Written(e) : Legal(Written(e)[i])

\* Keyword arguments stand in the order of the parameters.
RECURSIVE InOrder(_)
InOrder(e) ==
  /\ Binds(e) => \A k \in 1 .. Len(e.named) - 1 :
                   PositionOf(Params(e), e.named[k].name) < PositionOf(Params(e), e.named[k + 1].name)
  /\ \A i \in DOMAIN Written(e) : InOrder(Written(e)[i])

Term(op, name, n, args) == [op |-> op, name |-> name, n |-> n, args |-> args]
Leaves == {"int", "float", "bool", "text", "none", "name"}
Run(op, term, runs) ==
  IF op \in Leaves THEN <<>>
  ELSE IF op \in {"and", "or"}
       THEN runs[1] \o <<[term.args[1] EXCEPT !.op = "if " \o op]>> \o runs[2] \o <<term>>
  ELSE FlattenSeq(runs) \o <<term>>

RECURSIVE Said(_)
Said(e) ==
  LET operands == IF Binds(e) THEN PythonBound(e) ELSE e.args
  IN Term(e.kind, e.name, e.n, [i \in DOMAIN operands |-> Said(operands[i])])
RECURSIVE Steps(_)
Steps(e) == Run(e.kind, Said(e), [i \in DOMAIN Written(e) |-> Steps(Written(e)[i])])

RustSymbols ==
  [add |-> "+", subtract |-> "-", multiply |-> "*", divide |-> "/", remainder |-> "%", bit_and |-> "&",
   bit_or |-> "|", bit_xor |-> "^", shift_left |-> "<<", shift_right |-> ">>", eq |-> "==",
   not_eq |-> "!=", lt |-> "<", lt_eq |-> "<=", gt |-> ">", gt_eq |-> ">="]

\* Rust evaluates operands, arguments and the fields of a literal as written.
IsBorrow(n) == n.op \in {"borrow", "borrow mut"}
RECURSIVE Done(_)
Done(n) ==
  IF IsBorrow(n) THEN Done(n.args[1])
  ELSE Term(n.op, IF n.op \in {"binary", "compare"} THEN RustSymbols[n.name] ELSE n.name, n.n,
            [i \in DOMAIN n.args |-> Done(n.args[i])])
RECURSIVE Ran(_)
Ran(n) ==
  IF IsBorrow(n) THEN Ran(n.args[1])
  ELSE Run(n.op, Done(n), [i \in DOMAIN n.args |-> Ran(n.args[i])])
===============================================================================
