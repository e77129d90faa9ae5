----------------------------- MODULE MethodChains -----------------------------
(* A chain of builtin method calls as the frontend types it and as Rust runs   *)
(* what is emitted for it, one call after the other.  First what becomes of a  *)
(* lowered call: the Rust operations it is emitted as                          *)
(* (compiler/rust_emission.py, MethodCallIR), and, to judge them, what those   *)
(* operations do in Rust.  A Rust type here is a semantic type whose iterator  *)
(* says its item outright: an iterator over Ref(T) has the item Ref(T).        *)
EXTENDS BuiltinMethods, FiniteSets, SequencesExt

CONSTANT Rayon  \* whether the module declares the rayon crate

RustIter(parallel, item, indexing) ==
  Iter(IF parallel THEN "ParallelIterator" ELSE "Iterator", item, "owned", indexing)

\* The Rust type a semantic type stands for.  Its parts are still semantic types,
\* to be read in the same way when they come out.
Denotes(t) ==
  IF IsIterator(t) THEN RustIter(t.name # "Iterator", Exposed(t), t.indexing) ELSE t

NoSuch == Primitive("no such operation")

\* The methods that are emitted as something else than a call of their name,
\* where the emission looks at the receiver's own type...
ReplacedOn(name) ==
  CASE name = "Vec" -> {"iter", "iter_ref", "into_utf8", "split_at_mut_sum"}
    [] name = "Slice" -> {"iter", "iter_ref"}
    [] name \in {"HashMap", "BTreeMap"} ->
         {"contains_key", "remove", "get", "get_mut", "iter_ref", "get_or", "entry_or_insert", "add"}
    [] name \in {"HashSet", "BTreeSet"} -> {"contains", "remove", "iter_ref"}
    [] name = "Arc" -> {"strong_count", "add_locked", "get_locked"}
    [] name = "Rc" -> {"strong_count", "deref_copy"}
    [] name = "Box" -> {"deref_copy"}
    [] name = "RefCell" -> {"borrow_copy"}
    [] name \in {"Sender", "SyncSender"} -> {"send"}
    [] name = "Receiver" -> {"recv", "recv_async"}
    [] name = "ThreadHandle" -> {"join"}
    [] name = "TcpListener" -> {"local_port", "serve_http_once"}
    [] name = "TcpStream" -> {"write_get", "shutdown_write", "read_to_string"}
    [] name = "File" -> {"read_to_string"}
    [] name = "Iterator" -> {"sum", "collect_vec", "collect_map"}
    [] name \in Parallels -> {"sum", "collect_vec", "collect_map", "reduce"}
    [] OTHER -> {}

\* ... and where it looks through a reference first.
ReplacedBehind(name) ==
  CASE name \in {"String", "Str"} -> {"parse", "join"}
    [] name \in Floats -> {"format_fixed"}
    [] name = "PathBuf" ->
         {"to_string", "read_to_string", "write_string", "read_dir", "metadata_len"}
    [] OTHER -> {}

Replaced(receiver, method) ==
  \/ method \in ReplacedOn(receiver.name)
  \/ method \in ReplacedBehind(Underlying(receiver).name)

\* Mutant: iter() of copyable items is not copied.
OperationsBorrowed(receiver, method) ==
  IF method = "iter_ref" THEN <<"iter">>
  ELSE IF receiver.name \in Parallels /\ method = "reduce" THEN <<"reduce_with">> ELSE <<method>>

\* The Rust operations of the methods that give out items.
Operations(receiver, method) ==
  IF ~Replaced(receiver, method) THEN <<method>>
  ELSE CASE receiver.name \in {"Vec", "Slice"} /\ method = "iter" -> <<"iter", "copied">>
         [] method = "iter_ref" -> <<"iter">>
         [] receiver.name \in Parallels /\ method = "reduce" -> <<"reduce_with">>
         [] OTHER -> <<method>>

------------------------------------------------------------------------------
(* Rust.                                                                       *)

\* No method is lowered behind two references.
Deref(t) == Denotes(Underlying(t))

\* The methods that Rust has under their own name as well.
SameInRust == {"iter", "remove", "get", "get_mut", "reduce", "join", "recv", "send"}

\* What one operation on a receiver gives, its closure's body having type r.
RustItems(t, op, r) ==
  LET e == Arg(t, 1) IN
  CASE t.name \in {"Vec", "Slice"} ->
         (CASE op = "iter" -> RustIter(FALSE, Ref(e), "none")
            [] op = "into_iter" -> RustIter(FALSE, e, "none")
            [] op \in {"chunks", "windows"} -> RustIter(FALSE, Slice(e), "none")
            [] op = "par_iter" -> RustIter(TRUE, Ref(e), "indexed")
            [] op \in {"get", "first", "last"} -> Option(Ref(e))
            [] op = "pop" -> Option(e))
    [] t.name = "Buffer" -> RustIter(FALSE, e, "none")
    [] t.name \in {"HashMap", "BTreeMap"} ->
         (CASE op = "iter" -> RustIter(FALSE, Tuple(<<Ref(e), Ref(Arg(t, 2))>>), "none")
            [] op = "keys" -> RustIter(FALSE, Ref(e), "none")
            [] op = "values" -> RustIter(FALSE, Ref(Arg(t, 2)), "none")
            [] op = "into_iter" -> RustIter(FALSE, Tuple(<<e, Arg(t, 2)>>), "none")
            [] op = "get" -> Option(Ref(Arg(t, 2)))
            [] op = "get_mut" -> Option(Mut(Arg(t, 2)))
            [] op \in {"insert", "remove"} -> Option(Arg(t, 2)))
    [] t.name \in {"HashSet", "BTreeSet"} ->
         RustIter(FALSE, IF op = "iter" THEN Ref(e) ELSE e, "none")
    [] t.name = "Option" ->
         (CASE op \in {"unwrap", "expect", "unwrap_or"} -> e
            [] op = "map" -> Option(r)
            [] op = "and_then" -> r
            [] op = "or_else" -> t
            [] op = "as_ref" -> Option(Ref(e))
            [] op = "as_mut" -> Option(Mut(e))
            [] op \in {"copied", "cloned"} -> Option(Arg(e, 1)))
    [] t.name = "Result" ->
         (CASE op \in {"unwrap", "expect", "unwrap_or"} -> e
            [] op = "map" -> ResultOf(r, Arg(t, 2))
            [] op = "map_err" -> ResultOf(e, r)
            [] op \in {"and_then", "or_else"} -> r
            [] op = "as_ref" -> ResultOf(Ref(e), Ref(Arg(t, 2)))
            [] op = "ok" -> Option(e)
            [] op = "err" -> Option(Arg(t, 2)))

RustAdapts(t, op, r) ==
  LET e == Arg(t, 1)
      parallel == t.name # "Iterator"
      keep(item) == RustIter(parallel, item, t.indexing)
      lose(item) == RustIter(parallel, item, IF parallel THEN "unindexed" ELSE "none")
  IN CASE op \in {"copied", "cloned"} -> IF e.name = "Ref" THEN keep(Arg(e, 1)) ELSE NoSuch
       [] op = "map" -> keep(r)
       [] op = "filter" -> lose(e)
       [] op = "filter_map" -> lose(Arg(r, 1))
       [] op = "enumerate" -> IF t.indexing = "unindexed" THEN NoSuch ELSE keep(Tuple(<<USize, e>>))
       [] op = "zip" ->
            LET other == Denotes(r) IN
            IF t.name # other.name \/ "unindexed" \in {t.indexing, other.indexing} THEN NoSuch
            ELSE keep(Tuple(<<e, Arg(other, 1)>>))
       [] op = "collect_vec" -> Vec(e)
       [] op = "collect_map" -> Type("HashMap", e.arguments)
       [] op = "sum" -> Deref(e)
       [] op \in {"find", "find_any", "find_first", "find_last", "reduce", "reduce_with"} ->
            IF (op = "find" /\ parallel) \/ (op = "reduce" /\ parallel) THEN NoSuch ELSE Option(e)
       [] op = "fold" -> r

\* What Rust hands the closure of an operation.
RustInputs(t, op, r) ==
  LET e == Arg(t, 1) IN
  CASE op \in {"filter", "find", "find_any", "find_first", "find_last"} -> <<Ref(e)>>
    [] op \in {"sort_by_key", "sort_unstable_by_key"} -> <<Ref(e)>>
    [] op = "fold" -> <<r, e>>
    [] op \in {"reduce", "reduce_with"} -> <<e, e>>
    [] op = "map_err" \/ (op = "or_else" /\ t.name = "Result") -> <<Arg(t, 2)>>
    [] op = "or_else" /\ t.name = "Option" -> <<Unit>>
    [] OTHER -> <<e>>

\* The operations that take their receiver by value, and mutably.
TakesValue(t, op) ==
  \/ IsIterator(t) /\ op \notin {"any", "all", "find"}
  \/ t.name \in {"Option", "Result"}
     /\ op \notin {"is_some", "is_none", "is_ok", "is_err", "as_ref", "as_mut"}
  \/ op \in {"into_iter", "into_bytes", "into_utf8", "finish"}
  \/ t.name = "ThreadHandle"

TakesMut(t, op) ==
  \/ t.name = "Iterator" /\ op \in {"any", "all", "find"}
  \/ t.name = "Vec" /\ op \in {"push", "pop", "reserve", "truncate", "reverse", "dedup", "sort",
       "sort_unstable", "sort_by_key", "sort_unstable_by_key", "split_at_mut_sum"}
  \/ t.name \in {"HashMap", "BTreeMap"}
     /\ op \in {"insert", "remove", "get_mut", "entry_or_insert", "add"}
  \/ t.name \in {"HashSet", "BTreeSet"} /\ op \in {"insert", "remove"}
  \/ t = String /\ op = "push_str"
  \/ t.name = "Option" /\ op = "as_mut"
  \/ t.name = "TcpStream" /\ op \in {"write_get", "read_to_string"}
  \/ t.name = "File"

\* The operations whose result the judge works out itself.
GivesItems(t, op) ==
  \/ t.name \in {"Vec", "Slice", "Buffer", "HashMap", "BTreeMap", "HashSet", "BTreeSet"}
     /\ op \in {"iter", "into_iter", "chunks", "windows", "par_iter", "get", "first", "last",
                "pop", "keys", "values", "get_mut", "insert", "remove"}
     /\ ~(t.name \in {"HashSet", "BTreeSet"} /\ op \in {"insert", "remove"})
  \/ t.name \in {"Option", "Result"} /\ op \notin {"is_some", "is_none", "is_ok", "is_err"}

Adapts(t, op) == IsIterator(t) /\ op \notin {"count", "any", "all"}

------------------------------------------------------------------------------
(* The chains.                                                                 *)

VARIABLES lowered,  \* the semantic type of the chain so far
          emitted,  \* the Rust type of what is emitted for it
          call      \* the last call, NoCall before the first

chainVars == <<lowered, emitted, call>>

NoCall == [method |-> None]

ChainInit(locals) ==
  /\ lowered \in locals
  /\ emitted = Denotes(lowered)
  /\ call = NoCall

\* The method needs its own rendering and does not get it: the emission does
\* not see through the reference the receiver is.
Missed(receiver, base, method) ==
  method \in ReplacedOn(base.name) /\ ~Replaced(receiver, method)

\* A call by value on something only borrowed, which is no copy of it either.
Stolen(real, method) ==
  /\ real.name \in {"Ref", "Mut", "LifetimeRef"}
  /\ TakesValue(Deref(real), method) /\ ~IsCopy(Deref(real))

Step(t, op, r) == Denotes(IF Adapts(t, op) THEN RustAdapts(t, op, r) ELSE RustItems(t, op, r))

\* The Rust type after a method's operations.
Emitted(receiver, real, m, r) ==
  LET base == Deref(real)
      ops  == Operations(receiver, m.name)
  IN IF \/ Missed(receiver, base, m.name) /\ m.name \notin SameInRust
        \/ Stolen(real, m.name)
     THEN NoSuch
     ELSE IF ~(GivesItems(base, Head(ops)) \/ Adapts(base, Head(ops))) THEN Denotes(m.result)
     ELSE LET first == Step(base, Head(ops), r)
          IN IF Len(ops) = 1 \/ first = NoSuch THEN first
             ELSE Step(first, ops[2], r)

\* What the closure's parameters really are, after its projection.
Lent(real, receiver, m, r) ==
  LET given == RustInputs(Deref(real), Head(Operations(receiver, m.name)), r)
  IN IF m.inputs = NoClosure THEN NoClosure
     ELSE IF m.projection = "deref" THEN <<Denotes(Arg(given[1], 1))>>
     ELSE [i \in DOMAIN given |-> Denotes(given[i])]

\* The next call; the judgement ends where the two types have come apart.
CallMethod(r) ==
  /\ emitted = Denotes(lowered)
  /\ \E m \in MethodsOf(lowered, r, Rayon) :
       /\ RefusedWith(lowered, m) = None
       /\ lowered' = m.result
       /\ emitted' = Emitted(lowered, emitted, m, r)
       /\ call' = [method |-> m.name, on |-> Deref(emitted), access |-> Access(lowered, m.name),
                   missed |-> Missed(lowered, Deref(emitted), m.name) \/ Stolen(emitted, m.name),
                   promised |-> [i \in DOMAIN m.inputs |-> Denotes(m.inputs[i])],
                   projection |-> m.projection,
                   lent |-> Lent(emitted, lowered, m, r)]

------------------------------------------------------------------------------
(* The chains that are checked: from one local of each kind of type on, with   *)
(* closures that give a scalar, an option, a result or an iterator, until a    *)
(* chain's type has more than MaxSize constructors.                            *)

MaxSize == 5

Locals ==
  {I64, F64, String, Str, Slice(String), Option(String), ResultOf(I64, String)}
    \union {Vec(t) : t \in {I64, U8, String, Vec(I64)}}
    \union {Type(name, <<I64>>) : name \in {"Rc", "Box", "RefCell", "Sender", "ThreadHandle", "BTreeSet"}}
    \union {Primitive(name) : name \in {"TextColumn", "PathBuf", "TcpListener", "TcpStream", "File", "ThreadPool"}}
    \union {Type("Buffer", <<F64>>), Type("HashMap", <<String, I64>>), Type("BTreeMap", <<I64, String>>),
            Type("HashSet", <<String>>), Type("Arc", <<Type("Mutex", <<I64>>)>>), Type("Receiver", <<String>>)}

\* What a closure's body may give, or another operand be.
Rs == {I64, Unit, Option(I64), ResultOf(I64, String), Sequential(String, "shared_ref"),
       Parallel(I64, "shared_ref", "indexed"), Parallel(I64, "owned", "unindexed")}

Size[t \in AllTypes] == FoldLeft(LAMBDA n, part : n + Size[part], 1, t.arguments)

Chain == \E r \in Rs : Size[lowered] <= MaxSize /\ CallMethod(r)

\* A chain from one of the locals on, its closures' bodies having types in results.
ChainSpec(locals, results) ==
  ChainInit(locals) /\ [][\E r \in results : CallMethod(r)]_chainVars

------------------------------------------------------------------------------
ResultsAgree == (call # NoCall => ~call.missed) => emitted = Denotes(lowered)

InputsAgree ==
  call # NoCall /\ ~(call.projection = "borrow" /\ call.method # "filter") =>
    call.promised = call.lent

(* After every call of a chain the expression that was emitted has the Rust    *)
(* type the frontend gave the call: item modes, ownership of items, Rayon's    *)
(* indexing and the emitted copies agree from adapter to adapter.  Emissions   *)
(* that miss a method behind a reference, or take a borrowed value, are        *)
(* recorded as missed and left out.  And a closure's parameters have, in Rust, *)
(* the types its body was checked with; a find over owned items that are no    *)
(* copies lends its closure a reference the frontend promises as a value, and  *)
(* is left out.                                                                *)
TypesAgree == ResultsAgree /\ InputsAgree

(* A method that takes its receiver by value in Rust consumes the local it is  *)
(* called on, whatever chain the receiver came through, and a method that      *)
(* takes it mutably needs mutable access (CRAB208, CRAB227).                   *)
ReceiversAreGiven ==
  call # NoCall =>
    /\ TakesValue(call.on, call.method) => call.access = "owned"
    /\ TakesMut(call.on, call.method) => call.access \in {"owned", "mutable"}

(* A local whose method needs it mutable is emitted as mutable: the changelog  *)
(* promises a mutable reserve().                                               *)
ReceiversAreMutable ==
  call # NoCall /\ TakesMut(call.on, call.method) => call.method \in MutatedReceiverMethods
===============================================================================
