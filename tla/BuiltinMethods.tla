---------------------------- MODULE BuiltinMethods ----------------------------
(* The methods the frontend knows (compiler/frontend.py, _lower_method_call):  *)
(* for a receiver type the set of methods with the arguments they take, the    *)
(* type their closure's parameter gets, the type of the call and the code of a *)
(* refusal; and the access each needs (compiler/ownership.py).  A closure's    *)
(* body has the type r; for fold, reduce and zip r is the type of the initial  *)
(* value or of the other operand.                                              *)
EXTENDS SemanticTypes

None == "none"
NoClosure == <<>>

\* takes: the plain arguments; inputs: what the closure is given, if one is;
\* projection: how the emitted closure unpacks a borrowed item.
Method(name, takes, inputs, projection, result) ==
  [name |-> name, takes |-> takes, inputs |-> inputs, projection |-> projection,
   result |-> result, code |-> None]
Plain(name, takes, result) == Method(name, takes, NoClosure, "direct", result)
With(name, inputs, result) == Method(name, <<>>, inputs, "direct", result)
\* Mutant: the emitted closure never unpacks what it is lent.
FilteringDirect(name, inputs, projection, result) == Method(name, <<>>, inputs, "direct", result)

Filtering(name, inputs, projection, result) == Method(name, <<>>, inputs, projection, result)

All(names, takes, result) == {Plain(n, takes, result) : n \in names}
OnlyIf(ok, code, methods) == {[m EXCEPT !.code = IF ok THEN @ ELSE code] : m \in methods}
If(condition, methods) == IF condition THEN methods ELSE {}

Sized == {Plain("len", <<>>, USize), Plain("is_empty", <<>>, Bool)}

TextMethods ==
  Sized \union {
    Plain("total_bytes", <<>>, USize), Plain("get", <<USize>>, String),
    Plain("contains_at", <<USize, Str>>, Bool)}

BufferMethods(e) == Sized \union {Plain("iter", <<>>, Sequential(e, "owned"))}

\* What a slice and a vector share.
SliceMethods(e) ==
  Sized
    \union OnlyIf(IsCopy(e), "CRAB184", {Plain("iter", <<>>, Sequential(e, "owned"))})
    \union {Plain("iter_ref", <<>>, Sequential(e, "shared_ref")),
            Plain("get", <<USize>>, Option(Ref(e)))}
    \union All({"first", "last"}, <<>>, Option(Ref(e)))
    \union All({"chunks", "windows"}, <<USize>>, Sequential(Slice(e), "owned"))

VecMethods(e, r, rayon) ==
  SliceMethods(e)
    \union {Plain("push", <<e>>, Unit), Plain("pop", <<>>, Option(e)),
            Plain("into_iter", <<>>, Sequential(e, "owned")),
            Plain("reverse", <<>>, Unit), Plain("as_slice", <<>>, Slice(e))}
    \union All({"reserve", "truncate"}, <<USize>>, Unit)
    \union OnlyIf(IsOrdered(e), "CRAB235", All({"sort", "sort_unstable"}, <<>>, Unit))
    \union OnlyIf(IsOrdered(r), "CRAB235",
             {With(n, <<Ref(e)>>, Unit) : n \in {"sort_by_key", "sort_unstable_by_key"}})
    \union OnlyIf(IsEquality(e), "CRAB235", {Plain("dedup", <<>>, Unit)})
    \union If(e.name = "u8", {Plain("into_utf8", <<>>, ResultOf(String, String))})
    \union OnlyIf(IsNumeric(e), "CRAB196", {Plain("split_at_mut_sum", <<USize>>, e)})
    \union OnlyIf(rayon, "CRAB176",
             {Plain("par_iter", <<>>, Parallel(e, "shared_ref", "indexed"))})

\* Arc, Rc, Box and RefCell.
CellMethods(t) ==
  LET e == Arg(t, 1) IN
  CASE t.name = "Arc" ->
         {Plain("clone", <<>>, t), Plain("strong_count", <<>>, USize)}
           \union If(e.name = "Mutex",
             If(IsNumeric(Arg(e, 1)), {Plain("add_locked", e.arguments, Unit)})
               \union If(IsCopy(Arg(e, 1)), {Plain("get_locked", <<>>, Arg(e, 1))}))
    [] t.name = "Rc" ->
         {Plain("clone", <<>>, t), Plain("strong_count", <<>>, USize)}
           \union If(IsCopy(e), {Plain("deref_copy", <<>>, e)})
    [] t.name = "Box" -> If(IsCopy(e), {Plain("deref_copy", <<>>, e)})
    [] t.name = "RefCell" ->
         {Plain("replace", <<e>>, e)} \union If(IsCopy(e), {Plain("borrow_copy", <<>>, e)})

ChannelMethods(t) ==
  CASE t.name \in {"Sender", "SyncSender"} -> {Plain("send", t.arguments, Unit)}
    [] t.name = "Receiver" ->
         {Plain("recv", <<>>, Arg(t, 1)), Plain("recv_async", <<>>, Type("Future", t.arguments))}
    [] t.name = "ThreadHandle" -> {Plain("join", <<>>, Arg(t, 1))}
    [] t.name = "TcpListener" ->
         {Plain("local_port", <<>>, U64), Plain("serve_http_once", <<Str, Str>>, U64)}
    [] t.name = "TcpStream" ->
         {Plain("write_get", <<Str>>, Unit), Plain("shutdown_write", <<>>, Unit),
          Plain("read_to_string", <<>>, String)}
    [] t.name = "File" -> {Plain("read_to_string", <<>>, ResultOf(String, IoError))}

PoolMethods(r) ==
  OnlyIf(r = Unit, "CRAB199", {Plain("execute", <<>>, Unit)})
    \union {Plain("finish", <<>>, ResultOf(Unit, String))}

\* A String key is also looked up by a borrowed string.
Lookup(k) == IF k = String THEN Str ELSE k

MapMethods(k, v) ==
  Sized
    \union {Plain("insert", <<k, v>>, Option(v)), Plain("contains_key", <<Lookup(k)>>, Bool),
            Plain("remove", <<Lookup(k)>>, Option(v)),
            Plain("get_or", <<Lookup(k), v>>, v), Plain("entry_or_insert", <<k, v>>, v),
            Plain("get", <<Lookup(k)>>, Option(Ref(v))),
            Plain("get_mut", <<Lookup(k)>>, Option(Mut(v))),
            Plain("keys", <<>>, Sequential(k, "shared_ref")),
            Plain("values", <<>>, Sequential(v, "shared_ref")),
            Plain("into_iter", <<>>, Sequential(Tuple(<<k, v>>), "owned"))}
    \union All({"iter", "iter_ref"}, <<>>, Sequential(Tuple(<<Ref(k), Ref(v)>>), "owned"))
    \union If(IsNumeric(v), {Plain("add", <<k, v>>, Unit)})

SetMethods(e) ==
  Sized
    \union {Plain("insert", <<e>>, Bool), Plain("into_iter", <<>>, Sequential(e, "owned"))}
    \union All({"contains", "remove"}, <<Lookup(e)>>, Bool)
    \union All({"iter", "iter_ref"}, <<>>, Sequential(e, "shared_ref"))

StringMethods(t, r) ==
  Sized
    \union All({"lines", "split_whitespace"}, <<>>, Sequential(Str, "owned"))
    \union All({"trim", "trim_start", "trim_end"}, <<>>, Str)
    \union All({"contains", "starts_with", "ends_with"}, <<Str>>, Bool)
    \union All({"strip_prefix", "strip_suffix"}, <<Str>>, Option(Str))
    \union {Plain("to_lowercase", <<>>, String), Plain("replace", <<Str, Str>>, String),
            Plain("find", <<Str>>, Option(USize)),
            Plain("split", <<Str>>, Sequential(Str, "owned")),
            Plain("split_once", <<Str>>, Option(Tuple(<<Str, Str>>))),
            Plain("chars", <<>>, Sequential(Char, "owned")),
            Plain("bytes", <<>>, Sequential(U8, "owned")),
            Plain("join", <<Vec(Str)>>, String)}
    \* parse takes its type from the context, here r.
    \union OnlyIf(IsNumeric(r) \/ r = Bool, "CRAB224", {Plain("parse", <<>>, ResultOf(r, String))})
    \union If(t = String, {Plain("clone", <<>>, String), Plain("as_str", <<>>, Str),
                           Plain("push_str", <<Str>>, Unit), Plain("into_bytes", <<>>, Vec(U8))})

NumericMethods(t) ==
  {Plain("to_string", <<>>, String)}
    \union If(t.name \in Floats, {Plain("format_fixed", <<USize>>, String)})
    \union All({"checked_add", "checked_sub", "checked_mul"}, <<t>>, Option(t))

PathMethods(t) ==
  LET io(value) == ResultOf(value, IoError) IN
  {Plain("join", <<Str>>, t), Plain("exists", <<>>, Bool), Plain("to_string", <<>>, String),
   Plain("read_to_string", <<>>, io(String)), Plain("write_string", <<Str>>, io(Unit)),
   Plain("read_dir", <<>>, io(Vec(t))), Plain("metadata_len", <<>>, io(U64))}

\* What an Option and a Result share.
Unwraps(value) == {Plain("unwrap", <<>>, value), Plain("expect", <<Str>>, value),
                   Plain("unwrap_or", <<value>>, value)}

OptionMethods(t, r) ==
  LET e == Arg(t, 1) IN
  Unwraps(e)
    \union All({"is_some", "is_none"}, <<>>, Bool)
    \union {With("map", <<e>>, Option(r)), Plain("as_ref", <<>>, Option(Ref(e))),
            Plain("as_mut", <<>>, Option(Mut(e)))}
    \union OnlyIf(r.name = "Option", "CRAB223", {With("and_then", <<e>>, r)})
    \union OnlyIf(r = t, "CRAB115", {With("or_else", <<Unit>>, t)})
    \union If(e.name = "Ref",
         OnlyIf(IsCopy(Underlying(e)), "CRAB223", {Plain("copied", <<>>, Option(Underlying(e)))})
           \union OnlyIf(IsClone(Underlying(e)), "CRAB223",
                         {Plain("cloned", <<>>, Option(Underlying(e)))}))

ResultMethods(t, r) ==
  LET ok == Arg(t, 1)
      err == Arg(t, 2) IN
  Unwraps(ok)
    \union All({"is_ok", "is_err"}, <<>>, Bool)
    \union {With("map", <<ok>>, ResultOf(r, err)), With("map_err", <<err>>, ResultOf(ok, r)),
            Plain("as_ref", <<>>, ResultOf(Ref(ok), Ref(err))),
            Plain("ok", <<>>, Option(ok)), Plain("err", <<>>, Option(err))}
    \union OnlyIf(r.name = "Result" /\ (r.name = "Result" => Arg(r, 2) = err), "CRAB223",
                  {With("and_then", <<ok>>, r)})
    \union OnlyIf(r.name = "Result" /\ (r.name = "Result" => Arg(r, 1) = ok), "CRAB223",
                  {With("or_else", <<err>>, r)})

\* An adapter keeps how the iterator runs; its items become owned.
Adapted(t, item, mode, indexing) ==
  IF t.name = "Iterator" THEN Sequential(item, mode) ELSE Parallel(item, mode, indexing)
Unindexed(t) == IF t.name = "Iterator" THEN "none" ELSE "unindexed"

Adapters(t, r) ==
  LET item    == Arg(t, 1)
      exposed == Exposed(t)
      lent    == t.mode # "owned"
      keep(i) == Adapted(t, i, "owned", t.indexing)
  IN If(lent, OnlyIf(IsCopy(item), "CRAB220", {Plain("copied", <<>>, keep(item))})
                \union OnlyIf(IsClone(item), "CRAB220", {Plain("cloned", <<>>, keep(item))}))
     \union {With("map", <<exposed>>, keep(r)),
             Filtering("filter", <<IF lent THEN exposed ELSE IF IsCopy(item) THEN item ELSE Ref(item)>>,
                       IF lent \/ IsCopy(item) THEN "deref" ELSE "borrow",
                       Adapted(t, item, t.mode, Unindexed(t)))}
     \union OnlyIf(r.name = "Option", "CRAB221",
              {With("filter_map", <<exposed>>,
                    Adapted(t, IF r.name = "Option" THEN Arg(r, 1) ELSE r, "owned", Unindexed(t)))})
     \union OnlyIf(t.indexing # "unindexed", "CRAB225",
              {Plain("enumerate", <<>>, keep(Tuple(<<USize, exposed>>)))})
     \union If(IsIterator(r),
          OnlyIf((r.name = "Iterator") = (t.name = "Iterator"), "CRAB221",
            OnlyIf("unindexed" \notin {t.indexing, r.indexing}, "CRAB225",
              {Plain("zip", <<r>>, keep(Tuple(<<exposed, Exposed(r)>>)))})))

Consumers(t, r) ==
  LET item    == Arg(t, 1)
      exposed == Exposed(t)
      owned   == t.mode = "owned"
      finds   == IF t.name = "Iterator" THEN {"find"} ELSE {"find_any", "find_first", "find_last"}
  IN OnlyIf(owned, "CRAB220", {Plain("collect_vec", <<>>, Vec(item))})
     \union If(owned /\ item.name = "Tuple" /\ Len(item.arguments) = 2,
               {Plain("collect_map", <<>>, Type("HashMap", item.arguments))})
     \union If(owned /\ IsNumeric(item), {Plain("sum", <<>>, item)})
     \union {Plain("count", <<>>, USize)}
     \union {With(n, <<exposed>>, Bool) : n \in {"any", "all"}}
     \union {Filtering(n, <<exposed>>, IF owned /\ ~IsCopy(item) THEN "borrow" ELSE "deref",
                       Option(exposed)) : n \in finds}
     \union OnlyIf(t.name = "Iterator", "CRAB221",
                   {Method("fold", <<r>>, <<r, exposed>>, "direct", r)})
     \union {With("reduce", <<exposed, exposed>>, Option(exposed))}

\* The whole table, for the type behind an ownership wrapper.
MethodsOf(receiver, r, rayon) ==
  LET t == Underlying(receiver) IN
  CASE t.name = "TextColumn" -> TextMethods
    [] t.name = "Buffer" -> BufferMethods(Arg(t, 1))
    [] t.name = "Slice" -> SliceMethods(Arg(t, 1))
    [] t.name = "Vec" -> VecMethods(Arg(t, 1), r, rayon)
    [] t.name \in {"Arc", "Rc", "Box", "RefCell"} -> CellMethods(t)
    [] t.name \in {"Sender", "SyncSender", "Receiver", "ThreadHandle", "TcpListener",
                   "TcpStream", "File"} -> ChannelMethods(t)
    [] t.name = "ThreadPool" -> PoolMethods(r)
    [] t.name \in {"HashMap", "BTreeMap"} -> MapMethods(Arg(t, 1), Arg(t, 2))
    [] t.name \in {"HashSet", "BTreeSet"} -> SetMethods(Arg(t, 1))
    [] t \in {String, Str} -> StringMethods(t, r)
    [] IsNumeric(t) -> NumericMethods(t)
    [] t.name = "PathBuf" -> PathMethods(t)
    [] t.name = "Option" -> OptionMethods(t, r)
    [] t.name = "Result" -> ResultMethods(t, r)
    [] IsIterator(t) -> Adapters(t, r) \union Consumers(t, r)
    [] OTHER -> {}

------------------------------------------------------------------------------
(* What a call needs of its receiver.                                          *)

Mutating(receiver) ==
  CASE receiver = "Vec" -> {"push", "pop", "reserve", "split_at_mut_sum", "sort",
         "sort_unstable", "sort_by_key", "sort_unstable_by_key", "dedup", "reverse", "truncate"}
    [] receiver \in {"HashMap", "BTreeMap"} ->
         {"insert", "remove", "get_mut", "entry_or_insert", "add"}
    [] receiver \in {"HashSet", "BTreeSet"} -> {"insert", "remove"}
    [] receiver = "String" -> {"push_str"}
    [] receiver = "Option" -> {"as_mut"}
    [] receiver = "TcpStream" -> {"write_get", "read_to_string"}
    [] receiver = "File" -> {"read_to_string"}
    [] OTHER -> {}

Consuming(receiver) ==
  CASE receiver \in {"Iterator", "Option", "Result"} \union Parallels ->
         {"map", "map_err", "and_then", "or_else", "filter", "filter_map", "copied", "cloned",
          "collect_vec", "collect_map", "sum", "count", "any", "all", "find", "find_any",
          "find_first", "find_last", "fold", "reduce", "enumerate", "zip", "unwrap", "expect",
          "unwrap_or", "ok", "err"}
    [] receiver = "Vec" -> {"into_iter", "into_utf8"}
    [] receiver \in {"HashMap", "BTreeMap", "HashSet", "BTreeSet"} -> {"into_iter"}
    [] receiver = "String" -> {"into_bytes"}
    [] receiver = "ThreadPool" -> {"finish"}
    [] receiver = "ThreadHandle" -> {"join"}
    [] OTHER -> {}

\* Mutant: the receiver's own name, references not looked through.
AccessOfName(receiver, method) ==
  IF method \in Mutating(receiver.name) THEN "mutable"
  ELSE IF method \in Consuming(receiver.name) THEN "owned" ELSE "shared"

Access(receiver, method) ==
  LET t == Underlying(receiver).name IN
  IF method \in Mutating(t) THEN "mutable"
  ELSE IF method \in Consuming(t) THEN "owned"
  ELSE IF \/ t = "RefCell" /\ method = "replace"
          \/ t = "Arc" /\ method \in {"add_locked", "get_locked"}
       THEN "interior" ELSE "shared"

\* The code a call is refused with, None when it is lowered.
RefusedWith(receiver, m) ==
  IF m.code # None THEN m.code
  ELSE IF receiver.name \in {"Ref", "Shared"} /\ Access(receiver, m.name) \in {"mutable", "owned"}
  THEN "CRAB208" ELSE None

\* What a parameter's ownership grants the places it is the root of.
Grants(ownership) ==
  CASE ownership = "Owned" -> {"shared", "interior", "mutable", "owned"}
    [] ownership = "Mut" -> {"shared", "interior", "mutable"}
    [] ownership \in {"Ref", "Shared"} -> {"shared", "interior"}

\* The methods that make the local they are called on a "let mut".
MutatedReceiverMethods ==
  {"push", "pop", "push_str", "insert", "remove", "get_mut", "as_mut", "entry_or_insert",
   "add", "split_at_mut_sum", "write_get", "shutdown_write", "read_to_string", "sort",
   "sort_unstable", "sort_by_key", "sort_unstable_by_key", "dedup", "reverse", "truncate"}
===============================================================================
