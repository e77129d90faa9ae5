-------------------------- MODULE ExpressionEffects --------------------------
(* The expressions of the compiler's IR as far as effects go: which effects    *)
(* one expression introduces by itself (compiler/effects.py), what it may      *)
(* dispatch to, and which expressions it contains.                             *)
(*                                                                             *)
(* An expression is a record: k its kind, name the constructor, method or      *)
(* path, on the Rust name of the type it works on, targets the functions it    *)
(* may dispatch to, declared the effects a typed adapter promises ({"none"}    *)
(* without a promise), parts its children in order: a method's receiver before *)
(* its arguments, a closure's prefix before its result.  "IntegerMap" stands   *)
(* for a HashMap or BTreeMap of integers.                                      *)
EXTENDS Naturals, Sequences, SequencesExt

CONSTANT Nodes  \* the expressions of a package's functions

\* The kinds that may run a function of the package.
Dispatching == {"call", "method", "trait", "pointer", "binary", "crate"}

\* Expressions are made of expressions.  A method has a receiver, a closure a
\* result, and only what dispatches has targets.
ASSUME NodesAssumption ==
  \A e \in Nodes :
    /\ e.parts \in Seq(Nodes)
    /\ e.k \in {"method", "closure"} => e.parts # <<>>
    /\ e.targets # {} => e.k \in Dispatching

Integers32 == {"i32", "i64", "u64", "usize"}
Signed == {"i32", "i64"}
Undeclared == {"none"}

ConstructorEffects(name) ==
  CASE name \in {"UnsafeRead", "UnsafeWrite"} -> {"UnsafeMemory"}
    [] name = "CAbs" -> {"UnsafeFfi", "MayPanic"}
    [] name = "UnsafeStaticIncrement" -> {"GlobalMutation", "MayPanic"}
    [] name \in {"Spawn", "ThreadPool"} -> {"ThreadSpawn", "MayPanic"}
    [] name \in {"BlockOn", "SleepMillis", "TcpListener", "TcpStream"} ->
         {"Blocking", "MayPanic"}
    [] name = "FileOpen" -> {"Blocking"}
    [] OTHER -> {}

CrateEffects(e) ==
  IF e.declared # Undeclared THEN e.declared
  ELSE (IF e.name # "std" /\ e.name # "std::mem::drop"
        THEN {"OpaqueCrateCall", "MayPanic"} ELSE {})
       \union (IF e.name = "std::mem::drop" /\ e.on = "ThreadPool"
               THEN {"Blocking"} ELSE {})

MethodEffects(on, name) ==
  UNION {
    IF on = "Vec" /\ name = "split_at_mut_sum" THEN {"UnsafeMemory", "MayPanic"} ELSE {},
    IF on \in {"TcpListener", "TcpStream"} THEN {"Blocking", "MayPanic"} ELSE {},
    IF on = "File" /\ name = "read_to_string" THEN {"Blocking"} ELSE {},
    IF on = "PathBuf" /\ name \in {"read_to_string", "write_string", "read_dir",
                                   "metadata_len", "exists"}
      THEN {"Blocking"} ELSE {},
    IF on = "ThreadPool" THEN {"ThreadSpawn", "Blocking", "MayPanic"} ELSE {},
    IF \/ on = "ThreadHandle" /\ name = "join"
       \/ on = "Receiver" /\ name \in {"recv", "recv_async"}
      THEN {"Blocking", "MayPanic"} ELSE {},
    IF \/ on \in {"Arc", "Mutex", "RefCell", "Sender", "SyncSender"}
       \/ on = "IntegerMap" /\ name = "add"
       \/ on = "TextColumn" /\ name \in {"get", "contains_at"}
       \/ on \in {"Vec", "Slice"} /\ name \in {"chunks", "windows"}
       \/ name \in {"expect", "unwrap"}
      THEN {"MayPanic"} ELSE {} }

\* The effects one node introduces, those of its parts excluded.
DirectEffects(e) ==
  CASE e.k \in {"index", "panic"} -> {"MayPanic"}
    [] e.k = "negative" -> IF e.on \in Signed THEN {"MayPanic"} ELSE {}
    [] e.k = "binary" -> IF e.on \in Integers32 THEN {"MayPanic"} ELSE {}
    [] e.k = "crate" -> CrateEffects(e)
    [] e.k = "constructor" -> ConstructorEffects(e.name)
    [] e.k = "method" -> MethodEffects(e.on, e.name)
    [] e.k = "print" -> {"PythonRuntime"}
    [] OTHER -> {}

\* Mutant: dynamic dispatch and function pointers are left out.
StaticTargets(e) ==
  IF e.k \in {"call", "binary", "crate"} THEN e.targets ELSE {}

\* The functions one node may run: a call, a method with its possible
\* implementations, a trait call, a function pointer, an operator
\* implementation, the error hook of a Python adapter.
DispatchTargets(e) == IF e.k \in Dispatching THEN e.targets ELSE {}

\* Every expression in e, e included.
Walk[e \in Nodes] == {e} \union UNION {Walk[part] : part \in ToSet(e.parts)}

WalkAll(body) == UNION {Walk[e] : e \in ToSet(body)}

IsClosure(e) == e.k = "closure"
Result(closure) == closure.parts[Len(closure.parts)]

Arguments(e) == IF e.k = "method" THEN Tail(e.parts) ELSE e.parts

\* The closure that a spawn, or a job of a pool, hands to another thread.
WorkerClosures(e) ==
  IF /\ \/ e.k = "constructor" /\ e.name = "Spawn"
        \/ e.k = "method" /\ e.on = "ThreadPool" /\ e.name = "execute"
     /\ Arguments(e) # <<>> /\ IsClosure(Head(Arguments(e)))
  THEN {Head(Arguments(e))} ELSE {}

ParallelClosures(e) ==
  IF e.k = "method" /\ e.on = "ParIterator"
  THEN {c \in ToSet(Arguments(e)) : IsClosure(c)} ELSE {}
==============================================================================
