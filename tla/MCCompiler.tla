------------------------------ MODULE MCCompiler ------------------------------
(* The compiler's passes, and the snapshots of sources that embedded callers   *)
(* give it, side by side.  A behaviour follows one of them, the component, on  *)
(* one input of its catalog; the others rest.  A pass that is a function of    *)
(* its input has a question and, after one step, an answer.                    *)
EXTENDS NativePolicy, SourceSnapshots, LocalMoves, MethodChains

CONSTANTS Enums, Structs  \* of MatchPatterns

VARIABLES component, question, answer

allVars == <<vars, chainVars, snapshotVars, moveVars, component, question, answer>>

Moves    == INSTANCE MCMoves
Patterns == INSTANCE MCPatterns

Keywords     == {<<"fn">>}
Constructors == {<<"Some">>}
BuiltinTypes == {<<"Vec">>}
Names    == INSTANCE MCNames
Imports  == INSTANCE MCImports
Expressions == INSTANCE MCExpressions

\* The enum and the struct of MCPatterns: a unit, a tuple and a record variant;
\* fields renamed in Rust.
I8 == Primitive("i8")
Field(name, rust, type) == [name |-> name, rust |-> rust, type |-> type]
Variant(rust, tuple, fields) == [rust |-> rust, tuple |-> tuple, fields |-> fields]

SomeEnums ==
  [E |-> [Unit |-> Variant("E::Unit", FALSE, <<>>),
          Pair |-> Variant("E::Pair", TRUE, <<Field("_0", "_0", I8), Field("_1", "_1", Bool)>>),
          Named |-> Variant("E::Named", FALSE, <<Field("x", "x_", I8), Field("y", "y", Bool)>>)]]
SomeStructs == [P |-> <<Field("y", "x", Bool), Field("x", "y", I8)>>]

\* The statements of MCMoves.
SomeStatements == Moves!Catalog

------------------------------------------------------------------------------
(* Packages for NativePolicy: an exported function, a helper and an inner      *)
(* function, in every combination of bodies that reaches the checks.           *)

MCFunctions == {"entry", "helper", "inner"}
MCOrder == <<"entry", "helper", "inner">>

Node(k, name, on, targets, declared, parts) ==
  [k |-> k, name |-> name, on |-> on, targets |-> targets,
   declared |-> declared, parts |-> parts]
Leaf(k, on) == Node(k, "", on, {}, {}, <<>>)
Local(on) == Leaf("name", on)
Printed == Node("print", "", "", {}, {}, <<Local("i64")>>)
CallOf(f) == Node("call", "", "", {f}, {}, <<>>)
Closure(kind, parts) == Node("closure", kind, "", {}, {}, parts)
MethodNode(on, name, targets, arguments) ==
  Node("method", name, on, targets, {}, <<Local(on)>> \o arguments)
Construct(name, arguments) == Node("constructor", name, "", {}, {}, arguments)
Spawn(parts) == Construct("Spawn", <<Closure("FnOnce", parts)>>)
Crate(path, declared, hooks) == Node("crate", path, "i64", hooks, declared, <<>>)

\* What a leaf of the package may do.
Leaves == {Local("i64"), Printed, Leaf("binary", "i64"), Construct("UnsafeRead", <<>>),
           Crate("rayon", Undeclared, {}), Crate("py", {"PythonRuntime"}, {}),
           MethodNode("ThreadHandle", "join", {}, <<>>)}
HelperBodies == {<<e>> : e \in Leaves \union {Local("Buffer")}} \union {<<CallOf("inner")>>, <<CallOf("helper")>>,
   <<Crate("io", {"Blocking"}, {"inner"})>>, <<MethodNode("Trait", "run", {"inner"}, <<>>)>>}
InnerBodies == {<<Local("i64")>>, <<Printed>>, <<CallOf("helper")>>}
EntryBodies ==
  {<<CallOf("helper")>>, <<Local("i64"), Node("pointer", "", "", {"helper"}, {}, <<>>)>>,
   <<Spawn(<<CallOf("helper")>>)>>, <<Spawn(<<CallOf("helper"), Local("i64")>>)>>,
   <<Spawn(<<Local("Buffer")>>)>>, <<Local("Buffer"), CallOf("helper")>>,
   <<MethodNode("ThreadPool", "execute", {}, <<Closure("FnOnce", <<Printed, CallOf("helper")>>)>>)>>,
   <<MethodNode("ParIterator", "map", {}, <<Closure("Fn", <<CallOf("helper")>>)>>)>>,
   <<MethodNode("ParIterator", "map", {}, <<Closure("FnMut", <<Local("Buffer")>>)>>)>>,
   <<MethodNode("Iterator", "map", {}, <<Closure("inferred", <<CallOf("helper")>>)>>)>>,
   <<Node("binary", "", "i64", {"helper"}, {}, <<Local("i64"), Local("i64")>>)>>,
   <<Crate("py", {"Blocking"}, {"helper"})>>,
   <<Node("call", "", "", {"helper"}, {}, <<Local("Buffer")>>)>>,
   <<Spawn(<<Node("call", "", "", {"helper"}, {}, <<Local("Buffer")>>)>>)>> }

\* Their expressions, down to the leaves.
Inside(expressions) == expressions \union UNION {ToSet(e.parts) : e \in expressions}
MCNodes ==
  Inside(Inside(Inside(UNION {ToSet(b) : b \in EntryBodies \union HelperBodies \union InnerBodies})))

Scalar == ParameterType("i64", Unmarked)
BufferArgument == ParameterType("Buffer", Unmarked)
\* The signatures of the exported function: its parameters, and release_gil.
Signatures == {<<{}, FALSE>>, <<{}, TRUE>>, <<{Scalar, ParameterType("Vec", "Shared")}, FALSE>>,
               <<{ParameterType("Vec", "Ref")}, TRUE>>, <<{BufferArgument}, FALSE>>,
               <<{BufferArgument}, TRUE>>,
               <<{[ParameterType("Option", Unmarked) EXCEPT !.lends = TRUE]}, TRUE>>}
Roles == {"plain", "async", "trait"}

NativeFunction(body, role) ==
  [body |-> body, parameters |-> {}, returns |-> "Unit", exported |-> FALSE, release |-> FALSE, role |-> role]

Packages ==
  {p \in {[entry |-> [body |-> e, parameters |-> s[1], returns |-> "i64",
                      exported |-> TRUE, release |-> s[2], role |-> "plain"],
           helper |-> [NativeFunction(h, r) EXCEPT !.parameters = t], inner |-> NativeFunction(i, "plain")] :
            e \in EntryBodies, s \in Signatures, h \in HelperBodies, t \in {{}, {BufferArgument}},
            r \in Roles, i \in InnerBodies} : WellFormed(p)}

------------------------------------------------------------------------------

PolicyRests == PolicyInit({[f \in Functions |-> NativeFunction(<<Local("i64")>>, "plain")]})
ChainRests  == ChainInit({Unit})
MovesRest   == MovesInit({[parameters |-> {}, body |-> <<>>]})
AsksNothing == question = <<>> /\ answer = <<>>

PolicyBegins == component = "policy" /\ PolicyInit(Packages) /\ ChainRests /\ MovesRest /\ AsksNothing
ChainBegins  == component = "chains" /\ ChainInit(Locals) /\ PolicyRests /\ MovesRest /\ AsksNothing
MovesBegin   == component = "moves" /\ MovesInit(Moves!Bodies) /\ PolicyRests /\ ChainRests /\ AsksNothing
Asks(name, questions) ==
  /\ component = name /\ question \in questions /\ answer = <<>>
  /\ PolicyRests /\ ChainRests /\ MovesRest

Inputs ==
  \/ PolicyBegins
  \/ ChainBegins
  \/ MovesBegin
  \/ Asks("snapshots", {<<>>})
  \/ Asks("patterns", Patterns!Matches)
  \/ Asks("names", Names!NamedFunctions)
  \/ Asks("imports", Imports!Packages)
  \/ Asks("expressions", Expressions!Questions)

Init == Inputs /\ SnapshotInit

Answer(name, reply) ==
  /\ component = name /\ answer = <<>> /\ answer' = <<reply>>
  /\ UNCHANGED <<vars, chainVars, snapshotVars, moveVars, component, question>>

PolicyStep == component = "policy" /\ PolicyNext /\ UNCHANGED <<chainVars, snapshotVars, moveVars, component, question, answer>>
ChainStep  == component = "chains" /\ Chain /\ UNCHANGED <<vars, snapshotVars, moveVars, component, question, answer>>
MovesStep  == component = "moves" /\ MovesNext /\ UNCHANGED <<vars, chainVars, snapshotVars, component, question, answer>>
LowerMatch == component = "patterns" /\ Answer("patterns", Patterns!LowerArms(question))
BindNames == component = "names" /\ Answer("names", Names!Bind(question))
TypeExpression == component = "expressions" /\ Answer("expressions", Expressions!Ask(question))
SweepImports ==
  /\ component = "imports" /\ ~Imports!Finished /\ answer' = Imports!SweepMore
  /\ UNCHANGED <<vars, chainVars, snapshotVars, moveVars, component, question>>
SnapshotStep ==
  component = "snapshots" /\ SnapshotNext /\ UNCHANGED <<vars, chainVars, moveVars, component, question, answer>>

Next == PolicyStep \/ ChainStep \/ MovesStep \/ LowerMatch \/ BindNames \/ TypeExpression
          \/ SweepImports \/ SnapshotStep

Spec       == Init /\ [][Next]_allVars
PolicySpec == PolicyBegins /\ SnapshotInit /\ [][PolicyStep]_allVars

------------------------------------------------------------------------------
(* The properties of each component, while a behaviour follows it.             *)

(* See MCPatterns: a match takes the arm its source says, with its names.      *)
ArmsAgree == component = "patterns" => Patterns!ArmsAgree
(* See MCNames: an emitted name means what the source name means.              *)
NamesResolve == component = "names" => Names!NamesResolve
(* See MCImports: a name is what importing the package makes of it.            *)
ImportsAgree == component = "imports" => Imports!ImportsAgree
(* See MCExpressions: accepted expressions are typed Rust that means the same. *)
ExpressionsAgree == component = "expressions" => Expressions!ExpressionsAgree
===============================================================================
