----------------------------- MODULE NativePolicy -----------------------------
(* What the compiler lets a package do with Python: the checks of              *)
(* validate_package_ir (compiler/validation.py) on the propagated effects,     *)
(* the decision to release the GIL around a native call (compiler/codegen.py), *)
(* and, to judge them, the native call itself: a walk from an exported         *)
(* function through its expressions, on its own thread and on the threads it   *)
(* starts, into whatever they dispatch to.                                     *)
EXTENDS ExpressionEffects, EffectPropagation

\* Calls are resolved within the package, and an adapter declares effects.
ASSUME PackageAssumption ==
  \A e \in Nodes :
    /\ e.targets \subseteq Functions
    /\ e.declared \subseteq Effect \/ e.declared = Undeclared

VARIABLES package,   \* symbol -> its FunctionIR
          verdict,   \* what validation said: "pending", "accepted" or a code
          walk       \* where the call is, NotCalled before it

vars == <<effectVars, package, verdict, walk>>

NotCalled == [entry |-> "nothing"]
Unmarked == "none"

\* lends: whether one of its type arguments retains a Python borrow.
ParameterType(name, ownership) == [name |-> name, ownership |-> ownership, lends |-> FALSE]

TakesBuffer(function) == \E t \in function.parameters : t.name = "Buffer"

TouchesBuffer(e) == e.k = "name" /\ e.on = "Buffer"

\* What the frontend makes of a package.  Buffers come into a function as its
\* parameters, are not moved out of Python's hands (CRAB142) and are passed on
\* under a name of their own type.
WellFormed(functions) ==
  \A f \in Functions :
    LET function == functions[f] IN
    /\ function.body \in Seq(Nodes) /\ WalkAll(function.body) \subseteq Nodes
    /\ \A t \in function.parameters :
         function.exported /\ t.name = "Buffer" => t.ownership = Unmarked
    /\ \A e \in WalkAll(function.body) :
         /\ TouchesBuffer(e) => TakesBuffer(function)
         /\ (\E g \in e.targets : TakesBuffer(functions[g])) =>
              \E x \in Walk[e] : TouchesBuffer(x)

\* The effects of one function's own signature and body.
FunctionEffects(function) ==
  {"NativeRust"}
    \union (IF function.parameters # {} \/ function.returns # "Unit"
            THEN {"ConversionBoundary"} ELSE {})
    \union (IF TakesBuffer(function) THEN {"BorrowedBuffer"} ELSE {})
    \union UNION {DirectEffects(e) : e \in WalkAll(function.body)}

FunctionCalls(function) == UNION {DispatchTargets(e) : e \in WalkAll(function.body)}

PolicyInit(packages) ==
  /\ package \in packages
  /\ EffectInit([f \in Functions |-> FunctionCalls(package[f])],
                [f \in Functions |-> FunctionEffects(package[f])])
  /\ verdict = "pending" /\ walk = NotCalled

------------------------------------------------------------------------------
ReachesPython(f) == f \in Functions /\ "PythonRuntime" \in effects[f]

\* Mutant: only what a node calls directly.
PythonPrints(e) == e.k = "print"

PythonNode(e) ==
  \/ e.k = "print"
  \/ e.k = "crate" /\ e.declared # Undeclared /\ "PythonRuntime" \in e.declared
  \/ \E f \in DispatchTargets(e) : ReachesPython(f)

\* The validator looks at the result of a closure, not at its prefix.
PythonOffender(closure) == \E e \in Walk[Result(closure)] : PythonNode(e)

BufferOffender(closure) == \E e \in Walk[Result(closure)] : TouchesBuffer(e)

RetainsBorrow(t) ==
  /\ t.ownership \notin {"Owned", "Shared"}
  /\ \/ t.ownership \in {"Ref", "Mut"}
     \/ t.name \in {"Buffer", "Str", "LifetimeRef"}
     \/ t.lends

Code(bad, code) == IF bad THEN {code} ELSE {}

AnnotationProblem(f, body) ==
  Code(~(UNION {DirectEffects(e) : e \in body} \subseteq effects[f]), "assertion")

ReleaseProblem(f) ==
  Code(/\ package[f].release
       /\ \/ ReachesPython(f)
          \/ \E t \in package[f].parameters : RetainsBorrow(t), "CRAB236")

PlacementProblem(f) ==
  Code(ReachesPython(f) /\ package[f].role \in {"trait", "operator", "async"}, "CRAB207")

ClosureContractProblem(e) ==
  Code(/\ e.k = "method" /\ e.on \in {"ParIterator", "Iterator"}
       /\ \E c \in ToSet(Arguments(e)) :
            /\ IsClosure(c)
            /\ \/ e.on = "ParIterator" /\ c.name \in {"FnMut", "FnOnce"}
               \/ e.on = "Iterator" /\ c.name = "FnOnce", "CRAB233")

HookProblem(e) ==
  Code(/\ e.k = "crate"
       /\ \E f \in e.targets : effects[f] \cap {"PythonRuntime", "MayPanic"} # {},
       "CRAB238")

BufferProblem(e) ==
  Code(\E c \in WorkerClosures(e) \union ParallelClosures(e) : BufferOffender(c),
       "CRAB229")

WorkerProblem(e) == Code(\E c \in WorkerClosures(e) : PythonOffender(c), "CRAB206")

ContextProblem(e, workers) ==
  Code(\/ e.k = "pointer" /\ \E f \in e.targets : ReachesPython(f)
       \/ IsClosure(e) /\ e \notin workers /\ PythonOffender(e), "CRAB207")

ExpressionProblems(e, workers) ==
  UNION {ClosureContractProblem(e), HookProblem(e), BufferProblem(e), WorkerProblem(e),
         ContextProblem(e, workers)}

FunctionProblems(f) ==
  LET body    == WalkAll(package[f].body)
      workers == UNION {WorkerClosures(e) : e \in body}
  IN AnnotationProblem(f, body) \union ReleaseProblem(f) \union PlacementProblem(f)
       \union UNION {ExpressionProblems(e, workers) : e \in body}

\* A package with problems is refused for one of them.
Validate ==
  /\ Propagated /\ verdict = "pending"
  /\ LET problems == UNION {FunctionProblems(f) : f \in Functions}
     IN verdict' \in IF problems = {} THEN {"accepted"} ELSE problems
  /\ UNCHANGED <<effectVars, package, walk>>

------------------------------------------------------------------------------
SafeNames == Integers32 \union {"f32", "f64", "bool", "char", "Unit"}

AttachingEffects == {"BorrowedBuffer", "OpaqueCrateCall", "PythonRuntime",
                     "GlobalMutation", "UnsafeMemory", "UnsafeFfi"}

ReleasesGil(f) ==
  LET function == package[f] IN
  IF function.release
  THEN /\ function.exported
       /\ ~ReachesPython(f)
       /\ \A t \in function.parameters : ~RetainsBorrow(t)
  ELSE /\ effects[f] \cap AttachingEffects = {}
       /\ \A t \in function.parameters :
            /\ t.ownership \in {Unmarked, "Shared"}
            /\ t.name \in SafeNames \/ t.ownership = "Shared"
       /\ function.returns \in SafeNames

\* A call of an exported function: it is at some statement of the body.
Call(f) ==
  /\ verdict = "accepted" /\ walk = NotCalled /\ package[f].exported
  /\ \E i \in DOMAIN package[f].body :
       walk' = [entry |-> f, at |-> package[f].body[i],
                worker |-> FALSE, prefix |-> FALSE]
  /\ UNCHANGED <<effectVars, package, verdict>>

\* Into a part of the expression; a worker's closure runs on its own thread.
Descend ==
  /\ walk # NotCalled
  /\ \E i \in DOMAIN walk.at.parts :
       LET part == walk.at.parts[i]
           handed == part \in WorkerClosures(walk.at) \union ParallelClosures(walk.at)
       IN walk' = [walk EXCEPT
            !.at = part,
            !.worker = @ \/ handed,
            !.prefix = @ \/ (walk.worker /\ IsClosure(walk.at) /\ i < Len(walk.at.parts))]
  /\ UNCHANGED <<effectVars, package, verdict>>

\* Into a function the expression dispatches to, on the same thread.
Enter ==
  /\ walk # NotCalled
  /\ \E f \in walk.at.targets : \E i \in DOMAIN package[f].body :
       walk' = [walk EXCEPT !.at = package[f].body[i]]
  /\ UNCHANGED <<effectVars, package, verdict>>

PolicyNext ==
  \/ (Visit \/ SweepAgain) /\ UNCHANGED <<package, verdict, walk>>
  \/ Validate
  \/ \E f \in Functions : Call(f)
  \/ Descend
  \/ Enter

NativeSpec(packages) == PolicyInit(packages) /\ [][PolicyNext]_vars

------------------------------------------------------------------------------
TouchesPython(e) ==
  \/ e.k = "print"
  \/ e.k = "crate" /\ e.declared # Undeclared /\ "PythonRuntime" \in e.declared

(* A call made with the GIL released never comes, on its own thread or on one  *)
(* it starts, to an expression that enters Python or reads a Python buffer:    *)
(* what function_releases_gil decides from signatures and propagated effects   *)
(* holds along every path of calls.                                            *)
DetachedCallsStayNative ==
  walk # NotCalled /\ ReleasesGil(walk.entry) =>
    ~TouchesPython(walk.at) /\ ~TouchesBuffer(walk.at)

(* A thread a native function starts never enters Python and never reads a     *)
(* buffer of the caller, through the result of the closure it runs: CRAB206    *)
(* and CRAB229 are complete there.                                             *)
WorkersStayNative ==
  walk # NotCalled /\ walk.worker /\ ~walk.prefix =>
    ~TouchesBuffer(walk.at) /\ ~TouchesPython(walk.at)

(* The language reference's promise: a worker closure that directly or         *)
(* transitively reaches Python runtime state is rejected.  The validator does  *)
(* not look at the statements before a closure's result.                       *)
WorkersNeverReachPython ==
  walk # NotCalled /\ walk.worker => ~TouchesPython(walk.at)
==============================================================================
