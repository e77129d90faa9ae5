-------------------------- MODULE OwnershipHandles --------------------------
(***************************************************************************)
(* Python handles to Rust values (runtime.py, _RustOwnedValue) and calls   *)
(* of compiled functions that take them: the checks of RustFunction._invoke*)
(* and the prologue of the wrappers that compiler/codegen.py generates.    *)
(*                                                                         *)
(* Python runs inside a call when the function prints or calls an adapter, *)
(* and when a buffer argument is exported by a Python class.  That code    *)
(* may use the same handles again.                                         *)
(***************************************************************************)
EXTENDS Naturals, Sequences, FiniteSets

CONSTANTS
    Threads,    \* Python threads
    Handles,    \* Python objects that may become handles
    Values,     \* Rust values
    Functions,  \* compiled functions, see FunctionType
    Class,      \* Class[h]: the generated class of the handle
    Shareable,  \* classes for which a Shared[...] parameter was compiled
    Foreign,    \* handles of another compilation
    MaxDepth,   \* bound on nested calls of a thread
    Nothing     \* an empty slot

Ownerships == {"Owned", "Ref", "Mut", "Shared"}

\* A function's ownership parameters, whether it has a buffer parameter, runs
\* Python code, was declared with release_gil, and returns an Owned value.
FunctionType ==
    [params : Seq(Ownerships), buffer : BOOLEAN, python : BOOLEAN,
     release : BOOLEAN, returns : BOOLEAN]

Classes == {"struct", "enum", "vec", "text", "external"}

ASSUME HandleAssumption ==
    /\ Functions \subseteq FunctionType
    /\ Class \in [Handles -> Classes]
    /\ Shareable \subseteq Classes \ {"external"}
    /\ Foreign \subseteq Handles
    /\ MaxDepth \in Nat
    /\ Nothing \notin Values \cup Threads

VARIABLES
    handle,     \* handle[h]: the Python object and its native slot
    stack,      \* stack[t]: the calls in progress
    outcome     \* how the last operation of Python code ended

vars == <<handle, stack, outcome>>

\* How many contexts of either kind: only their kinds matter.
Contexts == [{"Ref", "Mut"} -> Nat]

NoHandle == [kind |-> "none", home |-> Nothing, slot |-> Nothing,
             contexts |-> [own \in {"Ref", "Mut"} |-> 0], site |-> FALSE]

\* Mutant: the handle belongs to no thread.
Homeless(kind, t, v) == [NoHandle EXCEPT !.kind = kind, !.slot = v]

\* A new handle belongs to the thread that made it.
NewHandle(kind, t, v) ==
    [NoHandle EXCEPT !.kind = kind, !.home = t, !.slot = v]

HandleType ==
    [kind : {"none", "owned", "shared"}, home : Threads \cup {Nothing},
     slot : Values \cup {Nothing}, contexts : Contexts, site : BOOLEAN]

\* guarded: whether the wrapper holds its guards; got: how many arguments it
\* has extracted; owned: the values it has taken.
FrameType ==
    [fn : Functions, args : Seq(Handles), phase : {"acquire", "buffers", "extract", "run"},
     guarded : BOOLEAN, got : Nat, owned : SUBSET Values, prior : [Handles -> Contexts]]

Outcomes == {"ok", "TypeError", "ThreadError", "MoveError", "BorrowError",
             "BufferError", "RuntimeError", "RustError", "PanicError"}

TypeOK ==
    /\ handle \in [Handles -> HandleType]
    /\ \A h \in Handles : handle[h].kind = "none" <=> handle[h].home = Nothing
    /\ stack \in [Threads -> Seq(FrameType)]
    /\ outcome \in Outcomes

Init ==
    /\ handle = [h \in Handles |-> NoHandle]
    /\ stack = [t \in Threads |-> <<>>]
    /\ outcome = "ok"

-----------------------------------------------------------------------------
(* Guards: PyRef and PyRefMut of the arguments, held by wrappers.          *)

Frames == UNION {{t} \X (1 .. Len(stack[t])) : t \in Threads}

Frame(p) == stack[p[1]][p[2]]

Top(t) == stack[t][Len(stack[t])]

Below(t) == SubSeq(stack[t], 1, Len(stack[t]) - 1)

Params(f) == 1 .. Len(f.args)

\* The arguments of the calls in progress, with the handle that each is, its
\* parameter's ownership, and whether its call has extracted it.
Uses == UNION {{p} \X Params(Frame(p)) : p \in Frames}

Arg(u) == Frame(u[1]).args[u[2]]
Own(u) == Frame(u[1]).fn.params[u[2]]
Extracted(u) == u[2] <= Frame(u[1]).got

\* The wrapper takes PyRefMut for Owned and Mut (_wrapper_parameter).
Exclusive(own) == own \in {"Owned", "Mut"}

\* Mutant: the guards of the preflight are dropped before the values are taken.
GuardedWhenRunning(h, owns) ==
    \E u \in Uses :
        /\ Frame(u[1]).guarded /\ Frame(u[1]).phase = "run"
        /\ Arg(u) = h /\ Own(u) \in owns

\* Some wrapper holds a guard of h of one of these kinds.
Guarded(h, owns) ==
    \E u \in Uses : Frame(u[1]).guarded /\ Arg(u) = h /\ Own(u) \in owns

WriteLocked(h) == Guarded(h, {"Owned", "Mut"})
Locked(h) == Guarded(h, {"Owned", "Mut", "Ref"})

-----------------------------------------------------------------------------
(* Who may run: Python code and wrappers hold the GIL.                     *)

\* A borrow that the detached call would carry out of the GIL.
RetainsPythonBorrow(fn) ==
    fn.buffer \/ \E i \in DOMAIN fn.params : fn.params[i] \in {"Ref", "Mut"}

\* function_releases_gil, for functions whose other types are scalars.
ReleasesGil(fn) ==
    IF fn.release
    THEN ~fn.python /\ ~RetainsPythonBorrow(fn)
    ELSE /\ ~fn.python /\ ~fn.buffer
         /\ \A i \in DOMAIN fn.params : fn.params[i] = "Shared"
         /\ ~fn.returns

Detached(t) ==
    stack[t] # <<>> /\ Top(t).phase = "run" /\ ReleasesGil(Top(t).fn)

\* Thread t is at Python code: outside of calls, in a print or an adapter
\* that the function calls, in the exporter of a buffer argument.
AtPython(t) ==
    stack[t] # <<>> =>
        \/ Top(t).phase = "run" /\ Top(t).fn.python
        \/ Top(t).phase = "buffers"

GilFree(t) == \A u \in Threads \ {t} : AtPython(u) \/ Detached(u)

RunsPython(t) == AtPython(t) /\ GilFree(t)

-----------------------------------------------------------------------------
(* The checks that handles make before they touch their native value.      *)

FirstFailing(checks) ==
    LET bad == {i \in DOMAIN checks : checks[i] # "ok"}
    IN  IF bad = {} THEN "ok"
        ELSE checks[CHOOSE i \in bad : \A j \in bad : i <= j]

Chain(a, b, c) == IF a # "ok" THEN a ELSE IF b # "ok" THEN b ELSE c

\* _check_thread; shared handles have no affinity.
CheckThread(t, h) ==
    IF handle[h].kind = "owned" /\ handle[h].home # t THEN "ThreadError" ELSE "ok"

\* _check_borrow_access
CheckBorrow(h, requested) ==
    IF \/ handle[h].contexts["Mut"] > 0
       \/ requested = "mutable" /\ handle[h].contexts["Ref"] > 0
    THEN "BorrowError" ELSE "ok"

\* A native method with &self: the cell must not be mutably borrowed, which
\* PyO3 reports as a RuntimeError, and the slot must be full.
NativeRead(h) ==
    CASE handle[h].kind = "owned" /\ WriteLocked(h) -> "RuntimeError"
      [] handle[h].slot = Nothing -> "MoveError"
      [] OTHER -> "ok"

\* A setter: &mut self.
NativeWrite(h) ==
    CASE Locked(h) -> "RuntimeError"
      [] handle[h].slot = Nothing -> "MoveError"
      [] OTHER -> "ok"

\* The moved property and the move error its callers raise; is_moved takes
\* &self.  A shared handle is never moved.
CheckMoved(t, h) ==
    IF handle[h].kind = "shared" THEN "ok"
    ELSE Chain(CheckThread(t, h), CheckBorrow(h, "shared"), NativeRead(h))

Fresh(v) ==
    /\ \A h \in Handles : handle[h].slot # v
    /\ \A p \in Frames : v \notin Frame(p).owned

-----------------------------------------------------------------------------
(* What Python code does with handles.                                     *)

\* A construction from plain values: rust.Vec[...](...), a struct or enum
\* marker.  A value of an external class is only made by functions.
Construct(t, h, v) ==
    /\ RunsPython(t)
    /\ handle[h].kind = "none"
    /\ Class[h] # "external"
    /\ Fresh(v)
    /\ handle' = [handle EXCEPT ![h] = NewHandle("owned", t, v)]
    /\ outcome' = "ok"
    /\ UNCHANGED stack

\* Handle g as an argument of a constructor or setter, which clones its value.
CheckDomainArgument(t, g) ==
    Chain(CheckMoved(t, g), IF g \in Foreign THEN "TypeError" ELSE "ok", NativeRead(g))

\* A struct or variant with a field of a domain type, given as handle g.
ConstructWith(t, h, g, v) ==
    /\ RunsPython(t)
    /\ handle[h].kind = "none" /\ Class[h] \in {"struct", "enum"}
    /\ handle[g].kind = "owned"
    /\ Fresh(v)
    /\ outcome' = CheckDomainArgument(t, g)
    /\ handle' = IF outcome' = "ok"
                 THEN [handle EXCEPT ![h] = NewHandle("owned", t, v)] ELSE handle
    /\ UNCHANGED stack

\* len(), variant(), a scalar field, to_python: an external value has no
\* Python representation.
Read(t, h) ==
    /\ RunsPython(t)
    /\ handle[h].kind = "owned"
    /\ outcome' = Chain(CheckThread(t, h), CheckBorrow(h, "shared"),
                        IF Class[h] = "external" THEN "TypeError" ELSE NativeRead(h))
    /\ UNCHANGED <<handle, stack>>

\* A field of a domain type: the getter clones the value into a new handle.
GetField(t, h, g, v) ==
    /\ RunsPython(t)
    /\ handle[h].kind = "owned"
    /\ Class[h] \in {"struct", "enum"}
    /\ handle[g].kind = "none"
    /\ Fresh(v)
    /\ outcome' = Chain(CheckThread(t, h), CheckBorrow(h, "shared"), NativeRead(h))
    /\ handle' = IF outcome' = "ok"
                 THEN [handle EXCEPT ![g] = NewHandle("owned", t, v)] ELSE handle
    /\ UNCHANGED stack

\* Assigning handle g to a field of h: the setter clones the value of g.
SetField(t, h, g) ==
    /\ RunsPython(t)
    /\ handle[h].kind = "owned" /\ Class[h] = "struct"
    /\ handle[g].kind = "owned" /\ g # h
    /\ outcome' = Chain(Chain(CheckThread(t, h), CheckBorrow(h, "mutable"), "ok"),
                        CheckDomainArgument(t, g),
                        NativeWrite(h))
    /\ UNCHANGED <<handle, stack>>

\* Mutant: the value is read and not taken.
FrozenCopy(h, s) ==
    [handle EXCEPT ![s] = NewHandle("shared", handle[h].home, handle[h].slot)]

\* The constructor of the shared class takes the value out of the slot.
Frozen(h, s) ==
    [handle EXCEPT ![h].slot = Nothing, ![h].site = TRUE,
                   ![s] = NewHandle("shared", handle[h].home, handle[h].slot)]

Freeze(t, h, s) ==
    /\ RunsPython(t)
    /\ handle[h].kind = "owned"
    /\ handle[s].kind = "none" /\ Class[s] = Class[h]
    /\ outcome' = Chain(Chain(CheckThread(t, h), CheckBorrow(h, "mutable"), CheckMoved(t, h)),
                        IF Class[h] \notin Shareable THEN "TypeError" ELSE "ok",
                        NativeWrite(h))
    /\ handle' = IF outcome' = "ok" THEN Frozen(h, s) ELSE handle
    /\ UNCHANGED stack

\* A shared handle answers from a snapshot, which nobody else sees.
ReadShared(t, h) ==
    /\ RunsPython(t)
    /\ handle[h].kind = "shared"
    /\ outcome' = "ok"
    /\ UNCHANGED <<handle, stack>>

\* The last reference to a handle goes; calls keep those of their arguments.
Discard(t, h) ==
    /\ RunsPython(t)
    /\ handle[h].kind # "none"
    /\ \A u \in Uses : Arg(u) # h
    /\ handle' = [handle EXCEPT ![h] = NoHandle]
    /\ outcome' = "ok"
    /\ UNCHANGED stack

-----------------------------------------------------------------------------
(* RustFunction._invoke up to the native call.                             *)

CheckArgument(t, fn, args, i) ==
    LET h == args[i]
    IN  Chain(IF (handle[h].kind = "shared") # (fn.params[i] = "Shared")
              THEN "TypeError" ELSE "ok",
              CheckThread(t, h),
              IF h \in Foreign THEN "TypeError" ELSE "ok")

\* One handle for two parameters, one of them Owned or Mut.
Aliased(fn, args) ==
    \E i, j \in DOMAIN args :
        i # j /\ args[i] = args[j] /\ Exclusive(fn.params[i])

Refusal(t, fn, args) ==
    Chain(FirstFailing([i \in DOMAIN args |-> CheckArgument(t, fn, args, i)]),
          FirstFailing([i \in DOMAIN args |-> CheckMoved(t, args[i])]),
          IF Aliased(fn, args) THEN "BorrowError" ELSE "ok")

\* A context is added for each of a call's borrows of h.
PushedContexts(fn, args, h) ==
    [own \in {"Ref", "Mut"} |->
        handle[h].contexts[own]
          + Cardinality({i \in DOMAIN args : args[i] = h /\ fn.params[i] = own})]

Enter(t, fn, args) ==
    /\ RunsPython(t)
    /\ Len(stack[t]) < MaxDepth
    /\ \A i \in DOMAIN args : handle[args[i]].kind # "none"
    /\ outcome' = Refusal(t, fn, args)
    /\ IF outcome' # "ok"
       THEN UNCHANGED <<handle, stack>>
       ELSE /\ handle' = [h \in Handles |->
                  [handle[h] EXCEPT !.contexts = PushedContexts(fn, args, h)]]
            /\ stack' = [stack EXCEPT ![t] = Append(@,
                  [fn |-> fn, args |-> args, phase |-> "acquire", guarded |-> FALSE,
                   got |-> 0, owned |-> {},
                   prior |-> [h \in Handles |-> handle[h].contexts]])]

-----------------------------------------------------------------------------
(* The end of a call: the finally clause of _invoke.                       *)

\* Mutant: with two borrows of one handle, what the second one found.
LastContexts(f, h) ==
    LET n == Cardinality({i \in Params(f) : f.args[i] = h /\ f.fn.params[i] \in {"Ref", "Mut"}})
    IN  IF n > 1 THEN [f.prior[h] EXCEPT !["Ref"] = @ + 1]
        ELSE IF n = 1 THEN f.prior[h] ELSE handle[h].contexts

\* prior_borrow_contexts: the contexts before the call, for borrowed handles.
RestoredContexts(f, h) ==
    IF \E i \in Params(f) : f.args[i] = h /\ f.fn.params[i] \in {"Ref", "Mut"}
    THEN f.prior[h] ELSE handle[h].contexts

\* Mutant: recorded after the call and not in its finally clause.
MoveRecordedOnSuccess(f, h, how) ==
    /\ \E i \in Params(f) : f.args[i] = h /\ f.fn.params[i] = "Owned"
    /\ handle[h].slot = Nothing
    /\ how = "ok"

\* Where an Owned argument went is recorded once it is gone.
MoveRecorded(f, h, how) ==
    /\ \E i \in Params(f) : f.args[i] = h /\ f.fn.params[i] = "Owned"
    /\ handle[h].slot = Nothing

Left(t, how) ==
    [h \in Handles |->
        [handle[h] EXCEPT !.contexts = RestoredContexts(Top(t), h),
                          !.site = @ \/ MoveRecorded(Top(t), h, how)]]

\* The wrapper returns an error before the native function runs.
Refuse(t, error) ==
    /\ stack' = [stack EXCEPT ![t] = Below(t)]
    /\ handle' = Left(t, error)
    /\ outcome' = error

-----------------------------------------------------------------------------
(* The wrapper, which starts with the GIL.                                 *)

\* PyO3 borrows the cells; then every slot is looked at before one is taken.
Acquire(t) ==
    /\ stack[t] # <<>> /\ Top(t).phase = "acquire"
    /\ LET f == Top(t)
           Busy == \E i \in Params(f) :
                      \/ Exclusive(f.fn.params[i]) /\ Locked(f.args[i])
                      \/ f.fn.params[i] = "Ref" /\ WriteLocked(f.args[i])
           Moved == \E i \in Params(f) :
                      f.fn.params[i] # "Shared" /\ handle[f.args[i]].slot = Nothing
       IN  \/ Busy /\ Refuse(t, "RuntimeError")
           \/ ~Busy /\ Moved /\ Refuse(t, "MoveError")
           \/ /\ ~Busy /\ ~Moved
              /\ stack' = [stack EXCEPT ![t][Len(stack[t])] =
                    [f EXCEPT !.guarded = TRUE,
                              !.phase = IF f.fn.buffer THEN "buffers" ELSE "extract"]]
              /\ UNCHANGED <<handle, outcome>>

\* The buffer preflight: the exporter has answered, and its buffer fits or not.
CheckBuffers(t) ==
    /\ stack[t] # <<>> /\ Top(t).phase = "buffers"
    /\ GilFree(t)
    /\ \/ Refuse(t, "BufferError")
       \/ /\ stack' = [stack EXCEPT ![t][Len(stack[t])].phase = "extract"]
          /\ UNCHANGED <<handle, outcome>>

\* take(), as_ref(), as_mut() or an Arc clone, argument by argument; a wrapper
\* that detaches drops its guards first.
Extract(t) ==
    /\ stack[t] # <<>> /\ Top(t).phase = "extract"
    /\ LET f == Top(t)
           i == f.got + 1
           more == i <= Len(f.args)
       IN  \/ /\ ~more
              /\ stack' = [stack EXCEPT ![t][Len(stack[t])] =
                    [f EXCEPT !.phase = "run",
                              !.guarded = ~ReleasesGil(f.fn)]]
              /\ UNCHANGED <<handle, outcome>>
           \/ /\ more
              /\ handle[f.args[i]].slot = Nothing
              /\ Refuse(t, "MoveError")
           \/ /\ more
              /\ handle[f.args[i]].slot # Nothing
              /\ IF f.fn.params[i] = "Owned"
                 THEN /\ handle' = [handle EXCEPT ![f.args[i]].slot = Nothing]
                      /\ stack' = [stack EXCEPT ![t][Len(stack[t])] =
                            [f EXCEPT !.got = i, !.owned = @ \cup {handle[f.args[i]].slot}]]
                 ELSE /\ stack' = [stack EXCEPT ![t][Len(stack[t])].got = i]
                      /\ UNCHANGED handle
              /\ UNCHANGED outcome

\* The native function ends: with a value, an Err, a panic that the boundary
\* catches.  What it owns and does not return is dropped.
Return(t, how) ==
    /\ stack[t] # <<>> /\ Top(t).phase = "run"
    /\ GilFree(t)
    /\ ~(how = "ok" /\ Top(t).fn.returns)
    /\ Refuse(t, how)

ReturnOwned(t, r, v) ==
    /\ stack[t] # <<>> /\ Top(t).phase = "run"
    /\ GilFree(t)
    /\ Top(t).fn.returns
    /\ handle[r].kind = "none"
    /\ v \in Top(t).owned \/ Fresh(v)
    /\ stack' = [stack EXCEPT ![t] = Below(t)]
    /\ handle' = [Left(t, "ok") EXCEPT ![r] = NewHandle("owned", t, v)]
    /\ outcome' = "ok"

-----------------------------------------------------------------------------
Next ==
    \E t \in Threads :
        \/ \E h \in Handles :
              \/ \E v \in Values : Construct(t, h, v)
              \/ Read(t, h)
              \/ \E g \in Handles, v \in Values :
                    ConstructWith(t, h, g, v) \/ GetField(t, h, g, v)
              \/ \E g \in Handles : SetField(t, h, g)
              \/ \E s \in Handles : Freeze(t, h, s)
              \/ ReadShared(t, h)
              \/ Discard(t, h)
              \/ \E v \in Values : ReturnOwned(t, h, v)
        \/ \E fn \in Functions :
              \E args \in [DOMAIN fn.params -> Handles] : Enter(t, fn, args)
        \/ Acquire(t)
        \/ CheckBuffers(t)
        \/ Extract(t)
        \/ \E how \in {"ok", "RustError", "PanicError"} : Return(t, how)

Spec == Init /\ [][Next]_vars

-----------------------------------------------------------------------------
(* Properties.                                                             *)

\* The borrows of v that calls hold: Ref and Mut of the slot it is in, Arc
\* clones.
Borrows(v, owns) ==
    {u \in Uses : Extracted(u) /\ Own(u) \in owns /\ handle[Arg(u)].slot = v}

Place(v) ==
    CASE \E h \in Handles : handle[h].kind = "owned" /\ handle[h].slot = v -> "handle"
      [] \E h \in Handles : handle[h].kind = "shared" /\ handle[h].slot = v -> "arc"
      [] \E p \in Frames : v \in Frame(p).owned -> "call"
      [] OTHER -> "none"

\* Handles and calls implement BorrowDiscipline: whatever Python code does
\* inside of calls, a value is never used by two who must not share it.
Discipline == INSTANCE BorrowDiscipline WITH
    value <- [v \in Values |->
                 [place |-> Place(v),
                  readers |-> Cardinality(Borrows(v, {"Ref", "Shared"})),
                  writer |-> Borrows(v, {"Mut"}) # {}]]

DisciplineSpec == Discipline!Spec

\* "All ownership arguments are validated before any Owned slot is taken": a
\* call that ends before its function runs has taken nothing, although Python
\* code runs between its checks.
RefusedCallTakesNothing ==
    [][\A t \in Threads :
          Len(stack'[t]) < Len(stack[t]) /\ Top(t).phase # "run"
              => Top(t).owned = {}]_vars

\* The arguments in use for which h is borrowed as own.
BorrowsOf(h, own) == {u \in Uses : Arg(u) = h /\ Own(u) = own}

\* What _check_borrow_access goes by are the borrows of the calls in progress,
\* all of them and no others, in whatever order calls began and ended.
ContextsAreBorrows ==
    \A h \in Handles : \A own \in {"Ref", "Mut"} :
        handle[h].contexts[own] = Cardinality(BorrowsOf(h, own))

\* A move error can say where the value went: an empty slot has a move site
\* unless the call that took the value is in progress.
MovedHasSite ==
    \A h \in Handles :
        handle[h].kind = "owned" /\ handle[h].slot = Nothing =>
            \/ handle[h].site
            \/ \E u \in Uses : Extracted(u) /\ Arg(u) = h /\ Own(u) = "Owned"

\* "Overlapping shared/mutable access or reentrant Python access during a
\* mutable boundary raises CrabwalkBorrowError", and never PyO3's own error.
OverlapIsBorrowError == outcome # "RuntimeError"

=============================================================================
