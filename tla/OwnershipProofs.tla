-------------------------- MODULE OwnershipProofs --------------------------
(***************************************************************************)
(* Theorems about OwnershipHandles, for any threads, handles, values and   *)
(* functions, and any depth of calls within calls.                         *)
(***************************************************************************)
EXTENDS OwnershipHandles, FiniteSetTheorems, WellFoundedInduction, TLAPS

-----------------------------------------------------------------------------
(* The operators of the model.                                             *)

\* A nonempty set of natural numbers has a least element.
LEMMA LeastExists ==
    ASSUME NEW S \in SUBSET Nat, S # {}
    PROVE  \E i \in S : \A j \in S : i <= j
<1>1. PICK x \in S : \A y \in S : ~(<<y, x>> \in OpToRel(<, Nat))
  BY NatLessThanWellFounded, WFMin
<1>2. \A y \in S : ~(y < x)
  BY <1>1 DEF OpToRel
<1>3. QED
  BY <1>2

\* The first failing check is one of the checks, and "ok" if all are.
LEMMA FirstFailingIs ==
    ASSUME NEW checks, DOMAIN checks \in SUBSET Nat
    PROVE  \/ /\ FirstFailing(checks) = "ok"
              /\ \A i \in DOMAIN checks : checks[i] = "ok"
           \/ /\ FirstFailing(checks) # "ok"
              /\ \E i \in DOMAIN checks : FirstFailing(checks) = checks[i]
<1> DEFINE bad == {i \in DOMAIN checks : checks[i] # "ok"}
<1>1. CASE bad = {}
  BY <1>1 DEF FirstFailing
<1>2. CASE bad # {}
  <2>1. \E i \in bad : \A j \in bad : i <= j
    BY <1>2, LeastExists
  <2>2. DEFINE first == CHOOSE i \in bad : \A j \in bad : i <= j
  <2>3. first \in bad
    BY <2>1
  <2>4. FirstFailing(checks) = checks[first]
    BY <1>2 DEF FirstFailing
  <2>5. QED
    BY <2>3, <2>4
<1>3. QED
  BY <1>1, <1>2

\* A call in progress is a thread and a depth.
LEMMA FrameIs ==
    ASSUME NEW p
    PROVE  p \in Frames <=> \E t \in Threads : \E k \in 1 .. Len(stack[t]) : p = <<t, k>>
  BY DEF Frames

\* An argument in use is a call and a position.
LEMMA UseIs ==
    ASSUME NEW u
    PROVE  u \in Uses <=> \E p \in Frames : \E i \in Params(Frame(p)) : u = <<p, i>>
  BY DEF Uses

\* The call at the top of a thread's stack.
LEMMA TopIs ==
    ASSUME TypeOK, NEW t \in Threads, stack[t] # <<>>
    PROVE  /\ <<t, Len(stack[t])>> \in Frames
           /\ Top(t) = Frame(<<t, Len(stack[t])>>)
           /\ Top(t) \in FrameType
           /\ Len(stack[t]) \in 1 .. Len(stack[t])
<1>1. stack[t] \in Seq(FrameType)
  BY DEF TypeOK
<1>2. Len(stack[t]) \in Nat \ {0}
  BY <1>1
<1>3. QED
  BY <1>1, <1>2, FrameIs DEF Top, Frame

\* Calls and arguments are typed.
LEMMA FramesTyped ==
    ASSUME TypeOK
    PROVE  /\ \A p \in Frames : Frame(p) \in FrameType /\ p[1] \in Threads /\ p[2] \in Nat
           /\ \A u \in Uses : u[1] \in Frames /\ u[2] \in Params(Frame(u[1])) /\ Arg(u) \in Handles
<1>1. ASSUME NEW p \in Frames PROVE Frame(p) \in FrameType /\ p[1] \in Threads /\ p[2] \in Nat
  <2>1. PICK t \in Threads : \E k \in 1 .. Len(stack[t]) : p = <<t, k>>
    BY FrameIs
  <2>2. stack[t] \in Seq(FrameType)
    BY DEF TypeOK
  <2>3. QED
    BY <2>1, <2>2 DEF Frame
<1>2. ASSUME NEW u \in Uses PROVE u[1] \in Frames /\ u[2] \in Params(Frame(u[1])) /\ Arg(u) \in Handles
  <2>1. PICK p \in Frames : \E i \in Params(Frame(p)) : u = <<p, i>>
    BY UseIs
  <2>2. Frame(p).args \in Seq(Handles)
    BY <1>1 DEF FrameType
  <2>3. QED
    BY <2>1, <2>2 DEF Arg, Params
<1>3. QED
  BY <1>1, <1>2

-----------------------------------------------------------------------------
(* What a step does to handles and calls, apart from its outcome.          *)

Pushed(t, f) == stack' = [stack EXCEPT ![t] = Append(@, f)]
Popped(t) == stack[t] # <<>> /\ stack' = [stack EXCEPT ![t] = Below(t)]
Changed(t, f) == stack[t] # <<>> /\ stack' = [stack EXCEPT ![t][Len(stack[t])] = f]

\* A new handle h of thread t, for a value that was nowhere.
Makes(t, h, v) ==
    /\ handle[h].kind = "none" /\ Fresh(v)
    /\ handle' = [handle EXCEPT ![h] = NewHandle("owned", t, v)]
    /\ UNCHANGED stack

\* The value of h moves into the new shared handle s.
Freezes(h, s) ==
    /\ handle[h].kind = "owned" /\ handle[h].slot # Nothing /\ ~Locked(h)
    /\ handle[s].kind = "none"
    /\ handle' = Frozen(h, s)
    /\ UNCHANGED stack

\* The handle h goes, which no call uses.
Drops(h) ==
    /\ handle[h].kind # "none"
    /\ \A u \in Uses : Arg(u) # h
    /\ handle' = [handle EXCEPT ![h] = NoHandle]
    /\ UNCHANGED stack

\* What a call that begins has found.
Admitted(t, fn, args) ==
    /\ \A i \in DOMAIN args :
          /\ handle[args[i]].kind = IF fn.params[i] = "Shared" THEN "shared" ELSE "owned"
          /\ fn.params[i] # "Shared" => handle[args[i]].home = t
    /\ ~Aliased(fn, args)

NewFrame(fn, args) ==
    [fn |-> fn, args |-> args, phase |-> "acquire", guarded |-> FALSE, got |-> 0, owned |-> {},
     prior |-> [h \in Handles |-> handle[h].contexts]]

Enters(t, fn, args) ==
    /\ Admitted(t, fn, args)
    /\ handle' = [h \in Handles |-> [handle[h] EXCEPT !.contexts = PushedContexts(fn, args, h)]]
    /\ Pushed(t, NewFrame(fn, args))

\* The guards are taken, all slots being full.
Guards(t) ==
    /\ Top(t).phase = "acquire"
    /\ \A i \in Params(Top(t)) :
          /\ Exclusive(Top(t).fn.params[i]) => ~Locked(Top(t).args[i])
          /\ Top(t).fn.params[i] = "Ref" => ~WriteLocked(Top(t).args[i])
          /\ Top(t).fn.params[i] # "Shared" => handle[Top(t).args[i]].slot # Nothing
    /\ \E phase \in {"buffers", "extract"} :
          Changed(t, [Top(t) EXCEPT !.guarded = TRUE, !.phase = phase])
    /\ UNCHANGED handle

\* The buffers fit.
Passes(t) ==
    /\ Top(t).phase = "buffers"
    /\ Changed(t, [Top(t) EXCEPT !.phase = "extract"])
    /\ UNCHANGED handle

\* The next argument is extracted: the value is taken, or it is borrowed.
Takes(t) ==
    LET f == Top(t)
        i == f.got + 1
    IN  /\ f.phase = "extract" /\ i <= Len(f.args)
        /\ handle[f.args[i]].slot # Nothing /\ f.fn.params[i] = "Owned"
        /\ handle' = [handle EXCEPT ![f.args[i]].slot = Nothing]
        /\ Changed(t, [f EXCEPT !.got = i, !.owned = @ \cup {handle[f.args[i]].slot}])

Lends(t) ==
    LET f == Top(t)
        i == f.got + 1
    IN  /\ f.phase = "extract" /\ i <= Len(f.args)
        /\ handle[f.args[i]].slot # Nothing /\ f.fn.params[i] # "Owned"
        /\ UNCHANGED handle
        /\ Changed(t, [f EXCEPT !.got = i])

\* All arguments are there; a detached call has no guards.
Runs(t) ==
    /\ Top(t).phase = "extract" /\ ~(Top(t).got + 1 <= Len(Top(t).args))
    /\ UNCHANGED handle
    /\ Changed(t, [Top(t) EXCEPT !.phase = "run", !.guarded = ~ReleasesGil(Top(t).fn)])

\* A call ends: its wrapper refuses it, or its function has run.
Leaves(t, how) ==
    /\ Top(t).phase = "extract" =>
          LET i == Top(t).got + 1
          IN  i <= Len(Top(t).args) /\ handle[Top(t).args[i]].slot = Nothing
    /\ handle' = Left(t, how)
    /\ Popped(t)

\* A call ends and returns its value v in the new handle r.
Gives(t, r, v) ==
    /\ Top(t).phase = "run"
    /\ handle[r].kind = "none"
    /\ v \in Top(t).owned \/ Fresh(v)
    /\ handle' = [Left(t, "ok") EXCEPT ![r] = NewHandle("owned", t, v)]
    /\ Popped(t)

\* An argument that passes the checks is a handle of the right kind.
LEMMA CheckedArgument ==
    ASSUME TypeOK, NEW t \in Threads, NEW fn, NEW args, NEW i,
           args[i] \in Handles, handle[args[i]].kind # "none",
           CheckArgument(t, fn, args, i) = "ok"
    PROVE  /\ handle[args[i]].kind = IF fn.params[i] = "Shared" THEN "shared" ELSE "owned"
           /\ fn.params[i] # "Shared" => handle[args[i]].home = t
<1>1. handle[args[i]].kind \in {"owned", "shared"}
  BY DEF TypeOK, HandleType
<1>2. QED
  BY <1>1 DEF CheckArgument, CheckThread, Chain

\* A call that is not refused is admitted.
LEMMA Accepted ==
    ASSUME TypeOK, NEW t \in Threads, NEW fn \in Functions, NEW args \in [DOMAIN fn.params -> Handles],
           \A i \in DOMAIN args : handle[args[i]].kind # "none",
           Refusal(t, fn, args) = "ok"
    PROVE  Admitted(t, fn, args)
<1>1. DOMAIN args \in SUBSET Nat
  BY HandleAssumption DEF FunctionType
<1>2. FirstFailing([i \in DOMAIN args |-> CheckArgument(t, fn, args, i)]) = "ok"
  BY DEF Refusal, Chain
<1>3. \A i \in DOMAIN args : CheckArgument(t, fn, args, i) = "ok"
  BY <1>1, <1>2, FirstFailingIs
<1>4. ~Aliased(fn, args)
  BY DEF Refusal, Chain
<1>5. QED
  BY <1>3, <1>4, CheckedArgument DEF Admitted

\* A handle that may be frozen is full, and no wrapper has a guard of it.
LEMMA Freezable ==
    ASSUME NEW h, NativeWrite(h) = "ok"
    PROVE  ~Locked(h) /\ handle[h].slot # Nothing
  BY DEF NativeWrite

\* Every step is one of these, or changes no handle and no call.
LEMMA StepKinds ==
    ASSUME TypeOK, [Next]_vars
    PROVE  \/ UNCHANGED <<handle, stack>>
           \/ \E t \in Threads :
                 \/ \E h \in Handles :
                       \/ \E v \in Values : Makes(t, h, v) \/ Gives(t, h, v)
                       \/ \E s \in Handles : Freezes(h, s)
                       \/ Drops(h)
                 \/ \E fn \in Functions : \E args \in [DOMAIN fn.params -> Handles] :
                       Enters(t, fn, args)
                 \/ Guards(t) \/ Passes(t) \/ Takes(t) \/ Lends(t) \/ Runs(t)
                 \/ \E how \in Outcomes : Leaves(t, how)
<1> DEFINE Kind(t) ==
        \/ \E h \in Handles :
              \/ \E v \in Values : Makes(t, h, v) \/ Gives(t, h, v)
              \/ \E s \in Handles : Freezes(h, s)
              \/ Drops(h)
        \/ \E fn \in Functions : \E args \in [DOMAIN fn.params -> Handles] :
              Enters(t, fn, args)
        \/ Guards(t) \/ Passes(t) \/ Takes(t) \/ Lends(t) \/ Runs(t)
        \/ \E how \in Outcomes : Leaves(t, how)
<1>1. CASE UNCHANGED vars
  BY <1>1 DEF vars
<1>2. ASSUME NEW t \in Threads, NEW h \in Handles, NEW v \in Values, Construct(t, h, v)
      PROVE  Kind(t)
  BY <1>2 DEF Construct, Makes
<1>3. ASSUME NEW t \in Threads, NEW h \in Handles, NEW g \in Handles, NEW v \in Values,
             ConstructWith(t, h, g, v)
      PROVE  UNCHANGED <<handle, stack>> \/ Kind(t)
  BY <1>3 DEF ConstructWith, Makes
<1>4. ASSUME NEW t \in Threads, NEW h \in Handles, NEW g \in Handles, NEW v \in Values,
             GetField(t, h, g, v)
      PROVE  UNCHANGED <<handle, stack>> \/ Kind(t)
  BY <1>4 DEF GetField, Makes
<1>5. ASSUME NEW t \in Threads, NEW h \in Handles, NEW s \in Handles, Freeze(t, h, s)
      PROVE  UNCHANGED <<handle, stack>> \/ Kind(t)
  <2>1. CASE outcome' # "ok"
    BY <1>5, <2>1 DEF Freeze
  <2>2. CASE outcome' = "ok"
    <3>1. NativeWrite(h) = "ok"
      BY <1>5, <2>2 DEF Freeze, Chain
    <3>2. Freezes(h, s)
      BY <1>5, <2>2, <3>1, Freezable DEF Freeze, Freezes
    <3>3. QED
      BY <3>2
  <2>3. QED
    BY <2>1, <2>2
<1>6. ASSUME NEW t \in Threads, NEW h \in Handles, Discard(t, h)
      PROVE  Kind(t)
  BY <1>6 DEF Discard, Drops
<1>7. ASSUME NEW t \in Threads, NEW fn \in Functions, NEW args \in [DOMAIN fn.params -> Handles],
             Enter(t, fn, args)
      PROVE  UNCHANGED <<handle, stack>> \/ Kind(t)
  <2>1. CASE outcome' # "ok"
    BY <1>7, <2>1 DEF Enter
  <2>2. CASE outcome' = "ok"
    <3>1. Admitted(t, fn, args)
      BY <1>7, <2>2, Accepted DEF Enter
    <3>2. Enters(t, fn, args)
      BY <1>7, <2>2, <3>1 DEF Enter, Enters, Pushed, NewFrame
    <3>3. QED
      BY <3>2
  <2>3. QED
    BY <2>1, <2>2
<1>8. ASSUME NEW t \in Threads, Acquire(t)
      PROVE  Kind(t)
  <2>1. ASSUME NEW error \in Outcomes, Refuse(t, error) PROVE Leaves(t, error)
    BY <1>8, <2>1 DEF Acquire, Refuse, Leaves, Popped
  <2>2. CASE \E error \in {"RuntimeError", "MoveError"} : Refuse(t, error)
    BY <2>1, <2>2 DEF Outcomes
  <2>3. CASE ~\E error \in {"RuntimeError", "MoveError"} : Refuse(t, error)
    <3>1. Guards(t)
      BY <1>8, <2>3 DEF Acquire, Guards, Changed
    <3>2. QED
      BY <3>1
  <2>4. QED
    BY <2>2, <2>3
<1>9. ASSUME NEW t \in Threads, CheckBuffers(t)
      PROVE  Kind(t)
  <2>1. CASE Refuse(t, "BufferError")
    BY <1>9, <2>1 DEF CheckBuffers, Refuse, Leaves, Popped, Outcomes
  <2>2. CASE ~Refuse(t, "BufferError")
    <3>1. /\ stack' = [stack EXCEPT ![t][Len(stack[t])].phase = "extract"]
          /\ UNCHANGED handle
          /\ stack[t] # <<>> /\ Top(t).phase = "buffers"
      BY <1>9, <2>2 DEF CheckBuffers
    <3>2. Passes(t)
      BY <3>1 DEF Passes, Changed, Top
    <3>3. QED
      BY <3>2
  <2>3. QED
    BY <2>1, <2>2
<1>10. ASSUME NEW t \in Threads, Extract(t)
       PROVE  Kind(t)
  <2> DEFINE f == Top(t)
             i == f.got + 1
  <2>1. stack[t] # <<>> /\ f.phase = "extract"
    BY <1>10 DEF Extract
  <2>2. CASE ~(i <= Len(f.args))
    BY <1>10, <2>1, <2>2 DEF Extract, Runs, Changed
  <2>3. CASE i <= Len(f.args) /\ handle[f.args[i]].slot = Nothing
    BY <1>10, <2>1, <2>3 DEF Extract, Refuse, Leaves, Popped, Outcomes
  <2>4. CASE i <= Len(f.args) /\ handle[f.args[i]].slot # Nothing /\ f.fn.params[i] = "Owned"
    BY <1>10, <2>1, <2>4 DEF Extract, Takes, Changed
  <2>5. CASE i <= Len(f.args) /\ handle[f.args[i]].slot # Nothing /\ f.fn.params[i] # "Owned"
    <3>1. /\ stack' = [stack EXCEPT ![t][Len(stack[t])].got = i]
          /\ UNCHANGED handle
      BY <1>10, <2>5 DEF Extract
    <3>2. Lends(t)
      BY <2>1, <2>5, <3>1 DEF Lends, Changed, Top
    <3>3. QED
      BY <3>2
  <2>6. QED
    BY <2>2, <2>3, <2>4, <2>5
<1>11. ASSUME NEW t \in Threads, NEW how \in {"ok", "RustError", "PanicError"}, Return(t, how)
       PROVE  Kind(t)
  BY <1>11 DEF Return, Refuse, Leaves, Popped, Outcomes
<1>12. ASSUME NEW t \in Threads, NEW r \in Handles, NEW v \in Values, ReturnOwned(t, r, v)
       PROVE  Kind(t)
  BY <1>12 DEF ReturnOwned, Gives, Popped
<1>13. ASSUME NEW t \in Threads, NEW h \in Handles,
              Read(t, h) \/ ReadShared(t, h) \/ \E g \in Handles : SetField(t, h, g)
       PROVE  UNCHANGED <<handle, stack>>
  BY <1>13 DEF Read, ReadShared, SetField
<1>14. QED
  BY <1>1, <1>2, <1>3, <1>4, <1>5, <1>6, <1>7, <1>8, <1>9, <1>10, <1>11, <1>12, <1>13 DEF Next

-----------------------------------------------------------------------------
(* The calls and arguments in progress after a step.                       *)

\* A call on top of those of its thread.
LEMMA PushedFrames ==
    ASSUME TypeOK, NEW t \in Threads, NEW f, Pushed(t, f),
           NEW p, p = <<t, Len(stack[t]) + 1>>
    PROVE  /\ p \notin Frames
           /\ Frames' = Frames \cup {p}
           /\ Frame(p)' = f
           /\ \A q \in Frames : Frame(q)' = Frame(q) /\ (q[1] = t => q[2] < p[2])
           /\ Uses' = Uses \cup ({p} \X Params(f))
<1>1. stack \in [Threads -> Seq(FrameType)] /\ Len(stack[t]) \in Nat
  BY DEF TypeOK
<1>2. stack' = [stack EXCEPT ![t] = Append(stack[t], f)]
  BY DEF Pushed
<1>3. /\ Len(stack'[t]) = Len(stack[t]) + 1
      /\ stack'[t][Len(stack[t]) + 1] = f
      /\ \A k \in 1 .. Len(stack[t]) : stack'[t][k] = stack[t][k]
      /\ \A u \in Threads \ {t} : stack'[u] = stack[u]
  BY <1>1, <1>2
<1>4. ASSUME NEW q PROVE q \in Frames' <=> q \in Frames \/ q = p
  <2>1. q \in Frames' <=> \E u \in Threads : \E k \in 1 .. Len(stack'[u]) : q = <<u, k>>
    BY DEF Frames
  <2>2. q \in Frames <=> \E u \in Threads : \E k \in 1 .. Len(stack[u]) : q = <<u, k>>
    BY DEF Frames
  <2>3. \A k : k \in 1 .. Len(stack'[t]) <=> k \in 1 .. Len(stack[t]) \/ k = Len(stack[t]) + 1
    BY <1>1, <1>3
  <2>4. QED
    BY <2>1, <2>2, <2>3, <1>3
<1>5. p \notin Frames
  BY <1>1, FrameIs
<1>6. Frame(p)' = f
  BY <1>3 DEF Frame
<1>7. ASSUME NEW q \in Frames PROVE Frame(q)' = Frame(q) /\ (q[1] = t => q[2] < p[2])
  <2>1. PICK u \in Threads : \E k \in 1 .. Len(stack[u]) : q = <<u, k>>
    BY FrameIs
  <2>2. QED
    BY <2>1, <1>1, <1>3 DEF Frame
<1>8. Uses' = Uses \cup ({p} \X Params(f))
  <2>1. ASSUME NEW u PROVE u \in Uses' <=> u \in Uses \/ u \in {p} \X Params(f)
    <3>1. u \in Uses' <=> \E q \in Frames' : \E i \in Params(Frame(q)') : u = <<q, i>>
      BY DEF Uses, Params, Frame
    <3>2. QED
      BY <3>1, <1>4, <1>6, <1>7, UseIs
  <2>2. QED
    BY <2>1
<1>9. QED
  BY <1>4, <1>5, <1>6, <1>7, <1>8

\* The top call goes.
LEMMA PoppedFrames ==
    ASSUME TypeOK, NEW t \in Threads, Popped(t),
           NEW p, p = <<t, Len(stack[t])>>
    PROVE  /\ p \in Frames /\ Frame(p) = Top(t)
           /\ Frames' = Frames \ {p}
           /\ \A q \in Frames' : Frame(q)' = Frame(q) /\ (q[1] = t => q[2] < p[2])
           /\ Uses' = {u \in Uses : u[1] # p}
<1>1. stack \in [Threads -> Seq(FrameType)] /\ Len(stack[t]) \in Nat \ {0}
  BY DEF TypeOK, Popped
<1>2. /\ Len(stack'[t]) = Len(stack[t]) - 1
      /\ \A k \in 1 .. Len(stack[t]) - 1 : stack'[t][k] = stack[t][k]
      /\ \A u \in Threads \ {t} : stack'[u] = stack[u]
  BY <1>1 DEF Popped, Below
<1>3. p \in Frames /\ Frame(p) = Top(t)
  BY <1>1, TopIs DEF Popped
<1>4. ASSUME NEW q PROVE q \in Frames' <=> q \in Frames /\ q # p
  <2>1. q \in Frames' <=> \E u \in Threads : \E k \in 1 .. Len(stack'[u]) : q = <<u, k>>
    BY DEF Frames
  <2>2. q \in Frames <=> \E u \in Threads : \E k \in 1 .. Len(stack[u]) : q = <<u, k>>
    BY DEF Frames
  <2>3. \A k : k \in 1 .. Len(stack'[t]) <=> k \in 1 .. Len(stack[t]) /\ k # Len(stack[t])
    BY <1>1, <1>2
  <2>4. QED
    BY <2>1, <2>2, <2>3, <1>2
<1>5. ASSUME NEW q \in Frames' PROVE Frame(q)' = Frame(q) /\ (q[1] = t => q[2] < p[2])
  <2>1. q \in Frames /\ q # p
    BY <1>4
  <2>2. PICK u \in Threads : \E k \in 1 .. Len(stack[u]) : q = <<u, k>>
    BY <2>1, FrameIs
  <2>3. QED
    BY <2>1, <2>2, <1>1, <1>2 DEF Frame
<1>6. Uses' = {u \in Uses : u[1] # p}
  <2>1. ASSUME NEW u PROVE u \in Uses' <=> u \in Uses /\ u[1] # p
    <3>1. u \in Uses' <=> \E q \in Frames' : \E i \in Params(Frame(q)') : u = <<q, i>>
      BY DEF Uses, Params, Frame
    <3>2. QED
      BY <3>1, <1>4, <1>5, UseIs
  <2>2. QED
    BY <2>1
<1>7. QED
  BY <1>3, <1>4, <1>5, <1>6

\* The top call goes on, with its arguments.
LEMMA ChangedFrames ==
    ASSUME TypeOK, NEW t \in Threads, NEW f, Changed(t, f),
           f.args = Top(t).args,
           NEW p, p = <<t, Len(stack[t])>>
    PROVE  /\ p \in Frames /\ Frame(p) = Top(t)
           /\ Frames' = Frames
           /\ Frame(p)' = f
           /\ \A q \in Frames : q # p => Frame(q)' = Frame(q)
           /\ Uses' = Uses
<1>1. stack \in [Threads -> Seq(FrameType)] /\ Len(stack[t]) \in Nat \ {0}
  BY DEF TypeOK, Changed
<1>2. /\ Len(stack'[t]) = Len(stack[t])
      /\ stack'[t][Len(stack[t])] = f
      /\ \A k \in 1 .. Len(stack[t]) : k # Len(stack[t]) => stack'[t][k] = stack[t][k]
      /\ \A u \in Threads \ {t} : stack'[u] = stack[u]
  BY <1>1 DEF Changed
<1>3. p \in Frames /\ Frame(p) = Top(t)
  BY <1>1, TopIs DEF Changed
<1>4. ASSUME NEW q PROVE q \in Frames' <=> q \in Frames
  <2>1. q \in Frames' <=> \E u \in Threads : \E k \in 1 .. Len(stack'[u]) : q = <<u, k>>
    BY DEF Frames
  <2>2. q \in Frames <=> \E u \in Threads : \E k \in 1 .. Len(stack[u]) : q = <<u, k>>
    BY DEF Frames
  <2>3. QED
    BY <2>1, <2>2, <1>2
<1>5. Frame(p)' = f
  BY <1>2 DEF Frame
<1>6. ASSUME NEW q \in Frames, q # p PROVE Frame(q)' = Frame(q)
  <2>1. PICK u \in Threads : \E k \in 1 .. Len(stack[u]) : q = <<u, k>>
    BY FrameIs
  <2>2. QED
    BY <2>1, <1>6, <1>1, <1>2 DEF Frame
<1>7. ASSUME NEW q \in Frames PROVE Params(Frame(q)') = Params(Frame(q))
  BY <1>3, <1>5, <1>6 DEF Params
<1>8. Uses' = Uses
  <2>1. ASSUME NEW u PROVE u \in Uses' <=> u \in Uses
    <3>1. u \in Uses' <=> \E q \in Frames' : \E i \in Params(Frame(q)') : u = <<q, i>>
      BY DEF Uses, Params, Frame
    <3>2. QED
      BY <3>1, <1>4, <1>7, UseIs
  <2>2. QED
    BY <2>1
<1>9. QED
  BY <1>3, <1>4, <1>5, <1>6, <1>8

-----------------------------------------------------------------------------
(* Type correctness.                                                       *)

\* Handles, apart from calls and outcomes.
HandlesOK ==
    /\ handle \in [Handles -> HandleType]
    /\ \A h \in Handles : handle[h].kind = "none" <=> handle[h].home = Nothing

\* New handles and empty places are typed.
LEMMA NewHandleType ==
    /\ NoHandle \in HandleType
    /\ \A kind \in {"owned", "shared"}, t \in Threads, v \in Values :
          /\ NewHandle(kind, t, v) \in HandleType
          /\ NewHandle(kind, t, v).kind = kind /\ NewHandle(kind, t, v).home = t
          /\ NewHandle(kind, t, v).slot = v /\ NewHandle(kind, t, v).site = FALSE
          /\ NewHandle(kind, t, v).contexts = [own \in {"Ref", "Mut"} |-> 0]
  BY ZenonT(60) DEF NoHandle, NewHandle, HandleType, Contexts

\* The end of a call changes contexts and move sites only.
LEMMA LeftType ==
    ASSUME TypeOK, NEW t \in Threads, stack[t] # <<>>, NEW how
    PROVE  /\ Left(t, how) \in [Handles -> HandleType]
           /\ \A h \in Handles :
                 /\ Left(t, how)[h].kind = handle[h].kind
                 /\ Left(t, how)[h].home = handle[h].home
                 /\ Left(t, how)[h].slot = handle[h].slot
                 /\ Left(t, how)[h].contexts = RestoredContexts(Top(t), h)
                 /\ Left(t, how)[h].site = (handle[h].site \/ MoveRecorded(Top(t), h, how))
<1>1. Top(t).prior \in [Handles -> Contexts]
  BY TopIs DEF FrameType
<1>2. ASSUME NEW h \in Handles PROVE RestoredContexts(Top(t), h) \in Contexts
  BY <1>1 DEF RestoredContexts, TypeOK, HandleType
<1>3. ASSUME NEW h \in Handles PROVE MoveRecorded(Top(t), h, how) \in BOOLEAN
  BY DEF MoveRecorded
<1>4. ASSUME NEW h \in Handles
      PROVE  [handle[h] EXCEPT !.contexts = RestoredContexts(Top(t), h),
                               !.site = @ \/ MoveRecorded(Top(t), h, how)] \in HandleType
  BY <1>2, <1>3 DEF TypeOK, HandleType
<1>5. QED
  BY <1>4 DEF Left, TypeOK, HandleType

\* A call that begins adds contexts only.
LEMMA PushedContextsType ==
    ASSUME TypeOK, NEW fn \in Functions, NEW args \in [DOMAIN fn.params -> Handles],
           NEW h \in Handles
    PROVE  PushedContexts(fn, args, h) \in Contexts
<1>1. DOMAIN args = 1 .. Len(fn.params) /\ Len(fn.params) \in Nat
  BY HandleAssumption DEF FunctionType
<1>2. ASSUME NEW own PROVE Cardinality({i \in DOMAIN args : args[i] = h /\ fn.params[i] = own}) \in Nat
  <2>1. IsFiniteSet(1 .. Len(fn.params))
    BY <1>1, FS_Interval
  <2>2. IsFiniteSet({i \in DOMAIN args : args[i] = h /\ fn.params[i] = own})
    BY <1>1, <2>1, FS_Subset
  <2>3. QED
    BY <2>2, FS_CardinalityType
<1>3. handle[h].contexts \in [{"Ref", "Mut"} -> Nat]
  BY DEF TypeOK, HandleType, Contexts
<1>4. QED
  BY <1>2, <1>3 DEF PushedContexts, Contexts

\* Handles stay typed.
LEMMA HandlesStayTyped ==
    ASSUME TypeOK, [Next]_vars
    PROVE  HandlesOK'
<1> USE HandleAssumption DEF HandlesOK
<1>1. CASE UNCHANGED <<handle, stack>>
  BY <1>1 DEF TypeOK
<1>2. ASSUME NEW t \in Threads, NEW h \in Handles, NEW v \in Values, Makes(t, h, v)
      PROVE  HandlesOK'
  BY <1>2, NewHandleType DEF TypeOK, Makes
<1>3. ASSUME NEW t \in Threads, NEW r \in Handles, NEW v \in Values, Gives(t, r, v)
      PROVE  HandlesOK'
  <2> DEFINE left == Left(t, "ok")
  <2>1. /\ left \in [Handles -> HandleType]
        /\ \A h \in Handles : left[h].kind = handle[h].kind /\ left[h].home = handle[h].home
    BY <1>3, LeftType DEF Gives, Popped
  <2>2. handle' = [left EXCEPT ![r] = NewHandle("owned", t, v)]
    BY <1>3 DEF Gives
  <2> HIDE DEF left
  <2>3. QED
    BY SMTT(40), <2>1, <2>2, NewHandleType DEF TypeOK
<1>4. ASSUME NEW h \in Handles, NEW s \in Handles, Freezes(h, s)
      PROVE  HandlesOK'
  <2>1. handle[h].home \in Threads /\ handle[h].slot \in Values
    BY <1>4 DEF TypeOK, HandleType, Freezes
  <2> DEFINE shared == NewHandle("shared", handle[h].home, handle[h].slot)
  <2>2. shared \in HandleType /\ shared.kind = "shared" /\ shared.home \in Threads
    BY <2>1, NewHandleType
  <2> DEFINE emptied == [handle[h] EXCEPT !.slot = Nothing, !.site = TRUE]
  <2>3. emptied \in HandleType /\ emptied.kind = handle[h].kind /\ emptied.home = handle[h].home
    BY DEF TypeOK, HandleType
  <2>4. h # s /\ handle' = [handle EXCEPT ![h] = emptied, ![s] = shared]
    BY <1>4 DEF Freezes, Frozen, TypeOK, HandleType
  <2> HIDE DEF emptied, shared
  <2>5. QED
    BY ZenonT(60), <1>4, <2>1, <2>2, <2>3, <2>4 DEF TypeOK, Freezes
<1>5. ASSUME NEW h \in Handles, Drops(h)
      PROVE  HandlesOK'
  BY <1>5, NewHandleType DEF TypeOK, Drops, NoHandle
<1>6. ASSUME NEW t \in Threads, NEW fn \in Functions, NEW args \in [DOMAIN fn.params -> Handles],
             Enters(t, fn, args)
      PROVE  HandlesOK'
  BY ZenonT(60), <1>6, PushedContextsType DEF TypeOK, HandleType, Enters
<1>7. ASSUME NEW t \in Threads, Takes(t)
      PROVE  HandlesOK'
  BY ZenonT(60), <1>7 DEF TypeOK, HandleType, Takes
<1>8. ASSUME NEW t \in Threads, Guards(t) \/ Passes(t) \/ Lends(t) \/ Runs(t)
      PROVE  HandlesOK'
  BY <1>8 DEF TypeOK, Guards, Passes, Lends, Runs
<1>9. ASSUME NEW t \in Threads, NEW how \in Outcomes, Leaves(t, how)
      PROVE  HandlesOK'
  BY <1>9, LeftType DEF TypeOK, Leaves, Popped
<1>10. QED
  BY <1>1, <1>2, <1>3, <1>4, <1>5, <1>6, <1>7, <1>8, <1>9, StepKinds

\* Calls stay typed.
LEMMA CallsStayTyped ==
    ASSUME TypeOK, [Next]_vars
    PROVE  stack' \in [Threads -> Seq(FrameType)]
<1>1. CASE UNCHANGED stack
  BY <1>1 DEF TypeOK
<1>2. ASSUME NEW t \in Threads, Popped(t)
      PROVE  stack' \in [Threads -> Seq(FrameType)]
  <2>1. Below(t) \in Seq(FrameType)
    BY <1>2 DEF TypeOK, Popped, Below
  <2>2. QED
    BY <1>2, <2>1 DEF TypeOK, Popped
<1>3. ASSUME NEW t \in Threads, NEW f \in FrameType, Changed(t, f)
      PROVE  stack' \in [Threads -> Seq(FrameType)]
  <2>1. stack \in [Threads -> Seq(FrameType)] /\ Len(stack[t]) \in 1 .. Len(stack[t])
    BY <1>3, TopIs DEF TypeOK, Changed
  <2>2. [stack[t] EXCEPT ![Len(stack[t])] = f] \in Seq(FrameType)
    BY <2>1
  <2>3. QED
    BY <1>3, <2>1, <2>2 DEF Changed
<1>4. ASSUME NEW t \in Threads, NEW fn \in Functions, NEW args \in [DOMAIN fn.params -> Handles],
             Enters(t, fn, args)
      PROVE  stack' \in [Threads -> Seq(FrameType)]
  <2>1. args \in Seq(Handles)
    BY HandleAssumption DEF FunctionType
  <2>2. NewFrame(fn, args) \in FrameType
    BY <2>1 DEF NewFrame, FrameType, TypeOK, HandleType
  <2>3. Append(stack[t], NewFrame(fn, args)) \in Seq(FrameType)
    BY <2>2 DEF TypeOK
  <2>4. QED
    BY <1>4, <2>3 DEF TypeOK, Enters, Pushed
<1>5. ASSUME NEW t \in Threads, Guards(t) \/ Passes(t) \/ Lends(t) \/ Runs(t)
      PROVE  stack' \in [Threads -> Seq(FrameType)]
  <2>1. stack[t] # <<>>
    BY <1>5 DEF Guards, Passes, Lends, Runs, Changed
  <2>2. Top(t) \in FrameType
    BY <2>1, TopIs
  <2>3. \A phase \in {"buffers", "extract"} :
            [Top(t) EXCEPT !.guarded = TRUE, !.phase = phase] \in FrameType
    BY <2>2 DEF FrameType
  <2>4. [Top(t) EXCEPT !.phase = "extract"] \in FrameType
    BY <2>2 DEF FrameType
  <2>5. [Top(t) EXCEPT !.got = Top(t).got + 1] \in FrameType
    BY <2>2 DEF FrameType
  <2>6. [Top(t) EXCEPT !.phase = "run", !.guarded = ~ReleasesGil(Top(t).fn)] \in FrameType
    <3>1. (~ReleasesGil(Top(t).fn)) \in BOOLEAN
      OBVIOUS
    <3>2. QED
      BY <2>2, <3>1 DEF FrameType
  <2>7. CASE Guards(t)
    BY <2>7, <2>3, <1>3 DEF Guards
  <2>8. CASE Passes(t)
    BY <2>8, <2>4, <1>3 DEF Passes
  <2>9. CASE Lends(t)
    BY <2>9, <2>5, <1>3 DEF Lends
  <2>10. CASE Runs(t)
    BY <2>10, <2>6, <1>3 DEF Runs
  <2>11. QED
    BY <1>5, <2>7, <2>8, <2>9, <2>10
<1>6. ASSUME NEW t \in Threads, Takes(t)
      PROVE  stack' \in [Threads -> Seq(FrameType)]
  <2> DEFINE f == Top(t)
             i == f.got + 1
             v == handle[f.args[i]].slot
  <2>1. Top(t) \in FrameType
    BY <1>6, TopIs DEF Takes, Changed
  <2>2. v \in Values
    BY <1>6, <2>1 DEF Takes, TypeOK, HandleType, FrameType
  <2>3. [f EXCEPT !.got = i, !.owned = @ \cup {v}] \in FrameType
    <3>1. f.owned \cup {v} \in SUBSET Values /\ i \in Nat
      BY <2>1, <2>2 DEF FrameType
    <3> HIDE DEF f, v, i
    <3>2. QED
      BY <2>1, <3>1 DEF FrameType, f
  <2>4. QED
    BY <1>6, <2>3, <1>3 DEF Takes
<1>7. QED
  BY <1>1, <1>2, <1>4, <1>5, <1>6, StepKinds DEF Makes, Gives, Freezes, Drops, Leaves

\* So do outcomes.
LEMMA OutcomesStayTyped ==
    ASSUME TypeOK, [Next]_vars
    PROVE  outcome' \in Outcomes
<1> USE DEF Outcomes
<1>1. \A t \in Threads, h \in Handles :
          /\ CheckThread(t, h) \in Outcomes /\ NativeRead(h) \in Outcomes
          /\ NativeWrite(h) \in Outcomes /\ CheckMoved(t, h) \in Outcomes
          /\ CheckDomainArgument(t, h) \in Outcomes
          /\ \A requested : CheckBorrow(h, requested) \in Outcomes
  BY DEF CheckThread, NativeRead, NativeWrite, CheckMoved, CheckBorrow, CheckDomainArgument, Chain
<1>2. ASSUME NEW t \in Threads, NEW fn \in Functions, NEW args \in [DOMAIN fn.params -> Handles]
      PROVE  Refusal(t, fn, args) \in Outcomes
  <2>1. DOMAIN args \in SUBSET Nat
    BY HandleAssumption DEF FunctionType
  <2>2. \A i \in DOMAIN args :
            CheckArgument(t, fn, args, i) \in Outcomes /\ CheckMoved(t, args[i]) \in Outcomes
    BY <1>1 DEF CheckArgument, Chain
  <2>3. FirstFailing([i \in DOMAIN args |-> CheckArgument(t, fn, args, i)]) \in Outcomes
    <3> HIDE DEF Outcomes
    <3>1. "ok" \in Outcomes
      BY DEF Outcomes
    <3>2. QED
      BY <2>1, <2>2, <3>1, FirstFailingIs
  <2>4. FirstFailing([i \in DOMAIN args |-> CheckMoved(t, args[i])]) \in Outcomes
    <3> HIDE DEF Outcomes
    <3>1. "ok" \in Outcomes
      BY DEF Outcomes
    <3>2. QED
      BY <2>1, <2>2, <3>1, FirstFailingIs
  <2>5. QED
    BY <2>3, <2>4 DEF Refusal, Chain
<1>3. CASE UNCHANGED vars
  BY <1>3 DEF vars, TypeOK
<1>4. ASSUME NEW t \in Threads, NEW h \in Handles,
             \/ Read(t, h) \/ ReadShared(t, h) \/ Discard(t, h)
             \/ \E g \in Handles : SetField(t, h, g) \/ Freeze(t, h, g)
             \/ \E v \in Values : Construct(t, h, v) \/ ReturnOwned(t, h, v)
             \/ \E g \in Handles, v \in Values : ConstructWith(t, h, g, v) \/ GetField(t, h, g, v)
      PROVE  outcome' \in Outcomes
  BY <1>4, <1>1 DEF Construct, ConstructWith, GetField, Read, SetField, Freeze, ReadShared,
                    Discard, ReturnOwned, Chain
<1>5. ASSUME NEW t \in Threads, NEW fn \in Functions, NEW args \in [DOMAIN fn.params -> Handles],
             Enter(t, fn, args)
      PROVE  outcome' \in Outcomes
  BY <1>5, <1>2 DEF Enter
<1>6. ASSUME NEW t \in Threads,
             \/ Acquire(t) \/ CheckBuffers(t) \/ Extract(t)
             \/ \E how \in {"ok", "RustError", "PanicError"} : Return(t, how)
      PROVE  outcome' \in Outcomes
  BY <1>6 DEF Acquire, CheckBuffers, Extract, Return, Refuse, TypeOK
<1>7. QED
  BY <1>3, <1>4, <1>5, <1>6 DEF Next

\* Type correctness: handles, their homes and calls have their shapes.
THEOREM HandlesTypeCorrect == Spec => []TypeOK
<1>1. Init => TypeOK
  BY NewHandleType DEF Init, TypeOK, NoHandle, Outcomes
<1>2. TypeOK /\ [Next]_vars => TypeOK'
  BY HandlesStayTyped, CallsStayTyped, OutcomesStayTyped DEF TypeOK, HandlesOK
<1>3. QED
  BY <1>1, <1>2, PTL DEF Spec

-----------------------------------------------------------------------------
(* The inductive invariant.                                                *)

\* How far a call is, and what its wrapper holds there.
InOrder(f) ==
    /\ Len(f.args) = Len(f.fn.params)
    /\ f.got <= Len(f.args)
    /\ f.phase = "acquire" => ~f.guarded
    /\ f.phase \in {"buffers", "extract"} => f.guarded
    /\ f.phase \in {"acquire", "buffers"} => f.got = 0 /\ f.owned = {}
    /\ f.phase = "run" => f.got = Len(f.args) /\ f.guarded = ~ReleasesGil(f.fn)

CallsInOrder == \A p \in Frames : InOrder(Frame(p))

\* The arguments of calls stay handles of their kind, and all but the shared
\* ones belong to the thread of the call.
ArgumentsStay ==
    \A u \in Uses :
        /\ handle[Arg(u)].kind = IF Own(u) = "Shared" THEN "shared" ELSE "owned"
        /\ Own(u) # "Shared" => handle[Arg(u)].home = u[1][1]

\* A handle taken by value or mutably has no second use in the same call, and
\* no second guard in any.
GuardsExclude ==
    \A u, w \in Uses :
        u # w /\ Arg(u) = Arg(w) /\ Exclusive(Own(u)) =>
            u[1] # w[1] /\ ~(Frame(u[1]).guarded /\ Frame(w[1]).guarded)

\* A guard keeps its slot full until its own call takes the value.
SlotsKept ==
    /\ \A h \in Handles : handle[h].kind = "none" => handle[h].slot = Nothing
    /\ \A h \in Handles : handle[h].kind = "shared" => handle[h].slot # Nothing
    /\ \A u \in Uses :
          Frame(u[1]).guarded /\ (Own(u) = "Owned" => ~Extracted(u)) => handle[Arg(u)].slot # Nothing

\* A value is in one slot or with one call.
ValuesApart ==
    /\ \A h, g \in Handles : handle[h].slot = handle[g].slot /\ handle[h].slot # Nothing => h = g
    /\ \A h \in Handles : \A p \in Frames : handle[h].slot \notin Frame(p).owned
    /\ \A p, q \in Frames : p # q => Frame(p).owned \cap Frame(q).owned = {}

\* Those in calls of p's thread that began before p.
BorrowsBelow(h, own, p) == {u \in BorrowsOf(h, own) : u[1][2] < p[2]}

\* The contexts that a call restores are those of the borrows below it.
PriorsAreBorrows ==
    \A p \in Frames : \A h \in Handles : \A own \in {"Ref", "Mut"} :
        (\E u \in Uses : u[1] = p /\ Arg(u) = h /\ Own(u) \in {"Ref", "Mut"}) =>
            Frame(p).prior[h][own] = Cardinality(BorrowsBelow(h, own, p))

HandlesInv ==
    /\ TypeOK
    /\ CallsInOrder
    /\ ArgumentsStay
    /\ GuardsExclude
    /\ SlotsKept
    /\ ValuesApart

ContextsInv ==
    /\ IsFiniteSet(Uses)
    /\ ContextsAreBorrows
    /\ PriorsAreBorrows

-----------------------------------------------------------------------------
(* How steps of either sort change the arguments in use.                   *)

\* A step that keeps all stacks.
LEMMA KeptUses ==
    ASSUME UNCHANGED stack
    PROVE  /\ Frames' = Frames /\ Uses' = Uses
           /\ \A p : Frame(p)' = Frame(p)
           /\ \A u : Arg(u)' = Arg(u) /\ Own(u)' = Own(u) /\ (Extracted(u)' <=> Extracted(u))
  BY DEF Frames, Uses, Params, Frame, Arg, Own, Extracted

\* A step that a call takes in its wrapper.
Wraps(t) == Guards(t) \/ Passes(t) \/ Takes(t) \/ Lends(t) \/ Runs(t)

LEMMA WrappedUses ==
    ASSUME TypeOK, NEW t \in Threads, Wraps(t),
           NEW p, p = <<t, Len(stack[t])>>
    PROVE  /\ p \in Frames /\ Frame(p) = Top(t) /\ Frame(p) \in FrameType
           /\ Frames' = Frames /\ Uses' = Uses
           /\ \A q \in Frames : q # p => Frame(q)' = Frame(q)
           /\ \A q \in Frames : Frame(q)'.prior = Frame(q).prior
           /\ \A u \in Uses : Arg(u)' = Arg(u) /\ Own(u)' = Own(u)
           /\ \A u \in Uses : u[1] # p => (Extracted(u)' <=> Extracted(u))
<1>1. stack[t] # <<>>
  BY DEF Wraps, Guards, Passes, Takes, Lends, Runs, Changed
<1>2. Top(t) \in FrameType
  BY <1>1, TopIs
<1> DEFINE Goes(f) == Changed(t, f) /\ f.args = Top(t).args /\ f.fn = Top(t).fn /\ f.prior = Top(t).prior
<1>3. \E f : Goes(f)
  <2>1. CASE Guards(t)
    <3>1. PICK phase \in {"buffers", "extract"} :
              Changed(t, [Top(t) EXCEPT !.guarded = TRUE, !.phase = phase])
      BY <2>1 DEF Guards
    <3>2. Goes([Top(t) EXCEPT !.guarded = TRUE, !.phase = phase])
      BY <3>1, <1>2 DEF FrameType
    <3>3. QED
      BY <3>2
  <2>2. CASE Passes(t)
    <3>1. Goes([Top(t) EXCEPT !.phase = "extract"])
      BY <2>2, <1>2 DEF Passes, FrameType
    <3>2. QED
      BY <3>1
  <2>3. CASE Takes(t)
    <3> DEFINE i == Top(t).got + 1
               f == [Top(t) EXCEPT !.got = i, !.owned = @ \cup {handle[Top(t).args[i]].slot}]
    <3>1. f.args = Top(t).args /\ f.fn = Top(t).fn /\ f.prior = Top(t).prior
      BY <1>2 DEF FrameType
    <3>2. Changed(t, f)
      BY <2>3 DEF Takes
    <3>3. QED
      BY <3>1, <3>2
  <2>4. CASE Lends(t)
    <3>1. Goes([Top(t) EXCEPT !.got = Top(t).got + 1])
      BY <2>4, <1>2 DEF Lends, FrameType
    <3>2. QED
      BY <3>1
  <2>5. CASE Runs(t)
    <3> DEFINE f == [Top(t) EXCEPT !.phase = "run", !.guarded = ~ReleasesGil(Top(t).fn)]
    <3>1. f.args = Top(t).args /\ f.fn = Top(t).fn /\ f.prior = Top(t).prior
      BY <1>2 DEF FrameType
    <3>2. Changed(t, f)
      BY <2>5 DEF Runs
    <3>3. QED
      BY <3>1, <3>2
  <2>6. QED
    BY <2>1, <2>2, <2>3, <2>4, <2>5 DEF Wraps
<1> PICK f : Goes(f)
  BY <1>3
<1>4. /\ p \in Frames /\ Frame(p) = Top(t)
      /\ Frames' = Frames /\ Uses' = Uses
      /\ Frame(p)' = f
      /\ \A q \in Frames : q # p => Frame(q)' = Frame(q)
  BY ChangedFrames
<1>5. \A q \in Frames : /\ Frame(q)'.args = Frame(q).args /\ Frame(q)'.fn = Frame(q).fn
                        /\ Frame(q)'.prior = Frame(q).prior
  BY <1>4
<1>6. \A u \in Uses : u[1] \in Frames
  BY FramesTyped
<1>7. QED
  BY <1>2, <1>4, <1>5, <1>6 DEF Arg, Own, Extracted

\* The step that begins a call adds its arguments.
LEMMA EnteredUses ==
    ASSUME TypeOK, NEW t \in Threads, NEW fn \in Functions,
           NEW args \in [DOMAIN fn.params -> Handles], Enters(t, fn, args),
           NEW p, p = <<t, Len(stack[t]) + 1>>
    PROVE  /\ p \notin Frames /\ Frames' = Frames \cup {p}
           /\ Frame(p)' = NewFrame(fn, args)
           /\ \A q \in Frames : Frame(q)' = Frame(q) /\ (q[1] = t => q[2] < p[2])
           /\ Uses' = Uses \cup ({p} \X DOMAIN args)
           /\ \A u \in Uses : /\ u[1] \in Frames
                              /\ Arg(u)' = Arg(u) /\ Own(u)' = Own(u)
                              /\ Extracted(u)' <=> Extracted(u)
           /\ \A i \in DOMAIN args : Arg(<<p, i>>)' = args[i] /\ Own(<<p, i>>)' = fn.params[i]
           /\ DOMAIN args = 1 .. Len(fn.params) /\ Len(fn.params) \in Nat
<1>1. DOMAIN args = 1 .. Len(fn.params) /\ Len(fn.params) \in Nat /\ Len(args) = Len(fn.params)
  BY HandleAssumption DEF FunctionType
<1>2. Params(NewFrame(fn, args)) = DOMAIN args
  BY <1>1 DEF Params, NewFrame
<1>3. /\ p \notin Frames /\ Frames' = Frames \cup {p}
      /\ Frame(p)' = NewFrame(fn, args)
      /\ \A q \in Frames : Frame(q)' = Frame(q) /\ (q[1] = t => q[2] < p[2])
      /\ Uses' = Uses \cup ({p} \X DOMAIN args)
  BY <1>2, PushedFrames DEF Enters
<1>4. \A u \in Uses : u[1] \in Frames
  BY FramesTyped
<1>5. \A u \in Uses : Arg(u)' = Arg(u) /\ Own(u)' = Own(u) /\ (Extracted(u)' <=> Extracted(u))
  BY <1>3, <1>4 DEF Arg, Own, Extracted
<1>6. \A i \in DOMAIN args : Arg(<<p, i>>)' = args[i] /\ Own(<<p, i>>)' = fn.params[i]
  BY <1>3 DEF Arg, Own, NewFrame
<1>7. QED
  BY <1>1, <1>3, <1>4, <1>5, <1>6

\* The step that ends a call removes them.
LEMMA PoppedUses ==
    ASSUME TypeOK, NEW t \in Threads, Popped(t),
           NEW p, p = <<t, Len(stack[t])>>
    PROVE  /\ p \in Frames /\ Frame(p) = Top(t) /\ Frame(p) \in FrameType
           /\ Frames' = Frames \ {p}
           /\ \A q \in Frames' : Frame(q)' = Frame(q) /\ (q[1] = t => q[2] < p[2])
           /\ Uses' = {u \in Uses : u[1] # p}
           /\ \A u \in Uses' : /\ u \in Uses /\ u[1] \in Frames /\ u[1] \in Frames'
                               /\ Arg(u)' = Arg(u) /\ Own(u)' = Own(u)
                               /\ Extracted(u)' <=> Extracted(u)
<1>1. /\ p \in Frames /\ Frame(p) = Top(t)
      /\ Frames' = Frames \ {p}
      /\ \A q \in Frames' : Frame(q)' = Frame(q) /\ (q[1] = t => q[2] < p[2])
      /\ Uses' = {u \in Uses : u[1] # p}
  BY PoppedFrames
<1>2. \A u \in Uses' : u \in Uses /\ u[1] \in Frames /\ u[1] \in Frames'
  BY <1>1, FramesTyped
<1>3. \A u \in Uses' : Arg(u)' = Arg(u) /\ Own(u)' = Own(u) /\ (Extracted(u)' <=> Extracted(u))
  BY <1>1, <1>2 DEF Arg, Own, Extracted
<1>4. QED
  BY <1>1, <1>2, <1>3, FramesTyped

-----------------------------------------------------------------------------
(* Each part of the invariant is preserved.                                *)

\* Calls go through their phases in order.
LEMMA CallsInOrderKept ==
    ASSUME TypeOK, CallsInOrder, [Next]_vars
    PROVE  CallsInOrder'
<1>1. CASE UNCHANGED stack
  BY <1>1, KeptUses DEF CallsInOrder
<1>2. ASSUME NEW t \in Threads, Popped(t)
      PROVE  CallsInOrder'
  BY <1>2, PoppedFrames DEF CallsInOrder
<1>3. ASSUME NEW t \in Threads, NEW f, Changed(t, f), f.args = Top(t).args,
             InOrder(Top(t)) => InOrder(f)
      PROVE  CallsInOrder'
  BY ZenonT(60), <1>3, ChangedFrames DEF CallsInOrder
<1>4. ASSUME NEW t \in Threads, NEW fn \in Functions, NEW args \in [DOMAIN fn.params -> Handles],
             Enters(t, fn, args)
      PROVE  CallsInOrder'
  <2>1. InOrder(NewFrame(fn, args))
    BY HandleAssumption DEF InOrder, NewFrame, FunctionType
  <2>2. PICK p : p = <<t, Len(stack[t]) + 1>>
    OBVIOUS
  <2>3. /\ Frames' = Frames \cup {p} /\ Frame(p)' = NewFrame(fn, args)
        /\ \A q \in Frames : Frame(q)' = Frame(q)
    BY <1>4, <2>2, EnteredUses
  <2>4. QED
    BY <2>1, <2>3 DEF CallsInOrder
<1>5. ASSUME NEW t \in Threads, Wraps(t)
      PROVE  CallsInOrder'
  <2>1. Top(t) \in FrameType
    BY <1>5, WrappedUses
  <2>2. CASE Guards(t)
    <3>1. PICK phase \in {"buffers", "extract"} :
              Changed(t, [Top(t) EXCEPT !.guarded = TRUE, !.phase = phase])
      BY <2>2 DEF Guards
    <3>2. QED
      BY <2>1, <2>2, <3>1, <1>3 DEF FrameType, InOrder, Guards
  <2>3. CASE Passes(t)
    BY <2>1, <2>3, <1>3 DEF FrameType, InOrder, Passes
  <2>4. CASE Takes(t)
    BY <2>1, <2>4, <1>3 DEF FrameType, InOrder, Takes
  <2>5. CASE Lends(t)
    BY <2>1, <2>5, <1>3 DEF FrameType, InOrder, Lends
  <2>6. CASE Runs(t)
    <3> DEFINE f == [Top(t) EXCEPT !.phase = "run", !.guarded = ~ReleasesGil(Top(t).fn)]
    <3>1. /\ f.args = Top(t).args /\ f.fn = Top(t).fn /\ f.got = Top(t).got
          /\ f.phase = "run" /\ f.guarded = ~ReleasesGil(f.fn)
      BY <2>1 DEF FrameType
    <3>2. Changed(t, f) /\ ~(Top(t).got + 1 <= Len(Top(t).args))
      BY <2>6 DEF Runs
    <3>3. InOrder(Top(t)) => f.got = Len(f.args)
      BY <2>1, <3>1, <3>2 DEF FrameType, InOrder
    <3>4. InOrder(Top(t)) => InOrder(f)
      BY <3>1, <3>3 DEF InOrder
    <3>5. QED
      BY <3>1, <3>2, <3>4, <1>3
  <2>7. QED
    BY <1>5, <2>2, <2>3, <2>4, <2>5, <2>6 DEF Wraps
<1>6. QED
  BY <1>1, <1>2, <1>4, <1>5, StepKinds DEF Makes, Gives, Freezes, Drops, Leaves, Wraps

\* A step keeps the kinds and homes of the handles that are arguments.
LEMMA KindsKept ==
    ASSUME TypeOK, [Next]_vars, NEW h \in Handles, handle[h].kind # "none",
           \E u \in Uses : Arg(u) = h
    PROVE  handle'[h].kind = handle[h].kind /\ handle'[h].home = handle[h].home
<1>1. CASE UNCHANGED <<handle, stack>>
  BY <1>1
<1>2. ASSUME NEW t \in Threads, NEW r \in Handles, NEW v \in Values, Makes(t, r, v)
      PROVE  handle'[h] = handle[h]
  BY <1>2 DEF Makes, TypeOK
<1>3. ASSUME NEW t \in Threads, NEW r \in Handles, NEW v \in Values, Gives(t, r, v)
      PROVE  handle'[h].kind = handle[h].kind /\ handle'[h].home = handle[h].home
  <2>1. stack[t] # <<>> /\ handle[r].kind = "none"
    BY <1>3 DEF Gives, Popped
  <2>2. handle'[h] = Left(t, "ok")[h]
    BY <1>3, <2>1, LeftType DEF Gives
  <2>3. QED
    BY <2>1, <2>2, LeftType
<1>4. ASSUME NEW g \in Handles, NEW s \in Handles, Freezes(g, s)
      PROVE  handle'[h].kind = handle[h].kind /\ handle'[h].home = handle[h].home
  BY <1>4 DEF Freezes, Frozen, TypeOK, HandleType
<1>5. ASSUME NEW g \in Handles, Drops(g)
      PROVE  handle'[h] = handle[h]
  BY <1>5 DEF Drops, TypeOK
<1>6. ASSUME NEW t \in Threads, NEW fn \in Functions, NEW args \in [DOMAIN fn.params -> Handles],
             Enters(t, fn, args)
      PROVE  handle'[h].kind = handle[h].kind /\ handle'[h].home = handle[h].home
  BY <1>6 DEF Enters, TypeOK, HandleType
<1>7. ASSUME NEW t \in Threads, Guards(t) \/ Passes(t) \/ Takes(t) \/ Lends(t) \/ Runs(t)
      PROVE  handle'[h].kind = handle[h].kind /\ handle'[h].home = handle[h].home
  <2>1. CASE Takes(t)
    <3>1. PICK g : handle' = [handle EXCEPT ![g].slot = Nothing]
      BY <2>1 DEF Takes
    <3>2. QED
      BY <3>1 DEF TypeOK, HandleType
  <2>2. CASE ~Takes(t)
    BY <1>7, <2>2 DEF Guards, Passes, Lends, Runs
  <2>3. QED
    BY <2>1, <2>2
<1>8. ASSUME NEW t \in Threads, NEW how \in Outcomes, Leaves(t, how)
      PROVE  handle'[h].kind = handle[h].kind /\ handle'[h].home = handle[h].home
  BY <1>8, LeftType DEF Leaves, Popped
<1>9. QED
  BY <1>1, <1>2, <1>3, <1>4, <1>5, <1>6, <1>7, <1>8, StepKinds

\* The arguments of calls stay handles of their kind.
LEMMA ArgumentsKept ==
    ASSUME TypeOK, ArgumentsStay, [Next]_vars
    PROVE  ArgumentsStay'
<1> USE DEF ArgumentsStay
<1>1. \A u \in Uses : /\ handle'[Arg(u)].kind = handle[Arg(u)].kind
                      /\ handle'[Arg(u)].home = handle[Arg(u)].home
  BY KindsKept, FramesTyped
<1>2. ASSUME NEW t \in Threads, NEW fn \in Functions, NEW args \in [DOMAIN fn.params -> Handles],
             Enters(t, fn, args)
      PROVE  ArgumentsStay'
  <2>1. PICK p : p = <<t, Len(stack[t]) + 1>>
    OBVIOUS
  <2>2. /\ Uses' = Uses \cup ({p} \X DOMAIN args)
        /\ \A u \in Uses : Arg(u)' = Arg(u) /\ Own(u)' = Own(u)
        /\ \A i \in DOMAIN args : Arg(<<p, i>>)' = args[i] /\ Own(<<p, i>>)' = fn.params[i]
    BY <1>2, <2>1, EnteredUses
  <2>3. ASSUME NEW i \in DOMAIN args
        PROVE  /\ handle'[args[i]].kind = IF fn.params[i] = "Shared" THEN "shared" ELSE "owned"
               /\ fn.params[i] # "Shared" => handle'[args[i]].home = t
    BY <1>2 DEF Enters, Admitted, TypeOK, HandleType
  <2>4. QED
    BY <1>1, <2>1, <2>2, <2>3
<1>3. ASSUME NEW t \in Threads, Popped(t)
      PROVE  ArgumentsStay'
  <2>1. \A u \in Uses' : u \in Uses /\ Arg(u)' = Arg(u) /\ Own(u)' = Own(u)
    BY <1>3, PoppedUses
  <2>2. QED
    BY <1>1, <2>1
<1>4. ASSUME NEW t \in Threads, Wraps(t)
      PROVE  ArgumentsStay'
  <2>1. Uses' = Uses /\ \A u \in Uses : Arg(u)' = Arg(u) /\ Own(u)' = Own(u)
    BY <1>4, WrappedUses
  <2>2. QED
    BY <1>1, <2>1
<1>5. CASE UNCHANGED stack
  BY <1>1, <1>5, KeptUses
<1>6. QED
  BY <1>2, <1>3, <1>4, <1>5, StepKinds DEF Makes, Gives, Freezes, Drops, Leaves, Wraps

\* A call takes its guards only where no other guard excludes them.
LEMMA GuardsExcludeKept ==
    ASSUME TypeOK, CallsInOrder, ArgumentsStay, GuardsExclude, [Next]_vars
    PROVE  GuardsExclude'
<1>1. CASE UNCHANGED stack
  BY <1>1, KeptUses DEF GuardsExclude
<1>2. ASSUME NEW t \in Threads, Popped(t)
      PROVE  GuardsExclude'
  <2>1. PICK p : p = <<t, Len(stack[t])>>
    OBVIOUS
  <2>2. /\ \A q \in Frames' : Frame(q)' = Frame(q)
        /\ \A u \in Uses' : u \in Uses /\ u[1] \in Frames' /\ Arg(u)' = Arg(u) /\ Own(u)' = Own(u)
    BY <1>2, <2>1, PoppedUses
  <2>3. QED
    BY <2>2 DEF GuardsExclude
<1>3. ASSUME NEW t \in Threads, NEW fn \in Functions, NEW args \in [DOMAIN fn.params -> Handles],
             Enters(t, fn, args)
      PROVE  GuardsExclude'
  <2>1. PICK p : p = <<t, Len(stack[t]) + 1>>
    OBVIOUS
  <2>2. /\ p \notin Frames /\ Frame(p)' = NewFrame(fn, args)
        /\ \A q \in Frames : Frame(q)' = Frame(q)
        /\ Uses' = Uses \cup ({p} \X DOMAIN args)
        /\ \A u \in Uses : u[1] \in Frames /\ Arg(u)' = Arg(u) /\ Own(u)' = Own(u)
        /\ \A i \in DOMAIN args : Arg(<<p, i>>)' = args[i] /\ Own(<<p, i>>)' = fn.params[i]
        /\ DOMAIN args = DOMAIN fn.params
    BY <1>3, <2>1, EnteredUses
  <2>3. ~Frame(p)'.guarded
    BY <2>2 DEF NewFrame
  <2>4. ASSUME NEW i \in DOMAIN args, NEW j \in DOMAIN args, i # j, args[i] = args[j],
               Exclusive(fn.params[i])
        PROVE  FALSE
    BY <1>3, <2>4 DEF Enters, Admitted, Aliased
  <2>5. ASSUME NEW u \in Uses', NEW w \in Uses',
               u # w, Arg(u)' = Arg(w)', Exclusive(Own(u)')
        PROVE  u[1] # w[1] /\ ~(Frame(u[1])'.guarded /\ Frame(w[1])'.guarded)
    <3>1. CASE u \in Uses /\ w \in Uses
      BY <2>2, <2>5, <3>1 DEF GuardsExclude
    <3>2. CASE u \in {p} \X DOMAIN args /\ w \in {p} \X DOMAIN args
      BY <2>2, <2>4, <2>5, <3>2
    <3>3. CASE u \in Uses /\ w \in {p} \X DOMAIN args
      BY <2>2, <2>3, <3>3
    <3>4. CASE u \in {p} \X DOMAIN args /\ w \in Uses
      BY <2>2, <2>3, <3>4
    <3>5. QED
      BY <2>2, <2>5, <3>1, <3>2, <3>3, <3>4
  <2>6. QED
    BY <2>5 DEF GuardsExclude
<1>4. ASSUME NEW t \in Threads, Wraps(t)
      PROVE  GuardsExclude'
  <2>1. PICK p : p = <<t, Len(stack[t])>>
    OBVIOUS
  <2>2. /\ p \in Frames /\ Frame(p) = Top(t) /\ Frame(p) \in FrameType
        /\ Uses' = Uses
        /\ \A q \in Frames : q # p => Frame(q)' = Frame(q)
        /\ \A u \in Uses : u[1] \in Frames /\ Arg(u)' = Arg(u) /\ Own(u)' = Own(u)
    BY <1>4, <2>1, WrappedUses, FramesTyped
  <2>3. CASE ~Guards(t)
    <3>1. Frame(p)'.guarded => Frame(p).guarded
      <4>1. CASE Passes(t)
        BY <2>1, <2>2, <4>1, ChangedFrames DEF Passes, FrameType
      <4>2. CASE Takes(t)
        <5> DEFINE i == Top(t).got + 1
                   f == [Top(t) EXCEPT !.got = i, !.owned = @ \cup {handle[Top(t).args[i]].slot}]
        <5>1. f.args = Top(t).args /\ f.guarded = Top(t).guarded
          BY <2>2 DEF FrameType
        <5>2. Changed(t, f)
          BY <4>2 DEF Takes
        <5>3. QED
          BY <2>1, <2>2, <5>1, <5>2, ChangedFrames
      <4>3. CASE Lends(t)
        BY <2>1, <2>2, <4>3, ChangedFrames DEF Lends, FrameType
      <4>4. CASE Runs(t)
        BY <2>2, <4>4 DEF Runs, CallsInOrder, InOrder
      <4>5. QED
        BY <1>4, <2>3, <4>1, <4>2, <4>3, <4>4 DEF Wraps
    <3>2. QED
      BY <2>2, <3>1 DEF GuardsExclude
  <2>4. CASE Guards(t)
    <3>1. \A i \in Params(Frame(p)) :
              /\ Exclusive(Own(<<p, i>>)) => ~Locked(Arg(<<p, i>>))
              /\ Own(<<p, i>>) = "Ref" => ~WriteLocked(Arg(<<p, i>>))
      BY <2>2, <2>4 DEF Guards, Own, Arg
    <3>2. \A u \in Uses : u[1] = p => /\ Exclusive(Own(u)) => ~Locked(Arg(u))
                                      /\ Own(u) = "Ref" => ~WriteLocked(Arg(u))
      BY <3>1, UseIs
    <3>3. \A u \in Uses : /\ Own(u) \in Ownerships
                          /\ Frame(u[1]).guarded /\ Own(u) # "Shared" => Locked(Arg(u))
                          /\ Frame(u[1]).guarded /\ Exclusive(Own(u)) => WriteLocked(Arg(u))
      <4>1. ASSUME NEW u \in Uses PROVE Own(u) \in Ownerships
        <5>1. /\ Frame(u[1]).fn \in FunctionType
              /\ u[2] \in 1 .. Len(Frame(u[1]).args)
              /\ Len(Frame(u[1]).args) = Len(Frame(u[1]).fn.params)
          BY HandleAssumption, FramesTyped DEF FrameType, Params, CallsInOrder, InOrder
        <5>2. QED
          BY <5>1 DEF FunctionType, Own
      <4>2. QED
        BY <4>1 DEF Locked, WriteLocked, Guarded, Exclusive, Ownerships
    <3>4. ASSUME NEW u \in Uses, NEW w \in Uses, u # w, Arg(u) = Arg(w), Exclusive(Own(u))
          PROVE  Own(w) # "Shared"
      BY <3>4 DEF ArgumentsStay, Exclusive
    <3>5. ASSUME NEW u \in Uses, NEW w \in Uses, u # w, Arg(u) = Arg(w), Exclusive(Own(u))
          PROVE  u[1] # w[1] /\ ~(Frame(u[1])'.guarded /\ Frame(w[1])'.guarded)
      <4>1. u[1] # w[1] /\ ~(Frame(u[1]).guarded /\ Frame(w[1]).guarded)
        BY <3>5 DEF GuardsExclude
      <4>2. CASE u[1] = p
        BY <2>2, <3>2, <3>3, <3>4, <3>5, <4>1, <4>2
      <4>3. CASE w[1] = p
        BY <2>2, <3>2, <3>3, <3>4, <3>5, <4>1, <4>3 DEF Ownerships, Exclusive, Locked, WriteLocked, Guarded
      <4>4. CASE u[1] # p /\ w[1] # p
        BY <2>2, <4>1, <4>4
      <4>5. QED
        BY <4>2, <4>3, <4>4
    <3>6. QED
      BY <2>2, <3>5 DEF GuardsExclude
  <2>5. QED
    BY <2>3, <2>4
<1>5. QED
  BY <1>1, <1>2, <1>3, <1>4, StepKinds DEF Makes, Gives, Freezes, Drops, Leaves, Wraps

\* The argument that a call extracts next.
LEMMA NextArgument ==
    ASSUME TypeOK, CallsInOrder, NEW t \in Threads, Takes(t) \/ Lends(t),
           NEW p, p = <<t, Len(stack[t])>>,
           NEW next, next = <<p, Frame(p).got + 1>>
    PROVE  /\ next \in Uses /\ Frame(p).guarded /\ ~Extracted(next)
           /\ Arg(next) \in Handles /\ handle[Arg(next)].slot # Nothing
           /\ Frame(p)'.guarded = Frame(p).guarded
           /\ \A u \in Uses : Extracted(u)' <=> Extracted(u) \/ u = next
           /\ \/ /\ Takes(t) /\ Own(next) = "Owned"
                 /\ handle' = [handle EXCEPT ![Arg(next)].slot = Nothing]
                 /\ Frame(p)'.owned = Frame(p).owned \cup {handle[Arg(next)].slot}
              \/ /\ Lends(t) /\ Own(next) # "Owned"
                 /\ UNCHANGED handle
                 /\ Frame(p)'.owned = Frame(p).owned
<1> DEFINE i == Frame(p).got + 1
           taken == [Top(t) EXCEPT !.got = i, !.owned = @ \cup {handle[Top(t).args[i]].slot}]
           lent == [Top(t) EXCEPT !.got = i]
<1>1. p \in Frames /\ Frame(p) = Top(t) /\ Frame(p) \in FrameType
  BY WrappedUses DEF Wraps
<1>2. i \in Params(Frame(p)) /\ Frame(p).phase = "extract"
  <2>1. i <= Len(Frame(p).args) /\ Frame(p).phase = "extract"
    BY <1>1 DEF Takes, Lends
  <2>2. Frame(p).args \in Seq(Handles) /\ Frame(p).got \in Nat
    BY <1>1 DEF FrameType
  <2>3. QED
    BY <2>1, <2>2 DEF Params
<1>3. next \in Uses
  BY <1>1, <1>2, UseIs
<1>4. Frame(p).guarded
  BY <1>1, <1>2 DEF CallsInOrder, InOrder
<1>5. /\ Arg(next) \in Handles /\ ~Extracted(next)
      /\ Arg(next) = Top(t).args[i] /\ Own(next) = Top(t).fn.params[i]
      /\ handle[Arg(next)].slot # Nothing
  <2>1. Arg(next) \in Handles
    BY <1>3, FramesTyped
  <2>2. Arg(next) = Top(t).args[i] /\ Own(next) = Top(t).fn.params[i]
    BY <1>1 DEF Arg, Own
  <2>3. Frame(p).got \in Nat
    BY <1>1 DEF FrameType
  <2>4. ~Extracted(next)
    BY <2>3 DEF Extracted
  <2>5. handle[Top(t).args[i]].slot # Nothing
    BY <1>1 DEF Takes, Lends
  <2>6. QED
    BY <2>1, <2>2, <2>4, <2>5
<1>6. /\ taken.args = Top(t).args /\ taken.got = i /\ taken.guarded = Top(t).guarded
      /\ taken.owned = Top(t).owned \cup {handle[Top(t).args[i]].slot}
      /\ lent.args = Top(t).args /\ lent.got = i /\ lent.guarded = Top(t).guarded
      /\ lent.owned = Top(t).owned
  BY <1>1 DEF FrameType
<1>7. /\ Takes(t) => Changed(t, taken)
      /\ Lends(t) => Changed(t, lent)
  BY <1>1 DEF Takes, Lends
<1> HIDE DEF taken, lent
<1>8. /\ Frame(p)'.got = i /\ Frame(p)'.guarded = Frame(p).guarded
      /\ Takes(t) => Frame(p)'.owned = Frame(p).owned \cup {handle[Arg(next)].slot}
      /\ Lends(t) => Frame(p)'.owned = Frame(p).owned
  <2>1. Takes(t) => Frame(p)' = taken
    BY <1>1, <1>6, <1>7, ChangedFrames
  <2>2. Lends(t) => Frame(p)' = lent
    BY <1>1, <1>6, <1>7, ChangedFrames
  <2>3. QED
    BY <1>1, <1>5, <1>6, <2>1, <2>2
<1>9. ASSUME NEW u \in Uses PROVE Extracted(u)' <=> Extracted(u) \/ u = next
  <2>1. CASE u[1] # p
    BY <2>1, WrappedUses DEF Wraps
  <2>2. CASE u[1] = p
    <3>1. PICK q \in Frames : \E k \in Params(Frame(q)) : u = <<q, k>>
      BY UseIs
    <3>2. u = <<p, u[2]>> /\ u[2] \in Nat
      BY <3>1, <2>2 DEF Params
    <3>3. Frame(p).got \in Nat
      BY <1>1 DEF FrameType
    <3>4. QED
      BY <2>2, <3>2, <3>3, <1>8 DEF Extracted
  <2>3. QED
    BY <2>1, <2>2
<1>10. QED
  BY ZenonT(60), <1>1, <1>3, <1>4, <1>5, <1>8, <1>9 DEF Takes, Lends

\* A step of a wrapper that extracts nothing.
LEMMA NoArgument ==
    ASSUME TypeOK, NEW t \in Threads, Guards(t) \/ Passes(t) \/ Runs(t),
           NEW p, p = <<t, Len(stack[t])>>
    PROVE  /\ UNCHANGED handle
           /\ Frame(p)'.owned = Frame(p).owned
           /\ \A u \in Uses : Extracted(u)' <=> Extracted(u)
<1> DEFINE guarding(phase) == [Top(t) EXCEPT !.guarded = TRUE, !.phase = phase]
           passing == [Top(t) EXCEPT !.phase = "extract"]
           running == [Top(t) EXCEPT !.phase = "run", !.guarded = ~ReleasesGil(Top(t).fn)]
           Same(f) == f.args = Top(t).args /\ f.got = Top(t).got /\ f.owned = Top(t).owned
<1>1. p \in Frames /\ Frame(p) = Top(t) /\ Frame(p) \in FrameType
  BY WrappedUses DEF Wraps
<1>2. \E f : Changed(t, f) /\ Same(f)
  <2>1. /\ \A phase : Same(guarding(phase))
        /\ Same(passing) /\ Same(running)
    BY <1>1 DEF FrameType
  <2>2. \/ \E phase : Changed(t, guarding(phase))
        \/ Changed(t, passing) \/ Changed(t, running)
    BY DEF Guards, Passes, Runs
  <2> HIDE DEF guarding, passing, running
  <2>3. QED
    BY <2>1, <2>2
<1>3. Frame(p)'.owned = Frame(p).owned /\ Frame(p)'.got = Frame(p).got
  BY <1>1, <1>2, ChangedFrames
<1>4. \A u \in Uses : Extracted(u)' <=> Extracted(u)
  BY <1>3, WrappedUses DEF Wraps, Extracted
<1>5. QED
  BY <1>3, <1>4 DEF Guards, Passes, Runs

\* A slot is emptied by a call that guards it alone, or where nobody guards it.
LEMMA SlotsStayKept ==
    ASSUME TypeOK, CallsInOrder, ArgumentsStay, GuardsExclude, SlotsKept, [Next]_vars
    PROVE  SlotsKept'
<1> USE HandleAssumption
<1>1. CASE UNCHANGED <<handle, stack>>
  BY <1>1, KeptUses DEF SlotsKept
<1>2. ASSUME NEW t \in Threads, NEW h \in Handles, NEW v \in Values, Makes(t, h, v)
      PROVE  SlotsKept'
  <2>1. \A g \in Handles : g # h => handle'[g] = handle[g]
    BY <1>2 DEF Makes, TypeOK
  <2>2. handle'[h].kind = "owned" /\ handle'[h].slot # Nothing
    BY <1>2, NewHandleType DEF Makes, TypeOK
  <2>3. QED
    BY <1>2, <2>1, <2>2, KeptUses, FramesTyped DEF Makes, SlotsKept
<1>3. ASSUME NEW t \in Threads, Popped(t),
             \A h \in Handles : handle'[h].kind = handle[h].kind /\ handle'[h].slot = handle[h].slot
      PROVE  SlotsKept'
  <2>1. PICK p : p = <<t, Len(stack[t])>>
    OBVIOUS
  <2>2. /\ \A q \in Frames' : Frame(q)' = Frame(q)
        /\ \A u \in Uses' : /\ u \in Uses /\ u[1] \in Frames' /\ Arg(u)' = Arg(u) /\ Own(u)' = Own(u)
                            /\ Extracted(u)' <=> Extracted(u)
    BY <1>3, <2>1, PoppedUses
  <2>3. QED
    BY <1>3, <2>2, FramesTyped DEF SlotsKept
<1>4. ASSUME NEW t \in Threads, NEW how \in Outcomes, Leaves(t, how)
      PROVE  SlotsKept'
  <2>1. Popped(t) /\ stack[t] # <<>> /\ handle' = Left(t, how)
    BY <1>4 DEF Leaves, Popped
  <2>2. \A h \in Handles : handle'[h].kind = handle[h].kind /\ handle'[h].slot = handle[h].slot
    BY <2>1, LeftType
  <2>3. QED
    BY <2>1, <2>2, <1>3
<1>5. ASSUME NEW t \in Threads, NEW r \in Handles, NEW v \in Values, Gives(t, r, v)
      PROVE  SlotsKept'
  <2>1. PICK p : p = <<t, Len(stack[t])>>
    OBVIOUS
  <2>2. /\ \A q \in Frames' : Frame(q)' = Frame(q)
        /\ \A u \in Uses' : /\ u \in Uses /\ u[1] \in Frames' /\ Arg(u)' = Arg(u) /\ Own(u)' = Own(u)
                            /\ Extracted(u)' <=> Extracted(u)
    BY <1>5, <2>1, PoppedUses DEF Gives
  <2>3. \A h \in Handles : h # r => handle'[h].kind = handle[h].kind /\ handle'[h].slot = handle[h].slot
    BY <1>5, LeftType DEF Gives, Popped
  <2>4. handle'[r].kind = "owned" /\ handle'[r].slot # Nothing
    BY <1>5, NewHandleType, LeftType DEF Gives, Popped
  <2>5. QED
    BY <1>5, <2>2, <2>3, <2>4, FramesTyped DEF SlotsKept
<1>6. ASSUME NEW h \in Handles, NEW s \in Handles, Freezes(h, s)
      PROVE  SlotsKept'
  <2>1. \A u \in Uses : Frame(u[1]).guarded => Arg(u) # h
    <3>1. SUFFICES ASSUME NEW u \in Uses, Frame(u[1]).guarded, Arg(u) = h PROVE FALSE
      OBVIOUS
    <3>2. Own(u) # "Shared"
      BY <1>6, <3>1 DEF ArgumentsStay, Freezes
    <3>3. Own(u) \in Ownerships
      <4>1. /\ Frame(u[1]).fn \in FunctionType
            /\ u[2] \in 1 .. Len(Frame(u[1]).fn.params)
        BY HandleAssumption, FramesTyped DEF FrameType, Params, CallsInOrder, InOrder
      <4>2. QED
        BY <4>1 DEF FunctionType, Own
    <3>4. Locked(h)
      BY <3>1, <3>2, <3>3 DEF Locked, Guarded, Ownerships
    <3>5. QED
      BY <1>6, <3>4 DEF Freezes
  <2>2. h # s /\ \A g \in Handles : g # h /\ g # s => handle'[g] = handle[g]
    BY <1>6 DEF Freezes, Frozen, TypeOK
  <2>3. /\ handle'[h].kind = "owned"
        /\ handle'[s].kind = "shared" /\ handle'[s].slot # Nothing
    BY <1>6 DEF Freezes, Frozen, TypeOK, HandleType, NewHandle, NoHandle
  <2>4. \A u \in Uses : Frame(u[1]).guarded => handle'[Arg(u)].slot # Nothing \/ handle'[Arg(u)] = handle[Arg(u)]
    BY <2>1, <2>2, <2>3, FramesTyped
  <2>5. QED
    BY <1>6, <2>2, <2>3, <2>4, KeptUses DEF SlotsKept, Freezes
<1>7. ASSUME NEW h \in Handles, Drops(h)
      PROVE  SlotsKept'
  <2>1. \A g \in Handles : g # h => handle'[g] = handle[g]
    BY <1>7 DEF Drops, TypeOK
  <2>2. handle'[h].kind = "none" /\ handle'[h].slot = Nothing
    BY <1>7 DEF Drops, TypeOK, NoHandle
  <2>3. QED
    BY <1>7, <2>1, <2>2, KeptUses, FramesTyped DEF Drops, SlotsKept
<1>8. ASSUME NEW t \in Threads, NEW fn \in Functions, NEW args \in [DOMAIN fn.params -> Handles],
             Enters(t, fn, args)
      PROVE  SlotsKept'
  <2>1. PICK p : p = <<t, Len(stack[t]) + 1>>
    OBVIOUS
  <2>2. /\ Frame(p)' = NewFrame(fn, args)
        /\ \A q \in Frames : Frame(q)' = Frame(q)
        /\ Uses' = Uses \cup ({p} \X DOMAIN args)
        /\ \A u \in Uses : /\ u[1] \in Frames /\ Arg(u)' = Arg(u) /\ Own(u)' = Own(u)
                           /\ Extracted(u)' <=> Extracted(u)
    BY <1>8, <2>1, EnteredUses
  <2>3. ~Frame(p)'.guarded
    BY <2>2 DEF NewFrame
  <2>4. \A h \in Handles : handle'[h].kind = handle[h].kind /\ handle'[h].slot = handle[h].slot
    BY <1>8 DEF Enters, TypeOK, HandleType
  <2>5. QED
    BY <2>2, <2>3, <2>4, FramesTyped DEF SlotsKept
<1>9. ASSUME NEW t \in Threads, Takes(t) \/ Lends(t)
      PROVE  SlotsKept'
  <2>1. PICK p : p = <<t, Len(stack[t])>>
    OBVIOUS
  <2>2. PICK next : next = <<p, Frame(p).got + 1>>
    OBVIOUS
  <2>3. /\ next \in Uses /\ Frame(p).guarded /\ next[1] = p /\ Arg(next) \in Handles
        /\ Frame(p)'.guarded = Frame(p).guarded
        /\ \A u \in Uses : Extracted(u)' <=> Extracted(u) \/ u = next
    BY <1>9, <2>1, <2>2, NextArgument
  <2>4. /\ Uses' = Uses
        /\ \A q \in Frames : q # p => Frame(q)' = Frame(q)
        /\ \A u \in Uses : u[1] \in Frames /\ Arg(u)' = Arg(u) /\ Own(u)' = Own(u) /\ Arg(u) \in Handles
    BY <1>9, <2>1, WrappedUses, FramesTyped DEF Wraps
  <2>5. CASE UNCHANGED handle
    BY <2>3, <2>4, <2>5 DEF SlotsKept
  <2>6. CASE Own(next) = "Owned" /\ handle' = [handle EXCEPT ![Arg(next)].slot = Nothing]
    <3>1. \A u \in Uses : Frame(u[1]).guarded /\ u # next => Arg(u) # Arg(next)
      BY <2>3, <2>6 DEF GuardsExclude, Exclusive
    <3>2. /\ \A h \in Handles : handle'[h].kind = handle[h].kind
          /\ \A h \in Handles : h # Arg(next) => handle'[h].slot = handle[h].slot
          /\ handle[Arg(next)].kind = "owned"
      BY <2>3, <2>6 DEF TypeOK, HandleType, ArgumentsStay
    <3>3. QED
      BY <2>3, <2>4, <2>6, <3>1, <3>2 DEF SlotsKept
  <2>7. QED
    BY <1>9, <2>1, <2>2, <2>5, <2>6, NextArgument
<1>10. ASSUME NEW t \in Threads, Passes(t) \/ Runs(t) \/ Guards(t)
       PROVE  SlotsKept'
  <2>1. PICK p : p = <<t, Len(stack[t])>>
    OBVIOUS
  <2>2. /\ p \in Frames /\ Frame(p) = Top(t) /\ Uses' = Uses
        /\ \A q \in Frames : q # p => Frame(q)' = Frame(q)
        /\ \A u \in Uses : u[1] \in Frames /\ Arg(u)' = Arg(u) /\ Own(u)' = Own(u)
    BY <1>10, <2>1, WrappedUses, FramesTyped DEF Wraps
  <2>3. UNCHANGED handle /\ \A u \in Uses : Extracted(u)' <=> Extracted(u)
    BY <1>10, <2>1, NoArgument
  <2>4. \A u \in Uses : u[1] = p /\ Own(u) # "Shared" /\ ~Extracted(u) => handle[Arg(u)].slot # Nothing
    <3>1. CASE Guards(t)
      BY <2>2, <3>1, UseIs DEF Guards, Own, Arg
    <3>2. CASE ~Guards(t)
      BY <1>10, <2>2, <3>2 DEF Passes, Runs, CallsInOrder, InOrder, SlotsKept
    <3>3. QED
      BY <3>1, <3>2
  <2>5. \A u \in Uses : Own(u) = "Shared" => handle[Arg(u)].slot # Nothing
    BY FramesTyped DEF ArgumentsStay, SlotsKept
  <2>6. \A u \in Uses : u[1] = p /\ Frame(p)'.guarded /\ Extracted(u) =>
            Frame(p).guarded
    <3>1. CASE Guards(t)
      BY <2>2, <3>1, UseIs DEF Guards, CallsInOrder, InOrder, Extracted, Params
    <3>2. CASE ~Guards(t)
      BY <1>10, <2>2, <3>2 DEF Passes, Runs, CallsInOrder, InOrder
    <3>3. QED
      BY <3>1, <3>2
  <2>7. QED
    BY <2>2, <2>3, <2>4, <2>5, <2>6 DEF SlotsKept
<1>11. QED
  BY <1>1, <1>2, <1>4, <1>5, <1>6, <1>7, <1>8, <1>9, <1>10, StepKinds

\* Values move between slots and calls, and are never in two of them.
LEMMA ValuesStayApart ==
    ASSUME TypeOK, CallsInOrder, ArgumentsStay, SlotsKept, ValuesApart, [Next]_vars
    PROVE  ValuesApart'
<1> USE HandleAssumption
<1>1. CASE UNCHANGED <<handle, stack>>
  BY <1>1, KeptUses DEF ValuesApart
<1>2. ASSUME NEW t \in Threads, NEW h \in Handles, NEW v \in Values, Makes(t, h, v)
      PROVE  ValuesApart'
  <2>1. \A g \in Handles : g # h => handle'[g].slot = handle[g].slot
    BY <1>2 DEF Makes, TypeOK
  <2>2. handle'[h].slot = v
    BY <1>2, NewHandleType DEF Makes, TypeOK
  <2>3. /\ \A g \in Handles : handle[g].slot # v
        /\ \A p \in Frames : v \notin Frame(p).owned
    BY <1>2 DEF Makes, Fresh
  <2>4. Frames' = Frames /\ \A p \in Frames : Frame(p)' = Frame(p)
    BY <1>2, KeptUses DEF Makes
  <2>5. QED
    BY <2>1, <2>2, <2>3, <2>4 DEF ValuesApart
<1>3. ASSUME NEW t \in Threads, NEW how \in Outcomes, Leaves(t, how)
      PROVE  ValuesApart'
  <2>1. Popped(t) /\ stack[t] # <<>> /\ handle' = Left(t, how)
    BY <1>3 DEF Leaves, Popped
  <2>2. \A h \in Handles : handle'[h].slot = handle[h].slot
    BY <2>1, LeftType
  <2>3. PICK p : p = <<t, Len(stack[t])>>
    OBVIOUS
  <2>4. Frames' = Frames \ {p} /\ \A q \in Frames' : Frame(q)' = Frame(q)
    BY <2>1, <2>3, PoppedUses
  <2>5. QED
    BY <2>2, <2>4 DEF ValuesApart
<1>4. ASSUME NEW t \in Threads, NEW r \in Handles, NEW v \in Values, Gives(t, r, v)
      PROVE  ValuesApart'
  <2>1. Popped(t) /\ stack[t] # <<>> /\ (v \in Top(t).owned \/ Fresh(v))
        /\ handle' = [Left(t, "ok") EXCEPT ![r] = NewHandle("owned", t, v)]
    BY <1>4 DEF Gives, Popped
  <2>2. \A h \in Handles : h # r => handle'[h].slot = handle[h].slot
    BY <2>1, LeftType
  <2>3. handle'[r].slot = v
    BY <2>1, NewHandleType, LeftType
  <2>4. PICK p : p = <<t, Len(stack[t])>>
    OBVIOUS
  <2>5. /\ p \in Frames /\ Frame(p) = Top(t)
        /\ Frames' = Frames \ {p} /\ \A q \in Frames' : Frame(q)' = Frame(q)
    BY <2>1, <2>4, PoppedUses
  <2>6. /\ \A h \in Handles : handle[h].slot # v
        /\ \A q \in Frames' : v \notin Frame(q).owned
    BY <2>1, <2>5 DEF Fresh, ValuesApart
  <2>7. QED
    BY <2>2, <2>3, <2>5, <2>6 DEF ValuesApart
<1>5. ASSUME NEW h \in Handles, NEW s \in Handles, Freezes(h, s)
      PROVE  ValuesApart'
  <2>1. h # s /\ \A g \in Handles : g # h /\ g # s => handle'[g] = handle[g]
    BY <1>5 DEF Freezes, Frozen, TypeOK
  <2>2. handle'[h].slot = Nothing /\ handle'[s].slot = handle[h].slot
    BY <1>5 DEF Freezes, Frozen, TypeOK, HandleType, NewHandle, NoHandle
  <2>3. Frames' = Frames /\ \A p \in Frames : Frame(p)' = Frame(p)
    BY <1>5, KeptUses DEF Freezes
  <2>4. \A p \in Frames : Nothing \notin Frame(p).owned
    BY FramesTyped DEF FrameType
  <2>5. QED
    BY <2>1, <2>2, <2>3, <2>4 DEF ValuesApart
<1>6. ASSUME NEW h \in Handles, Drops(h)
      PROVE  ValuesApart'
  <2>1. \A g \in Handles : g # h => handle'[g] = handle[g]
    BY <1>6 DEF Drops, TypeOK
  <2>2. handle'[h].slot = Nothing
    BY <1>6 DEF Drops, TypeOK, NoHandle
  <2>3. Frames' = Frames /\ \A p \in Frames : Frame(p)' = Frame(p)
    BY <1>6, KeptUses DEF Drops
  <2>4. \A p \in Frames : Nothing \notin Frame(p).owned
    BY FramesTyped DEF FrameType
  <2>5. QED
    BY <2>1, <2>2, <2>3, <2>4 DEF ValuesApart
<1>7. ASSUME NEW t \in Threads, NEW fn \in Functions, NEW args \in [DOMAIN fn.params -> Handles],
             Enters(t, fn, args)
      PROVE  ValuesApart'
  <2>1. PICK p : p = <<t, Len(stack[t]) + 1>>
    OBVIOUS
  <2>2. /\ Frames' = Frames \cup {p} /\ Frame(p)' = NewFrame(fn, args)
        /\ \A q \in Frames : Frame(q)' = Frame(q)
    BY <1>7, <2>1, EnteredUses
  <2>3. Frame(p)'.owned = {}
    BY <2>2 DEF NewFrame
  <2>4. \A h \in Handles : handle'[h].slot = handle[h].slot
    BY <1>7 DEF Enters, TypeOK, HandleType
  <2>5. QED
    BY <2>2, <2>3, <2>4 DEF ValuesApart
<1>8. ASSUME NEW t \in Threads, Takes(t) \/ Lends(t)
      PROVE  ValuesApart'
  <2>1. PICK p : p = <<t, Len(stack[t])>>
    OBVIOUS
  <2>2. PICK next : next = <<p, Frame(p).got + 1>>
    OBVIOUS
  <2>3. p \in Frames /\ Frames' = Frames /\ \A q \in Frames : q # p => Frame(q)' = Frame(q)
    BY <1>8, <2>1, WrappedUses DEF Wraps
  <2>4. CASE UNCHANGED handle /\ Frame(p)'.owned = Frame(p).owned
    BY <2>3, <2>4 DEF ValuesApart
  <2>5. CASE /\ handle' = [handle EXCEPT ![Arg(next)].slot = Nothing]
             /\ Frame(p)'.owned = Frame(p).owned \cup {handle[Arg(next)].slot}
    <3>1. Arg(next) \in Handles /\ handle[Arg(next)].slot # Nothing
      BY <1>8, <2>1, <2>2, NextArgument
    <3>2. /\ handle'[Arg(next)].slot = Nothing
          /\ \A h \in Handles : h # Arg(next) => handle'[h].slot = handle[h].slot
      BY <2>5, <3>1 DEF TypeOK, HandleType
    <3>3. \A q \in Frames : Nothing \notin Frame(q).owned
      BY FramesTyped DEF FrameType
    <3>4. QED
      BY <2>3, <2>5, <3>1, <3>2, <3>3 DEF ValuesApart
  <2>6. QED
    BY SMTT(40), <1>8, <2>1, <2>2, <2>4, <2>5, NextArgument
<1>9. ASSUME NEW t \in Threads, Guards(t) \/ Passes(t) \/ Runs(t)
      PROVE  ValuesApart'
  <2>1. PICK p : p = <<t, Len(stack[t])>>
    OBVIOUS
  <2>2. Frames' = Frames /\ \A q \in Frames : q # p => Frame(q)' = Frame(q)
    BY <1>9, <2>1, WrappedUses DEF Wraps
  <2>3. UNCHANGED handle /\ Frame(p)'.owned = Frame(p).owned
    BY <1>9, <2>1, NoArgument
  <2>4. QED
    BY <2>2, <2>3 DEF ValuesApart
<1>10. QED
  BY <1>1, <1>2, <1>3, <1>4, <1>5, <1>6, <1>7, <1>8, <1>9, StepKinds

-----------------------------------------------------------------------------
(* The invariant, and what follows from it.                                *)

\* The first state.
LEMMA InitHandlesInv == Init => HandlesInv
<1> SUFFICES ASSUME Init PROVE HandlesInv
  OBVIOUS
<1>1. Frames = {}
  BY DEF Init, Frames
<1>2. Uses = {}
  BY <1>1 DEF Uses
<1>3. TypeOK
  BY NewHandleType DEF Init, TypeOK, NoHandle, Outcomes
<1>4. \A h \in Handles : handle[h].kind = "none" /\ handle[h].slot = Nothing
  BY DEF Init, NoHandle
<1>5. QED
  BY <1>1, <1>2, <1>3, <1>4
  DEF HandlesInv, CallsInOrder, ArgumentsStay, GuardsExclude, SlotsKept, ValuesApart

\* Whatever Python code does inside of calls, the guards of a call protect its
\* arguments until it has them.
THEOREM HandlesInvariant == Spec => []HandlesInv
<1>1. HandlesInv /\ [Next]_vars => HandlesInv'
  BY HandlesStayTyped, CallsStayTyped, OutcomesStayTyped, CallsInOrderKept, ArgumentsKept,
     GuardsExcludeKept, SlotsStayKept, ValuesStayApart
  DEF HandlesInv, TypeOK, HandlesOK
<1>2. QED
  BY InitHandlesInv, <1>1, PTL DEF Spec

\* A refusal has taken nothing: the preflight's guards keep every slot full
\* until its own extraction, so that an extraction never fails half way.
THEOREM RefusalsTakeNothing == Spec => RefusedCallTakesNothing
<1>1. ASSUME HandlesInv, [Next]_vars, NEW t \in Threads,
             Len(stack'[t]) < Len(stack[t]), Top(t).phase # "run"
      PROVE  Top(t).owned = {}
  <2> USE DEF HandlesInv
  <2>1. stack \in [Threads -> Seq(FrameType)] /\ \A s \in Threads : Len(stack[s]) \in Nat
    BY <1>1 DEF TypeOK
  <2>2. ASSUME NEW s \in Threads, NEW f, Changed(s, f)
        PROVE  Len(stack'[t]) = Len(stack[t])
    BY <2>1, <2>2 DEF Changed
  <2>3. ASSUME NEW s \in Threads, Wraps(s)
        PROVE  Len(stack'[t]) = Len(stack[t])
    BY <2>2, <2>3 DEF Wraps, Guards, Passes, Takes, Lends, Runs
  <2>4. ASSUME NEW s \in Threads, NEW f, Pushed(s, f)
        PROVE  ~(Len(stack'[t]) < Len(stack[t]))
    BY <2>1, <2>4 DEF Pushed
  <2>5. ASSUME NEW s \in Threads, s # t, Popped(s)
        PROVE  Len(stack'[t]) = Len(stack[t])
    BY <2>1, <2>5 DEF Popped
  <2>6. ASSUME NEW how \in Outcomes, Leaves(t, how)
        PROVE  Top(t).owned = {}
    <3>1. PICK p : p = <<t, Len(stack[t])>>
      OBVIOUS
    <3>2. p \in Frames /\ Frame(p) = Top(t) /\ Frame(p) \in FrameType
      BY <1>1, <2>6, <3>1, PoppedUses DEF Leaves
    <3>3. CASE Top(t).phase = "extract"
      <4> DEFINE i == Top(t).got + 1
      <4>1. i <= Len(Top(t).args) /\ handle[Top(t).args[i]].slot = Nothing
        BY <2>6, <3>3 DEF Leaves
      <4>2. i \in Params(Frame(p))
        <5>1. Frame(p).args \in Seq(Handles) /\ Frame(p).got \in Nat
          BY <3>2 DEF FrameType
        <5>2. QED
          BY <3>2, <4>1, <5>1 DEF Params
      <4>3. <<p, i>> \in Uses
        BY <3>2, <4>2, UseIs
      <4>4. ~Extracted(<<p, i>>)
        BY <3>2 DEF Extracted, FrameType
      <4>5. Frame(p).guarded
        BY <1>1, <3>2, <3>3 DEF CallsInOrder, InOrder
      <4>6. handle[Arg(<<p, i>>)].slot # Nothing
        BY <1>1, <4>3, <4>4, <4>5 DEF SlotsKept
      <4>7. QED
        BY <3>2, <4>1, <4>6 DEF Arg
    <3>4. CASE Top(t).phase \in {"acquire", "buffers"}
      BY <1>1, <3>2, <3>4 DEF CallsInOrder, InOrder
    <3>5. QED
      BY <1>1, <3>2, <3>3, <3>4 DEF FrameType
  <2>7. CASE UNCHANGED stack
    BY <1>1, <2>1, <2>7
  <2>8. QED
    BY <1>1, <2>3, <2>4, <2>5, <2>6, <2>7, StepKinds
    DEF Makes, Gives, Freezes, Drops, Enters, Leaves, Wraps
<1>2. HandlesInv /\ [Next]_vars =>
        [\A t \in Threads : Len(stack'[t]) < Len(stack[t]) /\ Top(t).phase # "run"
            => Top(t).owned = {}]_vars
  BY <1>1
<1>3. QED
  BY HandlesInvariant, <1>2, PTL DEF Spec, RefusedCallTakesNothing

\* An empty handle keeps knowing where its value went.
LEMMA MovedHasSiteKept ==
    ASSUME HandlesInv, MovedHasSite, [Next]_vars
    PROVE  MovedHasSite'
<1> USE HandleAssumption DEF HandlesInv
<1> DEFINE InCall(h) == \E u \in Uses : Extracted(u) /\ Arg(u) = h /\ Own(u) = "Owned"
<1>1. CASE UNCHANGED <<handle, stack>>
  BY <1>1, KeptUses DEF MovedHasSite
<1>2. ASSUME NEW t \in Threads, NEW h \in Handles, NEW v \in Values, Makes(t, h, v)
      PROVE  MovedHasSite'
  <2>1. \A g \in Handles : g # h => handle'[g] = handle[g]
    BY <1>2 DEF Makes, TypeOK
  <2>2. handle'[h].slot # Nothing
    BY <1>2, NewHandleType DEF Makes, TypeOK
  <2>3. QED
    BY <1>2, <2>1, <2>2, KeptUses DEF Makes, MovedHasSite
<1>3. ASSUME NEW h \in Handles, NEW s \in Handles, Freezes(h, s)
      PROVE  MovedHasSite'
  <2>1. h # s /\ \A g \in Handles : g # h /\ g # s => handle'[g] = handle[g]
    BY <1>3 DEF Freezes, Frozen, TypeOK
  <2>2. handle'[h].site = TRUE /\ handle'[s].kind = "shared"
    BY <1>3 DEF Freezes, Frozen, TypeOK, HandleType, NewHandle, NoHandle
  <2>3. QED
    BY <1>3, <2>1, <2>2, KeptUses DEF Freezes, MovedHasSite
<1>4. ASSUME NEW h \in Handles, Drops(h)
      PROVE  MovedHasSite'
  <2>1. \A g \in Handles : g # h => handle'[g] = handle[g]
    BY <1>4 DEF Drops, TypeOK
  <2>2. handle'[h].kind = "none"
    BY <1>4 DEF Drops, TypeOK, NoHandle
  <2>3. QED
    BY <1>4, <2>1, <2>2, KeptUses DEF Drops, MovedHasSite
<1>5. ASSUME NEW t \in Threads, NEW fn \in Functions, NEW args \in [DOMAIN fn.params -> Handles],
             Enters(t, fn, args)
      PROVE  MovedHasSite'
  <2>1. PICK p : p = <<t, Len(stack[t]) + 1>>
    OBVIOUS
  <2>2. /\ Uses' = Uses \cup ({p} \X DOMAIN args)
        /\ \A u \in Uses : /\ Arg(u)' = Arg(u) /\ Own(u)' = Own(u)
                           /\ Extracted(u)' <=> Extracted(u)
    BY <1>5, <2>1, EnteredUses
  <2>3. \A h \in Handles : /\ handle'[h].kind = handle[h].kind
                           /\ handle'[h].slot = handle[h].slot /\ handle'[h].site = handle[h].site
    BY <1>5 DEF Enters, TypeOK, HandleType
  <2>4. QED
    BY <2>2, <2>3 DEF MovedHasSite
<1>6. ASSUME NEW t \in Threads, Wraps(t)
      PROVE  MovedHasSite'
  <2>1. PICK p : p = <<t, Len(stack[t])>>
    OBVIOUS
  <2>2. Uses' = Uses /\ \A u \in Uses : Arg(u)' = Arg(u) /\ Own(u)' = Own(u)
    BY <1>6, <2>1, WrappedUses
  <2>3. CASE Guards(t) \/ Passes(t) \/ Runs(t)
    BY <2>1, <2>2, <2>3, NoArgument DEF MovedHasSite
  <2>4. CASE Takes(t) \/ Lends(t)
    <3>1. PICK next : next = <<p, Frame(p).got + 1>>
      OBVIOUS
    <3>2. /\ next \in Uses /\ Arg(next) \in Handles
          /\ \A u \in Uses : Extracted(u)' <=> Extracted(u) \/ u = next
          /\ \/ UNCHANGED handle
             \/ Own(next) = "Owned" /\ handle' = [handle EXCEPT ![Arg(next)].slot = Nothing]
      BY <2>1, <2>4, <3>1, NextArgument
    <3>3. CASE UNCHANGED handle
      BY <2>2, <3>2, <3>3 DEF MovedHasSite
    <3>4. CASE Own(next) = "Owned" /\ handle' = [handle EXCEPT ![Arg(next)].slot = Nothing]
      <4>1. \A h \in Handles : h # Arg(next) => handle'[h] = handle[h]
        BY <3>4 DEF TypeOK
      <4>2. next \in Uses' /\ Extracted(next)' /\ Arg(next)' = Arg(next) /\ Own(next)' = "Owned"
        BY <2>2, <3>2, <3>4
      <4>3. QED
        BY <2>2, <3>2, <4>1, <4>2 DEF MovedHasSite
    <3>5. QED
      BY <3>2, <3>3, <3>4
  <2>5. QED
    BY <1>6, <2>3, <2>4 DEF Wraps
<1>7. ASSUME NEW t \in Threads, NEW how, Popped(t), NEW h \in Handles,
             handle[h].kind = "owned", handle[h].slot = Nothing,
             handle'[h].site = (handle[h].site \/ MoveRecorded(Top(t), h, how))
      PROVE  handle'[h].site \/ InCall(h)'
  <2>1. PICK p : p = <<t, Len(stack[t])>>
    OBVIOUS
  <2>2. /\ p \in Frames /\ Frame(p) = Top(t)
        /\ Uses' = {u \in Uses : u[1] # p}
        /\ \A u \in Uses' : /\ Arg(u)' = Arg(u) /\ Own(u)' = Own(u)
                            /\ Extracted(u)' <=> Extracted(u)
    BY <1>7, <2>1, PoppedUses
  <2>3. CASE handle[h].site
    BY <1>7, <2>3
  <2>4. ASSUME NEW u \in Uses, Extracted(u), Arg(u) = h, Own(u) = "Owned"
        PROVE  handle'[h].site \/ InCall(h)'
    <3>1. CASE u[1] = p
      <4>1. u[2] \in Params(Top(t)) /\ Top(t).args[u[2]] = h /\ Top(t).fn.params[u[2]] = "Owned"
        BY <2>2, <2>4, <3>1, FramesTyped DEF Arg, Own
      <4>2. MoveRecorded(Top(t), h, how)
        BY <1>7, <4>1 DEF MoveRecorded
      <4>3. QED
        BY <1>7, <4>2
    <3>2. CASE u[1] # p
      BY <2>2, <2>4, <3>2
    <3>3. QED
      BY <3>1, <3>2
  <2>5. QED
    BY <1>7, <2>3, <2>4 DEF MovedHasSite
<1>8. ASSUME NEW t \in Threads, NEW how \in Outcomes, Leaves(t, how)
      PROVE  MovedHasSite'
  <2>1. Popped(t) /\ stack[t] # <<>> /\ handle' = Left(t, how)
    BY <1>8 DEF Leaves, Popped
  <2>2. \A h \in Handles : /\ handle'[h].kind = handle[h].kind /\ handle'[h].slot = handle[h].slot
                           /\ handle'[h].site = (handle[h].site \/ MoveRecorded(Top(t), h, how))
    BY <2>1, LeftType
  <2>3. ASSUME NEW h \in Handles, handle'[h].kind = "owned", handle'[h].slot = Nothing
        PROVE  handle'[h].site \/ InCall(h)'
    BY <2>1, <2>2, <2>3, <1>7
  <2>4. QED
    BY <2>3 DEF MovedHasSite
<1>9. ASSUME NEW t \in Threads, NEW r \in Handles, NEW v \in Values, Gives(t, r, v)
      PROVE  MovedHasSite'
  <2>1. /\ Popped(t) /\ stack[t] # <<>>
        /\ handle' = [Left(t, "ok") EXCEPT ![r] = NewHandle("owned", t, v)]
    BY <1>9 DEF Gives, Popped
  <2>2. \A h \in Handles : h # r =>
            /\ handle'[h].kind = handle[h].kind /\ handle'[h].slot = handle[h].slot
            /\ handle'[h].site = (handle[h].site \/ MoveRecorded(Top(t), h, "ok"))
    BY <2>1, LeftType
  <2>3. handle'[r].slot # Nothing
    BY <2>1, NewHandleType, LeftType
  <2>4. ASSUME NEW h \in Handles, handle'[h].kind = "owned", handle'[h].slot = Nothing
        PROVE  handle'[h].site \/ InCall(h)'
    BY <2>1, <2>2, <2>3, <2>4, <1>7
  <2>5. QED
    BY <2>4 DEF MovedHasSite
<1>10. QED
  BY <1>1, <1>2, <1>3, <1>4, <1>5, <1>6, <1>8, <1>9, StepKinds DEF Wraps

\* Every empty handle knows where its value went, also when the call that took
\* it fails or panics.
THEOREM MovesAreRecorded == Spec => []MovedHasSite
<1>1. Init => MovedHasSite
  BY DEF Init, MovedHasSite, NoHandle
<1>2. QED
  BY HandlesInvariant, <1>1, MovedHasSiteKept, PTL DEF Spec

-----------------------------------------------------------------------------
(* The borrow contexts.                                                    *)

\* A set with every element paired with p has as many elements.
LEMMA PairedWith ==
    ASSUME NEW p, NEW S, IsFiniteSet(S)
    PROVE  IsFiniteSet({p} \X S) /\ Cardinality({p} \X S) = Cardinality(S)
<1>1. IsFiniteSet({p}) /\ Cardinality({p}) = 1
  BY FS_Singleton
<1>2. IsFiniteSet({p} \X S) /\ Cardinality({p} \X S) = 1 * Cardinality(S)
  BY <1>1, FS_Product
<1>3. Cardinality(S) \in Nat
  BY FS_CardinalityType
<1>4. QED
  BY <1>2, <1>3

\* Two sets without a common element.
LEMMA DisjointUnion ==
    ASSUME NEW S, NEW T, IsFiniteSet(S), IsFiniteSet(T), S \cap T = {}
    PROVE  Cardinality(S \cup T) = Cardinality(S) + Cardinality(T)
<1>1. Cardinality(S \cup T) = Cardinality(S) + Cardinality(T) - Cardinality({})
  BY FS_Union
<1>2. Cardinality({}) = 0 /\ Cardinality(S) \in Nat /\ Cardinality(T) \in Nat
  BY FS_EmptySet, FS_CardinalityType
<1>3. QED
  BY <1>1, <1>2

\* The contexts and borrows of every handle stay as they are, but for new and
\* dropped handles.
LEMMA ContextsRest ==
    ASSUME HandlesInv, ContextsInv,
           Frames' = Frames, Uses' = Uses,
           \A u \in Uses : Arg(u)' = Arg(u) /\ Own(u)' = Own(u),
           \A q \in Frames : Frame(q)'.prior = Frame(q).prior,
           \A h \in Handles :
              \/ handle'[h].contexts = handle[h].contexts
              \/ /\ handle'[h].contexts = [own \in {"Ref", "Mut"} |-> 0]
                 /\ \A u \in Uses : Arg(u) # h
    PROVE  ContextsInv'
<1>1. \A h, own : BorrowsOf(h, own)' = BorrowsOf(h, own)
  BY DEF BorrowsOf
<1>2. ASSUME NEW h \in Handles, NEW own \in {"Ref", "Mut"}
      PROVE  handle'[h].contexts[own] = Cardinality(BorrowsOf(h, own))
  <2>1. CASE handle'[h].contexts = handle[h].contexts
    BY <2>1 DEF ContextsInv, ContextsAreBorrows
  <2>2. CASE /\ handle'[h].contexts = [kind \in {"Ref", "Mut"} |-> 0]
             /\ \A u \in Uses : Arg(u) # h
    <3>1. BorrowsOf(h, own) = {}
      BY <2>2 DEF BorrowsOf
    <3>2. QED
      BY <2>2, <3>1, FS_EmptySet
  <2>3. QED
    BY <2>1, <2>2
<1>3. ContextsAreBorrows'
  BY <1>1, <1>2 DEF ContextsAreBorrows
<1>4. \A h, own, q : BorrowsBelow(h, own, q)' = BorrowsBelow(h, own, q)
  BY <1>1 DEF BorrowsBelow
<1>5. PriorsAreBorrows'
  BY <1>4 DEF ContextsInv, PriorsAreBorrows
<1>6. QED
  BY <1>3, <1>5 DEF ContextsInv

\* A call that begins adds its contexts to those of the calls below it.
LEMMA ContextsPushed ==
    ASSUME HandlesInv, ContextsInv, NEW t \in Threads, NEW fn \in Functions,
           NEW args \in [DOMAIN fn.params -> Handles], Enters(t, fn, args)
    PROVE  ContextsInv'
<1> DEFINE Mine(h, own) == {i \in DOMAIN args : args[i] = h /\ fn.params[i] = own}
<1> USE DEF HandlesInv
<1>1. PICK p : p = <<t, Len(stack[t]) + 1>>
  OBVIOUS
<1>2. /\ p \notin Frames /\ Frames' = Frames \cup {p}
      /\ Frame(p)' = NewFrame(fn, args)
      /\ \A q \in Frames : Frame(q)' = Frame(q) /\ (q[1] = t => q[2] < p[2])
      /\ Uses' = Uses \cup ({p} \X DOMAIN args)
      /\ \A u \in Uses : u[1] \in Frames /\ Arg(u)' = Arg(u) /\ Own(u)' = Own(u)
      /\ \A i \in DOMAIN args : Arg(<<p, i>>)' = args[i] /\ Own(<<p, i>>)' = fn.params[i]
      /\ DOMAIN args = 1 .. Len(fn.params) /\ Len(fn.params) \in Nat
  BY <1>1, EnteredUses
<1>3. IsFiniteSet(DOMAIN args)
  <2>1. IsFiniteSet(1 .. Len(fn.params))
    BY <1>2, FS_Interval
  <2>2. QED
    BY <1>2, <2>1
<1>4. IsFiniteSet(Uses')
  BY <1>2, <1>3, PairedWith, FS_Union DEF ContextsInv
<1>5. ASSUME NEW h \in Handles, NEW own
      PROVE  /\ BorrowsOf(h, own)' = BorrowsOf(h, own) \cup ({p} \X Mine(h, own))
             /\ IsFiniteSet(BorrowsOf(h, own)) /\ IsFiniteSet(Mine(h, own))
             /\ \A u \in BorrowsOf(h, own) : u[1] # p
  <2>1. BorrowsOf(h, own)' = {u \in Uses' : Arg(u)' = h /\ Own(u)' = own}
    BY DEF BorrowsOf
  <2>2. \A u : u \in BorrowsOf(h, own)' <=> u \in BorrowsOf(h, own) \/ u \in {p} \X Mine(h, own)
    BY <1>2, <2>1 DEF BorrowsOf
  <2>3. IsFiniteSet(BorrowsOf(h, own)) /\ IsFiniteSet(Mine(h, own))
    BY <1>3, FS_Subset DEF BorrowsOf, ContextsInv
  <2>4. \A u \in BorrowsOf(h, own) : u[1] # p
    BY <1>2 DEF BorrowsOf
  <2>5. QED
    BY <2>2, <2>3, <2>4
<1>6. ASSUME NEW h \in Handles, NEW own \in {"Ref", "Mut"}
      PROVE  handle'[h].contexts[own] = Cardinality(BorrowsOf(h, own)')
  <2>1. handle'[h].contexts = PushedContexts(fn, args, h)
    BY DEF Enters, TypeOK, HandleType
  <2>2. handle'[h].contexts[own] = handle[h].contexts[own] + Cardinality(Mine(h, own))
    BY <2>1 DEF PushedContexts
  <2>3. handle[h].contexts[own] = Cardinality(BorrowsOf(h, own))
    BY DEF ContextsInv, ContextsAreBorrows
  <2>4. /\ IsFiniteSet({p} \X Mine(h, own))
        /\ Cardinality({p} \X Mine(h, own)) = Cardinality(Mine(h, own))
    <3>1. IsFiniteSet(Mine(h, own))
      BY <1>5
    <3> HIDE DEF Mine
    <3>2. QED
      BY <3>1, PairedWith
  <2>5. BorrowsOf(h, own) \cap ({p} \X Mine(h, own)) = {}
    BY <1>5
  <2>6. Cardinality(BorrowsOf(h, own) \cup ({p} \X Mine(h, own)))
          = Cardinality(BorrowsOf(h, own)) + Cardinality({p} \X Mine(h, own))
    BY <1>5, <2>4, <2>5, DisjointUnion
  <2>7. QED
    BY <1>5, <2>2, <2>3, <2>4, <2>6
<1>7. ContextsAreBorrows'
  BY <1>6 DEF ContextsAreBorrows
<1>8. ASSUME NEW h \in Handles, NEW own \in {"Ref", "Mut"}, NEW u \in BorrowsOf(h, own)
      PROVE  handle[h].home = u[1][1] /\ u[1] \in Frames
  BY <1>2 DEF BorrowsOf, ArgumentsStay
<1>9. ASSUME NEW q \in Frames', NEW h \in Handles, NEW own \in {"Ref", "Mut"},
             NEW w \in Uses', w[1] = q, Arg(w)' = h, Own(w)' \in {"Ref", "Mut"}
      PROVE  Frame(q)'.prior[h][own] = Cardinality(BorrowsBelow(h, own, q)')
  <2>1. CASE q = p
    <3>1. w \in {p} \X DOMAIN args
      BY <1>2, <1>9, <2>1
    <3>2. handle[h].home = t
      BY <1>2, <1>9, <3>1 DEF Enters, Admitted
    <3>3. \A u \in BorrowsOf(h, own) : u[1][2] < p[2]
      BY <1>2, <1>8, <3>2
    <3>4. p[2] \in Nat
      BY <1>1 DEF TypeOK
    <3> HIDE DEF Mine
    <3>5. BorrowsBelow(h, own, q)' = BorrowsOf(h, own)
      <4>1. BorrowsBelow(h, own, q)' = {u \in BorrowsOf(h, own)' : u[1][2] < q[2]}
        BY DEF BorrowsBelow
      <4>2. \A u \in {p} \X Mine(h, own) : ~(u[1][2] < q[2])
        BY <2>1, <3>4
      <4>3. QED
        BY <1>5, <2>1, <3>3, <4>1, <4>2
    <3>6. Frame(q)'.prior[h] = handle[h].contexts
      BY <1>2, <2>1 DEF NewFrame
    <3>7. QED
      BY <3>5, <3>6 DEF ContextsInv, ContextsAreBorrows
  <2>2. CASE q # p
    <3>1. q \in Frames /\ w \in Uses /\ Arg(w) = h /\ Own(w) \in {"Ref", "Mut"}
      BY <1>2, <1>9, <2>2
    <3>2. handle[h].home = q[1]
      BY <1>9, <3>1 DEF ArgumentsStay
    <3>3. q[2] \in Nat /\ p[2] \in Nat
      BY <1>1, <3>1, FramesTyped DEF TypeOK
    <3>4. ASSUME NEW u \in {p} \X Mine(h, own) PROVE ~(u[1][2] < q[2])
      <4>1. handle[h].home = t
        BY <3>4 DEF Enters, Admitted
      <4>2. q[2] < p[2]
        BY <1>2, <3>1, <3>2, <4>1
      <4>3. QED
        BY <3>3, <3>4, <4>2
    <3> HIDE DEF Mine
    <3>5. BorrowsBelow(h, own, q)' = BorrowsBelow(h, own, q)
      <4>1. BorrowsBelow(h, own, q)' = {u \in BorrowsOf(h, own)' : u[1][2] < q[2]}
        BY DEF BorrowsBelow
      <4>2. QED
        BY <1>5, <3>4, <4>1 DEF BorrowsBelow
    <3>6. QED
      BY <1>2, <1>9, <3>1, <3>5 DEF ContextsInv, PriorsAreBorrows
  <2>3. QED
    BY <2>1, <2>2
<1>10. PriorsAreBorrows'
  BY <1>9 DEF PriorsAreBorrows
<1>11. QED
  BY <1>4, <1>7, <1>10 DEF ContextsInv

\* A call that ends leaves the contexts of those below it.
LEMMA ContextsPopped ==
    ASSUME HandlesInv, ContextsInv, NEW t \in Threads, Popped(t),
           \A h \in Handles :
              \/ handle'[h].contexts = RestoredContexts(Top(t), h)
              \/ /\ handle'[h].contexts = [own \in {"Ref", "Mut"} |-> 0]
                 /\ \A u \in Uses : Arg(u) # h
    PROVE  ContextsInv'
<1> USE DEF HandlesInv
<1>1. PICK p : p = <<t, Len(stack[t])>>
  OBVIOUS
<1>2. /\ p \in Frames /\ Frame(p) = Top(t)
      /\ Frames' = Frames \ {p}
      /\ \A q \in Frames' : Frame(q)' = Frame(q) /\ (q[1] = t => q[2] < p[2])
      /\ Uses' = {u \in Uses : u[1] # p}
      /\ \A u \in Uses' : u \in Uses /\ u[1] \in Frames' /\ Arg(u)' = Arg(u) /\ Own(u)' = Own(u)
  BY <1>1, PoppedUses
<1>3. IsFiniteSet(Uses')
  BY <1>2, FS_Subset DEF ContextsInv
<1>4. ASSUME NEW h, NEW own
      PROVE  BorrowsOf(h, own)' = {u \in BorrowsOf(h, own) : u[1] # p}
  BY <1>2 DEF BorrowsOf
<1>5. ASSUME NEW h \in Handles, NEW own \in {"Ref", "Mut"}
      PROVE  handle'[h].contexts[own] = Cardinality(BorrowsOf(h, own)')
  <2> DEFINE Borrowed == \E i \in Params(Top(t)) :
                            Top(t).args[i] = h /\ Top(t).fn.params[i] \in {"Ref", "Mut"}
  <2>1. CASE /\ handle'[h].contexts = [kind \in {"Ref", "Mut"} |-> 0]
             /\ \A u \in Uses : Arg(u) # h
    <3>1. BorrowsOf(h, own)' = {}
      BY <1>4, <2>1 DEF BorrowsOf
    <3>2. QED
      BY <2>1, <3>1, FS_EmptySet
  <2>2. CASE handle'[h].contexts = RestoredContexts(Top(t), h) /\ ~Borrowed
    <3>1. handle'[h].contexts = handle[h].contexts
      BY <2>2 DEF RestoredContexts
    <3>2. ASSUME NEW u \in BorrowsOf(h, own) PROVE u[1] # p
      <4>1. u \in Uses /\ u[2] \in Params(Frame(u[1])) /\ Arg(u) = h /\ Own(u) = own
        BY FramesTyped DEF BorrowsOf
      <4>2. QED
        BY <1>2, <2>2, <4>1 DEF Arg, Own
    <3>3. BorrowsOf(h, own)' = BorrowsOf(h, own)
      BY <1>4, <3>2
    <3>4. QED
      BY <3>1, <3>3 DEF ContextsInv, ContextsAreBorrows
  <2>3. CASE handle'[h].contexts = RestoredContexts(Top(t), h) /\ Borrowed
    <3>1. handle'[h].contexts = Frame(p).prior[h]
      BY <1>2, <2>3 DEF RestoredContexts
    <3>2. PICK i \in Params(Top(t)) : Top(t).args[i] = h /\ Top(t).fn.params[i] \in {"Ref", "Mut"}
      BY <2>3
    <3>3. <<p, i>> \in Uses /\ Arg(<<p, i>>) = h /\ Own(<<p, i>>) \in {"Ref", "Mut"}
      BY <1>2, <3>2, UseIs DEF Arg, Own
    <3>4. Frame(p).prior[h][own] = Cardinality(BorrowsBelow(h, own, p))
      BY <1>2, <3>3 DEF ContextsInv, PriorsAreBorrows
    <3>5. handle[h].home = t
      BY <1>1, <3>3 DEF ArgumentsStay
    <3>6. p[2] \in Nat
      BY <1>2, FramesTyped
    <3>7. ASSUME NEW u \in BorrowsOf(h, own) PROVE u[1] # p <=> u[1][2] < p[2]
      <4>1. u[1] \in Frames /\ u[1][1] = t
        BY <3>5, FramesTyped DEF BorrowsOf, ArgumentsStay
      <4>2. QED
        BY <1>2, <3>6, <4>1
    <3>8. BorrowsOf(h, own)' = BorrowsBelow(h, own, p)
      BY <1>4, <3>7 DEF BorrowsBelow
    <3>9. QED
      BY <3>1, <3>4, <3>8
  <2>4. QED
    BY <2>1, <2>2, <2>3
<1>6. ContextsAreBorrows'
  BY <1>5 DEF ContextsAreBorrows
<1>7. ASSUME NEW q \in Frames', NEW h \in Handles, NEW own \in {"Ref", "Mut"},
             NEW w \in Uses', w[1] = q, Arg(w)' = h, Own(w)' \in {"Ref", "Mut"}
      PROVE  Frame(q)'.prior[h][own] = Cardinality(BorrowsBelow(h, own, q)')
  <2>1. q \in Frames /\ w \in Uses /\ Arg(w) = h /\ Own(w) \in {"Ref", "Mut"}
    BY <1>2, <1>7
  <2>2. handle[h].home = q[1]
    BY <1>7, <2>1 DEF ArgumentsStay
  <2>3. q[2] \in Nat /\ p[2] \in Nat
    BY <1>2, <2>1, FramesTyped
  <2>4. ASSUME NEW u \in BorrowsOf(h, own), u[1] = p PROVE ~(u[1][2] < q[2])
    <3>1. q[1] = t
      BY <1>1, <2>2, <2>4 DEF BorrowsOf, ArgumentsStay
    <3>2. QED
      BY <1>2, <1>7, <2>3, <2>4, <3>1
  <2>5. BorrowsBelow(h, own, q)' = BorrowsBelow(h, own, q)
    BY <1>4, <2>4 DEF BorrowsBelow
  <2>6. QED
    BY <1>2, <1>7, <2>1, <2>5 DEF ContextsInv, PriorsAreBorrows
<1>8. PriorsAreBorrows'
  BY <1>7 DEF PriorsAreBorrows
<1>9. QED
  BY <1>3, <1>6, <1>8 DEF ContextsInv

\* No step loses a context or leaves one behind.
LEMMA ContextsKept ==
    ASSUME HandlesInv, ContextsInv, [Next]_vars
    PROVE  ContextsInv'
<1> USE DEF HandlesInv
<1> DEFINE Unused(h) == /\ handle'[h].contexts = [own \in {"Ref", "Mut"} |-> 0]
                        /\ \A u \in Uses : Arg(u) # h
<1>1. ASSUME UNCHANGED stack,
             \A h \in Handles : handle'[h].contexts = handle[h].contexts \/ Unused(h)
      PROVE  ContextsInv'
  BY <1>1, KeptUses, ContextsRest
<1>2. \A h \in Handles : handle[h].kind = "none" => \A u \in Uses : Arg(u) # h
  BY DEF ArgumentsStay
<1>3. CASE UNCHANGED <<handle, stack>>
  BY <1>1, <1>3
<1>4. ASSUME NEW t \in Threads, NEW h \in Handles, NEW v \in Values, Makes(t, h, v)
      PROVE  ContextsInv'
  <2>1. Unused(h) /\ \A g \in Handles : g # h => handle'[g] = handle[g]
    BY <1>2, <1>4, NewHandleType DEF Makes, TypeOK
  <2>2. QED
    BY <1>1, <1>4, <2>1 DEF Makes
<1>5. ASSUME NEW h \in Handles, NEW s \in Handles, Freezes(h, s)
      PROVE  ContextsInv'
  <2>1. handle'[s].contexts = [own \in {"Ref", "Mut"} |-> 0]
    BY <1>5 DEF Freezes, Frozen, TypeOK, NewHandle, NoHandle
  <2>2. Unused(s)
    BY <1>2, <1>5, <2>1 DEF Freezes
  <2>3. \A g \in Handles : g # s => handle'[g].contexts = handle[g].contexts
    BY <1>5 DEF Freezes, Frozen, TypeOK, HandleType
  <2>4. QED
    BY <1>1, <1>5, <2>2, <2>3 DEF Freezes
<1>6. ASSUME NEW h \in Handles, Drops(h)
      PROVE  ContextsInv'
  <2>1. Unused(h) /\ \A g \in Handles : g # h => handle'[g] = handle[g]
    BY <1>6 DEF Drops, TypeOK, NoHandle
  <2>2. QED
    BY <1>1, <1>6, <2>1 DEF Drops
<1>7. ASSUME NEW t \in Threads, Wraps(t)
      PROVE  ContextsInv'
  <2>1. PICK p : p = <<t, Len(stack[t])>>
    OBVIOUS
  <2>2. \A h \in Handles : handle'[h].contexts = handle[h].contexts
    <3>1. CASE Takes(t)
      <4>1. PICK g : handle' = [handle EXCEPT ![g].slot = Nothing]
        BY <3>1 DEF Takes
      <4>2. QED
        BY <4>1 DEF TypeOK, HandleType
    <3>2. CASE ~Takes(t)
      BY <1>7, <3>2 DEF Wraps, Guards, Passes, Lends, Runs
    <3>3. QED
      BY <3>1, <3>2
  <2>3. QED
    BY <1>7, <2>1, <2>2, WrappedUses, ContextsRest
<1>8. ASSUME NEW t \in Threads, NEW how \in Outcomes, Leaves(t, how)
      PROVE  ContextsInv'
  <2>1. Popped(t) /\ stack[t] # <<>> /\ handle' = Left(t, how)
    BY <1>8 DEF Leaves, Popped
  <2>2. \A h \in Handles : handle'[h].contexts = RestoredContexts(Top(t), h)
    BY <2>1, LeftType
  <2>3. QED
    BY <2>1, <2>2, ContextsPopped
<1>9. ASSUME NEW t \in Threads, NEW r \in Handles, NEW v \in Values, Gives(t, r, v)
      PROVE  ContextsInv'
  <2>1. /\ Popped(t) /\ stack[t] # <<>>
        /\ handle' = [Left(t, "ok") EXCEPT ![r] = NewHandle("owned", t, v)]
    BY <1>9 DEF Gives, Popped
  <2>2. \A h \in Handles : h # r => handle'[h].contexts = RestoredContexts(Top(t), h)
    BY <2>1, LeftType
  <2>3. Unused(r)
    BY <1>2, <1>9, <2>1, NewHandleType, LeftType DEF Gives
  <2>4. QED
    BY <2>1, <2>2, <2>3, ContextsPopped
<1>10. QED
  BY <1>3, <1>4, <1>5, <1>6, <1>7, <1>8, <1>9, ContextsPushed, StepKinds DEF Wraps

\* Contexts, and those that calls will restore, count the arguments in use.
LEMMA ContextsInvariant == Spec => []ContextsInv
<1>1. Init => ContextsInv
  <2> SUFFICES ASSUME Init PROVE ContextsInv
    OBVIOUS
  <2>1. Frames = {}
    BY DEF Init, Frames
  <2>2. Uses = {}
    BY <2>1 DEF Uses
  <2>3. ASSUME NEW h \in Handles, NEW own \in {"Ref", "Mut"}
        PROVE  handle[h].contexts[own] = Cardinality(BorrowsOf(h, own))
    <3>1. handle[h].contexts[own] = 0
      BY DEF Init, NoHandle
    <3>2. BorrowsOf(h, own) = {}
      BY <2>2 DEF BorrowsOf
    <3>3. QED
      BY <3>1, <3>2, FS_EmptySet
  <2>4. QED
    BY <2>1, <2>2, <2>3, FS_EmptySet DEF ContextsInv, ContextsAreBorrows, PriorsAreBorrows
<1>2. QED
  BY HandlesInvariant, <1>1, ContextsKept, PTL DEF Spec

\* What _check_borrow_access goes by are the borrows of the calls in progress,
\* all of them and no others.
THEOREM ContextsAreExact == Spec => []ContextsAreBorrows
<1>1. ContextsInv => ContextsAreBorrows
  BY DEF ContextsInv
<1>2. QED
  BY <1>1, ContextsInvariant, PTL

-----------------------------------------------------------------------------
(* Handles and calls implement BorrowDiscipline, for any threads, handles,    *)
(* values and functions: every step of OwnershipHandles is, for every value,  *)
(* a step of the discipline or none.  First, what it sees of a value.         *)

Readers(v) == Borrows(v, {"Ref", "Shared"})
Writers(v) == Borrows(v, {"Mut"})
Written(v) == Writers(v) # {}

Seen(v) ==
    [place |-> Place(v),
     readers |-> Cardinality(Readers(v)),
     writer |-> Written(v)]

\* Value v is with call p.
With(v) == \E p \in Frames : v \in Frame(p).owned

Held(v) == \E h \in Handles : handle[h].slot = v

\* Borrows are among the arguments in use.
LEMMA BorrowsAreUses ==
    ASSUME HandlesInv, NEW v, NEW owns
    PROVE  \A u \in Borrows(v, owns) :
              /\ u \in Uses /\ Extracted(u) /\ Own(u) \in owns
              /\ Arg(u) \in Handles /\ handle[Arg(u)].slot = v
  BY FramesTyped DEF Borrows, HandlesInv

\* A value in a handle is there and in no other.
LEMMA HeldPlace ==
    ASSUME HandlesInv, NEW v \in Values, NEW h \in Handles, handle[h].slot = v
    PROVE  /\ \A g \in Handles : handle[g].slot = v => g = h
           /\ \/ handle[h].kind = "owned" /\ Place(v) = "handle"
              \/ handle[h].kind = "shared" /\ Place(v) = "arc"
           /\ ~With(v)
<1> USE DEF HandlesInv
<1>1. v # Nothing
  BY HandleAssumption
<1>2. \A g \in Handles : handle[g].slot = v => g = h
  BY <1>1 DEF ValuesApart
<1>3. handle[h].kind \in {"owned", "shared"}
  BY <1>1 DEF SlotsKept, TypeOK, HandleType
<1>4. ~With(v)
  BY DEF With, ValuesApart
<1>5. CASE handle[h].kind = "owned"
  <2>1. ~\E g \in Handles : handle[g].kind = "shared" /\ handle[g].slot = v
    BY <1>2, <1>5
  <2>2. Place(v) = "handle"
    BY <1>4, <1>5, <2>1 DEF Place, With
  <2>3. QED
    BY <1>2, <1>4, <1>5, <2>2
<1>6. CASE handle[h].kind = "shared"
  <2>1. ~\E g \in Handles : handle[g].kind = "owned" /\ handle[g].slot = v
    BY <1>2, <1>6
  <2>2. Place(v) = "arc"
    BY <1>4, <1>6, <2>1 DEF Place, With
  <2>3. QED
    BY <1>2, <1>4, <1>6, <2>2
<1>7. QED
  BY <1>3, <1>5, <1>6

\* A value in no handle is with a call or nowhere.
LEMMA UnheldPlace ==
    ASSUME NEW v, ~Held(v)
    PROVE  Place(v) = IF With(v) THEN "call" ELSE "none"
  BY DEF Place, Held, With

\* Nobody borrows a value that is in no handle.
LEMMA UnheldBorrows ==
    ASSUME HandlesInv, NEW v, ~Held(v), NEW owns
    PROVE  Borrows(v, owns) = {}
  BY BorrowsAreUses DEF Held

\* A borrow by Ref or Mut has its guard: only a call without them detaches.
LEMMA BorrowsAreGuarded ==
    ASSUME HandlesInv, NEW u \in Uses, Extracted(u), Own(u) \in {"Ref", "Mut"}
    PROVE  Frame(u[1]).guarded
<1> USE DEF HandlesInv
<1>1. u[1] \in Frames /\ u[2] \in Params(Frame(u[1])) /\ Frame(u[1]) \in FrameType
  BY FramesTyped
<1> DEFINE f == Frame(u[1])
<1>2. InOrder(f) /\ f.got \in Nat /\ u[2] \in Nat /\ u[2] >= 1 /\ u[2] <= f.got
  BY <1>1 DEF CallsInOrder, FrameType, Params, Extracted
<1>3. f.phase \in {"extract", "run"}
  BY <1>1, <1>2 DEF InOrder, FrameType
<1>4. u[2] \in DOMAIN f.fn.params /\ f.fn.params[u[2]] \in {"Ref", "Mut"}
  BY <1>1, <1>2, HandleAssumption DEF InOrder, Params, FrameType, FunctionType, Own
<1>5. ~ReleasesGil(f.fn)
  BY <1>4 DEF ReleasesGil, RetainsPythonBorrow
<1>6. QED
  BY <1>2, <1>3, <1>5 DEF InOrder

-----------------------------------------------------------------------------
(* The steps of the discipline, by the sets of borrows.                    *)

\* The record of a value, before and after a step.
LEMMA SeenIs ==
    ASSUME NEW v
    PROVE  /\ Seen(v).place = Place(v) /\ Seen(v).readers = Cardinality(Readers(v))
           /\ Seen(v).writer = Written(v)
           /\ Seen(v)'.place = Place(v)' /\ Seen(v)'.readers = Cardinality(Readers(v)')
           /\ Seen(v)'.writer = Written(v)'
  BY DEF Seen

SeenTypeOK ==
    \A v \in Values : Seen(v) \in Discipline!ValueType

LEMMA SeenTyped ==
    ASSUME IsFiniteSet(Uses)
    PROVE  SeenTypeOK
<1> SUFFICES ASSUME NEW v \in Values PROVE Seen(v) \in Discipline!ValueType
  BY DEF SeenTypeOK
<1>1. IsFiniteSet(Readers(v))
  BY FS_Subset DEF Readers, Borrows
<1>2. Cardinality(Readers(v)) \in Nat
  BY <1>1, FS_CardinalityType
<1>3. Place(v) \in {"none", "handle", "call", "arc"}
  BY DEF Place
<1>4. QED
  BY <1>2, <1>3 DEF Seen, Written, Discipline!ValueType, Discipline!Places

\* Borrows end, or nothing happens.
LEMMA EndsBorrows ==
    ASSUME IsFiniteSet(Uses), NEW v \in Values,
           Place(v)' = Place(v), Readers(v)' \subseteq Readers(v), Writers(v)' \subseteq Writers(v)
    PROVE  Discipline!Step(Seen(v), Seen(v)')
<1>1. IsFiniteSet(Readers(v))
  BY FS_Subset DEF Readers, Borrows
<1>2. /\ IsFiniteSet(Readers(v)') /\ Cardinality(Readers(v)) \in Nat /\ Cardinality(Readers(v)') \in Nat
      /\ Cardinality(Readers(v)') <= Cardinality(Readers(v))
  BY <1>1, FS_Subset, FS_CardinalityType
<1>3. Discipline!EndBorrows(Seen(v), Seen(v)')
  <2>1. Written(v)' => Written(v)
    BY DEF Written
  <2>2. QED
    BY <1>2, <2>1, SeenIs DEF Discipline!EndBorrows
<1>4. QED
  BY <1>3 DEF Discipline!Step

\* A value that nobody borrows moves.
LEMMA Moves ==
    ASSUME NEW v \in Values,
           Readers(v) = {}, Writers(v) = {}, Readers(v)' = {}, Writers(v)' = {},
           <<Place(v), Place(v)'>> \in
             {<<"none", "handle">>, <<"handle", "call">>, <<"handle", "arc">>, <<"handle", "none">>,
              <<"call", "handle">>, <<"call", "none">>}
    PROVE  Discipline!Step(Seen(v), Seen(v)')
<1>1. Cardinality({}) = 0
  BY FS_EmptySet
<1>2. Discipline!Move(Seen(v), Seen(v)')
  <2>1. Written(v) = FALSE /\ Written(v)' = FALSE
    BY DEF Written
  <2>2. QED
    BY <1>1, <2>1, SeenIs DEF Discipline!Move, Discipline!Unborrowed
<1>3. QED
  BY <1>2 DEF Discipline!Step

\* The last clone of an Arc goes.
LEMMA ArcEnds ==
    ASSUME NEW v \in Values, Readers(v)' = {}, Writers(v)' = {},
           Place(v) = "arc", Place(v)' = "none"
    PROVE  Discipline!Step(Seen(v), Seen(v)')
<1>1. Cardinality({}) = 0
  BY FS_EmptySet
<1>2. Discipline!EndArc(Seen(v), Seen(v)')
  BY <1>1 DEF Discipline!EndArc, Discipline!Absent, Seen, Written
<1>3. QED
  BY <1>2 DEF Discipline!Step

\* One more reader, without a writer.
LEMMA BorrowsOne ==
    ASSUME IsFiniteSet(Uses), NEW v \in Values, NEW u, u \notin Readers(v),
           Readers(v)' = Readers(v) \cup {u}, Writers(v) = {}, Writers(v)' = {},
           Place(v) \in {"handle", "arc"}, Place(v)' = Place(v)
    PROVE  Discipline!Step(Seen(v), Seen(v)')
<1>1. IsFiniteSet(Readers(v))
  BY FS_Subset DEF Readers, Borrows
<1>2. Cardinality(Readers(v)') = Cardinality(Readers(v)) + 1
  BY <1>1, FS_AddElement
<1>3. Discipline!Borrow(Seen(v), Seen(v)')
  <2>1. Written(v) = FALSE /\ Written(v)' = FALSE
    BY DEF Written
  <2>2. QED
    BY <1>2, <2>1, SeenIs DEF Discipline!Borrow
<1>4. QED
  BY <1>3 DEF Discipline!Step

\* A writer, alone.
LEMMA BorrowsMutably ==
    ASSUME NEW v \in Values, Readers(v) = {}, Readers(v)' = {}, Writers(v) = {}, Writers(v)' # {},
           Place(v) = "handle", Place(v)' = Place(v)
    PROVE  Discipline!Step(Seen(v), Seen(v)')
<1>1. Cardinality({}) = 0
  BY FS_EmptySet
<1>2. Discipline!BorrowMutably(Seen(v), Seen(v)')
  <2>1. Written(v) = FALSE /\ Written(v)' = TRUE
    BY DEF Written
  <2>2. QED
    BY <1>1, <2>1, SeenIs DEF Discipline!BorrowMutably, Discipline!Unborrowed
<1>3. QED
  BY <1>2 DEF Discipline!Step

-----------------------------------------------------------------------------
(* Where a value is after a step, and who borrows it.                      *)

LEMMA HeldNext ==
    ASSUME NEW v \in Values, NEW h \in Handles, handle'[h].slot = v,
           \A g \in Handles : handle'[g].slot = v => g = h, ~With(v)'
    PROVE  /\ handle'[h].kind = "owned" => Place(v)' = "handle"
           /\ handle'[h].kind = "shared" => Place(v)' = "arc"
<1>1. CASE handle'[h].kind = "owned"
  <2>1. ~\E g \in Handles : handle'[g].kind = "shared" /\ handle'[g].slot = v
    BY <1>1
  <2>2. QED
    BY <1>1, <2>1 DEF Place, With
<1>2. CASE handle'[h].kind = "shared"
  <2>1. ~\E g \in Handles : handle'[g].kind = "owned" /\ handle'[g].slot = v
    BY <1>2
  <2>2. QED
    BY <1>2, <2>1 DEF Place, With
<1>3. QED
  BY <1>1, <1>2

LEMMA UnheldNext ==
    ASSUME NEW v, \A h \in Handles : handle'[h].slot # v, \A u \in Uses' : Arg(u)' \in Handles
    PROVE  /\ Place(v)' = IF With(v)' THEN "call" ELSE "none"
           /\ Readers(v)' = {} /\ Writers(v)' = {}
  BY DEF Place, With, Readers, Writers, Borrows

\* A handle that no call uses lends its value to nobody.
LEMMA UnusedNext ==
    ASSUME NEW v, NEW h \in Handles, \A g \in Handles : handle'[g].slot = v => g = h,
           \A u \in Uses' : Arg(u)' \in Handles /\ Arg(u)' # h
    PROVE  Readers(v)' = {} /\ Writers(v)' = {}
  BY DEF Readers, Writers, Borrows

\* A value that stays where it is, and that nobody begins to borrow.
LEMMA Stays ==
    ASSUME HandlesInv, ContextsInv, NEW v \in Values,
           \A h \in Handles : /\ handle'[h].slot = v <=> handle[h].slot = v
                              /\ handle[h].slot = v => handle'[h].kind = handle[h].kind,
           With(v)' <=> With(v),
           \A u \in Uses' : Extracted(u)' =>
              \/ u \in Uses /\ Arg(u)' = Arg(u) /\ Own(u)' = Own(u) /\ Extracted(u)
              \/ handle'[Arg(u)'].slot # v
    PROVE  Discipline!Step(Seen(v), Seen(v)')
<1>1. Place(v)' = Place(v)
  <2>1. /\ (\E h \in Handles : handle'[h].kind = "owned" /\ handle'[h].slot = v)
             <=> \E h \in Handles : handle[h].kind = "owned" /\ handle[h].slot = v
        /\ (\E h \in Handles : handle'[h].kind = "shared" /\ handle'[h].slot = v)
             <=> \E h \in Handles : handle[h].kind = "shared" /\ handle[h].slot = v
    OBVIOUS
  <2>2. QED
    BY <2>1 DEF Place, With
<1>2. ASSUME NEW owns
      PROVE  Borrows(v, owns)' \subseteq Borrows(v, owns)
  <2>1. SUFFICES ASSUME NEW u \in Borrows(v, owns)' PROVE u \in Borrows(v, owns)
    OBVIOUS
  <2>2. u \in Uses' /\ Extracted(u)' /\ Own(u)' \in owns /\ handle'[Arg(u)'].slot = v
    BY DEF Borrows
  <2>3. QED
    BY <2>2, FramesTyped DEF Borrows, HandlesInv
<1>3. QED
  BY <1>1, <1>2, EndsBorrows DEF Readers, Writers, ContextsInv

-----------------------------------------------------------------------------
(* The steps of handles and calls.                                         *)

\* Handles in use are no new handles.
LEMMA NewIsUnused ==
    ASSUME HandlesInv, NEW h \in Handles, handle[h].kind = "none"
    PROVE  /\ \A u \in Uses : Arg(u) # h
           /\ handle[h].slot = Nothing
  BY DEF HandlesInv, ArgumentsStay, SlotsKept

LEMMA MakesStep ==
    ASSUME HandlesInv, ContextsInv, NEW t \in Threads, NEW h \in Handles, NEW w \in Values,
           Makes(t, h, w), NEW v \in Values
    PROVE  Discipline!Step(Seen(v), Seen(v)')
<1> USE HandleAssumption DEF HandlesInv
<1>1. /\ Frames' = Frames /\ Uses' = Uses
      /\ \A p \in Frames : Frame(p)' = Frame(p)
      /\ \A u \in Uses : Arg(u)' = Arg(u) /\ Own(u)' = Own(u) /\ (Extracted(u)' <=> Extracted(u))
  BY KeptUses DEF Makes
<1>2. \A g \in Handles : g # h => handle'[g] = handle[g]
  BY DEF Makes, TypeOK
<1>3. handle'[h].kind = "owned" /\ handle'[h].slot = w
  BY NewHandleType DEF Makes, TypeOK
<1>4. \A u \in Uses : Arg(u) \in Handles /\ Arg(u) # h
  BY NewIsUnused, FramesTyped DEF Makes
<1>5. With(v)' <=> With(v)
  BY <1>1 DEF With
<1>6. CASE v = w
  <2>1. ~Held(v) /\ ~With(v)
    BY <1>6 DEF Makes, Fresh, Held, With
  <2>2. Place(v) = "none" /\ Readers(v) = {} /\ Writers(v) = {}
    BY <2>1, UnheldPlace, UnheldBorrows DEF Readers, Writers
  <2>3. \A g \in Handles : handle'[g].slot = v => g = h
    BY <1>2, <2>1 DEF Held
  <2>4. Place(v)' = "handle"
    BY <1>3, <1>5, <1>6, <2>1, <2>3, HeldNext
  <2>5. Readers(v)' = {} /\ Writers(v)' = {}
    BY <1>1, <1>4, <2>3, UnusedNext
  <2>6. QED
    BY <2>2, <2>4, <2>5, Moves
<1>7. CASE v # w
  <2>1. handle[h].slot # v
    BY NewIsUnused DEF Makes
  <2>2. \A g \in Handles : /\ handle'[g].slot = v <=> handle[g].slot = v
                           /\ handle[g].slot = v => handle'[g].kind = handle[g].kind
    BY <1>2, <1>3, <1>7, <2>1
  <2>3. QED
    BY <1>1, <1>5, <2>2, Stays
<1>8. QED
  BY <1>6, <1>7


LEMMA FreezesStep ==
    ASSUME HandlesInv, ContextsInv, NEW h \in Handles, NEW s \in Handles,
           Freezes(h, s), NEW v \in Values
    PROVE  Discipline!Step(Seen(v), Seen(v)')
<1> USE HandleAssumption DEF HandlesInv
<1>1. /\ Frames' = Frames /\ Uses' = Uses
      /\ \A p \in Frames : Frame(p)' = Frame(p)
      /\ \A u \in Uses : Arg(u)' = Arg(u) /\ Own(u)' = Own(u) /\ (Extracted(u)' <=> Extracted(u))
  BY KeptUses DEF Freezes
<1>2. h # s /\ \A g \in Handles : g # h /\ g # s => handle'[g] = handle[g]
  BY DEF Freezes, Frozen, TypeOK
<1>3. /\ handle'[h].slot = Nothing
      /\ handle'[s].kind = "shared" /\ handle'[s].slot = handle[h].slot
  BY DEF Freezes, Frozen, TypeOK, HandleType, NewHandle, NoHandle
<1>4. /\ \A u \in Uses : Arg(u) \in Handles /\ Arg(u) # s
      /\ handle[s].slot = Nothing
  BY NewIsUnused, FramesTyped DEF Freezes
<1>5. With(v)' <=> With(v)
  BY <1>1 DEF With
<1>6. CASE v = handle[h].slot
  <2>1. /\ \A g \in Handles : handle[g].slot = v => g = h
        /\ Place(v) = "handle" /\ ~With(v)
    BY <1>6, HeldPlace DEF Freezes
  <2>2. ASSUME NEW u \in Uses, Extracted(u), Arg(u) = h, Own(u) \in {"Ref", "Mut", "Shared"}
        PROVE  FALSE
    <3>1. Own(u) \in {"Ref", "Mut"}
      BY <2>2 DEF ArgumentsStay, Freezes
    <3>2. Locked(h)
      BY <2>2, <3>1, BorrowsAreGuarded DEF Locked, Guarded
    <3>3. QED
      BY <3>2 DEF Freezes
  <2>3. Readers(v) = {} /\ Writers(v) = {}
    BY <2>1, <2>2, BorrowsAreUses DEF Readers, Writers
  <2>4. \A g \in Handles : handle'[g].slot = v => g = s
    BY <1>2, <1>3, <2>1
  <2>5. Place(v)' = "arc"
    BY <1>3, <1>5, <1>6, <2>1, <2>4, HeldNext
  <2>6. Readers(v)' = {} /\ Writers(v)' = {}
    <3>1. \A u \in Uses' : Arg(u)' \in Handles /\ Arg(u)' # s
      BY <1>1, <1>4
    <3>2. QED
      BY <2>4, <3>1, UnusedNext
  <2>7. QED
    BY <2>1, <2>3, <2>5, <2>6, Moves
<1>7. CASE v # handle[h].slot
  <2>1. \A g \in Handles : /\ handle'[g].slot = v <=> handle[g].slot = v
                           /\ handle[g].slot = v => handle'[g].kind = handle[g].kind
    BY <1>2, <1>3, <1>4, <1>7
  <2>2. QED
    BY <1>1, <1>5, <2>1, Stays
<1>8. QED
  BY <1>6, <1>7

LEMMA DropsStep ==
    ASSUME HandlesInv, ContextsInv, NEW h \in Handles, Drops(h), NEW v \in Values
    PROVE  Discipline!Step(Seen(v), Seen(v)')
<1> USE HandleAssumption DEF HandlesInv
<1>1. /\ Frames' = Frames /\ Uses' = Uses
      /\ \A p \in Frames : Frame(p)' = Frame(p)
      /\ \A u \in Uses : Arg(u)' = Arg(u) /\ Own(u)' = Own(u) /\ (Extracted(u)' <=> Extracted(u))
  BY KeptUses DEF Drops
<1>2. \A g \in Handles : g # h => handle'[g] = handle[g]
  BY DEF Drops, TypeOK
<1>3. handle'[h].slot = Nothing
  BY DEF Drops, TypeOK, NoHandle
<1>4. \A u \in Uses : Arg(u) \in Handles /\ Arg(u) # h
  BY FramesTyped DEF Drops
<1>5. With(v)' <=> With(v)
  BY <1>1 DEF With
<1>6. CASE v = handle[h].slot
  <2>1. /\ \A g \in Handles : handle[g].slot = v => g = h
        /\ Place(v) \in {"handle", "arc"} /\ ~With(v)
    BY <1>6, HeldPlace
  <2>2. Readers(v) = {} /\ Writers(v) = {}
    BY <1>4, <2>1, BorrowsAreUses DEF Readers, Writers
  <2>3. \A g \in Handles : handle'[g].slot # v
    BY <1>2, <1>3, <2>1
  <2>4. Place(v)' = "none" /\ Readers(v)' = {} /\ Writers(v)' = {}
    BY <1>1, <1>4, <1>5, <2>1, <2>3, UnheldNext
  <2>5. QED
    BY <2>1, <2>2, <2>4, Moves, ArcEnds
<1>7. CASE v # handle[h].slot
  <2>1. \A g \in Handles : /\ handle'[g].slot = v <=> handle[g].slot = v
                           /\ handle[g].slot = v => handle'[g].kind = handle[g].kind
    BY <1>2, <1>3, <1>7
  <2>2. QED
    BY <1>1, <1>5, <2>1, Stays
<1>8. QED
  BY <1>6, <1>7

LEMMA EntersStep ==
    ASSUME HandlesInv, ContextsInv, NEW t \in Threads, NEW fn \in Functions,
           NEW args \in [DOMAIN fn.params -> Handles], Enters(t, fn, args), NEW v \in Values
    PROVE  Discipline!Step(Seen(v), Seen(v)')
<1> USE DEF HandlesInv
<1>1. PICK p : p = <<t, Len(stack[t]) + 1>>
  OBVIOUS
<1>2. /\ Frames' = Frames \cup {p}
      /\ Frame(p)' = NewFrame(fn, args)
      /\ \A q \in Frames : Frame(q)' = Frame(q)
      /\ Uses' = Uses \cup ({p} \X DOMAIN args)
      /\ \A u \in Uses : /\ Arg(u)' = Arg(u) /\ Own(u)' = Own(u)
                         /\ Extracted(u)' <=> Extracted(u)
      /\ DOMAIN args = 1 .. Len(fn.params) /\ Len(fn.params) \in Nat
  BY <1>1, EnteredUses
<1>3. Frame(p)'.owned = {} /\ Frame(p)'.got = 0
  BY <1>2 DEF NewFrame
<1>4. ASSUME NEW i \in DOMAIN args PROVE ~Extracted(<<p, i>>)'
  BY <1>2, <1>3 DEF Extracted
<1>5. \A h \in Handles : handle'[h].kind = handle[h].kind /\ handle'[h].slot = handle[h].slot
  BY DEF Enters, TypeOK, HandleType
<1>6. With(v)' <=> With(v)
  BY <1>2, <1>3 DEF With
<1>7. QED
  BY <1>2, <1>4, <1>5, <1>6, Stays

\* Guards are taken, buffers are checked, the function starts.
LEMMA QuietStep ==
    ASSUME HandlesInv, ContextsInv, NEW t \in Threads, Guards(t) \/ Passes(t) \/ Runs(t),
           NEW v \in Values
    PROVE  Discipline!Step(Seen(v), Seen(v)')
<1> USE DEF HandlesInv
<1>1. PICK p : p = <<t, Len(stack[t])>>
  OBVIOUS
<1>2. /\ Frames' = Frames /\ Uses' = Uses
      /\ \A q \in Frames : q # p => Frame(q)' = Frame(q)
      /\ \A u \in Uses : Arg(u)' = Arg(u) /\ Own(u)' = Own(u)
  BY <1>1, WrappedUses DEF Wraps
<1>3. /\ UNCHANGED handle /\ Frame(p)'.owned = Frame(p).owned
      /\ \A u \in Uses : Extracted(u)' <=> Extracted(u)
  BY <1>1, NoArgument
<1>4. With(v)' <=> With(v)
  BY <1>2, <1>3 DEF With
<1>5. QED
  BY <1>2, <1>3, <1>4, Stays


\* The value of an Owned argument leaves its handle.
LEMMA TakesStep ==
    ASSUME HandlesInv, ContextsInv, NEW t \in Threads, Takes(t), NEW v \in Values
    PROVE  Discipline!Step(Seen(v), Seen(v)')
<1> USE HandleAssumption DEF HandlesInv
<1>1. PICK p : p = <<t, Len(stack[t])>>
  OBVIOUS
<1>2. PICK next : next = <<p, Frame(p).got + 1>>
  OBVIOUS
<1>3. /\ p \in Frames /\ Frames' = Frames /\ Uses' = Uses
      /\ \A q \in Frames : q # p => Frame(q)' = Frame(q)
      /\ \A u \in Uses : Arg(u)' = Arg(u) /\ Own(u)' = Own(u) /\ Arg(u) \in Handles
  BY <1>1, WrappedUses, FramesTyped DEF Wraps
<1>4. /\ next \in Uses /\ Frame(p).guarded /\ next[1] = p
      /\ ~Extracted(next) /\ Own(next) = "Owned"
      /\ \A u \in Uses : Extracted(u)' <=> Extracted(u) \/ u = next
      /\ handle' = [handle EXCEPT ![Arg(next)].slot = Nothing]
      /\ Frame(p)'.owned = Frame(p).owned \cup {handle[Arg(next)].slot}
  <2>1. ~Lends(t)
    BY DEF Takes, Lends
  <2>2. QED
    BY <1>1, <1>2, <2>1, NextArgument
<1>5. PICK h \in Handles : h = Arg(next)
  BY <1>3, <1>4
<1>6. /\ handle'[h].slot = Nothing /\ handle[h].kind = "owned"
      /\ \A g \in Handles : g # h => handle'[g] = handle[g]
      /\ \A g \in Handles : handle'[g].kind = handle[g].kind
  BY <1>4, <1>5 DEF TypeOK, HandleType, ArgumentsStay
<1>7. CASE v = handle[h].slot
  <2>1. /\ \A g \in Handles : handle[g].slot = v => g = h
        /\ Place(v) = "handle"
    BY <1>6, <1>7, HeldPlace
  <2>2. ASSUME NEW u \in Uses, Extracted(u), Arg(u) = h, Own(u) \in {"Ref", "Mut", "Shared"}
        PROVE  FALSE
    <3>1. Own(u) \in {"Ref", "Mut"}
      BY <1>6, <2>2 DEF ArgumentsStay
    <3>2. Frame(u[1]).guarded
      BY <2>2, <3>1, BorrowsAreGuarded
    <3>3. QED
      BY <1>4, <1>5, <2>2, <3>2 DEF GuardsExclude, Exclusive
  <2>3. Readers(v) = {} /\ Writers(v) = {}
    BY <2>1, <2>2, BorrowsAreUses DEF Readers, Writers
  <2>4. \A g \in Handles : handle'[g].slot # v
    BY <1>6, <2>1
  <2>5. With(v)'
    BY <1>3, <1>4, <1>5, <1>7 DEF With
  <2>6. Place(v)' = "call" /\ Readers(v)' = {} /\ Writers(v)' = {}
    BY <1>3, <2>4, <2>5, UnheldNext
  <2>7. QED
    BY <2>1, <2>3, <2>6, Moves
<1>8. CASE v # handle[h].slot
  <2>1. \A g \in Handles : /\ handle'[g].slot = v <=> handle[g].slot = v
                           /\ handle[g].slot = v => handle'[g].kind = handle[g].kind
    BY <1>6, <1>8
  <2>2. With(v)' <=> With(v)
    BY <1>3, <1>4, <1>5, <1>8 DEF With
  <2>3. ASSUME NEW u \in Uses', Extracted(u)'
        PROVE  \/ u \in Uses /\ Arg(u)' = Arg(u) /\ Own(u)' = Own(u) /\ Extracted(u)
               \/ handle'[Arg(u)'].slot # v
    BY <1>3, <1>4, <1>5, <1>6, <2>3
  <2>4. QED
    BY <2>1, <2>2, <2>3, Stays
<1>9. QED
  BY <1>7, <1>8

\* An argument is borrowed.
LEMMA LendsStep ==
    ASSUME HandlesInv, ContextsInv, NEW t \in Threads, Lends(t), NEW v \in Values
    PROVE  Discipline!Step(Seen(v), Seen(v)')
<1> USE HandleAssumption DEF HandlesInv
<1>1. PICK p : p = <<t, Len(stack[t])>>
  OBVIOUS
<1>2. PICK next : next = <<p, Frame(p).got + 1>>
  OBVIOUS
<1>3. /\ p \in Frames /\ Frames' = Frames /\ Uses' = Uses
      /\ \A q \in Frames : q # p => Frame(q)' = Frame(q)
      /\ \A u \in Uses : Arg(u)' = Arg(u) /\ Own(u)' = Own(u) /\ Arg(u) \in Handles
  BY <1>1, WrappedUses, FramesTyped DEF Wraps
<1>4. /\ next \in Uses /\ Frame(p).guarded /\ next[1] = p
      /\ ~Extracted(next) /\ Own(next) # "Owned"
      /\ \A u \in Uses : Extracted(u)' <=> Extracted(u) \/ u = next
      /\ UNCHANGED handle
      /\ Frame(p)'.owned = Frame(p).owned
  <2>1. ~Takes(t)
    BY DEF Takes, Lends
  <2>2. QED
    BY <1>1, <1>2, <2>1, NextArgument
<1>5. PICK h \in Handles : h = Arg(next)
  BY <1>3, <1>4
<1>6. With(v)' <=> With(v)
  BY <1>3, <1>4 DEF With
<1>7. CASE v = handle[h].slot
  <2>1. /\ \A g \in Handles : handle[g].slot = v => g = h
        /\ \/ handle[h].kind = "owned" /\ Place(v) = "handle"
           \/ handle[h].kind = "shared" /\ Place(v) = "arc"
        /\ ~With(v)
    BY <1>7, HeldPlace
  <2>2. Place(v)' = Place(v)
    BY <1>4, <1>6, <1>7, <2>1, HeldNext
  <2>3. \A owns : Borrows(v, owns)' =
                     IF Own(next) \in owns THEN Borrows(v, owns) \cup {next} ELSE Borrows(v, owns)
    BY <1>3, <1>4, <1>5, <1>7 DEF Borrows
  <2>4. ASSUME NEW u \in Uses, Extracted(u), Arg(u) = h, Own(u) \in {"Ref", "Mut"}
        PROVE  ~Exclusive(Own(u)) /\ ~Exclusive(Own(next))
    <3>1. Frame(u[1]).guarded
      BY <2>4, BorrowsAreGuarded
    <3>2. QED
      BY <1>4, <1>5, <2>4, <3>1 DEF GuardsExclude
  <2>5. CASE Own(next) = "Mut"
    <3>1. handle[h].kind = "owned"
      BY <1>4, <1>5, <2>5 DEF ArgumentsStay
    <3>2. ASSUME NEW u \in Uses, Extracted(u), Arg(u) = h, Own(u) \in {"Ref", "Mut", "Shared"}
          PROVE  FALSE
      BY <2>4, <2>5, <3>1, <3>2 DEF ArgumentsStay, Exclusive
    <3>3. Readers(v) = {} /\ Writers(v) = {}
      BY <2>1, <3>2, BorrowsAreUses DEF Readers, Writers
    <3>4. Readers(v)' = {} /\ Writers(v)' # {}
      BY <2>3, <2>5, <3>3 DEF Readers, Writers
    <3>5. QED
      BY <2>1, <2>2, <3>1, <3>3, <3>4, BorrowsMutably
  <2>6. CASE Own(next) \in {"Ref", "Shared"}
    <3>1. ASSUME NEW u \in Uses, Extracted(u), Arg(u) = h, Own(u) = "Mut"
          PROVE  FALSE
      BY <2>4, <3>1 DEF Exclusive
    <3>2. Writers(v) = {}
      BY <2>1, <3>1, BorrowsAreUses DEF Writers
    <3>3. /\ Readers(v)' = Readers(v) \cup {next} /\ Writers(v)' = {}
          /\ next \notin Readers(v)
      BY <1>4, <2>3, <2>6, <3>2, BorrowsAreUses DEF Readers, Writers
    <3>4. QED
      BY <2>1, <2>2, <3>2, <3>3, BorrowsOne DEF ContextsInv
  <2>7. CASE Own(next) \notin {"Mut", "Ref", "Shared"}
    <3>1. Readers(v)' = Readers(v) /\ Writers(v)' = Writers(v)
      BY <2>3, <2>7 DEF Readers, Writers
    <3>2. QED
      BY <2>2, <3>1, EndsBorrows DEF ContextsInv
  <2>8. QED
    BY <2>5, <2>6, <2>7
<1>8. CASE v # handle[h].slot
  <2>1. ASSUME NEW u \in Uses', Extracted(u)'
        PROVE  \/ u \in Uses /\ Arg(u)' = Arg(u) /\ Own(u)' = Own(u) /\ Extracted(u)
               \/ handle'[Arg(u)'].slot # v
    BY <1>3, <1>4, <1>5, <1>8, <2>1
  <2>2. QED
    BY <1>4, <1>6, <2>1, Stays
<1>9. QED
  BY <1>7, <1>8


\* A call ends: its borrows end, and what it owns and does not return is dropped.
LEMMA LeavesStep ==
    ASSUME HandlesInv, ContextsInv, NEW t \in Threads, Popped(t), NEW v \in Values,
           \A h \in Handles : /\ handle'[h].slot = v <=> handle[h].slot = v
                              /\ handle[h].slot = v => handle'[h].kind = handle[h].kind
    PROVE  Discipline!Step(Seen(v), Seen(v)')
<1> USE DEF HandlesInv
<1>1. PICK p : p = <<t, Len(stack[t])>>
  OBVIOUS
<1>2. /\ p \in Frames /\ Frames' = Frames \ {p}
      /\ \A q \in Frames' : Frame(q)' = Frame(q)
      /\ \A u \in Uses' : /\ u \in Uses /\ Arg(u)' = Arg(u) /\ Own(u)' = Own(u)
                          /\ Extracted(u)' <=> Extracted(u)
  BY <1>1, PoppedUses
<1>3. CASE v \in Frame(p).owned
  <2>1. ~Held(v) /\ With(v)
    BY <1>2, <1>3 DEF ValuesApart, Held, With
  <2>2. Place(v) = "call" /\ Readers(v) = {} /\ Writers(v) = {}
    BY <2>1, UnheldPlace, UnheldBorrows DEF Readers, Writers
  <2>3. ~With(v)'
    BY <1>2, <1>3 DEF With, ValuesApart
  <2>4. \A g \in Handles : handle'[g].slot # v
    BY <2>1 DEF Held
  <2>5. \A u \in Uses' : Arg(u)' \in Handles
    BY <1>2, FramesTyped
  <2>6. Place(v)' = "none" /\ Readers(v)' = {} /\ Writers(v)' = {}
    BY <2>3, <2>4, <2>5, UnheldNext
  <2>7. QED
    BY <2>2, <2>6, Moves
<1>4. CASE v \notin Frame(p).owned
  <2>1. With(v)' <=> With(v)
    BY <1>2, <1>4 DEF With
  <2>2. QED
    BY <1>2, <2>1, Stays
<1>5. QED
  BY <1>3, <1>4

\* A call ends and returns a value, its own or a new one.
LEMMA GivesStep ==
    ASSUME HandlesInv, ContextsInv, NEW t \in Threads, NEW r \in Handles, NEW w \in Values,
           Gives(t, r, w), NEW v \in Values
    PROVE  Discipline!Step(Seen(v), Seen(v)')
<1> USE HandleAssumption DEF HandlesInv
<1>1. PICK p : p = <<t, Len(stack[t])>>
  OBVIOUS
<1>2. /\ p \in Frames /\ Frame(p) = Top(t) /\ Frames' = Frames \ {p}
      /\ \A q \in Frames' : Frame(q)' = Frame(q)
      /\ \A u \in Uses' : u \in Uses /\ Arg(u)' = Arg(u)
  BY <1>1, PoppedUses DEF Gives
<1>3. stack[t] # <<>> /\ Popped(t)
  BY DEF Gives, Popped
<1>4. \A h \in Handles : h # r => handle'[h].kind = handle[h].kind /\ handle'[h].slot = handle[h].slot
  BY <1>3, LeftType DEF Gives
<1>5. handle'[r].kind = "owned" /\ handle'[r].slot = w
  BY <1>3, NewHandleType, LeftType DEF Gives
<1>6. handle[r].slot = Nothing /\ \A u \in Uses' : Arg(u)' \in Handles /\ Arg(u)' # r
  BY <1>2, NewIsUnused, FramesTyped DEF Gives
<1>7. CASE v = w
  <2>1. w \in Frame(p).owned \/ Fresh(w)
    BY <1>2 DEF Gives
  <2>2. ~Held(v) /\ (With(v) => v \in Frame(p).owned)
    BY <1>2, <1>7, <2>1 DEF Fresh, Held, With, ValuesApart
  <2>3. Place(v) \in {"none", "call"} /\ Readers(v) = {} /\ Writers(v) = {}
    BY <2>2, UnheldPlace, UnheldBorrows DEF Readers, Writers
  <2>4. ~With(v)'
    BY <1>2, <2>2 DEF With, ValuesApart
  <2>5. \A g \in Handles : handle'[g].slot = v => g = r
    BY <1>4, <2>2 DEF Held
  <2>6. Place(v)' = "handle"
    BY <1>5, <1>7, <2>4, <2>5, HeldNext
  <2>7. Readers(v)' = {} /\ Writers(v)' = {}
    BY <1>6, <2>5, UnusedNext
  <2>8. QED
    BY <2>3, <2>6, <2>7, Moves
<1>8. CASE v # w
  <2>1. \A h \in Handles : /\ handle'[h].slot = v <=> handle[h].slot = v
                           /\ handle[h].slot = v => handle'[h].kind = handle[h].kind
    BY <1>4, <1>5, <1>6, <1>8
  <2>2. QED
    BY <1>3, <2>1, LeavesStep
<1>9. QED
  BY <1>7, <1>8

-----------------------------------------------------------------------------
(* The refinement.                                                         *)

LEMMA EveryStep ==
    ASSUME HandlesInv, ContextsInv, [Next]_vars, NEW v \in Values
    PROVE  Discipline!Step(Seen(v), Seen(v)')
<1> USE DEF HandlesInv
<1>1. CASE UNCHANGED <<handle, stack>>
  <2>1. With(v)' <=> With(v)
    BY <1>1, KeptUses DEF With
  <2>2. QED
    BY <1>1, <2>1, KeptUses, Stays
<1>2. ASSUME NEW t \in Threads, NEW how, Leaves(t, how)
      PROVE  Discipline!Step(Seen(v), Seen(v)')
  <2>1. Popped(t) /\ stack[t] # <<>> /\ handle' = Left(t, how)
    BY <1>2 DEF Leaves, Popped
  <2>2. \A h \in Handles : handle'[h].kind = handle[h].kind /\ handle'[h].slot = handle[h].slot
    BY <2>1, LeftType
  <2>3. QED
    BY <2>1, <2>2, LeavesStep
<1>3. QED
  BY <1>1, <1>2, StepKinds, MakesStep, FreezesStep, DropsStep, EntersStep, QuietStep, TakesStep,
     LendsStep, GivesStep

\* Handles and calls implement BorrowDiscipline: no value is moved, dropped or
\* mutably borrowed while a call borrows it, whatever Python code does in
\* between.
THEOREM HandlesImplementDiscipline == Spec => DisciplineSpec
<1>1. Init => Discipline!Init
  <2> SUFFICES ASSUME Init PROVE Discipline!Init
    OBVIOUS
  <2>1. Frames = {}
    BY DEF Init, Frames
  <2>2. Uses = {}
    BY <2>1 DEF Uses
  <2>3. ASSUME NEW v \in Values
        PROVE  Place(v) = "none" /\ \A owns : Borrows(v, owns) = {}
    <3>1. \A h \in Handles : handle[h].slot = Nothing
      BY DEF Init, NoHandle
    <3>2. QED
      BY <2>1, <2>2, <3>1, HandleAssumption DEF Place, Borrows
  <2>4. Cardinality({}) = 0
    BY FS_EmptySet
  <2>5. QED
    BY <2>3, <2>4 DEF Discipline!Init, Discipline!Absent
<1>2. ContextsInv => SeenTypeOK
  BY SeenTyped DEF ContextsInv
<1>3. HandlesInv /\ ContextsInv /\ SeenTypeOK' /\ [Next]_vars => Discipline!Next
  <2> SUFFICES ASSUME HandlesInv, ContextsInv, SeenTypeOK', [Next]_vars PROVE Discipline!Next
    OBVIOUS
  <2>1. \A v \in Values : Discipline!Step(Seen(v), Seen(v)')
    BY EveryStep
  <2>2. \A v \in Values : Seen(v)' \in Discipline!ValueType
    BY DEF SeenTypeOK
  <2>3. QED
    BY <2>1, <2>2 DEF Discipline!Next, Seen, Readers, Writers, Written
<1>4. QED
  BY <1>1, <1>2, <1>3, HandlesInvariant, ContextsInvariant, PTL DEF Spec, DisciplineSpec, Discipline!Spec
=============================================================================
