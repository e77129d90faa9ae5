-------------------------- MODULE EffectPropagation --------------------------
(* propagate_effects (compiler/effects.py): the effects of every function      *)
(* start from its own expressions and then grow, function by function in       *)
(* declaration order and sweep after sweep, by the effects of the functions    *)
(* it dispatches to, until one sweep changes nothing.                          *)
EXTENDS Naturals, Sequences

CONSTANTS Functions,  \* the Rust symbols of one package
          Order       \* their declaration order, the order of each sweep

ASSUME OrderAssumption ==
  /\ Order \in Seq(Functions)
  /\ \A f \in Functions : \E i \in DOMAIN Order : Order[i] = f

VARIABLES calls,      \* symbol -> the symbols its body may dispatch to
          own,        \* symbol -> the effects of its own expressions
          effects,    \* the table the sweeps update in place ("direct")
          place,      \* how far the current sweep has come
          changed     \* whether the current sweep has changed anything

effectVars == <<calls, own, effects, place, changed>>

Effect == {"NativeRust", "ConversionBoundary", "BorrowedBuffer",
           "OpaqueCrateCall", "PythonRuntime", "Blocking", "ThreadSpawn",
           "GlobalMutation", "UnsafeMemory", "UnsafeFfi", "MayPanic"}

\* What a caller does not get from its callees: being native, and converting
\* its own arguments.
NotInherited == {"NativeRust", "ConversionBoundary"}

EffectInit(dispatch, direct) ==
  /\ calls = dispatch /\ own = direct /\ effects = direct
  /\ place = 1 /\ changed = FALSE

Inherited(f) == (UNION {effects[g] : g \in calls[f] \cap Functions}) \ NotInherited

\* Mutant: one sweep is enough.
OneSweep == FALSE

SweepsAgain == changed

\* The loop stops at the end of a sweep that changed nothing.
Propagated == place > Len(Order) /\ ~SweepsAgain

Visit ==
  /\ place <= Len(Order)
  /\ LET f == Order[place] IN
       /\ effects' = [effects EXCEPT ![f] = @ \union Inherited(f)]
       /\ changed' = (changed \/ ~(Inherited(f) \subseteq effects[f]))
  /\ place' = place + 1
  /\ UNCHANGED <<calls, own>>

SweepAgain ==
  /\ place > Len(Order) /\ SweepsAgain
  /\ place' = 1 /\ changed' = FALSE
  /\ UNCHANGED <<calls, own, effects>>

------------------------------------------------------------------------------
\* What a function reaches through any chain of calls: what every set has that
\* holds the function and, with each of its members, all that it dispatches to.
Reached(f) ==
  {g \in Functions :
     \A S \in SUBSET Functions :
       f \in S /\ (\A h \in S : calls[h] \cap Functions \subseteq S) => g \in S}

ReachedEffects(f) == own[f] \union ((UNION {own[g] : g \in Reached(f)}) \ NotInherited)

(* Once the sweeps end, a function has exactly the effects of the functions it *)
(* reaches through any chain of calls, recursive ones included, whatever the   *)
(* order of declaration: propagate_effects neither stops early nor invents.    *)
EffectsAreReachable ==
  Propagated => \A f \in Functions : effects[f] = ReachedEffects(f)
==============================================================================
