------------------------- MODULE BuildSystemProofs -------------------------
(***************************************************************************)
(* Theorems about BuildSystem, for every number of processes, threads,     *)
(* prunes and lock contents, and any bounds on the outside world.          *)
(***************************************************************************)
EXTENDS BuildSystem, TLAPS

\* The part of ServiceTypeOK about what one call keeps to itself.
ThreadTypeOK ==
    /\ pc \in [Threads -> Label]
    /\ call \in [Threads -> Calls]
    /\ attempt \in [Threads -> 1 .. MAX_LOCK_REPLANS]
    /\ plan \in [Threads -> Fingerprint]
    /\ hit \in [Threads -> BOOLEAN]
    /\ fresh \in [Threads -> BOOLEAN]
    /\ digest \in [Threads -> Binary \cup {Missing, Damaged}]

\* The part of TypeOK about the two file locks of a call.
LockTypeOK ==
    /\ unitLock \in Threads \cup {Free}
    /\ entryLock \in [Fingerprint -> Threads \cup Pruners \cup {Free}]

\* The placeholders a thread's locals hold between calls have their types.
LEMMA Placeholders ==
    NoPlan \in Fingerprint /\ NoCall \in Calls
  BY ServiceAssumption DEF NoPlan, NoCall, Fingerprint

\* The first state is well typed.
LEMMA InitTypeOK == Init => TypeOK
  BY Placeholders, SystemAssumption, CacheAssumption
  DEF Init, CacheInit, ServiceInit, TypeOK, CacheTypeOK, ServiceTypeOK, Label,
      Ended, PruneLabel, NoVictim, MAX_LOCK_REPLANS

\* Only label t changes, to another label.
LEMMA GotoType ==
    ASSUME ThreadTypeOK, NEW t \in Threads, NEW label \in Label, Goto(t, label)
    PROVE  pc' \in [Threads -> Label]
  BY DEF ThreadTypeOK, Goto

\* A call that returns leaves well-typed placeholders behind.
LEMMA ReturnType ==
    ASSUME ThreadTypeOK, NEW t \in Threads, NEW label \in Label, Return(t, label)
    PROVE  ThreadTypeOK'
  BY Placeholders DEF ThreadTypeOK, Return, Goto, MAX_LOCK_REPLANS

\* A replan stays within MAX_LOCK_REPLANS attempts.
LEMMA ReplanType ==
    ASSUME ThreadTypeOK, NEW t \in Threads, Replan(t)
    PROVE  ThreadTypeOK'
<1>1. CASE MayReplan(attempt[t])
  <2>1. attempt[t] + 1 \in 1 .. MAX_LOCK_REPLANS
    BY <1>1 DEF ThreadTypeOK, MayReplan, MAX_LOCK_REPLANS
  <2>2. attempt' = [attempt EXCEPT ![t] = attempt[t] + 1]
    BY <1>1 DEF Replan
  <2>3. QED
    BY ZenonT(60), <1>1, <2>1, <2>2, Placeholders
    DEF ThreadTypeOK, Replan, Goto, Label
<1>2. CASE ~MayReplan(attempt[t])
  BY <1>2, ReturnType DEF Replan, Label, Ended
<1>3. QED
  BY <1>1, <1>2

\* Letting go of the locks leaves well-typed locks.
LEMMA UnlockType ==
    ASSUME LockTypeOK, NEW t \in Threads, Unlock(t)
    PROVE  LockTypeOK'
  BY DEF LockTypeOK, Unlock

-----------------------------------------------------------------------------
\* Every step of a call keeps the types of the service's and the cache's state.
LEMMA CallTypeOK ==
    ASSUME TypeOK, NEW t \in Threads, CallStep(t), UNCHANGED <<pruneVars, outsideVars>>
    PROVE  TypeOK'
<1> USE Placeholders, CacheAssumption, ServiceAssumption
    DEF cacheVars, threadVars, fileVars, serviceVars, pruneVars, outsideVars,
        TypeOK, CacheTypeOK, ServiceTypeOK, ThreadTypeOK, LockTypeOK
<1>a. ThreadTypeOK /\ LockTypeOK
  OBVIOUS
<1>b. plan[t] \in Fingerprint /\ ProcOf[t] \in Procs /\ call[t] \in Calls
  BY <1>a
<1>c. \A f \in Fingerprint : Disturb(f) => snapshot' \in [Pruners -> SUBSET Fingerprint]
  BY DEF Disturb
<1>1. CASE Start(t)
  <2>1. ThreadTypeOK'
    <3>1. CASE Return(t, "failed")
      BY <1>a, <3>1, ReturnType DEF Label, Ended
    <3>2. CASE ~Return(t, "failed")
      BY <1>a, <1>1, <3>2, GotoType DEF Start, Label, UnderUnitLock
    <3>3. QED
      BY <3>1, <3>2
  <2>2. QED
    BY <1>1, <2>1 DEF Start
<1>2. CASE BootstrapLock(t)
  BY <1>2, GotoType
  DEF BootstrapLock, Label, UnderUnitLock
<1>3. CASE BootstrapGenerate(t)
  BY <1>3, GotoType
  DEF BootstrapGenerate, Label, UnderUnitLock
<1>4. CASE BootstrapFails(t)
  BY <1>4, ReturnType, UnlockType DEF BootstrapFails, Label, Ended
<1>5. CASE BootstrapPersist(t)
  BY <1>5, GotoType DEF BootstrapPersist, Label
<1>6. CASE Plan(t)
  <2> DEFINE f == [lock |-> depLock, locked |-> call[t].locked]
  <2>1. f \in Fingerprint
    BY <1>b DEF Fingerprint, Mode
  <2>2. CASE Return(t, "done")
    BY <1>6, <2>2, ReturnType DEF Plan, Label, Ended
  <2>3. CASE ~Return(t, "done")
    <3>1. plan' = [plan EXCEPT ![t] = f] /\ Goto(t, "unitLock")
          /\ UNCHANGED <<call, attempt, hit, fresh, digest>>
      BY <1>6, <2>3 DEF Plan
    <3>2. ThreadTypeOK'
      BY <1>a, <2>1, <3>1, GotoType DEF Label
    <3>3. QED
      BY <1>6, <3>2 DEF Plan
  <2>4. QED
    BY <2>2, <2>3
<1>7. CASE AcquireUnit(t)
  BY <1>7, GotoType
  DEF AcquireUnit, Label, UnderUnitLock
<1>8. CASE AcquireEntry(t)
  BY <1>8, GotoType
  DEF AcquireEntry, Label, UnderUnitLock, UnderEntryLock
<1>9. CASE LockTimeout(t)
  BY <1>9, ReturnType, UnlockType DEF LockTimeout, Label, Ended
<1>10. CASE Recheck(t)
  <2>1. LockTypeOK'
    BY <1>a, <1>10, UnlockType DEF Recheck
  <2>2. ThreadTypeOK'
    <3>1. CASE Replan(t) \/ Return(t, "done")
      BY <1>a, <3>1, ReplanType, ReturnType DEF Label, Ended
    <3>2. CASE ~(Replan(t) \/ Return(t, "done"))
      <4>1. Hit(plan[t]) \in BOOLEAN
        BY DEF Hit
      <4>2. hit' = [hit EXCEPT ![t] = Hit(plan[t])] /\ Goto(t, "copy")
            /\ UNCHANGED <<call, attempt, plan, fresh, digest>>
        BY <1>10, <3>2 DEF Recheck
      <4>3. QED
        BY <1>a, <4>1, <4>2, GotoType
        DEF Label, UnderUnitLock, UnderEntryLock
    <3>3. QED
      BY <3>1, <3>2
  <2>3. QED
    BY <1>10, <2>1, <2>2 DEF Recheck
<1>11. CASE CopyLock(t)
  <2>1. LockTypeOK'
    BY <1>a, <1>11, UnlockType DEF CopyLock
  <2>2. ThreadTypeOK'
    <3>1. CASE Return(t, "done")
      BY <1>a, <3>1, ReturnType DEF Label, Ended
    <3>2. CASE ~Return(t, "done")
      BY <1>a, <1>11, <3>2, GotoType
      DEF CopyLock, Label, UnderUnitLock, UnderEntryLock
    <3>3. QED
      BY <3>1, <3>2
  <2>3. genLock' \in [Fingerprint -> Versions \cup {Missing}]
    BY <1>b, <1>11 DEF CopyLock
  <2>4. QED
    BY <1>11, <2>1, <2>2, <2>3 DEF CopyLock
<1>12. CASE RunCargo(t)
  <2>1. PICK l \in CargoLocks(call[t].locked, genLock[plan[t]]) :
          LET built == [lock |-> l, world |-> world] IN
          /\ genLock' = [genLock EXCEPT ![plan[t]] = l]
          /\ \/ /\ Builds(t)
                /\ fresh' = [fresh EXCEPT ![t] = target[plan[t]] = built]
                /\ target' = [target EXCEPT ![plan[t]] = built]
             \/ /\ ~Builds(t)
                /\ UNCHANGED <<fresh, target>>
    BY <1>12 DEF RunCargo
  <2>2. l \in Versions
    BY <2>1 DEF CargoLocks
  <2> DEFINE built == [lock |-> l, world |-> world]
             same == target[plan[t]] = built
  <2>3. built \in Binary /\ same \in BOOLEAN
    BY <2>2 DEF Binary
  <2>4. /\ genLock' \in [Fingerprint -> Versions \cup {Missing}]
        /\ target' \in [Fingerprint -> Binary \cup {Missing}]
    <3>1. /\ genLock' = [genLock EXCEPT ![plan[t]] = l]
          /\ target' = target \/ target' = [target EXCEPT ![plan[t]] = built]
      BY <2>1
    <3> HIDE DEF built
    <3>2. genLock' \in [Fingerprint -> Versions \cup {Missing}]
      BY <1>b, <2>2, <3>1
    <3>3. CASE target' = target
      BY <3>2, <3>3
    <3>4. CASE target' = [target EXCEPT ![plan[t]] = built]
      BY <1>b, <2>3, <3>2, <3>4
    <3>5. QED
      BY <3>1, <3>3, <3>4
  <2>5. fresh' \in [Threads -> BOOLEAN]
    <3>1. CASE fresh' = fresh
      BY <3>1
    <3>2. CASE fresh' = [fresh EXCEPT ![t] = same]
      <4> HIDE DEF same
      <4>1. QED
        BY <2>3, <3>2
    <3>3. QED
      BY <2>1, <3>1, <3>2
  <2>6. ThreadTypeOK'
    BY <1>a, <1>12, <2>5, GotoType
    DEF RunCargo, Label, UnderUnitLock, UnderEntryLock
  <2>7. QED
    BY <1>12, <2>4, <2>6 DEF RunCargo
<1>13. CASE CargoFails(t)
  <2>1. ThreadTypeOK' /\ LockTypeOK'
    BY <1>a, <1>13, ReturnType, UnlockType DEF CargoFails, Label, Ended
  <2>2. genLock' \in [Fingerprint -> Versions \cup {Missing}]
    BY <1>b, <1>13 DEF CargoFails, CargoLocks
  <2>3. QED
    BY <1>13, <2>1, <2>2 DEF CargoFails
<1>14. CASE PersistLock(t)
  BY <1>b, <1>14, GotoType
  DEF PersistLock, Label, UnderUnitLock, UnderEntryLock
<1>15. CASE VerifyLock(t)
  <2>1. LockTypeOK'
    BY <1>a, <1>15, UnlockType DEF VerifyLock
  <2>2. ThreadTypeOK'
    <3>1. CASE Replan(t) \/ Return(t, "done")
      BY <1>a, <3>1, ReplanType, ReturnType DEF Label, Ended
    <3>2. CASE ~(Replan(t) \/ Return(t, "done"))
      BY <1>a, <1>15, <3>2, GotoType
      DEF VerifyLock, Label, UnderUnitLock, UnderEntryLock
    <3>3. QED
      BY <3>1, <3>2
  <2>3. QED
    BY <1>15, <2>1, <2>2 DEF VerifyLock
<1>16. CASE PublishFails(t)
  BY <1>16, ReturnType, UnlockType DEF PublishFails, Label, Ended
<1>17. CASE KeepArtifact(t)
  BY <1>b, <1>17, GotoType
  DEF KeepArtifact, Label, UnderUnitLock, UnderEntryLock
<1>18. CASE ReplaceArtifact(t)
  BY <1>b, <1>c, <1>18, GotoType
  DEF ReplaceArtifact, Label, UnderUnitLock, UnderEntryLock
<1>19. CASE WriteManifest(t)
  BY <1>b, <1>c, <1>19, GotoType
  DEF WriteManifest, Label, UnderUnitLock, UnderEntryLock
<1>20. CASE Touch(t)
  <2>1. LockTypeOK'
    BY <1>a, <1>20, UnlockType DEF Touch
  <2>2. ThreadTypeOK'
    <3>1. CASE Return(t, "done")
      BY <1>a, <3>1, ReturnType DEF Label, Ended
    <3>2. CASE ~Return(t, "done")
      BY <1>a, <1>20, <3>2, GotoType
      DEF Touch, Label, UnderUnitLock, UnderEntryLock
    <3>3. QED
      BY <3>1, <3>2
  <2>3. QED
    BY <1>b, <1>c, <1>20, <2>1, <2>2 DEF Touch
<1>21. CASE LoadExtension(t)
  BY <1>b, <1>21, GotoType
  DEF LoadExtension, Label, UnderUnitLock, UnderEntryLock
<1>22. CASE LoadFails(t)
  BY <1>22, ReturnType, UnlockType DEF LoadFails, Label, Ended
<1>23. CASE RetainLease(t)
  <2>1. ThreadTypeOK' /\ LockTypeOK'
    BY <1>a, <1>23, ReturnType, UnlockType DEF RetainLease, Label, Ended
  <2>2. /\ lease' \in [Procs -> SUBSET Fingerprint]
        /\ memo' \in [Procs -> SUBSET Fingerprint]
    <3> DEFINE p == ProcOf[t]
               f == plan[t]
    <3>1. CASE UNCHANGED <<lease, memo>>
      BY <3>1
    <3>2. CASE /\ lease' = [lease EXCEPT ![p] = @ \cup {f}]
               /\ memo' = [memo EXCEPT ![p] = @ \cup {f}]
      BY <1>b, <3>2
    <3>3. QED
      BY <1>23, <3>1, <3>2 DEF RetainLease, Retained
  <2>3. QED
    BY <1>b, <1>c, <1>23, <2>1, <2>2 DEF RetainLease
<1>24. QED
  BY <1>1, <1>2, <1>3, <1>4, <1>5, <1>6, <1>7, <1>8, <1>9, <1>10, <1>11, <1>12,
     <1>13, <1>14, <1>15, <1>16, <1>17, <1>18, <1>19, <1>20, <1>21, <1>22, <1>23
  DEF CallStep

\* Every step of the system that is not a step inside compile_path.
OtherStep ==
    \/ \E t \in Threads, c \in Calls : Begin(t, c) /\ UNCHANGED <<pruneVars, outsideVars>>
    \/ \E r \in Pruners : PruneStep(r) \/ PrunerCrash(r)
    \/ \E p \in Procs : ProcessEnds(p)
    \/ Outside

\* A step of the system is a step of a call or another one.
LEMMA NextCases ==
    Next => \/ OtherStep
            \/ \E t \in Threads : CallStep(t) /\ UNCHANGED <<pruneVars, outsideVars>>
  BY DEF Next, ThreadStep, OtherStep

\* The types survive the first step of a call and everything that is not a thread's step.
LEMMA OtherTypeOK ==
    ASSUME TypeOK, OtherStep
    PROVE  TypeOK'
<1> USE Placeholders, CacheAssumption, ServiceAssumption, SystemAssumption
    DEF cacheVars, threadVars, fileVars, serviceVars, pruneVars, outsideVars,
        TypeOK, CacheTypeOK, ServiceTypeOK, ThreadTypeOK, LockTypeOK
<1>1. CASE \E t \in Threads, c \in Calls : Begin(t, c) /\ UNCHANGED <<pruneVars, outsideVars>>
  <2>1. PICK t \in Threads, c \in Calls : Begin(t, c) /\ UNCHANGED <<pruneVars, outsideVars>>
    BY <1>1
  <2>2. pc' \in [Threads -> Label]
    BY <2>1, GotoType DEF Begin, Label
  <2>3. QED
    BY <2>1, <2>2 DEF Begin
<1>2. CASE \E r \in Pruners : PruneStep(r)
  <2>1. PICK r \in Pruners : PruneStep(r)
    BY <1>2
  <2>2. CASE PruneBegin(r)
    BY <2>2 DEF PruneBegin, PruneGoto, PruneLabel
  <2>3. CASE PruneSelect(r)
    BY <2>3 DEF PruneSelect, PruneGoto, PruneLabel
  <2>4. CASE PruneUnlink(r)
    BY <2>4 DEF PruneUnlink
  <2>5. CASE PruneRemoved(r)
    BY <2>5 DEF PruneRemoved, PruneGoto, PruneLabel, NoVictim, Disturb
  <2>6. CASE PruneEnd(r)
    BY <2>6 DEF PruneEnd, PruneGoto, PruneLabel
  <2>7. CASE \E f \in Fingerprint : PruneInventory(r, f)
    BY <2>7 DEF PruneInventory
  <2>8. CASE \E f \in Fingerprint : PruneTake(r, f)
    <3>1. PICK f \in Fingerprint : PruneTake(r, f)
      BY <2>8
    <3>2. /\ entryLock' \in [Fingerprint -> Threads \cup Pruners \cup {Free}]
          /\ victim' \in [Pruners -> Fingerprint]
          /\ prunePc' \in [Pruners -> PruneLabel]
      <4>1. CASE Removable(r, f)
        <5>1. /\ entryLock' = [entryLock EXCEPT ![f] = r]
              /\ victim' = [victim EXCEPT ![r] = f]
              /\ prunePc' = [prunePc EXCEPT ![r] = "removing"]
          BY <3>1, <4>1 DEF PruneTake, PruneGoto
        <5>2. entryLock' \in [Fingerprint -> Threads \cup Pruners \cup {Free}]
          BY <5>1
        <5>3. victim' \in [Pruners -> Fingerprint]
          BY <3>1, <5>1
        <5>4. prunePc' \in [Pruners -> PruneLabel]
          BY <5>1 DEF PruneLabel
        <5>5. QED
          BY <5>2, <5>3, <5>4
      <4>2. CASE ~Removable(r, f)
        BY <3>1, <4>2 DEF PruneTake
      <4>3. QED
        BY <4>1, <4>2
    <3>3. QED
      BY <3>1, <3>2 DEF PruneTake
  <2>9. QED
    BY <2>1, <2>2, <2>3, <2>4, <2>5, <2>6, <2>7, <2>8 DEF PruneStep
<1>3. CASE \E r \in Pruners : PrunerCrash(r)
  BY <1>3 DEF PrunerCrash, PruneGoto, PruneLabel, NoVictim
<1>4. CASE \E p \in Procs : ProcessEnds(p)
  <2>1. PICK p \in Procs : ProcessEnds(p)
    BY <1>4
  <2>2. ThreadTypeOK'
    <3>1. "idle" \in Label /\ 1 \in 1 .. MAX_LOCK_REPLANS
      BY DEF Label, Ended, MAX_LOCK_REPLANS
    <3>2. /\ pc' \in [Threads -> Label]
          /\ attempt' \in [Threads -> 1 .. MAX_LOCK_REPLANS]
      BY <2>1, <3>1 DEF ProcessEnds
    <3>3. /\ call' \in [Threads -> Calls]
          /\ plan' \in [Threads -> Fingerprint]
      BY <2>1 DEF ProcessEnds
    <3>4. hit' \in [Threads -> BOOLEAN]
      BY <2>1 DEF ProcessEnds
    <3>5. fresh' \in [Threads -> BOOLEAN]
      BY <2>1 DEF ProcessEnds
    <3>6. digest' \in [Threads -> Binary \cup {Missing, Damaged}]
      BY <2>1 DEF ProcessEnds
    <3>7. QED
      BY <3>2, <3>3, <3>4, <3>5, <3>6
  <2>3. LockTypeOK'
    BY <2>1 DEF ProcessEnds
  <2>4. QED
    BY <2>1, <2>2, <2>3 DEF ProcessEnds
<1>5. CASE Outside
  <2>1. CASE \E v \in Versions \cup {Missing} : EditLock(v)
    BY <2>1 DEF EditLock
  <2>2. CASE \E w \in Worlds : ChangeWorld(w)
    BY <2>2 DEF ChangeWorld
  <2>3. CASE \E f \in Fingerprint : DamageEntry(f)
    <3>1. PICK f \in Fingerprint : DamageEntry(f)
      BY <2>3
    <3>2. /\ artifact' \in [Fingerprint -> Binary \cup {Missing, Damaged}]
          /\ manifest' \in [Fingerprint -> Binary \cup {Missing, Damaged}]
      BY <3>1 DEF DamageEntry
    <3>3. /\ snapshot' \in [Pruners -> SUBSET Fingerprint]
          /\ mishaps' \in 0 .. MaxMishaps
      BY <3>1 DEF DamageEntry, Disturb
    <3>4. QED
      BY <3>1, <3>2, <3>3 DEF DamageEntry
  <2>4. QED
    BY <1>5, <2>1, <2>2, <2>3 DEF Outside
<1>6. QED
  BY <1>1, <1>2, <1>3, <1>4, <1>5 DEF OtherStep

\* Nothing that Next allows, and no stuttering, leaves the types.
LEMMA NextTypeOK == TypeOK /\ [Next]_vars => TypeOK'
<1> SUFFICES ASSUME TypeOK, [Next]_vars PROVE TypeOK'
  OBVIOUS
<1>1. CASE UNCHANGED vars
  BY <1>1 DEF vars, cacheVars, threadVars, fileVars, serviceVars, pruneVars,
              outsideVars, TypeOK, CacheTypeOK, ServiceTypeOK
<1>2. CASE OtherStep
  BY <1>2, OtherTypeOK
<1>3. CASE \E t \in Threads : CallStep(t) /\ UNCHANGED <<pruneVars, outsideVars>>
  BY <1>3, CallTypeOK
<1>4. QED
  BY <1>1, <1>2, <1>3, NextCases

\* TypeOK of every reachable state: among the rest, no call ever makes more
\* than MAX_LOCK_REPLANS plans (CRAB308 instead of a fourth).
THEOREM TypeCorrect == Spec => []TypeOK
  BY InitTypeOK, NextTypeOK, PTL DEF Spec

---------------------------------------------------------------------------
(***************************************************************************)
(* What the file locks of compile_path and of a prune guarantee: whoever   *)
(* works under a lock holds it, so a publication is not disturbed before   *)
(* its call returns.                                                       *)
(***************************************************************************)

\* Whoever works on an entry holds its lock.
EntryLockHeld ==
    \A t \in Threads : pc[t] \in UnderEntryLock => entryLock[plan[t]] = t

\* Whoever works on the unit's dependency lock holds the unit's lock.
UnitLockHeld ==
    \A t \in Threads : pc[t] \in UnderUnitLock => unitLock = t

\* A prune that removes an entry holds its lock.
RemovalLocked ==
    \A r \in Pruners : prunePc[r] = "removing" => entryLock[victim[r]] = r

\* Cargo's own copy of the library is there when the call publishes it.
LibraryBuilt ==
    \A t \in Threads :
        \/ pc[t] = "publish"
        \/ pc[t] \in {"persist", "verify"} /\ Builds(t)
        => target[plan[t]] # Missing

\* The inductive invariant.
LockInv ==
    /\ TypeOK
    /\ EntryLockHeld
    /\ UnitLockHeld
    /\ RemovalLocked
    /\ LibraryBuilt
    /\ PublishedEntryStays

\* Where a call stands between its publication and its end.
Published == {"manifest", "touch", "loading", "retain"}

-----------------------------------------------------------------------------
(* What a step of a call leaves alone.                                     *)

\* The locals of the other threads.
LEMMA OthersKeepLocals ==
    ASSUME TypeOK, NEW t \in Threads, CallStep(t), NEW u \in Threads, u # t
    PROVE  /\ pc'[u] = pc[u] /\ plan'[u] = plan[u]
           /\ call'[u] = call[u] /\ digest'[u] = digest[u] /\ hit'[u] = hit[u]
  BY DEF TypeOK, ServiceTypeOK, threadVars, Goto, Return, Replan,
         CallStep, Start, BootstrapLock, BootstrapGenerate, BootstrapFails,
         BootstrapPersist, Plan, AcquireUnit, AcquireEntry, LockTimeout, Recheck,
         CopyLock, RunCargo, CargoFails, PersistLock, VerifyLock, PublishFails,
         KeepArtifact, ReplaceArtifact, WriteManifest, Touch, LoadExtension,
         LoadFails, RetainLease

\* An entry lock that somebody else holds.
LEMMA OthersKeepLocks ==
    ASSUME TypeOK, NEW t \in Threads, CallStep(t), NEW f \in Fingerprint,
           entryLock[f] \notin {t, Free}
    PROVE  entryLock'[f] = entryLock[f]
  BY DEF TypeOK, ServiceTypeOK, CacheTypeOK, cacheVars, Unlock,
         CallStep, Start, BootstrapLock, BootstrapGenerate, BootstrapFails,
         BootstrapPersist, Plan, AcquireUnit, AcquireEntry, LockTimeout, Recheck,
         CopyLock, RunCargo, CargoFails, PersistLock, VerifyLock, PublishFails,
         KeepArtifact, ReplaceArtifact, WriteManifest, Touch, LoadExtension,
         LoadFails, RetainLease

\* The unit's lock, when somebody else holds it.
LEMMA OthersKeepUnitLock ==
    ASSUME TypeOK, UnitLockHeld, NEW t \in Threads, CallStep(t), unitLock \notin {t, Free}
    PROVE  unitLock' = unitLock
  BY DEF UnitLockHeld, UnderUnitLock, UnderEntryLock, Unlock,
         CallStep, Start, BootstrapLock, BootstrapGenerate, BootstrapFails,
         BootstrapPersist, Plan, AcquireUnit, AcquireEntry, LockTimeout, Recheck,
         CopyLock, RunCargo, CargoFails, PersistLock, VerifyLock, PublishFails,
         KeepArtifact, ReplaceArtifact, WriteManifest, Touch, LoadExtension,
         LoadFails, RetainLease

\* A thread gets under the unit's lock by taking it only.
LEMMA StaysUnderUnitLock ==
    ASSUME TypeOK, NEW t \in Threads, CallStep(t), pc'[t] \in UnderUnitLock
    PROVE  \/ unitLock' = t
           \/ pc[t] \in UnderUnitLock /\ UNCHANGED unitLock
  BY DEF TypeOK, ServiceTypeOK, Goto, Return, Replan, Ended, UnderUnitLock,
         UnderEntryLock,
         CallStep, Start, BootstrapLock, BootstrapGenerate, BootstrapFails,
         BootstrapPersist, Plan, AcquireUnit, AcquireEntry, LockTimeout, Recheck,
         CopyLock, RunCargo, CargoFails, PersistLock, VerifyLock, PublishFails,
         KeepArtifact, ReplaceArtifact, WriteManifest, Touch, LoadExtension,
         LoadFails, RetainLease

\* The files and the mappings, but for the actions that write each.
LEMMA OneWriterEach ==
    ASSUME NEW t \in Threads, CallStep(t)
    PROVE  /\ ReplaceArtifact(t) \/ UNCHANGED artifact
           /\ WriteManifest(t) \/ UNCHANGED manifest
           /\ LoadExtension(t) \/ UNCHANGED mapped
           /\ RetainLease(t) \/ UNCHANGED lease
           /\ RunCargo(t) \/ UNCHANGED target
           /\ CopyLock(t) \/ RunCargo(t) \/ CargoFails(t) \/ UNCHANGED genLock
           /\ BootstrapPersist(t) \/ PersistLock(t) \/ UNCHANGED depLock
  BY DEF cacheVars, fileVars,
         CallStep, Start, BootstrapLock, BootstrapGenerate, BootstrapFails,
         BootstrapPersist, Plan, AcquireUnit, AcquireEntry, LockTimeout, Recheck,
         CopyLock, RunCargo, CargoFails, PersistLock, VerifyLock, PublishFails,
         KeepArtifact, ReplaceArtifact, WriteManifest, Touch, LoadExtension,
         LoadFails, RetainLease

\* The thread's own place: it gets under an entry lock by taking it only, and
\* goes on there with the same plan, call and locks.
LEMMA StaysLocked ==
    ASSUME TypeOK, NEW t \in Threads, CallStep(t), pc'[t] \in UnderEntryLock
    PROVE  \/ AcquireEntry(t)
           \/ /\ pc[t] \in UnderEntryLock
              /\ UNCHANGED <<plan, call, entryLock>>
  BY DEF TypeOK, ServiceTypeOK, cacheVars, Goto, Return, Replan, Ended,
         UnderEntryLock, CallStep, Start, BootstrapLock, BootstrapGenerate,
         BootstrapFails, BootstrapPersist, Plan, AcquireUnit, LockTimeout,
         Recheck, CopyLock, RunCargo, CargoFails, PersistLock, VerifyLock,
         PublishFails, KeepArtifact, ReplaceArtifact, WriteManifest, Touch,
         LoadExtension, LoadFails, RetainLease

\* A call there either just published or keeps its digest and its entry.
LEMMA StaysPublished ==
    ASSUME TypeOK, NEW t \in Threads, CallStep(t), pc'[t] \in Published
    PROVE  \/ ReplaceArtifact(t) \/ KeepArtifact(t)
           \/ pc[t] \in Published /\ UNCHANGED <<digest, plan, artifact>>
  BY DEF TypeOK, ServiceTypeOK, cacheVars, threadVars, Goto, Return, Replan, Ended,
         Published, CallStep, Start, BootstrapLock, BootstrapGenerate,
         BootstrapFails, BootstrapPersist, Plan, AcquireUnit, AcquireEntry,
         LockTimeout, Recheck, CopyLock, RunCargo, CargoFails, PersistLock,
         VerifyLock, PublishFails, WriteManifest, Touch, LoadExtension,
         LoadFails, RetainLease

\* A call comes to its publication through RunCargo, as a build.
LEMMA StaysBuilt ==
    ASSUME TypeOK, NEW t \in Threads, CallStep(t),
           pc'[t] = "publish" \/ (pc'[t] \in {"persist", "verify"} /\ Builds(t)')
    PROVE  \/ RunCargo(t) /\ Builds(t)
           \/ /\ pc[t] \in {"persist", "verify"} /\ Builds(t)
              /\ UNCHANGED <<plan, target>>
  BY ZenonT(60) DEF TypeOK, ServiceTypeOK, threadVars, fileVars, Goto, Return, Replan, Ended,
         Builds, CallStep, Start, BootstrapLock, BootstrapGenerate,
         BootstrapFails, BootstrapPersist, Plan, AcquireUnit, AcquireEntry,
         LockTimeout, Recheck, CopyLock, RunCargo, CargoFails, PersistLock,
         VerifyLock, PublishFails, KeepArtifact, ReplaceArtifact,
         WriteManifest, Touch, LoadExtension, LoadFails, RetainLease

-----------------------------------------------------------------------------
(* The steps of a call preserve each part of the invariant.                *)

\* A thread gets its entry lock when it is free; no step lets go of another's.
LEMMA CallEntryLockHeld ==
    ASSUME TypeOK, EntryLockHeld, NEW t \in Threads, CallStep(t)
    PROVE  EntryLockHeld'
<1> SUFFICES ASSUME NEW u \in Threads, pc'[u] \in UnderEntryLock
             PROVE  entryLock'[plan'[u]] = u
  BY DEF EntryLockHeld
<1>1. CASE u = t
  <2>1. CASE AcquireEntry(t)
    BY <1>1, <2>1 DEF AcquireEntry, TypeOK, CacheTypeOK, ServiceTypeOK
  <2>2. CASE pc[t] \in UnderEntryLock /\ UNCHANGED <<plan, call, entryLock>>
    BY <1>1, <2>2 DEF EntryLockHeld
  <2>3. QED
    BY <1>1, <2>1, <2>2, StaysLocked
<1>2. CASE u # t
  <2>1. pc'[u] = pc[u] /\ plan'[u] = plan[u]
    BY <1>2, OthersKeepLocals
  <2>2. entryLock[plan[u]] = u
    BY <2>1 DEF EntryLockHeld
  <2>3. entryLock'[plan[u]] = u
    BY <1>2, <2>2, OthersKeepLocks, CacheAssumption DEF TypeOK, ServiceTypeOK
  <2>4. QED
    BY <2>1, <2>3
<1>3. QED
  BY <1>1, <1>2

\* A thread gets the unit's lock when it is free; no step lets go of another's.
LEMMA CallUnitLockHeld ==
    ASSUME TypeOK, UnitLockHeld, NEW t \in Threads, CallStep(t)
    PROVE  UnitLockHeld'
<1> SUFFICES ASSUME NEW u \in Threads, pc'[u] \in UnderUnitLock
             PROVE  unitLock' = u
  BY DEF UnitLockHeld
<1>1. CASE u = t
  BY <1>1, StaysUnderUnitLock DEF UnitLockHeld
<1>2. CASE u # t
  <2>1. pc'[u] = pc[u]
    BY <1>2, OthersKeepLocals
  <2>2. unitLock = u
    BY <2>1 DEF UnitLockHeld
  <2>3. QED
    BY <1>2, <2>2, OthersKeepUnitLock, CacheAssumption
<1>3. QED
  BY <1>1, <1>2

\* A call takes free entry locks only, so a removal goes on undisturbed.
LEMMA CallRemovalLocked ==
    ASSUME TypeOK, RemovalLocked, NEW t \in Threads, CallStep(t), UNCHANGED pruneVars
    PROVE  RemovalLocked'
<1> SUFFICES ASSUME NEW r \in Pruners, prunePc[r] = "removing"
             PROVE  entryLock'[victim[r]] = r
  BY DEF RemovalLocked, pruneVars
<1>1. entryLock[victim[r]] = r
  BY DEF RemovalLocked
<1>2. QED
  BY <1>1, OthersKeepLocks, CacheAssumption DEF TypeOK

\* Cargo's output never disappears once it is there.
LEMMA CallLibraryBuilt ==
    ASSUME TypeOK, LibraryBuilt, NEW t \in Threads, CallStep(t)
    PROVE  LibraryBuilt'
<1> SUFFICES ASSUME NEW u \in Threads,
                    pc'[u] = "publish" \/ (pc'[u] \in {"persist", "verify"} /\ Builds(u)')
             PROVE  target'[plan'[u]] # Missing
  BY DEF LibraryBuilt
<1>1. RunCargo(t) => \A f \in Fingerprint :
          target[f] # Missing \/ (Builds(t) /\ f = plan[t]) => target'[f] # Missing
  <2> SUFFICES ASSUME RunCargo(t), NEW f \in Fingerprint,
                      target[f] # Missing \/ (Builds(t) /\ f = plan[t])
               PROVE  target'[f] # Missing
    OBVIOUS
  <2>1. PICK l \in CargoLocks(call[t].locked, genLock[plan[t]]) :
            \/ Builds(t) /\ target' = [target EXCEPT ![plan[t]] =
                                            [lock |-> l, world |-> world]]
            \/ ~Builds(t) /\ UNCHANGED target
    BY DEF RunCargo
  <2>2. [lock |-> l, world |-> world] \in Binary
    BY ServiceAssumption DEF CargoLocks, Binary, TypeOK, ServiceTypeOK
  <2>3. QED
    BY <2>1, <2>2, BinaryAssumption DEF TypeOK, ServiceTypeOK
<1>2. CASE u = t
  <2>1. CASE RunCargo(t) /\ Builds(t)
    BY <1>1, <1>2, <2>1 DEF RunCargo, TypeOK, ServiceTypeOK
  <2>2. CASE /\ pc[t] \in {"persist", "verify"} /\ Builds(t)
             /\ UNCHANGED <<plan, target>>
    BY <1>2, <2>2 DEF LibraryBuilt
  <2>3. QED
    BY <1>2, <2>1, <2>2, StaysBuilt
<1>3. CASE u # t
  <2>1. pc'[u] = pc[u] /\ plan'[u] = plan[u] /\ call'[u] = call[u]
    BY <1>3, OthersKeepLocals
  <2>2. target[plan[u]] # Missing /\ plan[u] \in Fingerprint
    BY <2>1 DEF LibraryBuilt, Builds, TypeOK, ServiceTypeOK
  <2>3. QED
    BY <1>1, <2>1, <2>2, OneWriterEach
<1>4. QED
  BY <1>2, <1>3

\* Publications exclude each other by the entry lock.
LEMMA CallPublishedEntryStays ==
    ASSUME TypeOK, EntryLockHeld, LibraryBuilt, PublishedEntryStays,
           NEW t \in Threads, CallStep(t)
    PROVE  PublishedEntryStays'
<1> SUFFICES ASSUME NEW u \in Threads, pc'[u] \in Published
             PROVE  /\ digest'[u] # Missing
                    /\ artifact'[plan'[u]] \in {digest'[u], Damaged}
  BY DEF PublishedEntryStays, Published
<1>1. CASE u = t
  <2>1. CASE ReplaceArtifact(t)
    <3>1. target[plan[t]] # Missing /\ plan[t] \in Fingerprint
      BY <2>1 DEF ReplaceArtifact, LibraryBuilt, TypeOK, ServiceTypeOK
    <3>2. QED
      BY <1>1, <2>1, <3>1
      DEF ReplaceArtifact, TypeOK, CacheTypeOK, ServiceTypeOK, threadVars
  <2>2. CASE KeepArtifact(t)
    <3>1. target[plan[t]] # Missing
      BY <2>2 DEF KeepArtifact, LibraryBuilt
    <3>2. artifact[plan[t]] # Missing
      BY <2>2, <3>1 DEF KeepArtifact, Outdated
    <3>3. QED
      BY <1>1, <2>2, <3>2 DEF KeepArtifact, TypeOK, ServiceTypeOK, cacheVars
  <2>3. CASE pc[t] \in Published /\ UNCHANGED <<digest, plan, artifact>>
    BY <1>1, <2>3 DEF PublishedEntryStays, Published
  <2>4. QED
    BY <1>1, <2>1, <2>2, <2>3, StaysPublished
<1>2. CASE u # t
  <2>1. pc'[u] = pc[u] /\ plan'[u] = plan[u] /\ digest'[u] = digest[u]
    BY <1>2, OthersKeepLocals
  <2>2. digest[u] # Missing /\ artifact[plan[u]] \in {digest[u], Damaged}
    BY <2>1 DEF PublishedEntryStays, Published
  <2>3. entryLock[plan[u]] = u
    BY <2>1 DEF EntryLockHeld, Published, UnderEntryLock
  <2>4. artifact'[plan[u]] = artifact[plan[u]]
    <3>1. CASE ReplaceArtifact(t)
      <4>1. plan[t] # plan[u]
        BY <1>2, <2>3, <3>1 DEF ReplaceArtifact, EntryLockHeld, UnderEntryLock
      <4>2. QED
        BY <3>1, <4>1 DEF ReplaceArtifact, TypeOK, CacheTypeOK, ServiceTypeOK
    <3>2. QED
      BY <3>1, OneWriterEach
  <2>5. QED
    BY <2>1, <2>2, <2>4
<1>3. QED
  BY <1>1, <1>2

-----------------------------------------------------------------------------
(* So do the steps of prunes, process ends and the outside world.          *)

\* A prune takes free entry locks only, and lets go of its own only.
LEMMA OtherEntryLockHeld ==
    ASSUME TypeOK, EntryLockHeld, RemovalLocked, OtherStep
    PROVE  EntryLockHeld'
<1> SUFFICES ASSUME NEW u \in Threads, pc'[u] \in UnderEntryLock
             PROVE  entryLock'[plan'[u]] = u
  BY DEF EntryLockHeld
<1>1. CASE \E t \in Threads, c \in Calls : Begin(t, c)
  BY <1>1 DEF Begin, Goto, Ended, UnderEntryLock, EntryLockHeld, cacheVars,
              TypeOK, ServiceTypeOK
<1>2. CASE \E p \in Procs : ProcessEnds(p)
  BY <1>2, CacheAssumption
  DEF ProcessEnds, UnderEntryLock, EntryLockHeld, ThreadsOf, TypeOK, ServiceTypeOK
<1>3. CASE \E r \in Pruners : PruneStep(r) \/ PrunerCrash(r)
  <2>1. PICK r \in Pruners : PruneStep(r) \/ PrunerCrash(r)
    BY <1>3
  <2>2. UNCHANGED <<pc, plan>>
    BY <2>1
    DEF PruneStep, PrunerCrash, PruneBegin, PruneInventory, PruneSelect, PruneTake,
        PruneUnlink, PruneRemoved, PruneEnd, serviceVars, threadVars
  <2>3. entryLock[plan[u]] = u /\ plan[u] \in Fingerprint
    BY <2>2 DEF EntryLockHeld, TypeOK, ServiceTypeOK
  <2>4. \A f \in Fingerprint : entryLock[f] \notin {r, Free} => entryLock'[f] = entryLock[f]
    BY <2>1
    DEF PruneStep, PrunerCrash, PruneBegin, PruneInventory, PruneSelect, PruneTake,
        PruneUnlink, PruneRemoved, PruneEnd, Removable, RemovalLocked, cacheVars,
        TypeOK, CacheTypeOK
  <2>5. u \notin {r, Free}
    BY CacheAssumption
  <2>6. QED
    BY <2>2, <2>3, <2>4, <2>5
<1>4. CASE Outside
  BY <1>4 DEF Outside, EditLock, ChangeWorld, DamageEntry, serviceVars, threadVars,
              cacheVars, EntryLockHeld
<1>5. QED
  BY <1>1, <1>2, <1>3, <1>4 DEF OtherStep

\* A prune does not touch the unit's lock; a process that dies lets go of it.
LEMMA OtherUnitLockHeld ==
    ASSUME TypeOK, UnitLockHeld, OtherStep
    PROVE  UnitLockHeld'
<1>1. CASE \E t \in Threads, c \in Calls : Begin(t, c)
  BY <1>1 DEF Begin, Goto, Ended, UnderUnitLock, UnderEntryLock, UnitLockHeld,
              TypeOK, ServiceTypeOK
<1>2. CASE \E p \in Procs : ProcessEnds(p)
  BY <1>2 DEF ProcessEnds, UnderUnitLock, UnderEntryLock, UnitLockHeld, ThreadsOf,
              TypeOK, ServiceTypeOK
<1>3. CASE \E r \in Pruners : PruneStep(r) \/ PrunerCrash(r)
  <2>1. UNCHANGED <<pc, unitLock>>
    BY <1>3
    DEF PruneStep, PrunerCrash, PruneBegin, PruneInventory, PruneSelect, PruneTake,
        PruneUnlink, PruneRemoved, PruneEnd, serviceVars, threadVars
  <2>2. QED
    BY <2>1 DEF UnitLockHeld
<1>4. CASE Outside
  BY <1>4 DEF Outside, EditLock, ChangeWorld, DamageEntry, serviceVars, threadVars,
              UnitLockHeld
<1>5. QED
  BY <1>1, <1>2, <1>3, <1>4 DEF OtherStep

\* Removals exclude each other.
LEMMA OtherRemovalLocked ==
    ASSUME TypeOK, RemovalLocked, OtherStep
    PROVE  RemovalLocked'
<1> SUFFICES ASSUME NEW r \in Pruners, prunePc'[r] = "removing"
             PROVE  entryLock'[victim'[r]] = r
  BY DEF RemovalLocked
<1>1. CASE \E t \in Threads, c \in Calls : Begin(t, c) /\ UNCHANGED <<pruneVars, outsideVars>>
  BY <1>1 DEF Begin, RemovalLocked, pruneVars, cacheVars
<1>2. CASE \E p \in Procs : ProcessEnds(p)
  BY <1>2, CacheAssumption
  DEF ProcessEnds, RemovalLocked, ThreadsOf, pruneVars, TypeOK, CacheTypeOK
<1>3. CASE \E q \in Pruners : PruneStep(q) \/ PrunerCrash(q)
  <2>1. PICK q \in Pruners : PruneStep(q) \/ PrunerCrash(q)
    BY <1>3
  <2>2. CASE q # r
    <3>1. prunePc'[r] = prunePc[r] /\ victim'[r] = victim[r]
      BY <2>1, <2>2
      DEF PruneStep, PrunerCrash, PruneBegin, PruneInventory, PruneSelect, PruneTake,
          PruneUnlink, PruneRemoved, PruneEnd, PruneGoto, pruneVars, TypeOK
    <3>2. entryLock[victim[r]] = r /\ victim[r] \in Fingerprint
      BY <3>1 DEF RemovalLocked, TypeOK
    <3>3. \A f \in Fingerprint : entryLock[f] \notin {q, Free} => entryLock'[f] = entryLock[f]
      BY <2>1
      DEF PruneStep, PrunerCrash, PruneBegin, PruneInventory, PruneSelect, PruneTake,
          PruneUnlink, PruneRemoved, PruneEnd, Removable, RemovalLocked, cacheVars,
          TypeOK, CacheTypeOK
    <3>4. r \notin {q, Free}
      BY <2>2, CacheAssumption
    <3>5. QED
      BY <3>1, <3>2, <3>3, <3>4
  <2>3. CASE q = r
    <3>1. CASE \E f \in Fingerprint : PruneTake(r, f)
      BY <3>1 DEF PruneTake, PruneGoto, RemovalLocked, TypeOK, CacheTypeOK
    <3>2. CASE PruneUnlink(r)
      BY <3>2 DEF PruneUnlink, RemovalLocked, pruneVars
    <3>3. CASE ~PruneUnlink(r) /\ ~\E f \in Fingerprint : PruneTake(r, f)
      BY <2>1, <2>3, <3>3
      DEF PruneStep, PrunerCrash, PruneBegin, PruneInventory, PruneSelect,
          PruneRemoved, PruneEnd, PruneGoto, TypeOK
    <3>4. QED
      BY <3>1, <3>2, <3>3
  <2>4. QED
    BY <2>2, <2>3
<1>4. CASE Outside
  BY <1>4 DEF Outside, EditLock, ChangeWorld, DamageEntry, pruneVars, cacheVars,
              RemovalLocked
<1>5. QED
  BY <1>1, <1>2, <1>3, <1>4 DEF OtherStep

\* Nobody else writes Cargo's target directory.
LEMMA OtherLibraryBuilt ==
    ASSUME TypeOK, LibraryBuilt, OtherStep
    PROVE  LibraryBuilt'
<1>1. CASE \E t \in Threads, c \in Calls : Begin(t, c)
  BY <1>1 DEF Begin, Goto, LibraryBuilt, Builds, fileVars, TypeOK, ServiceTypeOK
<1>2. CASE \E p \in Procs : ProcessEnds(p)
  BY <1>2 DEF ProcessEnds, LibraryBuilt, Builds, fileVars, TypeOK, ServiceTypeOK
<1>3. CASE \E r \in Pruners : PruneStep(r) \/ PrunerCrash(r)
  <2>1. UNCHANGED <<pc, plan, call, target>>
    BY <1>3
    DEF PruneStep, PrunerCrash, PruneBegin, PruneInventory, PruneSelect, PruneTake,
        PruneUnlink, PruneRemoved, PruneEnd, serviceVars, threadVars, fileVars
  <2>2. QED
    BY <2>1 DEF LibraryBuilt, Builds
<1>4. CASE Outside
  <2>1. UNCHANGED <<pc, plan, call, target>>
    BY <1>4 DEF Outside, EditLock, ChangeWorld, DamageEntry, serviceVars,
                threadVars, fileVars
  <2>2. QED
    BY <2>1 DEF LibraryBuilt, Builds
<1>5. QED
  BY <1>1, <1>2, <1>3, <1>4 DEF OtherStep

\* A removal excludes a publication by the entry lock; the disk only damages.
LEMMA OtherPublishedEntryStays ==
    ASSUME TypeOK, EntryLockHeld, RemovalLocked, PublishedEntryStays, OtherStep
    PROVE  PublishedEntryStays'
<1> SUFFICES ASSUME NEW u \in Threads, pc'[u] \in Published
             PROVE  /\ digest'[u] # Missing
                    /\ artifact'[plan'[u]] \in {digest'[u], Damaged}
  BY DEF PublishedEntryStays, Published
<1>1. CASE \E t \in Threads, c \in Calls : Begin(t, c)
  BY <1>1 DEF Begin, Goto, Ended, Published, PublishedEntryStays, cacheVars, TypeOK,
              ServiceTypeOK
<1>2. CASE \E p \in Procs : ProcessEnds(p)
  BY <1>2 DEF ProcessEnds, Published, PublishedEntryStays, TypeOK, ServiceTypeOK
<1>3. CASE \E r \in Pruners : PruneStep(r) \/ PrunerCrash(r)
  <2>1. PICK r \in Pruners : PruneStep(r) \/ PrunerCrash(r)
    BY <1>3
  <2>2. UNCHANGED <<pc, plan, digest>>
    BY <2>1
    DEF PruneStep, PrunerCrash, PruneBegin, PruneInventory, PruneSelect, PruneTake,
        PruneUnlink, PruneRemoved, PruneEnd, serviceVars, threadVars
  <2>3. entryLock[plan[u]] = u
    BY <2>2 DEF EntryLockHeld, Published, UnderEntryLock
  <2>4. CASE PruneUnlink(r)
    <3>1. victim[r] # plan[u]
      BY <2>3, <2>4, CacheAssumption DEF PruneUnlink, RemovalLocked
    <3>2. artifact'[plan[u]] = artifact[plan[u]]
      BY <2>4, <3>1 DEF PruneUnlink, TypeOK, CacheTypeOK, ServiceTypeOK
    <3>3. QED
      BY <2>2, <3>2 DEF PublishedEntryStays, Published
  <2>5. CASE ~PruneUnlink(r)
    BY <2>1, <2>2, <2>5
    DEF PruneStep, PrunerCrash, PruneBegin, PruneInventory, PruneSelect, PruneTake,
        PruneRemoved, PruneEnd, cacheVars, PublishedEntryStays, Published
  <2>6. QED
    BY <2>4, <2>5
<1>4. CASE Outside
  <2>1. UNCHANGED <<pc, plan, digest>>
    BY <1>4 DEF Outside, EditLock, ChangeWorld, DamageEntry, serviceVars, threadVars
  <2>2. /\ plan[u] \in Fingerprint /\ digest[u] # Missing
        /\ artifact[plan[u]] \in {digest[u], Damaged}
    BY <2>1 DEF PublishedEntryStays, Published, TypeOK, ServiceTypeOK
  <2>3. artifact'[plan[u]] \in {artifact[plan[u]], Damaged}
    BY <1>4, <2>2 DEF Outside, EditLock, ChangeWorld, DamageEntry, cacheVars,
                      TypeOK, CacheTypeOK
  <2>4. QED
    BY <2>1, <2>2, <2>3
<1>5. QED
  BY <1>1, <1>2, <1>3, <1>4 DEF OtherStep

-----------------------------------------------------------------------------
(* The invariant and the theorem.                                          *)

\* The invariant holds initially: no locks, no files.
LEMMA InitLockInv == Init => LockInv
  BY InitTypeOK
  DEF LockInv, Init, CacheInit, ServiceInit, EntryLockHeld, UnitLockHeld,
      RemovalLocked, LibraryBuilt, PublishedEntryStays, UnderUnitLock, UnderEntryLock

\* The invariant is inductive.
LEMMA NextLockInv ==
    ASSUME LockInv, [Next]_vars
    PROVE  LockInv'
<1>1. TypeOK'
  BY NextTypeOK DEF LockInv
<1>2. CASE UNCHANGED vars
  BY <1>1, <1>2
  DEF vars, cacheVars, serviceVars, threadVars, fileVars, pruneVars, LockInv,
      EntryLockHeld, UnitLockHeld, RemovalLocked, LibraryBuilt,
      PublishedEntryStays, Builds
<1>3. CASE OtherStep
  BY <1>1, <1>3, OtherEntryLockHeld, OtherUnitLockHeld, OtherRemovalLocked,
     OtherLibraryBuilt, OtherPublishedEntryStays
  DEF LockInv
<1>4. CASE \E t \in Threads : CallStep(t) /\ UNCHANGED <<pruneVars, outsideVars>>
  BY <1>1, <1>4, CallEntryLockHeld, CallUnitLockHeld, CallRemovalLocked,
     CallLibraryBuilt, CallPublishedEntryStays
  DEF LockInv
<1>5. QED
  BY <1>2, <1>3, <1>4, NextCases

\* LockInv of every reachable state.
LEMMA LockInvariant == Spec => []LockInv
  BY InitLockInv, NextLockInv, PTL DEF Spec

\* What a call has published stays until the call returns: no other call, no
\* prune and no end of a process touches it, only the disk can damage it.
THEOREM PublishedEntriesStay == Spec => []PublishedEntryStays
  BY LockInvariant, PTL DEF LockInv

---------------------------------------------------------------------------
(***************************************************************************)
(* Why no step of the build system replaces or removes a library that a    *)
(* process has mapped: a load lease takes over from the entry lock before  *)
(* that is let go.                                                         *)
(***************************************************************************)

\* Every process has a lease file name of its own, which a process forked
\* after the import of crabwalk does not.
OwnLeaseFiles ==
    \A p, q \in Procs : LeaseId[p] = LeaseId[q] => p = q

\* Nobody maps an entry that a prune removes.
RemovalUnread ==
    \A r \in Pruners : prunePc[r] = "removing" =>
        \A p \in Procs : victim[r] \notin mapped[p]

\* The inductive invariant.
LibraryInv ==
    /\ LockInv
    /\ RemovalUnread
    /\ MappedIsLeased

-----------------------------------------------------------------------------
(* The invariant.                                                          *)

\* A thread at "retain" has one thing left to do.
LEMMA RetainIsLast ==
    ASSUME NEW t \in Threads, CallStep(t), pc[t] = "retain"
    PROVE  RetainLease(t)
  BY DEF LockBusy, CallStep, Start, BootstrapLock, BootstrapGenerate,
         BootstrapFails, BootstrapPersist, Plan, AcquireUnit, AcquireEntry,
         LockTimeout, Recheck, CopyLock, RunCargo, CargoFails, PersistLock,
         VerifyLock, PublishFails, KeepArtifact, ReplaceArtifact,
         WriteManifest, Touch, LoadExtension, LoadFails

\* Nobody maps an entry under removal: loading takes the entry lock first.
LEMMA CallRemovalUnread ==
    ASSUME LockInv, RemovalUnread, NEW t \in Threads, CallStep(t), UNCHANGED pruneVars
    PROVE  RemovalUnread'
<1> SUFFICES ASSUME NEW r \in Pruners, prunePc[r] = "removing", NEW p \in Procs
             PROVE  victim[r] \notin mapped'[p]
  BY DEF RemovalUnread, pruneVars
<1>1. entryLock[victim[r]] = r /\ victim[r] \notin mapped[p]
  BY DEF RemovalUnread, LockInv, RemovalLocked
<1>2. CASE LoadExtension(t)
  <2>1. entryLock[plan[t]] = t
    BY <1>2 DEF LoadExtension, LockInv, EntryLockHeld, UnderEntryLock
  <2>2. victim[r] # plan[t]
    BY <1>1, <2>1, CacheAssumption
  <2>3. QED
    BY <1>1, <1>2, <2>2 DEF LoadExtension, LockInv, TypeOK, CacheTypeOK
<1>3. CASE UNCHANGED mapped
  BY <1>1, <1>3
<1>4. QED
  BY <1>2, <1>3, OneWriterEach

\* A mapping is made at "loading", and its lease is taken next, at "retain".
LEMMA CallMappedIsLeased ==
    ASSUME TypeOK, OwnLeaseFiles, MappedIsLeased, NEW t \in Threads, CallStep(t)
    PROVE  MappedIsLeased'
<1> SUFFICES ASSUME NEW p \in Procs, NEW f \in mapped'[p]
             PROVE  \/ f \in lease'[p]
                    \/ \E u \in ThreadsOf(p) : pc'[u] = "retain" /\ plan'[u] = f
  BY DEF MappedIsLeased, ThreadsOf
<1>1. CASE f \in mapped[p] /\ f \in lease[p]
  <2>1. lease[p] \subseteq lease'[p]
    BY OneWriterEach DEF RetainLease, Retained, TypeOK, CacheTypeOK
  <2>2. QED
    BY <1>1, <2>1
<1>2. CASE f \in mapped[p] /\ f \notin lease[p]
  <2>1. PICK u \in ThreadsOf(p) : pc[u] = "retain" /\ plan[u] = f
    BY <1>2 DEF MappedIsLeased
  <2>2. CASE u # t
    BY <2>1, <2>2, OthersKeepLocals DEF ThreadsOf
  <2>3. CASE u = t
    <3>1. RetainLease(t) /\ p = ProcOf[t] /\ f = plan[t]
      BY <2>1, <2>3, RetainIsLast DEF ThreadsOf
    <3>2. ~LeaseFileBusy(p, f)
      BY DEF LeaseFileBusy, OwnLeaseFiles
    <3>3. f \in lease'[p]
      BY <3>1, <3>2 DEF RetainLease, Retained, TypeOK, CacheTypeOK
    <3>4. QED
      BY <3>3
  <2>4. QED
    BY <2>2, <2>3
<1>3. CASE f \notin mapped[p]
  <2>1. LoadExtension(t)
    BY <1>3, OneWriterEach
  <2>2. p = ProcOf[t] /\ f = plan[t]
    BY <1>3, <2>1 DEF LoadExtension, TypeOK, CacheTypeOK
  <2>3. pc'[t] = "retain" /\ plan'[t] = f
    BY <2>1, <2>2 DEF LoadExtension, Goto, TypeOK, ServiceTypeOK
  <2>4. QED
    BY <2>2, <2>3 DEF ThreadsOf
<1>4. QED
  BY <1>1, <1>2, <1>3

\* A prune takes an entry for removal only when no process holds a lease on it.
LEMMA OtherRemovalUnread ==
    ASSUME LockInv, RemovalUnread, MappedIsLeased, OtherStep
    PROVE  RemovalUnread'
<1> USE DEF LockInv
<1> SUFFICES ASSUME NEW r \in Pruners, prunePc'[r] = "removing", NEW p \in Procs
             PROVE  victim'[r] \notin mapped'[p]
  BY DEF RemovalUnread
<1>1. mapped'[p] \subseteq mapped[p]
  BY DEF OtherStep, Begin, ProcessEnds, PruneStep, PrunerCrash, PruneBegin,
         PruneInventory, PruneSelect, PruneTake, PruneUnlink, PruneRemoved, PruneEnd,
         Outside, EditLock, ChangeWorld, DamageEntry, cacheVars, TypeOK, CacheTypeOK
<1>2. CASE \E f \in Fingerprint : PruneTake(r, f) /\ Removable(r, f)
  <2>1. PICK f \in Fingerprint : PruneTake(r, f) /\ Removable(r, f)
    BY <1>2
  <2>2. victim'[r] = f
    BY <2>1 DEF PruneTake, TypeOK
  <2>3. f \notin mapped[p]
    BY <2>1, CacheAssumption
    DEF Removable, LeaseActive, MappedIsLeased, ThreadsOf, EntryLockHeld, UnderEntryLock
  <2>4. QED
    BY <1>1, <2>2, <2>3
<1>3. CASE ~\E f \in Fingerprint : PruneTake(r, f) /\ Removable(r, f)
  <2>1. prunePc[r] = "removing" /\ victim'[r] = victim[r]
    <3>1. CASE \E q \in Pruners : PruneStep(q) \/ PrunerCrash(q)
      <4>1. PICK q \in Pruners : PruneStep(q) \/ PrunerCrash(q)
        BY <3>1
      <4>2. CASE \E f \in Fingerprint : PruneTake(q, f)
        BY ZenonT(60), <1>3, <4>2 DEF PruneTake, PruneGoto, TypeOK
      <4>3. CASE ~\E f \in Fingerprint : PruneTake(q, f)
        BY <4>1, <4>3
        DEF PruneStep, PrunerCrash, PruneBegin, PruneInventory, PruneSelect,
            PruneUnlink, PruneRemoved, PruneEnd, PruneGoto, pruneVars, TypeOK
      <4>4. QED
        BY <4>2, <4>3
    <3>2. CASE UNCHANGED pruneVars
      BY <3>2 DEF pruneVars
    <3>3. QED
      BY <3>1, <3>2
      DEF OtherStep, ProcessEnds, Outside, EditLock, ChangeWorld, DamageEntry
  <2>2. QED
    BY <1>1, <2>1 DEF RemovalUnread
<1>4. QED
  BY <1>2, <1>3

\* Mappings and leases end together, with their process.
LEMMA OtherMappedIsLeased ==
    ASSUME TypeOK, MappedIsLeased, OtherStep
    PROVE  MappedIsLeased'
<1>1. CASE \E t \in Threads, c \in Calls : Begin(t, c)
  BY <1>1 DEF Begin, Goto, Ended, MappedIsLeased, ThreadsOf, cacheVars, TypeOK,
              ServiceTypeOK
<1>2. CASE \E p \in Procs : ProcessEnds(p)
  BY <1>2 DEF ProcessEnds, MappedIsLeased, ThreadsOf, TypeOK, CacheTypeOK, ServiceTypeOK
<1>3. CASE \E r \in Pruners : PruneStep(r) \/ PrunerCrash(r)
  <2>1. UNCHANGED <<pc, plan, mapped, lease>>
    BY <1>3
    DEF PruneStep, PrunerCrash, PruneBegin, PruneInventory, PruneSelect, PruneTake,
        PruneUnlink, PruneRemoved, PruneEnd, serviceVars, threadVars, cacheVars
  <2>2. QED
    BY <2>1 DEF MappedIsLeased, ThreadsOf
<1>4. CASE Outside
  <2>1. UNCHANGED <<pc, plan, mapped, lease>>
    BY <1>4 DEF Outside, EditLock, ChangeWorld, DamageEntry, serviceVars,
                threadVars, cacheVars
  <2>2. QED
    BY <2>1 DEF MappedIsLeased, ThreadsOf
<1>5. QED
  BY <1>1, <1>2, <1>3, <1>4 DEF OtherStep

\* The invariant holds initially: no mappings.
LEMMA InitLibraryInv == Init => LibraryInv
  BY InitLockInv
  DEF LibraryInv, Init, CacheInit, RemovalUnread, MappedIsLeased

\* The invariant is inductive.
LEMMA NextLibraryInv ==
    ASSUME OwnLeaseFiles, LibraryInv, [Next]_vars
    PROVE  LibraryInv'
<1>1. LockInv' /\ TypeOK
  BY NextLockInv DEF LibraryInv, LockInv
<1>2. CASE UNCHANGED vars
  BY <1>1, <1>2
  DEF vars, cacheVars, serviceVars, threadVars, pruneVars, LibraryInv, RemovalUnread,
      MappedIsLeased, ThreadsOf
<1>3. CASE OtherStep
  BY <1>1, <1>3, OtherRemovalUnread, OtherMappedIsLeased DEF LibraryInv
<1>4. CASE \E t \in Threads : CallStep(t) /\ UNCHANGED <<pruneVars, outsideVars>>
  BY <1>1, <1>4, CallRemovalUnread, CallMappedIsLeased DEF LibraryInv
<1>5. QED
  BY <1>2, <1>3, <1>4, NextCases

\* LibraryInv of every reachable state, if lease file names are not shared.
LEMMA LibraryInvariant ==
    ASSUME OwnLeaseFiles
    PROVE  Spec => []LibraryInv
  BY InitLibraryInv, NextLibraryInv, PTL DEF Spec

\* A mapped library is always covered by its process's lease, or by the entry
\* lock of the thread that is about to take it.
THEOREM MappedLibrariesAreLeased ==
    ASSUME OwnLeaseFiles
    PROVE  Spec => []MappedIsLeased
  BY LibraryInvariant, PTL DEF LibraryInv

-----------------------------------------------------------------------------
(* The build system implements the store of mapped libraries.              *)

\* A call's step publishes an entry nobody maps, or attaches a reader to an
\* entry that is there, or leaves the store alone.
LEMMA CallImplementsStore ==
    ASSUME LibraryInv, NEW t \in Threads, CallStep(t)
    PROVE  [Store!Next]_<<artifact, mapped>>
<1> USE DEF LibraryInv, LockInv
<1>0. plan[t] \in Fingerprint /\ ProcOf[t] \in Procs
  BY ServiceAssumption DEF TypeOK, ServiceTypeOK
<1>1. CASE ReplaceArtifact(t)
  <2>1. entryLock[plan[t]] = t /\ target[plan[t]] # Missing
    BY <1>1 DEF ReplaceArtifact, EntryLockHeld, UnderEntryLock, LibraryBuilt
  <2>2. \A p \in Procs : plan[t] \notin mapped[p]
    BY <1>1, <2>1
    DEF ReplaceArtifact, LeaseActive, MappedIsLeased, ThreadsOf, EntryLockHeld,
        UnderEntryLock
  <2>3. target[plan[t]] \in Binary
    BY <1>0, <2>1 DEF TypeOK, ServiceTypeOK
  <2>4. Store!Publish(plan[t], target[plan[t]])
    BY <1>1, <2>2 DEF ReplaceArtifact, Store!Publish, Store!Unread
  <2>5. QED
    BY <1>0, <2>3, <2>4 DEF Store!Next
<1>2. CASE LoadExtension(t)
  <2>1. artifact[plan[t]] # Missing
    BY <1>2, CacheAssumption DEF LoadExtension, PublishedEntryStays
  <2>2. Store!Attach(ProcOf[t], plan[t])
    BY <1>2, <2>1 DEF LoadExtension, Store!Attach
  <2>3. QED
    BY <1>0, <2>2 DEF Store!Next
<1>3. CASE UNCHANGED <<artifact, mapped>>
  BY <1>3
<1>4. QED
  BY <1>1, <1>2, <1>3, OneWriterEach DEF ReplaceArtifact, LoadExtension

\* The other steps remove, detach, damage, or leave the store alone.
LEMMA OtherImplementsStore ==
    ASSUME LibraryInv, OtherStep
    PROVE  [Store!Next]_<<artifact, mapped>>
<1> USE DEF LibraryInv, LockInv
<1>1. CASE \E r \in Pruners : PruneUnlink(r)
  <2>1. PICK r \in Pruners : PruneUnlink(r)
    BY <1>1
  <2>2. victim[r] \in Fingerprint /\ \A p \in Procs : victim[r] \notin mapped[p]
    BY <2>1 DEF PruneUnlink, RemovalUnread, TypeOK
  <2>3. Store!Remove(victim[r]) \/ UNCHANGED <<artifact, mapped>>
    BY <2>1, <2>2 DEF PruneUnlink, Store!Remove, Store!Unread
  <2>4. QED
    BY <2>2, <2>3 DEF Store!Next
<1>2. CASE \E p \in Procs : ProcessEnds(p)
  BY <1>2 DEF ProcessEnds, Store!Next, Store!Detach
<1>3. CASE \E f \in Fingerprint : DamageEntry(f)
  <2>1. PICK f \in Fingerprint : DamageEntry(f)
    BY <1>3
  <2>2. Store!Damage(f) \/ UNCHANGED <<artifact, mapped>>
    BY <2>1 DEF DamageEntry, Store!Damage
  <2>3. QED
    BY <2>1, <2>2 DEF Store!Next
<1>4. CASE UNCHANGED <<artifact, mapped>>
  BY <1>4
<1>5. QED
  BY <1>1, <1>2, <1>3, <1>4
  DEF OtherStep, Begin, PruneStep, PrunerCrash, PruneBegin, PruneInventory,
      PruneSelect, PruneTake, PruneRemoved, PruneEnd, Outside, EditLock, ChangeWorld,
      cacheVars

\* No step replaces or removes a library while some process maps it: the
\* system implements MappedStore, if lease file names are not shared.
THEOREM ImplementsMappedStore ==
    ASSUME OwnLeaseFiles
    PROVE  Spec => StoreSpec
<1>1. Init => Store!Init
  BY DEF Init, CacheInit, Store!Init
<1>2. LibraryInv /\ [Next]_vars => [Store!Next]_<<artifact, mapped>>
  <2> SUFFICES ASSUME LibraryInv, [Next]_vars
               PROVE  [Store!Next]_<<artifact, mapped>>
    OBVIOUS
  <2>1. CASE UNCHANGED vars
    BY <2>1 DEF vars, cacheVars
  <2>2. QED
    BY <2>1, NextCases, CallImplementsStore, OtherImplementsStore
<1>3. QED
  BY <1>1, <1>2, LibraryInvariant, PTL DEF Spec, StoreSpec, Store!Spec, Store!storeVars
============================================================================
