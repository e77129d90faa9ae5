------------------------ MODULE CacheIntegrityProofs ------------------------
(***************************************************************************)
(* Why a verified entry holds what its fingerprint names, and keeps it,    *)
(* and why a resolved dependency lock is not rewritten: under the two      *)
(* locks of compile_path nothing moves but what the outside world moves,   *)
(* and that is excluded from two windows only.                             *)
(***************************************************************************)
EXTENDS BuildSystemProofs

\* Nobody writes the dependency lock between PersistLock and VerifyLock.
EditExcluded == "editRacesVerify" \notin Faults

\* The disk spares an entry between an inspection that said "hit" and the
\* publication that relies on it.
DamageExcluded == "damageRacesBuild" \notin Faults

\* Between its inspection and its publication a call knows whether its entry
\* verifies.
Inspected == {"copy", "cargo", "persist", "verify", "publish"}

InspectionStands ==
    \A t \in Threads : pc[t] \in Inspected => hit[t] = Hit(plan[t])

\* Damaged bytes are never signed.
NothingDamagedSigned ==
    /\ \A f \in Fingerprint : manifest[f] # Damaged
    /\ \A t \in Threads : pc[t] \in Published => digest[t] # Damaged

\* Cargo's output was built from the Cargo.lock of the generated project, and
\* when it is published, from the lock of the plan.
BuiltFromLock ==
    \A t \in Threads :
        /\ pc[t] \in {"persist", "verify"} /\ Builds(t) =>
               target[plan[t]].lock = genLock[plan[t]]
        /\ pc[t] = "verify" => depLock = genLock[plan[t]]
        /\ pc[t] = "publish" => target[plan[t]].lock = plan[t].lock

\* Nothing lies under a fingerprint but damage and what was built from its lock.
EntriesMatchLock ==
    \A f \in Fingerprint :
        artifact[f] \notin {Missing, Damaged} => artifact[f].lock = f.lock

\* While nobody else has written it, the unit's lock moves under the unit's
\* file lock only, and a resolved one is the one Cargo gets and leaves.
LockInHand ==
    edits = 0 => \A t \in Threads :
        /\ pc[t] \in {"boot", "bootPersist"} => depLock = Missing
        /\ pc[t] = "cargo" /\ depLock # Missing => genLock[plan[t]] = depLock
        /\ pc[t] = "persist" /\ depLock \in Resolved => genLock[plan[t]] = depLock

\* The two inductive invariants, one on top of the other.
SignedInv == LockInv /\ InspectionStands /\ NothingDamagedSigned
MatchInv == SignedInv /\ BuiltFromLock /\ EntriesMatchLock
HandInv == LockInv /\ LockInHand

-----------------------------------------------------------------------------
(* How a call comes to where it stands.                                    *)

\* Six labels are each reached by one action.
LEMMA CameBy ==
    ASSUME TypeOK, NEW t \in Threads, CallStep(t)
    PROVE  /\ pc'[t] = "boot" => BootstrapLock(t)
           /\ pc'[t] = "bootPersist" => BootstrapGenerate(t)
           /\ pc'[t] = "cargo" => CopyLock(t)
           /\ pc'[t] = "persist" => RunCargo(t)
           /\ pc'[t] = "verify" => PersistLock(t)
           /\ pc'[t] = "publish" => VerifyLock(t)
  BY ZenonT(60) DEF TypeOK, ServiceTypeOK, Goto, Return, Replan,
         CallStep, Start, BootstrapLock, BootstrapGenerate, BootstrapFails,
         BootstrapPersist, Plan, AcquireUnit, AcquireEntry, LockTimeout, Recheck,
         CopyLock, RunCargo, CargoFails, PersistLock, VerifyLock, PublishFails,
         KeepArtifact, ReplaceArtifact, WriteManifest, Touch, LoadExtension,
         LoadFails, RetainLease

\* From its inspection to its publication a call leaves the entry alone.
LEMMA StaysInspected ==
    ASSUME TypeOK, NEW t \in Threads, CallStep(t), pc'[t] \in Inspected
    PROVE  \/ Recheck(t)
           \/ /\ pc[t] \in Inspected
              /\ UNCHANGED <<plan, hit, artifact, manifest>>
  BY DEF TypeOK, ServiceTypeOK, Goto, Return, Replan, Ended, Inspected, cacheVars,
         CallStep, Start, BootstrapLock, BootstrapGenerate, BootstrapFails,
         BootstrapPersist, Plan, AcquireUnit, AcquireEntry, LockTimeout,
         CopyLock, RunCargo, CargoFails, PersistLock, VerifyLock, PublishFails,
         KeepArtifact, ReplaceArtifact, WriteManifest, Touch, LoadExtension,
         LoadFails, RetainLease

\* While one thread is under the unit's lock, no other call moves its files.
LEMMA UnitExclusion ==
    ASSUME LockInv, NEW t \in Threads, CallStep(t), NEW u \in Threads, u # t,
           pc[u] \in UnderUnitLock
    PROVE  UNCHANGED <<depLock, genLock, target>>
<1>1. pc[t] \notin UnderUnitLock
  BY DEF LockInv, UnitLockHeld
<1>2. QED
  BY <1>1, OneWriterEach
  DEF BootstrapPersist, PersistLock, CopyLock, RunCargo, CargoFails, UnderUnitLock,
      UnderEntryLock

\* While one thread is under an entry's lock, no other call writes the entry.
LEMMA EntryExclusion ==
    ASSUME LockInv, NEW t \in Threads, CallStep(t), NEW u \in Threads, u # t,
           pc[u] \in UnderEntryLock
    PROVE  /\ artifact'[plan[u]] = artifact[plan[u]]
           /\ manifest'[plan[u]] = manifest[plan[u]]
<1>1. pc[t] \in UnderEntryLock => plan[t] # plan[u]
  BY DEF LockInv, EntryLockHeld
<1>2. artifact'[plan[u]] = artifact[plan[u]]
  BY <1>1, OneWriterEach
  DEF ReplaceArtifact, UnderEntryLock, LockInv, TypeOK, CacheTypeOK, ServiceTypeOK
<1>3. manifest'[plan[u]] = manifest[plan[u]]
  BY <1>1, OneWriterEach
  DEF WriteManifest, UnderEntryLock, LockInv, TypeOK, CacheTypeOK, ServiceTypeOK
<1>4. QED
  BY <1>2, <1>3

\* Nor does a prune, or anything else but the disk.
LEMMA OthersSpareEntry ==
    ASSUME LockInv, OtherStep, NEW u \in Threads, pc[u] \in UnderEntryLock
    PROVE  \/ /\ artifact'[plan[u]] = artifact[plan[u]]
              /\ manifest'[plan[u]] = manifest[plan[u]]
           \/ DamageEntry(plan[u])
<1> USE DEF LockInv
<1>1. entryLock[plan[u]] = u /\ plan[u] \in Fingerprint
  BY DEF EntryLockHeld, TypeOK, ServiceTypeOK
<1>2. CASE \E r \in Pruners : PruneUnlink(r)
  <2>1. PICK r \in Pruners : PruneUnlink(r)
    BY <1>2
  <2>2. victim[r] # plan[u]
    BY <1>1, <2>1, CacheAssumption DEF PruneUnlink, RemovalLocked
  <2>3. artifact' \in {artifact, [artifact EXCEPT ![victim[r]] = Missing]}
    BY <2>1 DEF PruneUnlink
  <2>4. manifest' \in {manifest, [manifest EXCEPT ![victim[r]] = Missing]}
    BY <2>1 DEF PruneUnlink
  <2>5. QED
    BY <1>1, <2>2, <2>3, <2>4 DEF TypeOK, CacheTypeOK
<1>3. CASE \E f \in Fingerprint : DamageEntry(f)
  <2>1. PICK f \in Fingerprint : DamageEntry(f)
    BY <1>3
  <2>2. artifact' \in {artifact, [artifact EXCEPT ![f] = Damaged]}
    BY <2>1 DEF DamageEntry
  <2>3. manifest' \in {manifest, [manifest EXCEPT ![f] = Missing]}
    BY <2>1 DEF DamageEntry
  <2>4. CASE f # plan[u]
    BY <1>1, <2>2, <2>3, <2>4 DEF TypeOK, CacheTypeOK
  <2>5. QED
    BY <2>1, <2>4
<1>4. CASE UNCHANGED <<artifact, manifest>>
  BY <1>4
<1>5. QED
  BY <1>2, <1>3, <1>4
  DEF OtherStep, Begin, ProcessEnds, PruneStep, PrunerCrash, PruneBegin,
      PruneInventory, PruneSelect, PruneTake, PruneRemoved, PruneEnd, Outside,
      EditLock, ChangeWorld, cacheVars

\* The other steps move no thread to a place inside compile_path but the first.
LEMMA OthersStay ==
    ASSUME TypeOK, OtherStep, NEW u \in Threads, pc'[u] \in UnderUnitLock
    PROVE  /\ pc'[u] = pc[u] /\ plan'[u] = plan[u] /\ call'[u] = call[u]
           /\ hit'[u] = hit[u] /\ digest'[u] = digest[u]
<1>1. CASE \E t \in Threads, c \in Calls : Begin(t, c)
  BY <1>1 DEF Begin, Goto, UnderUnitLock, UnderEntryLock, TypeOK, ServiceTypeOK
<1>2. CASE \E p \in Procs : ProcessEnds(p)
  <2>1. PICK p \in Procs : ProcessEnds(p)
    BY <1>2
  <2>2. u \notin ThreadsOf(p)
    BY <2>1 DEF ProcessEnds, UnderUnitLock, UnderEntryLock
  <2>3. QED
    BY <2>1, <2>2 DEF ProcessEnds
<1>3. CASE \E r \in Pruners : PruneStep(r) \/ PrunerCrash(r)
  <2>1. UNCHANGED serviceVars
    BY <1>3
    DEF PruneStep, PrunerCrash, PruneBegin, PruneInventory, PruneSelect, PruneTake,
        PruneUnlink, PruneRemoved, PruneEnd
  <2>2. QED
    BY <2>1 DEF serviceVars, threadVars
<1>4. CASE Outside
  BY <1>4 DEF Outside, EditLock, ChangeWorld, DamageEntry, serviceVars, threadVars
<1>5. QED
  BY <1>1, <1>2, <1>3, <1>4 DEF OtherStep

\* Nor do they touch the unit's files, but for an edit of its dependency lock.
LEMMA OthersSpareUnit ==
    ASSUME OtherStep
    PROVE  /\ UNCHANGED <<genLock, target>>
           /\ UNCHANGED <<depLock, edits>> \/ \E v \in Versions \cup {Missing} : EditLock(v)
<1>1. CASE \E t \in Threads, c \in Calls : Begin(t, c) /\ UNCHANGED <<pruneVars, outsideVars>>
  BY <1>1 DEF Begin, fileVars, outsideVars
<1>2. CASE \E p \in Procs : ProcessEnds(p)
  BY <1>2 DEF ProcessEnds, fileVars, outsideVars
<1>3. CASE \E r \in Pruners : PruneStep(r) \/ PrunerCrash(r)
  BY <1>3
  DEF PruneStep, PrunerCrash, PruneBegin, PruneInventory, PruneSelect, PruneTake,
      PruneUnlink, PruneRemoved, PruneEnd, serviceVars, fileVars, outsideVars
<1>4. CASE \E v \in Versions \cup {Missing} : EditLock(v)
  BY <1>4 DEF EditLock
<1>5. CASE \E w \in Worlds : ChangeWorld(w)
  BY <1>5 DEF ChangeWorld
<1>6. CASE \E f \in Fingerprint : DamageEntry(f)
  BY <1>6 DEF DamageEntry, serviceVars, fileVars
<1>7. QED
  BY <1>1, <1>2, <1>3, <1>4, <1>5, <1>6 DEF OtherStep, Outside

\* And to an entry they do nothing but remove and damage it.
LEMMA OthersOnlyDestroy ==
    ASSUME TypeOK, OtherStep, NEW f \in Fingerprint
    PROVE  /\ artifact'[f] \in {artifact[f], Missing, Damaged}
           /\ manifest'[f] \in {manifest[f], Missing}
  BY ZenonT(60) DEF OtherStep, Begin, ProcessEnds, PruneStep, PrunerCrash, PruneBegin,
         PruneInventory, PruneSelect, PruneTake, PruneUnlink, PruneRemoved, PruneEnd,
         Outside, EditLock, ChangeWorld, DamageEntry, cacheVars, TypeOK, CacheTypeOK

-----------------------------------------------------------------------------
(* What is signed.                                                         *)

\* What an inspection found stays true until the publication.
LEMMA StepInspectionStands ==
    ASSUME DamageExcluded, SignedInv, Next
    PROVE  InspectionStands'
<1> USE DEF SignedInv, LockInv
<1> SUFFICES ASSUME NEW u \in Threads, pc'[u] \in Inspected
             PROVE  hit'[u] = Hit(plan[u])'
  BY DEF InspectionStands
<1>0. Inspected \subseteq UnderEntryLock /\ Inspected \subseteq UnderUnitLock
  BY DEF Inspected, UnderUnitLock, UnderEntryLock
<1>1. CASE \E t \in Threads : CallStep(t)
  <2>1. PICK t \in Threads : CallStep(t)
    BY <1>1
  <2>2. CASE u = t
    <3>1. CASE Recheck(t) /\ ~(pc[t] \in Inspected)
      <4>1. hit' = [hit EXCEPT ![t] = Hit(plan[t])] /\ UNCHANGED <<plan, artifact, manifest>>
        BY <2>2, <3>1
        DEF Recheck, Replan, Return, Goto, Inspected, Ended, TypeOK, ServiceTypeOK
      <4>2. QED
        BY <2>2, <4>1 DEF Hit, TypeOK, ServiceTypeOK
    <3>2. CASE pc[t] \in Inspected /\ UNCHANGED <<plan, hit, artifact, manifest>>
      BY <2>2, <3>2 DEF InspectionStands, Hit
    <3>3. QED
      BY <2>1, <2>2, <3>1, <3>2, StaysInspected DEF Recheck, Inspected
  <2>3. CASE u # t
    <3>1. pc'[u] = pc[u] /\ plan'[u] = plan[u] /\ hit'[u] = hit[u]
      BY <2>1, <2>3, OthersKeepLocals
    <3>2. /\ artifact'[plan[u]] = artifact[plan[u]]
          /\ manifest'[plan[u]] = manifest[plan[u]]
      BY <1>0, <2>1, <2>3, <3>1, EntryExclusion
    <3>3. QED
      BY <3>1, <3>2 DEF InspectionStands, Hit
  <2>4. QED
    BY <2>2, <2>3
<1>2. CASE OtherStep
  <2>1. pc'[u] = pc[u] /\ plan'[u] = plan[u] /\ hit'[u] = hit[u]
    BY <1>0, <1>2, OthersStay
  <2>2. hit[u] = Hit(plan[u]) /\ plan[u] \in Fingerprint
    BY <2>1 DEF InspectionStands, TypeOK, ServiceTypeOK
  <2>3. CASE DamageEntry(plan[u])
    <3>1. ~hit[u]
      BY <2>1, <2>3 DEF DamageEntry, TrustsInspection, DamageExcluded, Inspected
    <3>2. ~Hit(plan[u])'
      <4>1. CASE artifact' = [artifact EXCEPT ![plan[u]] = Damaged] /\ UNCHANGED manifest
        <5>1. artifact'[plan[u]] = Damaged /\ manifest'[plan[u]] # Damaged
          BY <2>2, <4>1 DEF NothingDamagedSigned, TypeOK, CacheTypeOK
        <5>2. QED
          BY <2>1, <5>1 DEF Hit
      <4>2. CASE manifest' = [manifest EXCEPT ![plan[u]] = Missing] /\ UNCHANGED artifact
        <5>1. manifest'[plan[u]] = Missing
          BY <2>2, <4>2 DEF TypeOK, CacheTypeOK
        <5>2. QED
          BY <2>1, <5>1 DEF Hit
      <4>3. QED
        BY <2>3, <4>1, <4>2 DEF DamageEntry
    <3>3. hit[u] \in BOOLEAN /\ Hit(plan[u])' \in BOOLEAN
      BY DEF Hit, TypeOK, ServiceTypeOK
    <3>4. QED
      BY <2>1, <3>1, <3>2, <3>3
  <2>4. CASE /\ artifact'[plan[u]] = artifact[plan[u]]
             /\ manifest'[plan[u]] = manifest[plan[u]]
    BY <2>1, <2>2, <2>4 DEF Hit
  <2>5. QED
    BY <1>0, <1>2, <2>1, <2>3, <2>4, OthersSpareEntry
<1>3. QED
  BY <1>1, <1>2, NextCases

\* A call signs Cargo's output or an entry that verifies.
LEMMA StepNothingDamagedSigned ==
    ASSUME SignedInv, Next
    PROVE  NothingDamagedSigned'
<1> USE DEF SignedInv, LockInv
<1>1. CASE \E t \in Threads : CallStep(t)
  <2>1. PICK t \in Threads : CallStep(t)
    BY <1>1
  <2>2. ASSUME NEW f \in Fingerprint PROVE manifest'[f] # Damaged
    <3>1. CASE WriteManifest(t)
      BY <3>1 DEF WriteManifest, NothingDamagedSigned, Published, TypeOK, CacheTypeOK
    <3>2. QED
      BY <2>1, <3>1, OneWriterEach DEF NothingDamagedSigned
  <2>3. ASSUME NEW u \in Threads, pc'[u] \in Published PROVE digest'[u] # Damaged
    <3>1. CASE u # t
      BY <2>1, <2>3, <3>1, OthersKeepLocals DEF NothingDamagedSigned
    <3>2. CASE u = t /\ (ReplaceArtifact(t) \/ KeepArtifact(t))
      <4>1. /\ pc[t] = "publish" /\ plan[t] \in Fingerprint
            /\ target[plan[t]] \notin {Missing, Damaged}
            /\ hit[t] = Hit(plan[t])
        BY <3>2, BinaryAssumption, CacheAssumption
        DEF ReplaceArtifact, KeepArtifact, LibraryBuilt, InspectionStands, Inspected,
            TypeOK, ServiceTypeOK
      <4>2. CASE ReplaceArtifact(t)
        BY <3>2, <4>1, <4>2 DEF ReplaceArtifact, TypeOK, ServiceTypeOK
      <4>3. CASE KeepArtifact(t)
        <5>1. digest'[t] = artifact[plan[t]]
          BY <4>3 DEF KeepArtifact, TypeOK, ServiceTypeOK
        <5>2. artifact[plan[t]] = target[plan[t]] \/ hit[t]
          BY <4>3 DEF KeepArtifact, Outdated, HitDiffers
        <5>3. QED
          BY <3>2, <4>1, <5>1, <5>2 DEF Hit, NothingDamagedSigned
      <4>4. QED
        BY <3>2, <4>2, <4>3
    <3>3. CASE u = t /\ pc[t] \in Published /\ UNCHANGED <<digest, plan, artifact>>
      BY <3>3 DEF NothingDamagedSigned
    <3>4. QED
      BY <2>1, <2>3, <3>1, <3>2, <3>3, StaysPublished
  <2>4. QED
    BY <2>2, <2>3 DEF NothingDamagedSigned
<1>2. CASE OtherStep
  <2>1. \A u \in Threads : pc'[u] \in Published => digest'[u] # Damaged
    BY <1>2, OthersStay DEF NothingDamagedSigned, Published, UnderUnitLock, UnderEntryLock
  <2>2. QED
    BY <1>2, <2>1, OthersOnlyDestroy, CacheAssumption DEF NothingDamagedSigned
<1>3. QED
  BY <1>1, <1>2, NextCases

\* Both survive every step.
LEMMA NextSignedInv ==
    ASSUME DamageExcluded, SignedInv, [Next]_vars
    PROVE  SignedInv'
<1>1. LockInv'
  BY NextLockInv DEF SignedInv
<1>2. CASE Next
  BY <1>1, <1>2, StepInspectionStands, StepNothingDamagedSigned DEF SignedInv
<1>3. CASE UNCHANGED vars
  BY <1>1, <1>3
  DEF SignedInv, InspectionStands, NothingDamagedSigned, Hit, vars, cacheVars,
      serviceVars, threadVars
<1>4. QED
  BY <1>2, <1>3

\* They hold initially: no entries, no calls.
LEMMA InitSignedInv == Init => SignedInv
  BY InitLockInv, CacheAssumption
  DEF Init, CacheInit, ServiceInit, SignedInv, InspectionStands,
      NothingDamagedSigned, Inspected, Published

\* A publication replaces an entry it found not to verify only.
LEMMA StepSparesVerified ==
    ASSUME SignedInv, Next, NEW f \in Fingerprint, Hit(f)
    PROVE  artifact'[f] \in {artifact[f], Missing, Damaged}
<1> USE DEF SignedInv, LockInv
<1>1. CASE \E t \in Threads : ReplaceArtifact(t)
  <2>1. PICK t \in Threads : ReplaceArtifact(t)
    BY <1>1
  <2>2. ~hit[t] /\ hit[t] = Hit(plan[t])
    BY <2>1 DEF ReplaceArtifact, Outdated, HitDiffers, InspectionStands, Inspected
  <2>3. f # plan[t]
    BY <2>2
  <2>4. QED
    BY <2>1, <2>3 DEF ReplaceArtifact, TypeOK, CacheTypeOK
<1>2. CASE (\E t \in Threads : CallStep(t)) /\ ~\E t \in Threads : ReplaceArtifact(t)
  BY <1>2, OneWriterEach
<1>3. CASE OtherStep
  BY <1>3, OthersOnlyDestroy
<1>4. QED
  BY <1>1, <1>2, <1>3, NextCases

\* A verified entry is never rewritten with other bytes: as long as the disk
\* does not damage it between an inspection and the publication that relies on
\* the inspection, builds keep it or fail, only prunes remove it and only the
\* disk damages it.
THEOREM VerifiedEntriesAreImmutable ==
    ASSUME DamageExcluded
    PROVE  Spec => VerifiedIsImmutable
<1>1. Init => SignedInv
  BY InitSignedInv
<1>2. SignedInv /\ [Next]_vars => SignedInv'
  BY NextSignedInv
<1>3. SignedInv /\ [Next]_vars =>
          [\A f \in Fingerprint :
              Hit(f) => artifact'[f] \in {artifact[f], Missing, Damaged}]_vars
  BY StepSparesVerified
<1>4. QED
  BY <1>1, <1>2, <1>3, PTL DEF Spec, VerifiedIsImmutable

-----------------------------------------------------------------------------
(* What it was built from.                                                 *)

\* The locks of Cargo's output, of the unit and of the plan come to agree.
LEMMA StepBuiltFromLock ==
    ASSUME EditExcluded, MatchInv, Next
    PROVE  BuiltFromLock'
<1> USE DEF MatchInv, SignedInv, LockInv
<1> DEFINE Agree(u) ==
        /\ pc[u] \in {"persist", "verify"} /\ Builds(u) =>
               target[plan[u]].lock = genLock[plan[u]]
        /\ pc[u] = "verify" => depLock = genLock[plan[u]]
        /\ pc[u] = "publish" => target[plan[u]].lock = plan[u].lock
<1> SUFFICES ASSUME NEW u \in Threads, pc'[u] \in {"persist", "verify", "publish"}
             PROVE  Agree(u)'
  BY DEF BuiltFromLock
<1>0. Agree(u)
  BY DEF BuiltFromLock
<1>1. CASE \E t \in Threads : CallStep(t)
  <2>1. PICK t \in Threads : CallStep(t)
    BY <1>1
  <2>2. CASE u = t /\ RunCargo(t)
    <3>1. PICK l \in CargoLocks(call[t].locked, genLock[plan[t]]) :
              /\ genLock' = [genLock EXCEPT ![plan[t]] = l]
              /\ \/ Builds(t) /\ target' = [target EXCEPT ![plan[t]] =
                                                  [lock |-> l, world |-> world]]
                 \/ ~Builds(t)
      BY <2>2 DEF RunCargo
    <3>2. pc'[t] = "persist" /\ UNCHANGED <<plan, call>>
      BY <2>2 DEF RunCargo, Goto, TypeOK, ServiceTypeOK
    <3>3. QED
      BY <2>2, <3>1, <3>2 DEF Builds, TypeOK, ServiceTypeOK
  <2>3. CASE u = t /\ PersistLock(t)
    BY <1>0, <2>3 DEF PersistLock, Goto, Builds, TypeOK, ServiceTypeOK
  <2>4. CASE u = t /\ VerifyLock(t)
    <3>1. pc'[t] = "publish"
      BY <2>4 DEF VerifyLock, Replan, Return, Goto, TypeOK, ServiceTypeOK
    <3>2. /\ pc[t] = "verify" /\ Builds(t) /\ ~LockHashChanged(plan[t])
          /\ UNCHANGED <<plan, target>>
      BY <2>4, <3>1
      DEF VerifyLock, Replan, Return, Goto, fileVars, TypeOK, ServiceTypeOK
    <3>3. target[plan[t]].lock = depLock
      BY <1>0, <2>4, <3>2
    <3>4. depLock # Missing
      BY <3>2, <3>3, CacheAssumption DEF LibraryBuilt, Binary, TypeOK, ServiceTypeOK
    <3>5. QED
      BY <2>4, <3>1, <3>2, <3>3, <3>4 DEF LockHashChanged
  <2>5. CASE u # t
    <3>1. pc'[u] = pc[u] /\ plan'[u] = plan[u] /\ call'[u] = call[u]
      BY <2>1, <2>5, OthersKeepLocals
    <3>2. UNCHANGED <<depLock, genLock, target>>
      BY <2>1, <2>5, <3>1, UnitExclusion DEF UnderUnitLock, UnderEntryLock
    <3>3. QED
      BY <1>0, <3>1, <3>2 DEF Builds
  <2>6. QED
    BY <2>1, <2>2, <2>3, <2>4, <2>5, CameBy
<1>2. CASE OtherStep
  <2>1. pc'[u] = pc[u] /\ plan'[u] = plan[u] /\ call'[u] = call[u]
    BY <1>2, OthersStay DEF UnderUnitLock, UnderEntryLock
  <2>2. UNCHANGED <<genLock, target>> /\ (pc[u] = "verify" => UNCHANGED depLock)
    BY <1>2, OthersSpareUnit DEF EditLock, EditExcluded
  <2>3. QED
    BY <1>0, <2>1, <2>2 DEF Builds
<1>3. QED
  BY <1>1, <1>2, NextCases

\* A publication brings what was built from the lock of the plan.
LEMMA StepEntriesMatchLock ==
    ASSUME MatchInv, Next
    PROVE  EntriesMatchLock'
<1> USE DEF MatchInv, SignedInv, LockInv
<1> SUFFICES ASSUME NEW f \in Fingerprint, artifact'[f] \notin {Missing, Damaged}
             PROVE  artifact'[f].lock = f.lock
  BY DEF EntriesMatchLock
<1>1. CASE \E t \in Threads : ReplaceArtifact(t)
  <2>1. PICK t \in Threads : ReplaceArtifact(t)
    BY <1>1
  <2>2. target[plan[t]].lock = plan[t].lock /\ plan[t] \in Fingerprint
    BY <2>1 DEF ReplaceArtifact, BuiltFromLock, TypeOK, ServiceTypeOK
  <2>3. CASE f = plan[t]
    BY <2>1, <2>2, <2>3 DEF ReplaceArtifact, TypeOK, CacheTypeOK
  <2>4. CASE f # plan[t]
    BY <2>1, <2>4 DEF ReplaceArtifact, EntriesMatchLock, TypeOK, CacheTypeOK
  <2>5. QED
    BY <2>3, <2>4
<1>2. CASE (\E t \in Threads : CallStep(t)) /\ ~\E t \in Threads : ReplaceArtifact(t)
  BY <1>2, OneWriterEach DEF EntriesMatchLock
<1>3. CASE OtherStep
  BY <1>3, OthersOnlyDestroy DEF EntriesMatchLock
<1>4. QED
  BY <1>1, <1>2, <1>3, NextCases

\* An entry that verifies was built from the dependency lock its fingerprint
\* names, as long as nobody writes the lock between a call's PersistLock and
\* VerifyLock, and the disk spares an entry that a call relies on.
THEOREM VerifiedEntriesMatchLock ==
    ASSUME EditExcluded, DamageExcluded
    PROVE  Spec => []VerifiedMatchesLock
<1>1. Init => MatchInv
  BY InitSignedInv
  DEF Init, CacheInit, ServiceInit, MatchInv, BuiltFromLock, EntriesMatchLock
<1>2. MatchInv /\ [Next]_vars => MatchInv'
  <2> SUFFICES ASSUME MatchInv, [Next]_vars PROVE MatchInv'
    OBVIOUS
  <2>1. SignedInv'
    BY NextSignedInv DEF MatchInv
  <2>2. CASE Next
    BY <2>1, <2>2, StepBuiltFromLock, StepEntriesMatchLock DEF MatchInv
  <2>3. CASE UNCHANGED vars
    BY <2>1, <2>3
    DEF MatchInv, BuiltFromLock, EntriesMatchLock, Builds, vars, cacheVars,
        serviceVars, threadVars, fileVars
  <2>4. QED
    BY <2>2, <2>3
<1>3. MatchInv => VerifiedMatchesLock
  BY DEF MatchInv, SignedInv, LockInv, TypeOK, CacheTypeOK, Hit, EntriesMatchLock,
         NothingDamagedSigned, VerifiedMatchesLock
<1>4. QED
  BY <1>1, <1>2, <1>3, PTL DEF Spec

-----------------------------------------------------------------------------
(* Who rewrites the dependency lock.                                       *)

\* The lock a bootstrap misses stays missing until it persists its own; the
\* lock Cargo gets is the unit's, and it leaves a resolved one alone.
LEMMA NextLockInHand ==
    ASSUME HandInv, Next
    PROVE  LockInHand'
<1> USE DEF HandInv, LockInv
<1> DEFINE InHand(u) ==
        /\ pc[u] \in {"boot", "bootPersist"} => depLock = Missing
        /\ pc[u] = "cargo" /\ depLock # Missing => genLock[plan[u]] = depLock
        /\ pc[u] = "persist" /\ depLock \in Resolved => genLock[plan[u]] = depLock
<1> SUFFICES ASSUME NEW u \in Threads, edits' = 0,
                    pc'[u] \in {"boot", "bootPersist", "cargo", "persist"}
             PROVE  InHand(u)'
  BY DEF LockInHand
<1>1. CASE \E t \in Threads : CallStep(t) /\ UNCHANGED <<pruneVars, outsideVars>>
  <2>1. PICK t \in Threads : CallStep(t) /\ UNCHANGED <<pruneVars, outsideVars>>
    BY <1>1
  <2>2. InHand(u) /\ plan[u] \in Fingerprint
    BY <2>1 DEF LockInHand, outsideVars, TypeOK, ServiceTypeOK
  <2>3. CASE u = t /\ (BootstrapLock(t) \/ BootstrapGenerate(t))
    BY <2>2, <2>3
    DEF BootstrapLock, NeedsBootstrap, BootstrapGenerate, Goto, fileVars, TypeOK,
        ServiceTypeOK
  <2>4. CASE u = t /\ CopyLock(t)
    <3>1. pc'[t] = "cargo"
      BY <2>4 DEF CopyLock, Return, Goto, TypeOK, ServiceTypeOK
    <3>2. UNCHANGED <<depLock, plan>>
      BY <2>4, <3>1 DEF CopyLock, Return, Goto, TypeOK, ServiceTypeOK
    <3>3. QED
      BY <2>2, <2>4, <3>1, <3>2 DEF CopyLock, TypeOK, ServiceTypeOK
  <2>5. CASE u = t /\ RunCargo(t)
    <3>1. /\ pc[t] = "cargo" /\ pc'[t] = "persist"
          /\ UNCHANGED <<depLock, plan>>
      BY <2>5 DEF RunCargo, Goto, TypeOK, ServiceTypeOK
    <3>2. depLock \in Resolved => genLock[plan[t]] = depLock
      BY <2>2, <2>5, <3>1, CacheAssumption, ServiceAssumption
    <3>3. PICK l \in CargoLocks(call[t].locked, genLock[plan[t]]) :
              genLock' = [genLock EXCEPT ![plan[t]] = l]
      BY <2>5 DEF RunCargo
    <3>4. depLock \in Resolved => l = depLock
      BY <3>2 DEF CargoLocks
    <3>5. QED
      BY <2>2, <2>5, <3>1, <3>3, <3>4 DEF TypeOK, ServiceTypeOK
  <2>6. CASE u # t
    <3>1. pc'[u] = pc[u] /\ plan'[u] = plan[u]
      BY <2>1, <2>6, OthersKeepLocals
    <3>2. UNCHANGED <<depLock, genLock, target>>
      BY <2>1, <2>6, <3>1, UnitExclusion DEF UnderUnitLock, UnderEntryLock
    <3>3. QED
      BY <2>2, <3>1, <3>2
  <2>7. QED
    BY <2>1, <2>3, <2>4, <2>5, <2>6, CameBy
<1>2. CASE OtherStep
  <2>1. pc'[u] = pc[u] /\ plan'[u] = plan[u]
    BY <1>2, OthersStay DEF UnderUnitLock, UnderEntryLock
  <2>2. UNCHANGED <<genLock, depLock, edits>>
    BY <1>2, OthersSpareUnit DEF EditLock, TypeOK
  <2>3. QED
    BY <2>1, <2>2 DEF LockInHand
<1>3. QED
  BY <1>1, <1>2, NextCases

\* A dependency lock that satisfies Cargo.toml is never rewritten while nobody
\* but crabwalk writes it, whatever calls, prunes and deaths come together.
THEOREM ResolvedLocksAreStable == Spec => ResolvedLockIsStable
<1>1. Init => HandInv
  BY InitLockInv DEF Init, ServiceInit, HandInv, LockInHand
<1>2. HandInv /\ [Next]_vars => HandInv'
  <2> SUFFICES ASSUME HandInv, [Next]_vars PROVE HandInv'
    OBVIOUS
  <2>1. LockInv'
    BY NextLockInv DEF HandInv
  <2>2. CASE UNCHANGED vars
    BY <2>1, <2>2
    DEF HandInv, LockInHand, vars, serviceVars, threadVars, fileVars, outsideVars
  <2>3. QED
    BY <2>1, <2>2, NextLockInHand DEF HandInv
<1>3. HandInv /\ [Next]_vars =>
          [edits' = 0 /\ depLock \in Resolved => depLock' = depLock]_vars
  <2> SUFFICES ASSUME HandInv, Next, edits' = 0, depLock \in Resolved
               PROVE  depLock' = depLock
    OBVIOUS
  <2>1. CASE \E t \in Threads : CallStep(t) /\ UNCHANGED <<pruneVars, outsideVars>>
    <3>1. PICK t \in Threads : CallStep(t) /\ UNCHANGED <<pruneVars, outsideVars>>
      BY <2>1
    <3>2. edits = 0
      BY <3>1 DEF outsideVars
    <3>3. ~BootstrapPersist(t)
      BY <3>2, CacheAssumption, ServiceAssumption
      DEF HandInv, LockInHand, BootstrapPersist
    <3>4. PersistLock(t) => depLock' = depLock
      BY <3>2 DEF HandInv, LockInHand, PersistLock
    <3>5. QED
      BY <3>1, <3>3, <3>4, OneWriterEach
  <2>2. CASE OtherStep
    BY <2>2, OthersSpareUnit DEF EditLock, HandInv, LockInv, TypeOK
  <2>3. QED
    BY <2>1, <2>2, NextCases
<1>4. QED
  BY <1>1, <1>2, <1>3, PTL DEF Spec, ResolvedLockIsStable

=============================================================================
