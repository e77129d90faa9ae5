---------------------------- MODULE CompilerProofs ----------------------------
(* Theorems about the snapshots that embedded callers compile from, about the  *)
(* propagation of effects, about native calls and about the names of emitted   *)
(* code, for any number of callers, files and functions and for every package  *)
(* the frontend makes.                                                         *)
EXTENDS SourceSnapshots, NativePolicy, Gensym, FiniteSetTheorems, SequenceTheorems,
        WellFoundedInduction, TLAPS

------------------------------------------------------------------------------
(* Snapshots of sources.                                                       *)

Content == {"none", "given", "other"}
Flags == BOOLEAN
Places == {"idle", "returned", "failed", "cancelled", "look", "open", "check", "write",
           "replace", "denied", "compare", "analyze", "read"}
CallType == [at : Places, part : Files, attempt : Nat, saw : Content,
             wrong : Flags, disturbed : Flags, damaged : Flags]

Passed(s) == IF s.at \in {"analyze", "read"} THEN Files ELSE 1 .. (s.part - 1)

\* What one call can rely on: the files it has passed, if nobody disturbed it,
\* and any file there is, if none was damaged or locked when it began.
CallInv(s, disk, locks) ==
  /\ s.saw # "none" => disk[s.part] # "none"
  /\ s.wrong => s.disturbed
  /\ s.at = "failed" => s.disturbed \/ s.damaged
  /\ s.at \notin {"idle", "returned", "failed", "cancelled"} /\ ~s.disturbed =>
       /\ \A p \in Passed(s) : disk[p] = "given"
       /\ s.at \in {"check", "compare"} /\ s.saw = "given" => disk[s.part] = "given"
       /\ s.at = "read" => s.saw = "given"
       /\ ~s.damaged =>
            /\ \A p \in Files : disk[p] # "other" /\ locks[p] # "exclusive"
            /\ s.at \in {"open", "denied"} => disk[s.part] # "none"
            /\ s.at = "compare" => s.saw = "given"

SnapshotInv ==
  /\ stored \in [Files -> Content]
  /\ held \in [Files -> {"free", "shared", "exclusive"}]
  /\ caller \in [Callers -> CallType]
  /\ \A p \in Files : held[p] # "free" => stored[p] # "none"
  /\ \A c \in Callers : CallInv(caller[c], stored, held)

LEMMA IdleCall ==
  /\ Idle \in CallType /\ Idle.at = "idle" /\ Idle.part = 1 /\ Idle.saw = "none"
  /\ ~Idle.wrong /\ ~Idle.disturbed
<1>1. "idle" \in Places /\ "none" \in Content /\ 1 \in Files /\ 1 \in Nat
  BY PartsAssumption DEF Places, Content, Files
<1>2. FALSE \in Flags
  BY DEF Flags
<1>3. Idle \in CallType
  BY <1>1, <1>2 DEF Idle, CallType
<1>4. QED
  BY <1>3 DEF Idle

LEMMA CallTyped ==
  ASSUME NEW s \in CallType
  PROVE  s.part \in Nat /\ s.part >= 1 /\ s.part <= Parts /\ s.part \in Files
<1>1. s.part \in Files
  BY DEF CallType
<1>2. QED
  BY <1>1, PartsAssumption DEF Files

LEMMA KnownPlaces ==
  /\ {"returned", "failed", "cancelled", "look", "open", "check", "write"} \subseteq Places
  /\ {"replace", "denied", "compare", "analyze", "read"} \subseteq Places
  /\ Content = {"none", "given", "other"}
  BY DEF Places, Content

\* A file that is written holds the given source: other calls are undisturbed.
LEMMA CallKept ==
  ASSUME NEW s \in CallType, NEW disk, NEW more, NEW locks, CallInv(s, disk, locks),
         \A p \in Files : more[p] = disk[p] \/ more[p] = "given"
  PROVE  CallInv(s, more, locks)
<1>1. s.part \in Files /\ Passed(s) \subseteq Files
  BY CallTyped, PartsAssumption DEF Passed, Files
<1>2. QED
  BY <1>1 DEF CallInv

\* A step of one call.
LEMMA CallerKeeps ==
  ASSUME SnapshotInv, NEW c \in Callers, NEW s \in CallType, caller' = [caller EXCEPT ![c] = s],
         stored' \in [Files -> Content], held' = held,
         \A p \in Files : stored'[p] = stored[p] \/ stored'[p] = "given",
         CallInv(s, stored', held)
  PROVE  SnapshotInv'
<1>1. ASSUME NEW d \in Callers PROVE CallInv(caller'[d], stored', held)
  <2>1. CASE d = c
    BY <2>1 DEF SnapshotInv
  <2>2. CASE d # c
    <3>1. caller'[d] = caller[d] /\ caller[d] \in CallType /\ CallInv(caller[d], stored, held)
      BY <2>2 DEF SnapshotInv
    <3>2. QED
      BY <3>1, CallKept
  <2>3. QED
    BY <2>1, <2>2
<1>2. QED
  BY <1>1 DEF SnapshotInv

LEMMA CallKnown ==
  ASSUME SnapshotInv, NEW c \in Callers
  PROVE  /\ caller[c] \in CallType /\ CallInv(caller[c], stored, held)
         /\ Part(c) = caller[c].part /\ Part(c) \in Files /\ stored[Part(c)] \in Content
         /\ Part(c) \in Nat /\ Part(c) >= 1 /\ Part(c) <= Parts
<1>1. caller[c] \in CallType
  BY DEF SnapshotInv
<1>2. QED
  BY <1>1, CallTyped DEF SnapshotInv, Part

\* A file is open only where there is one.
LEMMA OpenedIsThere ==
  ASSUME SnapshotInv, NEW p \in Files, Opened(p)
  PROVE  stored[p] # "none"
  BY DEF Opened, SnapshotInv, CallInv, Part

LEMMA GotoKeeps ==
  ASSUME SnapshotInv, NEW c \in Callers, NEW next \in Places, Goto(c, next),
         UNCHANGED <<stored, held>>,
         next \notin {"check", "read", "compare", "analyze"},
         caller[c].at \notin {"idle", "returned", "failed", "cancelled", "analyze", "read"}
           \/ next \in {"cancelled", "failed"},
         next = "failed" => caller[c].disturbed \/ caller[c].damaged,
         next \in {"open", "denied"} => stored[Part(c)] # "none"
  PROVE  SnapshotInv'
<1> DEFINE r == caller[c]
           s == [r EXCEPT !.at = next, !.saw = "none"]
<1>1. r \in CallType /\ CallInv(r, stored, held) /\ Part(c) = r.part
  BY CallKnown
<1>2. caller' = [caller EXCEPT ![c] = s]
  BY DEF Goto
<1>3. "none" \in Content
  BY KnownPlaces
<1> HIDE DEF r
<1>4. s \in CallType
  BY <1>1, <1>3 DEF CallType
<1>5. /\ s.at = next /\ s.saw = "none" /\ s.part = r.part /\ s.wrong = r.wrong
      /\ s.disturbed = r.disturbed /\ s.damaged = r.damaged
  BY <1>1 DEF CallType
<1> HIDE DEF s
<1>6. CallInv(s, stored, held)
  <2>1. s.wrong => s.disturbed
    BY <1>1, <1>5 DEF CallInv
  <2>2. s.at = "failed" => s.disturbed \/ s.damaged
    BY <1>5 DEF r
  <2>3. CASE next \in {"cancelled", "failed"}
    BY <1>5, <2>1, <2>2, <2>3 DEF CallInv
  <2>4. CASE r.at \notin {"idle", "returned", "failed", "cancelled", "analyze", "read"}
             /\ next \notin {"cancelled", "failed"}
    <3>1. Passed(s) = Passed(r)
      BY <1>5, <2>4 DEF Passed
    <3>2. QED
      BY <1>1, <1>5, <2>1, <2>2, <2>4, <3>1 DEF CallInv
  <2>5. QED
    BY <2>3, <2>4 DEF r
<1>7. stored' \in [Files -> Content] /\ CallInv(s, stored', held)
  BY <1>6 DEF SnapshotInv
<1>8. QED
  BY <1>2, <1>4, <1>7, CallerKeeps

\* The next file, or the analysis: the one just passed holds the given source,
\* unless somebody disturbed the call.
LEMMA NextFileKeeps ==
  ASSUME SnapshotInv, NEW c \in Callers, NextFile(c), held' = held,
         stored' \in [Files -> Content],
         \A p \in Files : stored'[p] = stored[p] \/ stored'[p] = "given",
         caller[c].at \in {"check", "replace", "compare"},
         ~caller[c].disturbed => stored'[Part(c)] = "given"
  PROVE  SnapshotInv'
<1> DEFINE r == caller[c]
<1>1. /\ r \in CallType /\ CallInv(r, stored, held) /\ Part(c) = r.part
      /\ r.part \in Nat /\ r.part >= 1 /\ r.part <= Parts /\ r.at \in {"check", "replace", "compare"}
  BY CallKnown
<1>2. CallInv(r, stored', held)
  BY <1>1, CallKept
<1>3. "none" \in Content /\ "look" \in Places /\ "analyze" \in Places
  BY KnownPlaces
<1>4. ~r.disturbed => \A p \in 1 .. r.part : stored'[p] = "given"
  BY <1>1, <1>2 DEF CallInv, Passed
<1>5. CASE r.part < Parts
  <2> DEFINE s == [r EXCEPT !.at = "look", !.part = @ + 1, !.attempt = 1, !.saw = "none"]
  <2>1. caller' = [caller EXCEPT ![c] = s]
    BY <1>5 DEF NextFile
  <2>2. r.part + 1 \in Files
    BY <1>1, <1>5, PartsAssumption DEF Files
  <2> HIDE DEF r
  <2>3. s \in CallType
    BY <1>1, <1>3, <2>2 DEF CallType
  <2>4. /\ s.at = "look" /\ s.saw = "none" /\ s.part = r.part + 1 /\ s.wrong = r.wrong
        /\ s.disturbed = r.disturbed /\ s.damaged = r.damaged
    BY <1>1 DEF CallType
  <2> HIDE DEF s
  <2>5. Passed(s) = 1 .. r.part
    BY <1>1, <2>4 DEF Passed
  <2>6. CallInv(s, stored', held)
    BY <1>1, <1>2, <1>4, <2>4, <2>5 DEF CallInv
  <2>7. QED
    BY <2>1, <2>3, <2>6, CallerKeeps
<1>6. CASE r.part = Parts
  <2> DEFINE s == [r EXCEPT !.at = "analyze", !.part = 1, !.saw = "none"]
  <2>1. caller' = [caller EXCEPT ![c] = s]
    <3>1. ~(r.part < Parts)
      BY <1>6, PartsAssumption
    <3>2. QED
      BY <3>1 DEF NextFile
  <2>2. 1 \in Files /\ Files = 1 .. r.part
    BY <1>6, PartsAssumption DEF Files
  <2> HIDE DEF r
  <2>3. s \in CallType
    BY <1>1, <1>3, <2>2 DEF CallType
  <2>4. /\ s.at = "analyze" /\ s.saw = "none" /\ s.part = 1 /\ s.wrong = r.wrong
        /\ s.disturbed = r.disturbed /\ s.damaged = r.damaged
    BY <1>1 DEF CallType
  <2> HIDE DEF s
  <2>5. Passed(s) = Files
    BY <2>4 DEF Passed
  <2>6. CallInv(s, stored', held)
    BY <1>1, <1>2, <1>4, <2>2, <2>4, <2>5 DEF CallInv
  <2>7. QED
    BY <2>1, <2>3, <2>6, CallerKeeps
<1>7. QED
  BY <1>1, <1>5, <1>6, PartsAssumption

LEMMA OpensKeeps ==
  ASSUME SnapshotInv, NEW c \in Callers, NEW next, Opens(c, next), UNCHANGED <<stored, held>>,
         Readable(Part(c)),
         \/ caller[c].at = "open" /\ next = "check"
         \/ caller[c].at = "denied" /\ next = "compare"
         \/ caller[c].at = "analyze" /\ next = "read"
  PROVE  SnapshotInv'
<1> DEFINE r == caller[c]
           x == stored[Part(c)]
           s == [r EXCEPT !.at = next, !.saw = x]
<1>1. /\ r \in CallType /\ CallInv(r, stored, held) /\ Part(c) = r.part /\ r.part \in Files
      /\ x \in Content /\ x # "none"
  BY CallKnown DEF Readable
<1>2. caller' = [caller EXCEPT ![c] = s]
  BY DEF Opens
<1>3. /\ r.at \in {"open", "denied", "analyze"} /\ next \in {"check", "compare", "read"}
      /\ r.at = "open" <=> next = "check"
      /\ r.at = "denied" <=> next = "compare"
      /\ r.at = "analyze" <=> next = "read"
  OBVIOUS
<1>4. next \in Places
  BY <1>3, KnownPlaces
<1> HIDE DEF r
<1>5. s \in CallType
  BY <1>1, <1>4 DEF CallType
<1>6. /\ s.at = next /\ s.saw = x /\ s.part = r.part /\ s.wrong = r.wrong
      /\ s.disturbed = r.disturbed /\ s.damaged = r.damaged
  BY <1>1 DEF CallType
<1>7. x = stored[r.part] /\ x \in {"given", "other"}
  BY <1>1, KnownPlaces
<1> HIDE DEF s, x
<1>8. Passed(s) = Passed(r)
  BY <1>3, <1>6 DEF Passed
<1>9. next = "read" /\ ~r.disturbed => x = "given"
  BY <1>1, <1>3, <1>7 DEF CallInv, Passed
<1>10. CallInv(s, stored, held)
  BY <1>1, <1>3, <1>6, <1>7, <1>8, <1>9 DEF CallInv
<1>11. stored' \in [Files -> Content] /\ CallInv(s, stored', held)
  BY <1>10 DEF SnapshotInv
<1>12. QED
  BY <1>2, <1>5, <1>11, CallerKeeps

LEMMA RetryKeeps ==
  ASSUME SnapshotInv, NEW c \in Callers, Retry(c), UNCHANGED <<stored, held>>,
         caller[c].at \in {"denied", "compare"}, caller[c].disturbed \/ caller[c].damaged
  PROVE  SnapshotInv'
<1> DEFINE r == caller[c]
           n == r.attempt + 1
           s == [r EXCEPT !.at = "replace", !.saw = "none", !.attempt = n]
<1>1. CASE r.attempt = Attempts
  <2>1. Goto(c, "failed")
    BY <1>1 DEF Retry, Fail
  <2>2. QED
    BY <2>1, KnownPlaces, GotoKeeps
<1>2. CASE r.attempt # Attempts
  <2>1. caller' = [caller EXCEPT ![c] = s]
    BY <1>2 DEF Retry
  <2>2. r \in CallType /\ CallInv(r, stored, held) /\ r.at \in {"denied", "compare"}
        /\ (r.disturbed \/ r.damaged)
    BY CallKnown
  <2>3. "none" \in Content /\ "replace" \in Places /\ n \in Nat
    BY <2>2, KnownPlaces DEF CallType
  <2> HIDE DEF r, n
  <2>4. s \in CallType
    BY <2>2, <2>3 DEF CallType
  <2>5. /\ s.at = "replace" /\ s.saw = "none" /\ s.part = r.part /\ s.wrong = r.wrong
        /\ s.disturbed = r.disturbed /\ s.damaged = r.damaged
    BY <2>2 DEF CallType
  <2> HIDE DEF s
  <2>6. Passed(s) = Passed(r)
    BY <2>2, <2>5 DEF Passed
  <2>7. CallInv(s, stored, held)
    BY <2>2, <2>5, <2>6 DEF CallInv
  <2>8. stored' \in [Files -> Content] /\ CallInv(s, stored', held)
    BY <2>7 DEF SnapshotInv
  <2>9. QED
    BY <2>1, <2>4, <2>8, CallerKeeps
<1>3. QED
  BY <1>1, <1>2

\* A good call finds what it opens: it is there, and nobody has locked it.
LEMMA GoodCallsRead ==
  ASSUME SnapshotInv, NEW c \in Callers, caller[c].at \in {"open", "denied", "analyze"},
         ~caller[c].disturbed, ~caller[c].damaged
  PROVE  Readable(Part(c))
  BY CallKnown DEF CallInv, Passed, Readable

LEMMA BeginKeeps ==
  ASSUME SnapshotInv, NEW c \in Callers, Begin(c), UNCHANGED <<stored, held>>
  PROVE  SnapshotInv'
<1> DEFINE d == \E p \in Files : stored[p] = "other" \/ held[p] = "exclusive"
           s == [Idle EXCEPT !.at = "look", !.damaged = d]
           t == [Idle EXCEPT !.at = "cancelled"]
<1>1. "look" \in Places /\ "cancelled" \in Places /\ stored' \in [Files -> Content]
  BY KnownPlaces DEF SnapshotInv
<1>2. d \in Flags /\ (~d => \A p \in Files : stored[p] # "other" /\ held[p] # "exclusive")
  BY DEF Flags
<1>3. caller' = [caller EXCEPT ![c] = s] \/ caller' = [caller EXCEPT ![c] = t]
  BY DEF Begin
<1> HIDE DEF d
<1>4. s \in CallType /\ t \in CallType
  BY <1>1, <1>2, IdleCall DEF CallType
<1>5. /\ s.at = "look" /\ s.part = 1 /\ s.saw = "none" /\ ~s.wrong /\ s.damaged = d
      /\ t.at = "cancelled" /\ t.part = 1 /\ t.saw = "none" /\ ~t.wrong
  BY IdleCall DEF CallType
<1> HIDE DEF s, t
<1>6. Passed(s) = {}
  BY <1>5 DEF Passed
<1>7. CallInv(s, stored, held) /\ CallInv(t, stored, held)
  BY <1>2, <1>5, <1>6 DEF CallInv
<1>8. CallInv(s, stored', held) /\ CallInv(t, stored', held)
  BY <1>7
<1>9. QED
  BY <1>1, <1>3, <1>4, <1>8, CallerKeeps

LEMMA CrashKeeps ==
  ASSUME SnapshotInv, NEW c \in Callers, Crash(c), UNCHANGED <<stored, held>>
  PROVE  SnapshotInv'
<1>1. caller' = [caller EXCEPT ![c] = Idle] /\ stored' \in [Files -> Content]
  BY DEF Crash, SnapshotInv
<1>2. CallInv(Idle, stored', held)
  BY IdleCall DEF CallInv
<1>3. QED
  BY <1>1, <1>2, IdleCall, CallerKeeps

LEMMA ReadSourceKeeps ==
  ASSUME SnapshotInv, NEW c \in Callers, ReadSource(c), UNCHANGED <<stored, held>>
  PROVE  SnapshotInv'
<1> DEFINE r == caller[c]
           last == r.part = Parts
           next == IF last THEN "returned" ELSE "analyze"
           part == IF last THEN r.part ELSE r.part + 1
           wrong == r.wrong \/ r.saw # "given"
           s == [r EXCEPT !.at = next, !.part = part, !.saw = "none", !.wrong = wrong]
<1>1. /\ r \in CallType /\ CallInv(r, stored, held) /\ r.at = "read"
      /\ r.part \in Nat /\ r.part >= 1 /\ r.part <= Parts
  BY CallKnown DEF ReadSource, At
<1>2. caller' = [caller EXCEPT ![c] = s]
  BY DEF ReadSource, Part
<1>3. "none" \in Content /\ next \in Places
  BY KnownPlaces
<1>4. part \in Files
  BY <1>1, PartsAssumption DEF Files
<1>5. wrong \in Flags /\ (~r.disturbed => ~wrong)
  BY <1>1 DEF Flags, CallInv
<1>6. next \in {"returned", "analyze"}
  OBVIOUS
<1> HIDE DEF r, next, part, wrong
<1>7. s \in CallType
  BY <1>1, <1>3, <1>4, <1>5 DEF CallType
<1>8. /\ s.at = next /\ s.saw = "none" /\ s.part = part /\ s.wrong = wrong
      /\ s.disturbed = r.disturbed /\ s.damaged = r.damaged
  BY <1>1 DEF CallType
<1> HIDE DEF s
<1>9. CASE next = "returned"
  <2>1. CallInv(s, stored, held)
    BY <1>1, <1>5, <1>8, <1>9 DEF CallInv
  <2>2. stored' \in [Files -> Content] /\ CallInv(s, stored', held)
    BY <2>1 DEF SnapshotInv
  <2>3. QED
    BY <1>2, <1>7, <2>2, CallerKeeps
<1>10. CASE next = "analyze"
  <2>1. Passed(s) = Files /\ Passed(r) = Files
    BY <1>1, <1>8, <1>10 DEF Passed
  <2>2. CallInv(s, stored, held)
    BY <1>1, <1>5, <1>8, <1>10, <2>1 DEF CallInv
  <2>3. stored' \in [Files -> Content] /\ CallInv(s, stored', held)
    BY <2>2 DEF SnapshotInv
  <2>4. QED
    BY <1>2, <1>7, <2>3, CallerKeeps
<1>11. QED
  BY <1>6, <1>9, <1>10

LEMMA ReadsKeep ==
  ASSUME SnapshotInv, NEW c \in Callers, Reads(c), UNCHANGED <<stored, held>>
  PROVE  SnapshotInv'
<1> DEFINE r == caller[c]
<1>1. /\ r \in CallType /\ CallInv(r, stored, held) /\ Part(c) = r.part /\ Part(c) \in Files
      /\ stored' \in [Files -> Content]
  BY CallKnown DEF SnapshotInv
<1>2. CASE Look(c)
  <2>1. r.at = "look"
    BY <1>2 DEF Look, At
  <2>2. CASE stored[Part(c)] = "none" /\ Goto(c, "write")
    BY <2>1, <2>2, KnownPlaces, GotoKeeps
  <2>3. CASE stored[Part(c)] # "none" /\ Goto(c, "open")
    BY <2>1, <2>3, KnownPlaces, GotoKeeps
  <2>4. QED
    BY <1>2, <2>2, <2>3 DEF Look
<1>3. CASE Open(c)
  <2>1. r.at = "open"
    BY <1>3 DEF Open, At
  <2>2. CASE Readable(Part(c))
    BY <1>3, <2>1, <2>2, OpensKeeps DEF Open
  <2>3. CASE ~Readable(Part(c))
    <3>1. Goto(c, "failed") /\ (r.disturbed \/ r.damaged)
      BY <1>3, <2>1, <2>3, GoodCallsRead DEF Open, Fail
    <3>2. QED
      BY <2>1, <3>1, KnownPlaces, GotoKeeps
  <2>4. QED
    BY <2>2, <2>3
<1>4. CASE Check(c)
  <2>1. r.at = "check"
    BY <1>4 DEF Check, At
  <2>2. CASE r.saw = "given"
    <3>1. ~r.disturbed => stored'[Part(c)] = "given"
      BY <1>1, <2>1, <2>2 DEF CallInv
    <3>2. NextFile(c)
      BY <1>4, <2>2 DEF Check
    <3>3. QED
      BY <1>1, <2>1, <3>1, <3>2, NextFileKeeps
  <2>3. CASE r.saw # "given"
    <3>1. Goto(c, "write")
      BY <1>4, <2>3 DEF Check
    <3>2. QED
      BY <2>1, <3>1, KnownPlaces, GotoKeeps
  <2>4. QED
    BY <2>2, <2>3
<1>5. CASE Denied(c)
  <2>1. r.at = "replace" /\ Goto(c, "denied") /\ stored[Part(c)] # "none"
    BY <1>1, <1>5, OpenedIsThere DEF Denied, At
  <2>2. QED
    BY <2>1, KnownPlaces, GotoKeeps
<1>6. CASE OpenDenied(c)
  <2>1. r.at = "denied"
    BY <1>6 DEF OpenDenied, At
  <2>2. CASE Readable(Part(c))
    BY <1>6, <2>1, <2>2, OpensKeeps DEF OpenDenied
  <2>3. CASE ~Readable(Part(c))
    <3>1. Retry(c) /\ (r.disturbed \/ r.damaged)
      BY <1>6, <2>1, <2>3, GoodCallsRead DEF OpenDenied
    <3>2. QED
      BY <2>1, <3>1, RetryKeeps
  <2>4. QED
    BY <2>2, <2>3
<1>7. CASE Compare(c)
  <2>1. r.at = "compare"
    BY <1>7 DEF Compare, At
  <2>2. CASE r.saw = "given"
    <3>1. ~r.disturbed => stored'[Part(c)] = "given"
      BY <1>1, <2>1, <2>2 DEF CallInv
    <3>2. NextFile(c)
      BY <1>7, <2>2 DEF Compare
    <3>3. QED
      BY <1>1, <2>1, <3>1, <3>2, NextFileKeeps
  <2>3. CASE r.saw # "given"
    <3>1. Retry(c) /\ (r.disturbed \/ r.damaged)
      BY <1>1, <1>7, <2>1, <2>3 DEF Compare, CallInv
    <3>2. QED
      BY <2>1, <3>1, RetryKeeps
  <2>4. QED
    BY <2>2, <2>3
<1>8. CASE OpenSource(c)
  <2>1. r.at = "analyze"
    BY <1>8 DEF OpenSource, At
  <2>2. CASE Readable(Part(c))
    BY <1>8, <2>1, <2>2, OpensKeeps DEF OpenSource
  <2>3. CASE ~Readable(Part(c))
    <3>1. Goto(c, "failed") /\ (r.disturbed \/ r.damaged)
      BY <1>8, <2>1, <2>3, GoodCallsRead DEF OpenSource, Fail
    <3>2. QED
      BY <3>1, KnownPlaces, GotoKeeps
  <2>4. QED
    BY <2>2, <2>3
<1>9. CASE Cancel(c)
  <2>1. Goto(c, "cancelled")
    BY <1>9 DEF Cancel
  <2>2. QED
    BY <2>1, KnownPlaces, GotoKeeps
<1>10. QED
  BY <1>2, <1>3, <1>4, <1>5, <1>6, <1>7, <1>8, <1>9, BeginKeeps, CrashKeeps, ReadSourceKeeps
     DEF Reads

LEMMA WritesKeep ==
  ASSUME SnapshotInv, NEW c \in Callers, Write(c) \/ Move(c), held' = held
  PROVE  SnapshotInv'
<1>1. CASE Write(c)
  <2>1. caller[c].at = "write" /\ Goto(c, "replace") /\ UNCHANGED <<stored, held>>
    BY <1>1 DEF Write, At
  <2>2. QED
    BY <2>1, KnownPlaces, GotoKeeps
<1>2. CASE Move(c)
  <2>1. caller[c].at = "replace" /\ NextFile(c) /\ stored' = [stored EXCEPT ![Part(c)] = "given"]
    BY <1>2 DEF Move, At
  <2>2. Part(c) \in Files /\ "given" \in Content
    BY CallKnown, KnownPlaces
  <2>3. /\ stored' \in [Files -> Content] /\ stored'[Part(c)] = "given"
        /\ \A p \in Files : stored'[p] = stored[p] \/ stored'[p] = "given"
    BY <2>1, <2>2 DEF SnapshotInv
  <2>4. QED
    BY <2>1, <2>3, NextFileKeeps
<1>3. QED
  BY <1>1, <1>2

LEMMA DiskFullKeeps == ASSUME SnapshotInv, NEW c \in Callers, DiskFull(c) PROVE SnapshotInv'
<1> DEFINE r == caller[c]
           s == [r EXCEPT !.at = "failed", !.disturbed = TRUE]
<1>1. caller' = [caller EXCEPT ![c] = s] /\ UNCHANGED <<stored, held>>
  BY DEF DiskFull
<1>2. r \in CallType /\ CallInv(r, stored, held) /\ stored' \in [Files -> Content]
  BY <1>1, CallKnown DEF SnapshotInv
<1>3. "failed" \in Places /\ TRUE \in Flags
  BY KnownPlaces DEF Flags
<1> HIDE DEF r
<1>4. s \in CallType
  BY <1>2, <1>3 DEF CallType
<1>5. s.at = "failed" /\ s.disturbed /\ s.saw = r.saw /\ s.part = r.part
  BY <1>2 DEF CallType
<1> HIDE DEF s
<1>6. CallInv(s, stored', held)
  BY <1>1, <1>2, <1>5 DEF CallInv
<1>7. QED
  BY <1>1, <1>2, <1>4, <1>6, CallerKeeps

\* A file that somebody has open stays; whoever runs notices.
LEMMA DisturbKeeps ==
  ASSUME SnapshotInv, Disturb, NEW disk, NEW locks,
         \A c \in Callers : caller[c].saw # "none" => disk[caller[c].part] # "none"
  PROVE  /\ caller' \in [Callers -> CallType]
         /\ \A c \in Callers : CallInv(caller'[c], disk, locks)
<1>1. ASSUME NEW c \in Callers PROVE caller'[c] \in CallType /\ CallInv(caller'[c], disk, locks)
  <2> DEFINE r == caller[c]
             d == r.disturbed \/ Running(c)
             s == [r EXCEPT !.disturbed = d]
  <2>1. r \in CallType /\ CallInv(r, stored, held) /\ (r.saw # "none" => disk[r.part] # "none")
    BY CallKnown
  <2>2. caller'[c] = s
    BY DEF Disturb
  <2>3. /\ d \in Flags /\ (r.disturbed => d)
        /\ ~d => r.at \in {"idle", "returned", "failed", "cancelled"}
    BY DEF Flags, Running
  <2> HIDE DEF d, r
  <2>4. /\ s \in CallType /\ s.at = r.at /\ s.saw = r.saw /\ s.part = r.part
        /\ s.wrong = r.wrong /\ s.damaged = r.damaged /\ s.disturbed = d
    BY <2>1, <2>3 DEF CallType
  <2> HIDE DEF s
  <2>5. CallInv(s, disk, locks)
    BY <2>1, <2>3, <2>4 DEF CallInv
  <2>6. QED
    BY <2>2, <2>4, <2>5
<1>2. DOMAIN caller' = Callers /\ caller' = [c \in Callers |-> caller'[c]]
  BY DEF Disturb
<1>3. QED
  BY <1>1, <1>2

LEMMA OutsidersKeep ==
  ASSUME SnapshotInv, NEW p \in Files, Hold(p) \/ Release(p) \/ Spoil(p)
  PROVE  SnapshotInv'
<1>1. \A c \in Callers : caller[c].saw # "none" => stored[caller[c].part] # "none"
  BY DEF SnapshotInv, CallInv
<1>2. CASE Hold(p)
  <2>1. stored[p] # "none" /\ stored' = stored
    BY <1>2 DEF Hold
  <2>2. CASE held' = [held EXCEPT ![p] = "shared"] /\ UNCHANGED caller
    <3>1. \A q \in Files : held'[q] = "exclusive" => held[q] = "exclusive"
      BY <2>2 DEF SnapshotInv
    <3>2. \A c \in Callers : CallInv(caller'[c], stored, held')
      BY <2>2, <3>1 DEF SnapshotInv, CallInv
    <3>3. QED
      BY <2>1, <2>2, <3>2 DEF SnapshotInv
  <2>3. CASE held' = [held EXCEPT ![p] = "exclusive"] /\ Disturb
    <3>1. /\ caller' \in [Callers -> CallType]
          /\ \A c \in Callers : CallInv(caller'[c], stored, held')
      BY <1>1, <2>3, DisturbKeeps
    <3>2. QED
      BY <2>1, <2>3, <3>1 DEF SnapshotInv
  <2>4. QED
    BY <1>2, <2>2, <2>3 DEF Hold
<1>3. CASE Release(p)
  <2>1. held' = [held EXCEPT ![p] = "free"] /\ UNCHANGED <<stored, caller>>
    BY <1>3 DEF Release
  <2>2. \A q \in Files : held'[q] = "exclusive" => held[q] = "exclusive"
    BY <2>1 DEF SnapshotInv
  <2>3. \A c \in Callers : CallInv(caller'[c], stored, held')
    BY <2>1, <2>2 DEF SnapshotInv, CallInv
  <2>4. QED
    BY <2>1, <2>3 DEF SnapshotInv
<1>4. CASE Spoil(p)
  <2>1. Disturb /\ held' = held /\ ~Opened(p)
    BY <1>4 DEF Spoil
  <2>2. PICK found \in {"none", "other"} : stored' = [stored EXCEPT ![p] = found]
    BY <1>4 DEF Spoil
  <2>3. stored' \in [Files -> Content] /\ \A q \in Files \ {p} : stored'[q] = stored[q]
    BY <2>2, KnownPlaces DEF SnapshotInv
  <2>4. \A c \in Callers : caller[c].saw # "none" => stored'[caller[c].part] # "none"
    <3>1. ASSUME NEW c \in Callers, caller[c].saw # "none" PROVE caller[c].part \in Files \ {p}
      BY <2>1, <3>1, CallKnown DEF Opened
    <3>2. QED
      BY <1>1, <2>3, <3>1
  <2>5. /\ caller' \in [Callers -> CallType]
        /\ \A c \in Callers : CallInv(caller'[c], stored', held)
    BY <2>1, <2>4, DisturbKeeps
  <2>6. \A q \in Files : held[q] # "free" => stored'[q] # "none"
    BY <2>1, <2>3 DEF SnapshotInv, Opened
  <2>7. QED
    BY <2>1, <2>3, <2>5, <2>6 DEF SnapshotInv
<1>5. QED
  BY <1>2, <1>3, <1>4

(* A call compiles the sources it was given, and fails for no other reason     *)
(* than an outsider's, for any number of callers, files and attempts: what one *)
(* call publishes is what every other call with these sources needs.           *)
THEOREM SharedSnapshotsHold == SnapshotSpec => []SnapshotsHold
<1>1. SnapshotInit => SnapshotInv
  <2>1. ASSUME SnapshotInit, NEW c \in Callers PROVE CallInv(caller[c], stored, held)
    BY <2>1, IdleCall DEF SnapshotInit, CallInv
  <2>2. QED
    BY <2>1, IdleCall, KnownPlaces DEF SnapshotInit, SnapshotInv
<1>2. SnapshotInv /\ [SnapshotNext]_snapshotVars => SnapshotInv'
  <2>1. SnapshotInv /\ UNCHANGED snapshotVars => SnapshotInv'
    BY DEF SnapshotInv, snapshotVars
  <2>2. QED
    BY <2>1, ReadsKeep, WritesKeep, DiskFullKeeps, OutsidersKeep DEF SnapshotNext
<1>3. SnapshotInv => SnapshotsHold
  BY DEF SnapshotInv, CallInv, SnapshotsHold, At
<1>4. QED
  BY <1>1, <1>2, <1>3, PTL DEF SnapshotSpec

------------------------------------------------------------------------------
(* Effects.                                                                    *)

Tables == [Functions -> SUBSET Effect]

\* Every function has its own effects and those of the functions it dispatches
\* to, but for what a caller does not get from its callees.
Closed(table) ==
  \A f \in Functions :
    /\ own[f] \subseteq table[f]
    /\ \A g \in calls[f] \cap Functions : table[g] \ NotInherited \subseteq table[f]

PropagateSpec(dispatch, direct) ==
  EffectInit(dispatch, direct) /\ [][Visit \/ SweepAgain]_effectVars

EffectTypeOK ==
  /\ own \in Tables /\ effects \in Tables
  /\ place \in 1 .. Len(Order) + 1 /\ changed \in BOOLEAN

\* While a sweep has changed nothing, what it has visited is closed.
SweepInv ==
  /\ EffectTypeOK
  /\ \A f \in Functions : own[f] \subseteq effects[f]
  /\ ~changed => \A i \in 1 .. place - 1 : Inherited(Order[i]) \subseteq effects[Order[i]]
  /\ \A table \in Tables : Closed(table) => \A f \in Functions : effects[f] \subseteq table[f]

(* No function has an effect that it need not have: whatever table of effects  *)
(* is closed under dispatch has it too (propagate_effects over-approximates    *)
(* nothing but dispatch).                                                      *)
EffectsAreLeast ==
  \A table \in Tables : Closed(table) => \A f \in Functions : effects[f] \subseteq table[f]

(* When the sweeps of propagate_effects end, no function lacks an effect of a  *)
(* function it dispatches to, however long and cyclic the calls are.           *)
EffectsAreClosed == Propagated => Closed(effects)

LEMMA InheritedEffects ==
  ASSUME NEW f
  PROVE  \A e : e \in Inherited(f) <=>
           \E g \in calls[f] \cap Functions : e \in effects[g] /\ e \notin NotInherited
<1>1. Inherited(f) = (UNION {effects[g] : g \in calls[f] \cap Functions}) \ NotInherited
  BY DEF Inherited
<1>2. QED
  BY <1>1

LEMMA EffectInitInv ==
  ASSUME NEW dispatch, NEW direct \in Tables, EffectInit(dispatch, direct)
  PROVE  SweepInv
<1>1. Len(Order) \in Nat
  BY OrderAssumption
<1>2. 1 \in 1 .. Len(Order) + 1 /\ FALSE \in BOOLEAN
  BY <1>1
<1>3. EffectTypeOK
  BY <1>2 DEF EffectInit, EffectTypeOK
<1>4. QED
  BY <1>3 DEF EffectInit, SweepInv, Closed

LEMMA VisitKeeps == ASSUME SweepInv, Visit PROVE SweepInv'
<1> DEFINE f == Order[place]
           more == Inherited(f)
<1>1. /\ Order \in Seq(Functions) /\ Len(Order) \in Nat
      /\ place \in Nat /\ place >= 1 /\ place <= Len(Order) /\ f \in Functions
  BY OrderAssumption DEF SweepInv, EffectTypeOK, Visit
<1>2. /\ effects' = [effects EXCEPT ![f] = @ \union more]
      /\ changed' = (changed \/ ~(more \subseteq effects[f]))
      /\ place' = place + 1 /\ UNCHANGED <<calls, own>>
  BY DEF Visit
<1>3. own \in Tables /\ effects \in Tables
  BY DEF SweepInv, EffectTypeOK
<1>4. \A g \in Functions : effects[g] \subseteq Effect
  BY <1>3 DEF Tables
<1>5. more \subseteq Effect
  BY <1>4 DEF Inherited
<1> HIDE DEF more
<1>6. /\ \A g \in Functions : effects[g] \subseteq effects'[g]
      /\ effects'[f] = effects[f] \union more
      /\ \A g \in Functions : g # f => effects'[g] = effects[g]
      /\ effects' \in Tables
  BY <1>1, <1>2, <1>3, <1>5 DEF Tables
<1>7. EffectTypeOK'
  BY <1>1, <1>2, <1>3, <1>6 DEF SweepInv, EffectTypeOK
<1>8. \A g \in Functions : own'[g] \subseteq effects'[g]
  BY <1>2, <1>6 DEF SweepInv
<1>9. ASSUME ~changed', NEW i \in 1 .. place' - 1
      PROVE  Inherited(Order[i])' \subseteq effects'[Order[i]]
  <2>1. ~changed /\ more \subseteq effects[f]
    BY <1>2, <1>9
  <2>2. effects' = effects
    BY <1>2, <1>3, <2>1 DEF Tables
  <2>3. Inherited(Order[i])' = Inherited(Order[i])
    BY <1>2, <2>2 DEF Inherited
  <2>4. CASE i = place
    BY <2>1, <2>2, <2>3, <2>4 DEF more
  <2>5. CASE i # place
    <3>1. i \in 1 .. place - 1
      BY <1>1, <1>2, <1>9, <2>5
    <3>2. QED
      BY <2>1, <2>2, <2>3, <3>1 DEF SweepInv
  <2>6. QED
    BY <2>4, <2>5
<1>10. ASSUME NEW table \in Tables, Closed(table)', NEW g \in Functions
       PROVE  effects'[g] \subseteq table[g]
  <2>1. Closed(table)
    BY <1>2, <1>10 DEF Closed
  <2>2. \A h \in Functions : effects[h] \subseteq table[h]
    BY <2>1 DEF SweepInv
  <2>3. more \subseteq table[f]
    BY <1>1, <2>1, <2>2, InheritedEffects DEF more, Closed
  <2>4. QED
    BY <1>6, <2>2, <2>3
<1>11. QED
  BY <1>7, <1>8, <1>9, <1>10 DEF SweepInv

LEMMA SweepsKeep == ASSUME SweepInv, SweepAgain PROVE SweepInv'
<1>1. /\ UNCHANGED <<calls, own, effects>> /\ place' = 1 /\ changed' = FALSE
      /\ Len(Order) \in Nat
  BY OrderAssumption DEF SweepAgain
<1>2. EffectTypeOK'
  <2>1. 1 \in 1 .. Len(Order) + 1 /\ FALSE \in BOOLEAN
    BY <1>1
  <2>2. QED
    BY <1>1, <2>1 DEF SweepInv, EffectTypeOK
<1>3. \A table : Closed(table)' <=> Closed(table)
  BY <1>1 DEF Closed
<1>4. QED
  BY <1>1, <1>2, <1>3 DEF SweepInv

LEMMA SweepsAreInvariant ==
  ASSUME NEW dispatch, NEW direct \in Tables
  PROVE  PropagateSpec(dispatch, direct) => []SweepInv
<1>1. EffectInit(dispatch, direct) => SweepInv
  BY EffectInitInv
<1>2. SweepInv /\ [Visit \/ SweepAgain]_effectVars => SweepInv'
  <2>1. SweepInv /\ UNCHANGED effectVars => SweepInv'
    BY DEF SweepInv, EffectTypeOK, effectVars, Closed, Inherited
  <2>2. QED
    BY <2>1, VisitKeeps, SweepsKeep
<1>3. QED
  BY <1>1, <1>2, PTL DEF PropagateSpec

LEMMA SweptEffectsAreClosed == ASSUME SweepInv, Propagated PROVE Closed(effects)
<1>1. SUFFICES ASSUME NEW f \in Functions
               PROVE  /\ own[f] \subseteq effects[f]
                      /\ \A g \in calls[f] \cap Functions :
                           effects[g] \ NotInherited \subseteq effects[f]
  BY DEF Closed
<1>2. PICK i \in DOMAIN Order : Order[i] = f
  BY OrderAssumption
<1>3. i \in 1 .. place - 1
  BY <1>2, OrderAssumption DEF Propagated, SweepInv, EffectTypeOK
<1>4. Inherited(f) \subseteq effects[f]
  BY <1>2, <1>3 DEF Propagated, SweepsAgain, SweepInv
<1>5. QED
  BY <1>4, InheritedEffects DEF SweepInv

(* The table that validation reads is the least one closed under dispatch, for *)
(* any functions, calls and effects, and any order of declaration.             *)
THEOREM EffectsAreTheLeastClosed ==
  ASSUME NEW dispatch, NEW direct \in Tables
  PROVE  PropagateSpec(dispatch, direct) => [](EffectsAreLeast /\ EffectsAreClosed)
<1>1. SweepInv => EffectsAreLeast /\ EffectsAreClosed
  BY SweptEffectsAreClosed DEF SweepInv, EffectsAreLeast, EffectsAreClosed
<1>2. QED
  BY <1>1, SweepsAreInvariant, PTL

LEMMA ReachedEffect ==
  ASSUME NEW f
  PROVE  \A e : e \in ReachedEffects(f) <=>
           \/ e \in own[f]
           \/ e \notin NotInherited /\ \E g \in Reached(f) : e \in own[g]
<1>1. ReachedEffects(f) = own[f] \union ((UNION {own[g] : g \in Reached(f)}) \ NotInherited)
  BY DEF ReachedEffects
<1>2. QED
  BY <1>1

\* What is reached is the function, what it dispatches to, and what that reaches.
LEMMA ReachedIsClosed ==
  ASSUME NEW f \in Functions
  PROVE  \A g \in calls[f] \cap Functions : g \in Reached(g) /\ Reached(g) \subseteq Reached(f)
<1>1. ASSUME NEW g \in calls[f] \cap Functions, NEW h \in Reached(g)
      PROVE  h \in Reached(f)
  <2>1. ASSUME NEW S \in SUBSET Functions, f \in S,
               \A k \in S : calls[k] \cap Functions \subseteq S
        PROVE  h \in S
    <3>1. g \in S
      BY <1>1, <2>1
    <3>2. QED
      BY <1>1, <2>1, <3>1 DEF Reached
  <2>2. QED
    BY <1>1, <2>1 DEF Reached
<1>2. ASSUME NEW g \in calls[f] \cap Functions PROVE g \in Reached(g)
  BY DEF Reached
<1>3. QED
  BY <1>1, <1>2

\* The effects reached make a closed table, so the sweeps add nothing else.
LEMMA ReachedEffectsAreClosed ==
  ASSUME own \in Tables
  PROVE  /\ [f \in Functions |-> ReachedEffects(f)] \in Tables
         /\ Closed([f \in Functions |-> ReachedEffects(f)])
<1> DEFINE table == [f \in Functions |-> ReachedEffects(f)]
<1>1. ASSUME NEW f \in Functions PROVE ReachedEffects(f) \subseteq Effect
  <2>1. Reached(f) \subseteq Functions
    BY DEF Reached
  <2>2. QED
    BY <2>1, ReachedEffect DEF Tables
<1>2. ASSUME NEW f \in Functions, NEW g \in calls[f] \cap Functions
      PROVE  ReachedEffects(g) \ NotInherited \subseteq ReachedEffects(f)
  <2>1. g \in Reached(g) /\ Reached(g) \subseteq Reached(f)
    BY <1>2, ReachedIsClosed
  <2>2. QED
    BY <2>1, ReachedEffect
<1>3. ASSUME NEW f \in Functions PROVE own[f] \subseteq ReachedEffects(f)
  BY ReachedEffect
<1>4. table \in Tables
  BY <1>1 DEF Tables
<1>5. QED
  BY <1>2, <1>3, <1>4 DEF Closed

\* A closed table passes on all that is reached.
LEMMA ClosedTablesReach ==
  ASSUME NEW table, Closed(table), NEW f \in Functions
  PROVE  ReachedEffects(f) \subseteq table[f]
<1> DEFINE S == {h \in Functions : table[h] \ NotInherited \subseteq table[f]}
<1>1. f \in S /\ S \in SUBSET Functions
  OBVIOUS
<1>2. \A h \in S : calls[h] \cap Functions \subseteq S
  BY DEF Closed
<1>3. ASSUME NEW g \in Reached(f) PROVE own[g] \ NotInherited \subseteq table[f]
  <2>1. g \in S
    BY <1>1, <1>2, <1>3 DEF Reached
  <2>2. QED
    BY <2>1 DEF Closed
<1>4. own[f] \subseteq table[f]
  BY DEF Closed
<1>5. QED
  BY <1>3, <1>4, ReachedEffect

(* When the sweeps end, every function has exactly the effects of what it      *)
(* reaches, for any package: the closed tables have all of them, and their     *)
(* table is closed.                                                            *)
THEOREM EffectsAreExact ==
  ASSUME NEW dispatch, NEW direct \in Tables
  PROVE  PropagateSpec(dispatch, direct) => []EffectsAreReachable
<1>1. SweepInv => EffectsAreReachable
  <2>1. SUFFICES ASSUME SweepInv, Propagated, NEW f \in Functions
                 PROVE  effects[f] = ReachedEffects(f)
    BY DEF EffectsAreReachable
  <2>2. ReachedEffects(f) \subseteq effects[f]
    BY <2>1, SweptEffectsAreClosed, ClosedTablesReach
  <2>3. effects[f] \subseteq ReachedEffects(f)
    <3> DEFINE table == [h \in Functions |-> ReachedEffects(h)]
    <3>1. table \in Tables /\ Closed(table)
      BY <2>1, ReachedEffectsAreClosed DEF SweepInv, EffectTypeOK
    <3> HIDE DEF table
    <3>2. effects[f] \subseteq table[f]
      BY <2>1, <3>1 DEF SweepInv
    <3>3. QED
      BY <3>2 DEF table
  <2>4. QED
    BY <2>2, <2>3
<1>2. QED
  BY <1>1, SweepsAreInvariant, PTL
------------------------------------------------------------------------------
(* Native calls.  What a walk has come to is an expression of a function whose *)
(* effects and buffers its entry has too; on a worker, outside of prefixes,    *)
(* what runs of it is clean of Python and of buffers, which validation looked  *)
(* up in all that is contained in the closure, and the propagated effects in   *)
(* all that is called from there.                                              *)

\* The least sets that have an expression and the parts of what they have.
Contained == [e \in Nodes |->
  {x \in Nodes : \A S \in SUBSET Nodes :
     e \in S /\ (\A h \in S : ToSet(h.parts) \subseteq S) => x \in S}]

Unfolds(walked) ==
  walked = [e \in Nodes |-> {e} \union UNION {walked[part] : part \in ToSet(e.parts)}]

\* An expression in S, as Contained wants its members.
InClosed(e, x) ==
  \A S \in SUBSET Nodes : e \in S /\ (\A h \in S : ToSet(h.parts) \subseteq S) => x \in S

LEMMA PartsAreNodes ==
  ASSUME NEW e \in Nodes
  PROVE  /\ ToSet(e.parts) \subseteq Nodes
         /\ \A i \in DOMAIN e.parts : e.parts[i] \in ToSet(e.parts)
         /\ e.parts \in Seq(Nodes)
BY NodesAssumption DEF ToSet

\* There is a function like Walk: what is contained in an expression is the
\* expression and what is contained in its parts.
LEMMA ContainedUnfolds == Unfolds(Contained)
<1> DEFINE parts(e) == UNION {Contained[part] : part \in ToSet(e.parts)}
<1>1. \A e, x \in Nodes : x \in Contained[e] <=> InClosed(e, x)
  BY DEF Contained, InClosed
<1>2. \A e \in Nodes : Contained[e] \subseteq Nodes
  BY DEF Contained
<1>3. ASSUME NEW e \in Nodes PROVE Contained[e] = {e} \union parts(e)
  <2>1. e \in Contained[e]
    BY <1>1 DEF InClosed
  <2>2. ASSUME NEW part \in ToSet(e.parts) PROVE Contained[part] \subseteq Contained[e]
    <3>1. part \in Nodes
      BY <2>2, PartsAreNodes
    <3>2. ASSUME NEW x \in Nodes, InClosed(part, x) PROVE InClosed(e, x)
      <4>1. ASSUME NEW S \in SUBSET Nodes, e \in S, \A h \in S : ToSet(h.parts) \subseteq S
            PROVE  x \in S
        <5>1. part \in S
          BY <2>2, <4>1
        <5>2. QED
          BY <3>2, <4>1, <5>1 DEF InClosed
      <4>2. QED
        BY <4>1 DEF InClosed
    <3>3. QED
      BY <1>1, <1>2, <3>1, <3>2
  <2>3. ASSUME NEW x \in Contained[e] PROVE x \in {e} \union parts(e)
    <3> DEFINE S == {e} \union parts(e)
    <3>1. S \in SUBSET Nodes
      BY <1>2, PartsAreNodes
    <3>2. ASSUME NEW h \in S PROVE ToSet(h.parts) \subseteq S
      <4>1. CASE h = e
        <5>1. ASSUME NEW part \in ToSet(e.parts) PROVE part \in parts(e)
          <6>1. part \in Nodes
            BY <5>1, PartsAreNodes
          <6>2. part \in Contained[part]
            BY <1>1, <6>1 DEF InClosed
          <6>3. QED
            BY <5>1, <6>2
        <5>2. QED
          BY <4>1, <5>1
      <4>2. CASE h \in parts(e)
        <5>1. PICK part \in ToSet(e.parts) : h \in Contained[part]
          BY <4>2
        <5>2. part \in Nodes /\ h \in Nodes
          BY <1>2, <5>1, PartsAreNodes
        <5>3. InClosed(part, h)
          BY <1>1, <5>1, <5>2
        <5>4. ASSUME NEW k \in ToSet(h.parts) PROVE k \in Contained[part]
          <6>1. k \in Nodes
            BY <5>2, <5>4, PartsAreNodes
          <6>2. ASSUME NEW T \in SUBSET Nodes, part \in T,
                       \A g \in T : ToSet(g.parts) \subseteq T
                PROVE  k \in T
            <7>1. h \in T
              BY <5>3, <6>2 DEF InClosed
            <7>2. QED
              BY <5>4, <6>2, <7>1
          <6>3. InClosed(part, k)
            BY <6>2 DEF InClosed
          <6>4. QED
            BY <1>1, <5>2, <6>1, <6>3
        <5>5. QED
          BY <5>1, <5>4
      <4>3. QED
        BY <4>1, <4>2
    <3>3. x \in Nodes /\ InClosed(e, x)
      BY <1>1, <1>2, <2>3
    <3>4. e \in S
      OBVIOUS
    <3> HIDE DEF S
    <3>5. x \in S
      BY <3>1, <3>2, <3>3, <3>4 DEF InClosed
    <3>6. QED
      BY <3>5 DEF S
  <2>4. QED
    BY <2>1, <2>2, <2>3
<1>4. Contained = [e \in Nodes |-> Contained[e]]
  BY DEF Contained
<1>5. QED
  BY <1>3, <1>4 DEF Unfolds

LEMMA WalkUnfolds == Unfolds(Walk)
<1>1. Walk = CHOOSE walked : Unfolds(walked)
  BY DEF Walk, Unfolds
<1>2. QED
  BY <1>1, ContainedUnfolds

LEMMA WalkGoesIntoParts ==
  ASSUME NEW e \in Nodes
  PROVE  /\ e \in Walk[e]
         /\ \A i \in DOMAIN e.parts :
              e.parts[i] \in Nodes /\ Walk[e.parts[i]] \subseteq Walk[e]
<1>1. Walk[e] = {e} \union UNION {Walk[part] : part \in ToSet(e.parts)}
  BY WalkUnfolds DEF Unfolds
<1>2. QED
  BY <1>1, PartsAreNodes

Within(e, f) == e \in Nodes /\ Walk[e] \subseteq WalkAll(package[f].body)

\* What calls of f may do, calls of g may do only if g says so.
Covers(f, g) ==
  /\ "PythonRuntime" \in effects[g] => "PythonRuntime" \in effects[f]
  /\ TakesBuffer(package[g]) => TakesBuffer(package[f])

\* What runs of an expression: the prefix of a closure is not looked at.
Ran(e) == IF IsClosure(e) THEN Result(e) ELSE e

RunsClean(e) == \A x \in Walk[Ran(e)] : ~PythonNode(x) /\ ~TouchesBuffer(x)

Accepted == verdict = "accepted"

Tabled ==
  /\ calls = [f \in Functions |-> FunctionCalls(package[f])]
  /\ own = [f \in Functions |-> FunctionEffects(package[f])]
  /\ WellFormed(package)

\* Where a native call is.
WalkPlaces == [entry : Functions, at : Nodes, worker : BOOLEAN, prefix : BOOLEAN]

WalkInv ==
  /\ Accepted /\ walk \in WalkPlaces
  /\ walk.entry \in Functions /\ package[walk.entry].exported
  /\ \E f \in Functions : Covers(walk.entry, f) /\ Within(walk.at, f)
  /\ walk.worker /\ ~walk.prefix => RunsClean(walk.at)

NativeInv ==
  /\ SweepInv /\ Tabled
  /\ Accepted => Propagated /\ \A f \in Functions : FunctionProblems(f) = {}
  /\ walk # NotCalled => WalkInv

LEMMA WalkedExpressions ==
  ASSUME NEW f \in Functions, NEW e, Tabled, Within(e, f)
  PROVE  /\ e \in WalkAll(package[f].body)
         /\ \A x \in WalkAll(package[f].body) : x \in Nodes /\ DirectEffects(x) \subseteq own[f]
         /\ \A x \in WalkAll(package[f].body) : DispatchTargets(x) \subseteq calls[f]
<1>1. e \in WalkAll(package[f].body)
  BY WalkGoesIntoParts DEF Within
<1>2. WalkAll(package[f].body) \subseteq Nodes
  BY DEF Tabled, WellFormed
<1>3. own[f] = FunctionEffects(package[f]) /\ calls[f] = FunctionCalls(package[f])
  BY DEF Tabled
<1>4. QED
  BY <1>1, <1>2, <1>3 DEF FunctionEffects, FunctionCalls

\* Effects are those of what a function does and dispatches to.
LEMMA PythonIsAnEffect ==
  ASSUME NEW f \in Functions, NEW e, SweepInv, Tabled, Propagated, Within(e, f),
         "PythonRuntime" \notin effects[f]
  PROVE  \A x \in WalkAll(package[f].body) : ~PythonNode(x)
<1>1. SUFFICES ASSUME NEW x \in WalkAll(package[f].body), PythonNode(x) PROVE FALSE
  OBVIOUS
<1>2. Closed(effects)
  BY SweptEffectsAreClosed
<1>3. "PythonRuntime" \notin own[f]
  BY <1>2 DEF Closed
<1>4. "PythonRuntime" \notin DirectEffects(x) /\ DispatchTargets(x) \subseteq calls[f]
  BY <1>1, <1>3, WalkedExpressions
<1>5. x.k # "print"
  BY <1>4 DEF DirectEffects
<1>6. ~(x.k = "crate" /\ x.declared # Undeclared /\ "PythonRuntime" \in x.declared)
  BY <1>4 DEF DirectEffects, CrateEffects
<1>7. \A g \in DispatchTargets(x) : ~ReachesPython(g)
  BY <1>2, <1>4 DEF Closed, ReachesPython, NotInherited
<1>8. QED
  BY <1>1, <1>5, <1>6, <1>7 DEF PythonNode

\* A call takes along what its targets may do.
LEMMA CallsAreCovered ==
  ASSUME NEW f \in Functions, NEW e, SweepInv, Tabled, Propagated, Within(e, f),
         NEW g \in e.targets
  PROVE  /\ g \in Functions /\ Covers(f, g)
         /\ TakesBuffer(package[g]) => \E x \in Walk[e] : TouchesBuffer(x)
         /\ g \in DispatchTargets(e)
<1>1. e \in Nodes /\ e \in WalkAll(package[f].body) /\ DispatchTargets(e) \subseteq calls[f]
  BY WalkedExpressions DEF Within
<1>2. g \in Functions /\ g \in DispatchTargets(e)
  BY <1>1, PackageAssumption, NodesAssumption DEF DispatchTargets
<1>3. "PythonRuntime" \in effects[g] => "PythonRuntime" \in effects[f]
  BY <1>1, <1>2, SweptEffectsAreClosed DEF Closed, NotInherited
<1>4. ASSUME TakesBuffer(package[g])
      PROVE  /\ \E x \in Walk[e] : TouchesBuffer(x)
             /\ TakesBuffer(package[f])
  <2>1. PICK x \in Walk[e] : TouchesBuffer(x)
    BY <1>1, <1>4 DEF Tabled, WellFormed
  <2>2. x \in WalkAll(package[f].body)
    BY <2>1 DEF Within
  <2>3. QED
    BY <2>1, <2>2 DEF Tabled, WellFormed
<1>5. QED
  BY <1>2, <1>3, <1>4 DEF Covers

Handed(e) == WorkerClosures(e) \union ParallelClosures(e)

\* A closure that goes to another thread is not only handed over: it is among
\* the function's expressions, which all are looked at.
LEMMA HandedClosuresAreClean ==
  ASSUME NEW f \in Functions, NEW e, Tabled, FunctionProblems(f) = {}, Within(e, f),
         NEW i \in DOMAIN e.parts, e.parts[i] \in Handed(e)
  PROVE  RunsClean(e.parts[i])
<1> DEFINE c == e.parts[i]
           body == WalkAll(package[f].body)
           workers == UNION {WorkerClosures(x) : x \in body}
<1>1. e \in body /\ c \in body /\ IsClosure(c)
  <2>1. e \in body
    BY WalkedExpressions
  <2>2. c \in Nodes /\ Walk[c] \subseteq Walk[e] /\ c \in Walk[c]
    BY WalkGoesIntoParts DEF Within
  <2>3. c \in body
    BY <2>2 DEF Within
  <2>4. IsClosure(c)
    BY DEF Handed, WorkerClosures, ParallelClosures
  <2>5. QED
    BY <2>1, <2>3, <2>4
<1>2. \A x \in body : /\ BufferProblem(x) = {} /\ WorkerProblem(x) = {}
                      /\ ContextProblem(x, workers) = {}
  <2>1. \A x \in body : ExpressionProblems(x, workers) = {}
    BY DEF FunctionProblems
  <2>2. QED
    BY <2>1 DEF ExpressionProblems
<1>3. ~BufferOffender(c)
  BY <1>1, <1>2 DEF BufferProblem, Code, Handed
<1>4. ~PythonOffender(c)
  <2>1. CASE c \in workers
    <3>1. PICK x \in body : c \in WorkerClosures(x)
      BY <2>1
    <3>2. QED
      BY <1>2, <3>1 DEF WorkerProblem, Code
  <2>2. CASE c \notin workers
    BY <1>1, <1>2, <2>2 DEF ContextProblem, Code
  <2>3. QED
    BY <2>1, <2>2
<1>5. QED
  BY <1>1, <1>3, <1>4 DEF RunsClean, Ran, BufferOffender, PythonOffender

LEMMA DirectEffectsAreEffects == ASSUME NEW e \in Nodes PROVE DirectEffects(e) \subseteq Effect
<1>1. CrateEffects(e) \subseteq Effect
  BY PackageAssumption DEF CrateEffects, Effect
<1>2. ConstructorEffects(e.name) \subseteq Effect
  BY DEF ConstructorEffects, Effect
<1>3. MethodEffects(e.on, e.name) \subseteq Effect
  BY DEF MethodEffects, Effect
<1>4. QED
  BY <1>1, <1>2, <1>3 DEF DirectEffects, Effect

LEMMA PolicyInitInv ==
  ASSUME NEW packages, \A p \in packages : WellFormed(p), PolicyInit(packages)
  PROVE  NativeInv
<1> DEFINE direct == [f \in Functions |-> FunctionEffects(package[f])]
<1>1. WellFormed(package)
  BY DEF PolicyInit
<1>2. ASSUME NEW f \in Functions PROVE FunctionEffects(package[f]) \subseteq Effect
  <2>1. \A e \in WalkAll(package[f].body) : DirectEffects(e) \subseteq Effect
    BY <1>1, DirectEffectsAreEffects DEF WellFormed
  <2>2. UNION {DirectEffects(e) : e \in WalkAll(package[f].body)} \subseteq Effect
    BY <2>1
  <2>3. QED
    BY <2>2 DEF FunctionEffects, Effect
<1>3. direct \in Tables
  BY <1>2 DEF Tables
<1>4. SweepInv
  BY <1>3, EffectInitInv DEF PolicyInit
<1>5. QED
  BY <1>1, <1>4 DEF PolicyInit, EffectInit, NativeInv, Tabled, Accepted

\* While effects are propagated there is no verdict yet.
LEMMA SweepingKeeps ==
  ASSUME NativeInv, Visit \/ SweepAgain, UNCHANGED <<package, verdict, walk>>
  PROVE  NativeInv'
<1>1. SweepInv'
  BY VisitKeeps, SweepsKeep DEF NativeInv
<1>2. ~Propagated /\ UNCHANGED <<calls, own>>
  BY DEF Visit, SweepAgain, Propagated, SweepInv, EffectTypeOK, NativeInv
<1>3. ~Accepted /\ ~Accepted' /\ walk = NotCalled /\ walk' = NotCalled
  BY <1>2 DEF NativeInv, WalkInv, Accepted
<1>4. Tabled'
  BY <1>2 DEF NativeInv, Tabled
<1>5. QED
  BY <1>1, <1>3, <1>4 DEF NativeInv

LEMMA EffectsRest ==
  ASSUME NativeInv, UNCHANGED <<effectVars, package>>
  PROVE  /\ SweepInv' /\ Tabled' /\ (Propagated' <=> Propagated)
         /\ \A f \in Functions : FunctionProblems(f)' = FunctionProblems(f)
         /\ \A e : RunsClean(e)' <=> RunsClean(e)
         /\ \A e, f : Within(e, f)' <=> Within(e, f)
         /\ \A f, g : Covers(f, g)' <=> Covers(f, g)
<1>1. UNCHANGED <<calls, own, effects, place, changed, package>>
  BY DEF effectVars
<1>2. SweepInv'
  BY <1>1 DEF NativeInv, SweepInv, EffectTypeOK, Closed, Inherited
<1>3. Tabled' /\ (Propagated' <=> Propagated)
  BY <1>1 DEF NativeInv, Tabled, Propagated, SweepsAgain
<1>4. \A f : ReachesPython(f)' <=> ReachesPython(f)
  BY <1>1 DEF ReachesPython
<1>5. \A e : PythonNode(e)' <=> PythonNode(e)
  BY <1>4 DEF PythonNode
<1>6. \A e : RunsClean(e)' <=> RunsClean(e)
  BY <1>5 DEF RunsClean
<1>7. \A f \in Functions : FunctionProblems(f)' = FunctionProblems(f)
  BY <1>1 DEF FunctionProblems, AnnotationProblem, ReleaseProblem, PlacementProblem,
              ExpressionProblems, HookProblem, BufferProblem, WorkerProblem,
              ContextProblem, ClosureContractProblem, ReachesPython, PythonNode,
              PythonOffender, BufferOffender
<1>8. QED
  BY <1>1, <1>2, <1>3, <1>6, <1>7 DEF Within, Covers

LEMMA ValidationKeeps == ASSUME NativeInv, Validate PROVE NativeInv'
<1>1. UNCHANGED <<effectVars, package, walk>> /\ Propagated /\ ~Accepted
  BY DEF Validate, Accepted
<1>2. walk = NotCalled
  BY <1>1 DEF NativeInv, WalkInv
<1>3. ASSUME Accepted', NEW f \in Functions PROVE FunctionProblems(f) = {}
  <2> DEFINE problems == UNION {FunctionProblems(g) : g \in Functions}
  <2>1. "accepted" \notin problems
    <3>1. \A g \in Functions : "accepted" \notin FunctionProblems(g)
      BY DEF FunctionProblems, AnnotationProblem, ReleaseProblem, PlacementProblem,
             ExpressionProblems, HookProblem, BufferProblem, WorkerProblem,
             ContextProblem, ClosureContractProblem, Code
    <3>2. QED
      BY <3>1
  <2>2. problems = {}
    BY <1>3, <2>1 DEF Validate, Accepted
  <2>3. QED
    BY <2>2
<1>4. QED
  BY <1>1, <1>2, <1>3, EffectsRest DEF NativeInv

\* What the walk has come to is within what its call may do.
LEMMA NativeCallKeeps == ASSUME NativeInv, NEW f \in Functions, Call(f) PROVE NativeInv'
<1>1. UNCHANGED <<effectVars, package, verdict>> /\ Accepted /\ package[f].exported
  BY DEF Call, Accepted
<1>2. PICK i \in DOMAIN package[f].body :
        walk' = [entry |-> f, at |-> package[f].body[i], worker |-> FALSE, prefix |-> FALSE]
  BY DEF Call
<1>3. Within(package[f].body[i], f)
  <2>1. package[f].body \in Seq(Nodes)
    BY DEF NativeInv, Tabled, WellFormed
  <2>2. package[f].body[i] \in Nodes /\ package[f].body[i] \in ToSet(package[f].body)
    BY <2>1 DEF ToSet
  <2>3. QED
    BY <2>2 DEF Within, WalkAll
<1>4. Covers(f, f)
  BY DEF Covers
<1>5. WalkInv'
  BY <1>1, <1>2, <1>3, <1>4, EffectsRest DEF WalkInv, Accepted, WalkPlaces, Within
<1>6. QED
  BY <1>1, <1>5, EffectsRest DEF NativeInv, Accepted

LEMMA RanIsWalked ==
  ASSUME NEW e \in Nodes
  PROVE  Ran(e) \in Nodes /\ Walk[Ran(e)] \subseteq Walk[e]
<1>1. CASE IsClosure(e)
  <2>1. e.parts \in Seq(Nodes) /\ e.parts # <<>>
    BY <1>1, NodesAssumption DEF IsClosure
  <2>2. Len(e.parts) \in DOMAIN e.parts
    BY <2>1
  <2>3. QED
    BY <1>1, <2>2, WalkGoesIntoParts DEF Ran, Result
<1>2. CASE ~IsClosure(e)
  BY <1>2 DEF Ran
<1>3. QED
  BY <1>1, <1>2

\* The statements of a function are within it.
LEMMA StatementsAreWithin ==
  ASSUME NEW f \in Functions, Tabled, NEW i \in DOMAIN package[f].body
  PROVE  Within(package[f].body[i], f)
<1>1. package[f].body \in Seq(Nodes)
  BY DEF Tabled, WellFormed
<1>2. package[f].body[i] \in Nodes /\ package[f].body[i] \in ToSet(package[f].body)
  BY <1>1 DEF ToSet
<1>3. QED
  BY <1>2 DEF Within, WalkAll

LEMMA DescendKeeps == ASSUME NativeInv, Descend PROVE NativeInv'
<1>1. /\ UNCHANGED <<effectVars, package, verdict>> /\ WalkInv
      /\ Propagated /\ \A f \in Functions : FunctionProblems(f) = {}
  BY DEF Descend, NativeInv, WalkInv
<1>2. PICK i \in DOMAIN walk.at.parts :
        walk' = [walk EXCEPT
            !.at = walk.at.parts[i],
            !.worker = @ \/ walk.at.parts[i] \in Handed(walk.at),
            !.prefix = @ \/ (walk.worker /\ IsClosure(walk.at) /\ i < Len(walk.at.parts))]
  BY DEF Descend, Handed
<1>3. PICK f \in Functions : Covers(walk.entry, f) /\ Within(walk.at, f)
  BY <1>1 DEF WalkInv
<1>p. PICK part : part = walk.at.parts[i]
  OBVIOUS
<1>4. walk.at \in Nodes /\ part \in Nodes /\ Walk[part] \subseteq Walk[walk.at]
  BY <1>p, <1>3, WalkGoesIntoParts DEF Within
<1>5. Within(part, f)
  BY <1>3, <1>4 DEF Within
<1>t. walk \in WalkPlaces
  BY <1>1 DEF WalkInv
<1>6. /\ walk'.entry = walk.entry /\ walk'.at = part
      /\ walk'.worker = (walk.worker \/ part \in Handed(walk.at))
      /\ walk'.prefix = (walk.prefix \/ (walk.worker /\ IsClosure(walk.at) /\ i < Len(walk.at.parts)))
  BY <1>2, <1>p, <1>t DEF WalkPlaces
<1>7. ASSUME walk'.worker, ~walk'.prefix PROVE RunsClean(part)
  <2>1. CASE walk.worker
    <3>1. RunsClean(walk.at)
      BY <1>1, <1>6, <1>7, <2>1 DEF WalkInv
    <3>2. Walk[part] \subseteq Walk[Ran(walk.at)]
      <4>1. CASE IsClosure(walk.at)
        <5>1. ~(i < Len(walk.at.parts))
          BY <1>6, <1>7, <2>1, <4>1
        <5>2. walk.at.parts \in Seq(Nodes)
          BY <1>4, NodesAssumption
        <5>3. i = Len(walk.at.parts)
          BY <5>1, <5>2
        <5>4. QED
          BY <1>p, <4>1, <5>3 DEF Ran, Result
      <4>2. CASE ~IsClosure(walk.at)
        BY <1>4, <4>2 DEF Ran
      <4>3. QED
        BY <4>1, <4>2
    <3>3. Walk[Ran(part)] \subseteq Walk[Ran(walk.at)]
      BY <1>4, <3>2, RanIsWalked
    <3>4. QED
      BY <3>1, <3>3 DEF RunsClean
  <2>2. CASE ~walk.worker
    BY <1>1, <1>3, <1>6, <1>7, <1>p, <2>2, HandedClosuresAreClean DEF NativeInv
  <2>3. QED
    BY <2>1, <2>2
<1>8. WalkInv'
  <2>1. walk' \in WalkPlaces
    <3>1. walk' = [entry |-> walk.entry, at |-> part, worker |-> walk'.worker,
                   prefix |-> walk'.prefix]
      BY <1>2, <1>p, <1>t DEF WalkPlaces
    <3>2. walk'.worker \in BOOLEAN /\ walk'.prefix \in BOOLEAN
      BY <1>6
    <3>3. walk.entry \in Functions
      BY <1>1 DEF WalkInv
    <3>4. QED
      BY <1>4, <3>1, <3>2, <3>3 DEF WalkPlaces
  <2>2. walk'.entry \in Functions /\ package'[walk'.entry].exported /\ Accepted'
    BY <1>1, <1>6 DEF WalkInv, Accepted
  <2>3. Covers(walk.entry, f)' /\ Within(part, f)'
    BY <1>1, <1>3, <1>5, <1>6, EffectsRest
  <2>4. walk'.worker /\ ~walk'.prefix => RunsClean(part)'
    BY <1>1, <1>7, EffectsRest
  <2>5. QED
    BY <1>6, <2>1, <2>2, <2>3, <2>4 DEF WalkInv
<1>9. QED
  BY <1>1, <1>8, EffectsRest DEF NativeInv, Accepted, WalkInv

LEMMA EnterKeeps == ASSUME NativeInv, Enter PROVE NativeInv'
<1>1. /\ UNCHANGED <<effectVars, package, verdict>> /\ WalkInv
      /\ SweepInv /\ Tabled /\ Propagated
  BY DEF Enter, NativeInv, WalkInv
<1>2. PICK g \in walk.at.targets : \E i \in DOMAIN package[g].body :
        walk' = [walk EXCEPT !.at = package[g].body[i]]
  BY DEF Enter
<1>3. PICK i \in DOMAIN package[g].body : walk' = [walk EXCEPT !.at = package[g].body[i]]
  BY <1>2
<1>4. PICK f \in Functions : Covers(walk.entry, f) /\ Within(walk.at, f)
  BY <1>1 DEF WalkInv
<1>p. PICK statement : statement = package[g].body[i]
  OBVIOUS
<1>5. /\ g \in Functions /\ Covers(f, g) /\ g \in DispatchTargets(walk.at)
      /\ TakesBuffer(package[g]) => \E x \in Walk[walk.at] : TouchesBuffer(x)
  BY <1>1, <1>4, CallsAreCovered
<1>6. Within(statement, g) /\ Covers(walk.entry, g)
  BY <1>1, <1>4, <1>5, <1>p, StatementsAreWithin DEF Covers
<1>t. walk \in WalkPlaces
  BY <1>1 DEF WalkInv
<1>7. walk' = [entry |-> walk.entry, at |-> statement,
               worker |-> walk.worker, prefix |-> walk.prefix]
  BY <1>3, <1>p, <1>t DEF WalkPlaces
<1>8. ASSUME walk.worker, ~walk.prefix PROVE RunsClean(statement)
  <2>1. RunsClean(walk.at)
    BY <1>1, <1>8 DEF WalkInv
  <2>2. walk.at \in Nodes /\ ~IsClosure(walk.at)
    BY <1>4, NodesAssumption DEF Within, IsClosure, Dispatching
  <2>3. \A x \in Walk[walk.at] : ~PythonNode(x) /\ ~TouchesBuffer(x)
    BY <2>1, <2>2 DEF RunsClean, Ran
  <2>4. ~PythonNode(walk.at)
    BY <2>2, <2>3, WalkGoesIntoParts
  <2>5. "PythonRuntime" \notin effects[g]
    BY <1>5, <2>4 DEF PythonNode, ReachesPython
  <2>6. \A x \in WalkAll(package[g].body) : ~PythonNode(x)
    BY <1>1, <1>5, <1>6, <2>5, PythonIsAnEffect
  <2>7. \A x \in WalkAll(package[g].body) : ~TouchesBuffer(x)
    BY <1>1, <1>5, <2>3 DEF Tabled, WellFormed
  <2>8. Walk[Ran(statement)] \subseteq WalkAll(package[g].body)
    BY <1>6, RanIsWalked DEF Within
  <2>9. QED
    BY <2>6, <2>7, <2>8 DEF RunsClean
<1>9. WalkInv'
  <2>1. walk' \in WalkPlaces
    BY <1>6, <1>7, <1>t DEF WalkPlaces, Within
  <2>2. walk'.entry \in Functions /\ package'[walk'.entry].exported /\ Accepted'
    BY <1>1, <1>7 DEF WalkInv, Accepted
  <2>3. Covers(walk.entry, g)' /\ Within(statement, g)'
    BY <1>1, <1>6, <1>7, EffectsRest
  <2>4. walk.worker /\ ~walk.prefix => RunsClean(statement)'
    BY <1>1, <1>8, EffectsRest
  <2>5. QED
    BY <1>5, <1>7, <2>1, <2>2, <2>3, <2>4 DEF WalkInv
<1>10. QED
  BY <1>1, <1>9, EffectsRest DEF NativeInv, Accepted, WalkInv

LEMMA NativeInvariant ==
  ASSUME NEW packages, \A p \in packages : WellFormed(p)
  PROVE  NativeSpec(packages) => []NativeInv
<1>1. PolicyInit(packages) => NativeInv
  BY PolicyInitInv
<1>2. NativeInv /\ [PolicyNext]_vars => NativeInv'
  <2> SUFFICES ASSUME NativeInv, [PolicyNext]_vars PROVE NativeInv'
    OBVIOUS
  <2>1. ASSUME UNCHANGED vars PROVE NativeInv'
    <3>1. UNCHANGED <<effectVars, package, verdict, walk>>
      BY <2>1 DEF vars
    <3>2. walk # NotCalled => WalkInv'
      BY <3>1, EffectsRest DEF NativeInv, WalkInv, Accepted
    <3>3. QED
      BY <3>1, <3>2, EffectsRest DEF NativeInv, Accepted
  <2>2. QED
    BY <2>1, SweepingKeeps, ValidationKeeps, NativeCallKeeps, DescendKeeps, EnterKeeps
       DEF PolicyNext
<1>3. QED
  BY <1>1, <1>2, PTL DEF NativeSpec

\* What enters Python or reads a buffer is an effect the wrapper looks at.
LEMMA DetachedCallsTouchNothing == ASSUME NativeInv PROVE DetachedCallsStayNative
<1>1. SUFFICES ASSUME walk # NotCalled, ReleasesGil(walk.entry)
               PROVE  ~TouchesPython(walk.at) /\ ~TouchesBuffer(walk.at)
  BY DEF DetachedCallsStayNative
<1>2. WalkInv /\ SweepInv /\ Tabled /\ Propagated
  BY <1>1 DEF NativeInv, WalkInv
<1>3. PICK f \in Functions : Covers(walk.entry, f) /\ Within(walk.at, f)
  BY <1>2 DEF WalkInv
<1> DEFINE entry == package[walk.entry]
<1>4. walk.entry \in Functions /\ entry.exported
  BY <1>2 DEF WalkInv
<1>5. "PythonRuntime" \notin effects[walk.entry]
  BY <1>1, <1>4 DEF ReleasesGil, ReachesPython, AttachingEffects
<1>6. ~TakesBuffer(entry)
  <2>1. SUFFICES ASSUME NEW t \in entry.parameters, t.name = "Buffer" PROVE FALSE
    BY DEF TakesBuffer
  <2>2. t.ownership = Unmarked
    BY <1>2, <1>4, <2>1 DEF Tabled, WellFormed
  <2>3. RetainsBorrow(t)
    BY <2>1, <2>2 DEF RetainsBorrow, Unmarked
  <2>4. entry.release
    BY <1>1, <2>1, <2>2 DEF ReleasesGil, Unmarked, SafeNames, Integers32
  <2>5. QED
    BY <1>1, <2>1, <2>3, <2>4 DEF ReleasesGil
<1>7. walk.at \in WalkAll(package[f].body)
  BY <1>2, <1>3, WalkedExpressions
<1>8. ~PythonNode(walk.at)
  BY <1>2, <1>3, <1>5, <1>7, PythonIsAnEffect DEF Covers
<1>9. ~TouchesBuffer(walk.at)
  BY <1>2, <1>3, <1>6, <1>7 DEF Covers, Tabled, WellFormed
<1>10. QED
  BY <1>8, <1>9 DEF TouchesPython, PythonNode

\* A closure by itself touches nothing, and its result is clean.
LEMMA WorkersTouchNothing == ASSUME NativeInv PROVE WorkersStayNative
<1>1. SUFFICES ASSUME walk # NotCalled, walk.worker, ~walk.prefix
               PROVE  ~TouchesBuffer(walk.at) /\ ~TouchesPython(walk.at)
  BY DEF WorkersStayNative
<1>2. RunsClean(walk.at) /\ walk.at \in Nodes
  BY <1>1 DEF NativeInv, WalkInv, Within
<1>3. CASE IsClosure(walk.at)
  BY <1>3 DEF IsClosure, TouchesBuffer, TouchesPython
<1>4. CASE ~IsClosure(walk.at)
  BY <1>2, <1>4, WalkGoesIntoParts DEF RunsClean, Ran, TouchesPython, PythonNode
<1>5. QED
  BY <1>3, <1>4

(* A call made without the GIL comes, on its own thread or on one it starts,   *)
(* to no expression that enters Python or reads a Python buffer, for every     *)
(* package the frontend makes: function_releases_gil decides from signatures   *)
(* and propagated effects what holds along every path of calls.                *)
THEOREM DetachedCallsNeverReachPython ==
  ASSUME NEW packages, \A p \in packages : WellFormed(p)
  PROVE  NativeSpec(packages) => []DetachedCallsStayNative
BY NativeInvariant, DetachedCallsTouchNothing, PTL

(* A thread that a native function starts comes to none either, through the    *)
(* result of the closure it runs and whatever that calls, in every package     *)
(* that validate_package_ir accepts.                                           *)
THEOREM WorkersAreKeptFromPython ==
  ASSUME NEW packages, \A p \in packages : WellFormed(p)
  PROVE  NativeSpec(packages) => []WorkersStayNative
BY NativeInvariant, WorkersTouchNothing, PTL

------------------------------------------------------------------------------
(* Emitted names.                                                              *)

IsAllocator(g) ==
  /\ g = [next |-> g.next, temporaries |-> g.temporaries,
           reserved |-> g.reserved, names |-> g.names]
  /\ g.next \in Nat /\ g.temporaries \in Nat
  /\ g.reserved = [ns \in Namespaces |-> g.reserved[ns]]
  /\ g.names = [ns \in Namespaces |-> g.names[ns]]
  /\ \A ns \in Namespaces : IsFiniteSet(Taken(g, ns))

\* A call binds a name or asks for a temporary: what it gets, and the allocator
\* after it.
Binds(c) == c.kind = "bind"
Issued(g, c) == IF Binds(c) THEN EmittedName(g, c.name, c.ns) ELSE Temporary(g, c.name, c.ns)
Then(g, c) == IF Binds(c) THEN Bound(g, c.name, c.ns) ELSE AfterTemporary(g, c.name, c.ns)

\* Some natural number in a set of them is the least.
LEMMA LeastOne ==
  ASSUME NEW T \in SUBSET Nat, T # {}
  PROVE  \E k \in T : \A j \in T : k <= j
<1>1. PICK k \in T : \A j \in T : ~(<<j, k>> \in OpToRel(<, Nat))
  BY NatLessThanWellFounded, WFMin
<1>2. \A j \in T : ~(j < k)
  BY <1>1 DEF OpToRel
<1> QED
  BY <1>2

\* More arguments than values: two have the same.
LEMMA TwoShareOne ==
  ASSUME NEW S, IsFiniteSet(S), NEW T, IsFiniteSet(T), Cardinality(T) < Cardinality(S)
  PROVE  \A f \in [S -> T] : \E x, y \in S : x # y /\ f[x] = f[y]
BY FS_PigeonHole

\* Of pairwise different names numbered from a, more than there are taken, one is
\* free, and before the first such all are taken.
LEMMA OneIsFree ==
  ASSUME NEW taken, IsFiniteSet(taken), NEW a \in Nat,
         NEW f, f = [k \in a .. a + Cardinality(taken) |-> f[k]],
         \A j, k \in a .. a + Cardinality(taken) : f[j] = f[k] => j = k
  PROVE  /\ Cardinality(taken) \in Nat
         /\ \E k \in a .. a + Cardinality(taken) :
              f[k] \notin taken /\ \A j \in a .. k - 1 : f[j] \in taken
<1> DEFINE n == Cardinality(taken)
<1> DEFINE I == a .. a + n
<1> DEFINE T == {k \in I : f[k] \notin taken}
<1>1. n \in Nat
  BY FS_CardinalityType
<1> HIDE DEF n
<1>2. IsFiniteSet(I) /\ Cardinality(I) = n + 1
  <2> DEFINE b == a + n
  <2>1. a \in Int /\ b \in Int /\ ~(a > b) /\ b - a + 1 = n + 1
    BY <1>1
  <2> HIDE DEF b
  <2>2. IsFiniteSet(a .. b) /\ Cardinality(a .. b) = n + 1
    BY <2>1, FS_Interval
  <2> QED
    BY <2>2 DEF b
<1>3. T # {}
  <2> SUFFICES ASSUME \A k \in I : f[k] \in taken
               PROVE  FALSE
    OBVIOUS
  <2>1. f \in [I -> taken]
    BY DEF n
  <2>2. Cardinality(taken) < Cardinality(I)
    BY <1>1, <1>2 DEF n
  <2>3. \E x, y \in I : x # y /\ f[x] = f[y]
    <3> HIDE DEF I
    <3>1. IsFiniteSet(I)
      BY <1>2
    <3>2. \A g \in [I -> taken] : \E x, y \in I : x # y /\ g[x] = g[y]
      BY <3>1, <2>2, TwoShareOne
    <3> QED
      BY <3>2, <2>1
  <2> QED
    BY <2>3 DEF n
<1>4. T \in SUBSET Nat
  BY <1>1
<1>5. PICK k \in T : \A j \in T : k <= j
  <2> HIDE DEF T
  <2> QED
    BY <1>3, <1>4, LeastOne
<1>6. \A j \in a .. k - 1 : f[j] \in taken
  <2> SUFFICES ASSUME NEW j \in a .. k - 1, f[j] \notin taken
               PROVE  FALSE
    OBVIOUS
  <2>1. k \in Nat /\ k \in I
    BY <1>5, <1>4
  <2>2. j \in I /\ j < k
    BY <1>1, <2>1
  <2>3. j \in T
    BY <2>2
  <2>4. k <= j /\ j \in Nat
    BY <1>4, <1>5, <2>3
  <2> QED
    BY <2>1, <2>2, <2>4
<1> QED
  BY <1>1, <1>5, <1>6 DEF n

\* A numbered name has a part more than its base, its number last.
LEMMA NumberedParts ==
  ASSUME NEW a, NEW b, NEW c, NEW k \in Nat \ {0}
  PROVE  LET s == Numbered(<<a, b, c>>, k)
         IN  Len(s) = 4 /\ s[1] = a /\ s[2] = b /\ s[3] = c /\ s[4] = k
<1> DEFINE S == {a, b, c} \union Nat
<1>1. <<a, b, c>> \in Seq(S) /\ k \in S
  OBVIOUS
<1>2. LET s == Append(<<a, b, c>>, k)
      IN  s \in Seq(S) /\ Len(s) = 4 /\ s[1] = a /\ s[2] = b /\ s[3] = c /\ s[4] = k
  <2> DEFINE base == <<a, b, c>>
  <2>1. base \in Seq(S) /\ Len(base) = 3 /\ base[1] = a /\ base[2] = b /\ base[3] = c
    OBVIOUS
  <2> HIDE DEF base, S
  <2>2. \A s \in Seq(S), e \in S : 
          Append(s, e) \in Seq(S) /\ Len(Append(s, e)) = Len(s) + 1
          /\ (\A i \in 1 .. Len(s) : Append(s, e)[i] = s[i]) /\ Append(s, e)[Len(s) + 1] = e
    BY AppendProperties
  <2>3. k \in S
    BY DEF S
  <2>4. Append(base, k) \in Seq(S) /\ Len(Append(base, k)) = 4 /\ Append(base, k)[4] = k
        /\ \A i \in 1 .. 3 : Append(base, k)[i] = base[i]
    <3>1. Append(base, k) \in Seq(S) /\ Len(Append(base, k)) = Len(base) + 1
          /\ (\A i \in 1 .. Len(base) : Append(base, k)[i] = base[i])
          /\ Append(base, k)[Len(base) + 1] = k
      BY <2>1, <2>2, <2>3
    <3>2. Len(base) = 3
      BY <2>1
    <3>3. Len(base) + 1 = 4
      BY <3>2
    <3> QED
      BY <3>1, <3>2, <3>3
  <2>5. Append(base, k)[1] = a /\ Append(base, k)[2] = b /\ Append(base, k)[3] = c
    BY <2>1, <2>4
  <2> QED
    BY <2>4, <2>5 DEF base
<1> QED
  BY <1>2 DEF Numbered

\* Two numbers make two names.
LEMMA NumberedDiffer ==
  ASSUME NEW a, NEW b, NEW c, NEW j \in Nat, NEW k \in Nat,
         Numbered(<<a, b, c>>, j) = Numbered(<<a, b, c>>, k)
  PROVE  j = k
<1>1. \A i \in Nat \ {0} : LET s == Numbered(<<a, b, c>>, i) IN Len(s) = 4 /\ s[4] = i
  BY NumberedParts
<1>2. Len(Numbered(<<a, b, c>>, 0)) = 3
  BY DEF Numbered
<1> QED
  BY <1>1, <1>2

\* However many of the numbered names are taken, one that is not is found.
LEMMA FreeNameIsFree ==
  ASSUME NEW a, NEW b, NEW c, NEW taken, IsFiniteSet(taken)
  PROVE  /\ FreeName(<<a, b, c>>, taken) \notin taken
         /\ \E k \in Nat : FreeName(<<a, b, c>>, taken) = Numbered(<<a, b, c>>, k)
<1> DEFINE n == Cardinality(taken)
<1> DEFINE base == <<a, b, c>>
<1> DEFINE f == [k \in 0 .. 0 + n |-> Numbered(base, k)]
<1> DEFINE Good(i) == /\ Numbered(base, i) \notin taken
                      /\ \A j \in 0 .. i - 1 : Numbered(base, j) \in taken
<1>1. n \in Nat
  BY FS_CardinalityType
<1>2. \A j, k \in 0 .. 0 + n : f[j] = f[k] => j = k
  <2> SUFFICES ASSUME NEW j \in 0 .. 0 + n, NEW k \in 0 .. 0 + n, f[j] = f[k]
               PROVE  j = k
    OBVIOUS
  <2>1. j \in Nat /\ k \in Nat /\ Numbered(base, j) = Numbered(base, k)
    BY <1>1
  <2> QED
    BY <2>1, NumberedDiffer
<1>3. f = [k \in 0 .. 0 + n |-> f[k]]
  OBVIOUS
<1>4. \E k \in 0 .. 0 + n : f[k] \notin taken /\ \A j \in 0 .. k - 1 : f[j] \in taken
  <2> HIDE DEF f
  <2> QED
    BY <1>2, <1>3, OneIsFree
<1>5. PICK k \in 0 .. n : Good(k)
  <2>1. PICK k \in 0 .. 0 + n : f[k] \notin taken /\ \A j \in 0 .. k - 1 : f[j] \in taken
    BY <1>4
  <2>2. k \in 0 .. n /\ f[k] = Numbered(base, k)
    BY <1>1, <2>1
  <2>3. \A j \in 0 .. k - 1 : j \in 0 .. 0 + n
    BY <1>1, <2>2
  <2>4. \A j \in 0 .. k - 1 : f[j] = Numbered(base, j)
    BY <2>3
  <2> QED
    BY <2>1, <2>2, <2>4
<1> DEFINE chosen == CHOOSE i \in 0 .. n : Good(i)
<1>6. chosen \in 0 .. n /\ Good(chosen)
  <2> HIDE DEF Good
  <2> QED
    BY <1>5
<1>7. FreeName(base, taken) = Numbered(base, chosen)
  BY DEF FreeName
<1>8. chosen \in Nat
  BY <1>1, <1>6
<1> HIDE DEF chosen
<1> QED
  BY <1>6, <1>7, <1>8

\* So it is with temporaries, numbered from the one after the last.
LEMMA TemporaryIsFree ==
  ASSUME NEW g, IsAllocator(g), NEW ns \in Namespaces, NEW hint
  PROVE  /\ TemporaryNumber(g, hint, ns) \in Nat
         /\ Temporary(g, hint, ns) \notin Taken(g, ns)
<1> DEFINE taken == Taken(g, ns)
<1> DEFINE n == Cardinality(taken)
<1> DEFINE a == g.temporaries
<1> DEFINE made(k) == <<"__cw_", "tmp", k, hint>>
<1> DEFINE f == [k \in a .. a + n |-> made(k)]
<1> DEFINE Good(i) == made(i) \notin taken /\ \A j \in a .. i - 1 : made(j) \in taken
<1>1. IsFiniteSet(taken) /\ a \in Nat
  BY DEF IsAllocator
<1> HIDE DEF taken, a
<1>2. n \in Nat
  BY <1>1, FS_CardinalityType
<1>3. \A j, k \in a .. a + n : f[j] = f[k] => j = k
  OBVIOUS
<1>4. f = [k \in a .. a + n |-> f[k]]
  OBVIOUS
<1>5. \E k \in a .. a + n : f[k] \notin taken /\ \A j \in a .. k - 1 : f[j] \in taken
  <2> HIDE DEF f
  <2> QED
    BY <1>1, <1>3, <1>4, OneIsFree
<1>6. PICK k \in a .. a + n : Good(k)
  <2>1. PICK k \in a .. a + n : f[k] \notin taken /\ \A j \in a .. k - 1 : f[j] \in taken
    BY <1>5
  <2>2. f[k] = made(k)
    BY <2>1
  <2>3. \A j \in a .. k - 1 : j \in a .. a + n
    BY <1>1, <1>2, <2>1
  <2>4. \A j \in a .. k - 1 : f[j] = made(j)
    BY <2>3
  <2> QED
    BY <2>1, <2>2, <2>4
<1> DEFINE chosen == CHOOSE i \in a .. a + n : Good(i)
<1>7. chosen \in a .. a + n /\ Good(chosen)
  <2> HIDE DEF Good
  <2> QED
    BY <1>6
<1>8. chosen = TemporaryNumber(g, hint, ns)
  BY DEF TemporaryNumber, taken, a
<1>9. chosen \in Nat
  BY <1>1, <1>2, <1>7
<1>10. Temporary(g, hint, ns) = made(chosen)
  BY <1>8 DEF Temporary
<1> HIDE DEF chosen
<1> QED
  BY <1>7, <1>8, <1>9, <1>10 DEF taken

\* What a call gets nobody has.
LEMMA IssuedIsFree ==
  ASSUME NEW g, IsAllocator(g), NEW c, c.ns \in Namespaces
  PROVE  Issued(g, c) \notin Taken(g, c.ns)
<1>1. CASE Binds(c) /\ KeepsName(g, c.name, c.ns)
  BY <1>1 DEF Issued, EmittedName, KeepsName
<1>2. CASE Binds(c) /\ ~KeepsName(g, c.name, c.ns)
  <2>1. IsFiniteSet(Taken(g, c.ns))
    BY DEF IsAllocator
  <2>2. FreeName(<<Made[c.ns], g.next, c.name>>, Taken(g, c.ns)) \notin Taken(g, c.ns)
    BY <2>1, FreeNameIsFree
  <2> QED
    BY <1>2, <2>2 DEF Issued, EmittedName
<1>3. CASE ~Binds(c)
  BY <1>3, TemporaryIsFree DEF Issued
<1> QED
  BY <1>1, <1>2, <1>3

\* A call takes the name it issues and no other.
LEMMA CallTakesItsName ==
  ASSUME NEW g, IsAllocator(g), NEW c, c.ns \in Namespaces
  PROVE  /\ IsAllocator(Then(g, c))
         /\ \A ns \in Namespaces :
              Taken(Then(g, c), ns) = IF ns = c.ns THEN Taken(g, ns) \union {Issued(g, c)}
                                      ELSE Taken(g, ns)
<1> DEFINE h == Then(g, c)
<1> DEFINE rust == Issued(g, c)
<1> DEFINE With(names) == [names EXCEPT ![c.ns] = @ \union {rust}]
<1>1. /\ h.next \in Nat /\ h.temporaries \in Nat
      /\ h = [next |-> h.next, temporaries |-> h.temporaries,
              reserved |-> h.reserved, names |-> h.names]
      /\ \/ h.reserved = With(g.reserved) /\ h.names = g.names
         \/ h.reserved = g.reserved /\ h.names = With(g.names)
  <2>1. g = [next |-> g.next, temporaries |-> g.temporaries,
             reserved |-> g.reserved, names |-> g.names]
        /\ g.next \in Nat /\ g.temporaries \in Nat
    BY DEF IsAllocator
  <2>2. CASE Binds(c) /\ KeepsName(g, c.name, c.ns)
    <3>1. h = [[g EXCEPT !.next = @ + 1] EXCEPT !.names[c.ns] = @ \union {rust}]
      BY <2>2 DEF Then, Bound, Issued
    <3> HIDE DEF h, rust
    <3>2. h = [next |-> g.next + 1, temporaries |-> g.temporaries, reserved |-> g.reserved,
               names |-> With(g.names)]
      BY <2>1, <3>1
    <3> QED
      BY <2>1, <3>2
  <2>3. CASE Binds(c) /\ ~KeepsName(g, c.name, c.ns)
    <3>1. h = [[g EXCEPT !.next = @ + 1] EXCEPT !.reserved[c.ns] = @ \union {rust}]
      BY <2>3 DEF Then, Bound, Issued
    <3> HIDE DEF h, rust
    <3>2. h = [next |-> g.next + 1, temporaries |-> g.temporaries, reserved |-> With(g.reserved),
               names |-> g.names]
      BY <2>1, <3>1
    <3> QED
      BY <2>1, <3>2
  <2>4. CASE ~Binds(c)
    <3> DEFINE k == TemporaryNumber(g, c.name, c.ns)
    <3>1. h = [g EXCEPT !.temporaries = k + 1, !.reserved[c.ns] = @ \union {rust}]
      BY <2>4 DEF Then, AfterTemporary, Issued
    <3>2. k \in Nat
      BY TemporaryIsFree
    <3> HIDE DEF h, rust, k
    <3>3. h = [next |-> g.next, temporaries |-> k + 1, reserved |-> With(g.reserved),
               names |-> g.names]
      BY <2>1, <3>1
    <3> QED
      BY <2>1, <3>2, <3>3
  <2> QED
    BY <2>2, <2>3, <2>4
<1> HIDE DEF h, rust
<1>2. /\ g.reserved = [ns \in Namespaces |-> g.reserved[ns]]
      /\ g.names = [ns \in Namespaces |-> g.names[ns]]
      /\ \A ns \in Namespaces : IsFiniteSet(Taken(g, ns))
  BY DEF IsAllocator
<1>3. /\ h.reserved = [ns \in Namespaces |-> h.reserved[ns]]
      /\ h.names = [ns \in Namespaces |-> h.names[ns]]
  BY <1>1, <1>2
<1>4. \A ns \in Namespaces :
        Taken(h, ns) = IF ns = c.ns THEN Taken(g, ns) \union {rust} ELSE Taken(g, ns)
  BY <1>1, <1>2 DEF Taken
<1>5. \A ns \in Namespaces : IsFiniteSet(Taken(h, ns))
  <2> SUFFICES ASSUME NEW ns \in Namespaces
               PROVE  IsFiniteSet(Taken(h, ns))
    OBVIOUS
  <2>1. IsFiniteSet(Taken(g, ns) \union {rust})
    BY <1>2, FS_AddElement
  <2> QED
    BY <1>2, <1>4, <2>1
<1> QED
  BY <1>1, <1>3, <1>4, <1>5 DEF h, rust, IsAllocator

\* A name that is not the source's has three parts or more.
LEMMA MadeNamesHaveParts ==
  ASSUME NEW g, IsAllocator(g), NEW c, c.ns \in Namespaces
  PROVE  \/ Binds(c) /\ Issued(g, c) = c.name /\ Safe(c.name, c.ns)
         \/ Len(Issued(g, c)) \in {3, 4}
<1>1. CASE Binds(c) /\ KeepsName(g, c.name, c.ns)
  BY <1>1 DEF Issued, EmittedName, KeepsName
<1>2. CASE Binds(c) /\ ~KeepsName(g, c.name, c.ns)
  <2> DEFINE free == FreeName(<<Made[c.ns], g.next, c.name>>, Taken(g, c.ns))
  <2>1. Issued(g, c) = free
    BY <1>2 DEF Issued, EmittedName
  <2>2. IsFiniteSet(Taken(g, c.ns))
    BY DEF IsAllocator
  <2>3. PICK k \in Nat : free = Numbered(<<Made[c.ns], g.next, c.name>>, k)
    BY <2>2, FreeNameIsFree
  <2>4. CASE k = 0
    BY <2>1, <2>3, <2>4 DEF Numbered
  <2>5. CASE k # 0
    <3>1. k \in Nat \ {0}
      BY <2>5
    <3>2. Len(Numbered(<<Made[c.ns], g.next, c.name>>, k)) = 4
      BY <3>1, NumberedParts
    <3> QED
      BY <2>1, <2>3, <3>2
  <2> QED
    BY <2>4, <2>5
<1>3. CASE ~Binds(c)
  BY <1>3 DEF Issued, Temporary
<1> QED
  BY <1>1, <1>2, <1>3

\* Whatever names are avoided and whatever is asked of the allocator in whatever
\* order, names that look like its own included: no call is given a name that was
\* avoided or given to another call in its namespace, no keyword of Rust, and no
\* name of the prelude or of the runtime that would be shadowed.  This is Gensym,
\* whose loops find the first free number.
THEOREM NamesAreFresh ==
  ASSUME NEW avoided, \A ns \in Namespaces : IsFiniteSet(avoided[ns]),
         \A name \in Keywords \union Constructors \union BuiltinTypes : Len(name) = 1,
         NEW n \in Nat,
         NEW c, \A i \in 1 .. n : c[i].ns \in Namespaces,
         NEW g, g[0] = Allocator(avoided), \A i \in 1 .. n : g[i] = Then(g[i - 1], c[i])
  PROVE  \A i \in 1 .. n :
           LET rust == Issued(g[i - 1], c[i])
               ns   == c[i].ns
           IN /\ rust \notin avoided[ns] \union Keywords
              /\ ns \in {"value", "member"} => rust \notin Constructors
              /\ ns \in {"type", "lifetime"} => rust \notin BuiltinTypes
              /\ \A j \in 1 .. i - 1 : c[j].ns = ns => Issued(g[j - 1], c[j]) # rust
<1> DEFINE Inv(i) ==
      /\ IsAllocator(g[i])
      /\ \A ns \in Namespaces : avoided[ns] \subseteq Taken(g[i], ns)
      /\ \A j \in 1 .. i : Issued(g[j - 1], c[j]) \in Taken(g[i], c[j].ns)
<1>1. Inv(0)
  <2>1. IsAllocator(g[0]) /\ \A ns \in Namespaces : Taken(g[0], ns) = avoided[ns]
    BY DEF IsAllocator, Allocator, Taken
  <2>2. 1 .. 0 = {}
    OBVIOUS
  <2> QED
    BY <2>1, <2>2
<1>2. ASSUME NEW i \in 1 .. n, Inv(i - 1)
      PROVE  Inv(i)
  <2>1. g[i] = Then(g[i - 1], c[i]) /\ c[i].ns \in Namespaces /\ IsAllocator(g[i - 1])
    BY <1>2
  <2>2. /\ IsAllocator(g[i])
        /\ \A ns \in Namespaces : Taken(g[i - 1], ns) \subseteq Taken(g[i], ns)
        /\ Issued(g[i - 1], c[i]) \in Taken(g[i], c[i].ns)
    BY <2>1, CallTakesItsName
  <2>3. \A ns \in Namespaces : avoided[ns] \subseteq Taken(g[i], ns)
    BY <1>2, <2>2
  <2>4. \A j \in 1 .. i : Issued(g[j - 1], c[j]) \in Taken(g[i], c[j].ns)
    <3> SUFFICES ASSUME NEW j \in 1 .. i
                 PROVE  Issued(g[j - 1], c[j]) \in Taken(g[i], c[j].ns)
      OBVIOUS
    <3>1. CASE j = i
      BY <2>2, <3>1
    <3>2. CASE j # i
      <4>1. j \in 1 .. i - 1 /\ j \in 1 .. n
        BY <3>2
      <4> QED
        BY <4>1, <1>2, <2>2
    <3> QED
      BY <3>1, <3>2
  <2> QED
    BY <2>2, <2>3, <2>4
<1> HIDE DEF Inv
<1>3. \A i \in 0 .. n : Inv(i)
  <2> DEFINE Bad == {i \in 0 .. n : ~Inv(i)}
  <2> SUFFICES ASSUME Bad # {}
               PROVE  FALSE
    OBVIOUS
  <2>1. PICK i \in Bad : \A j \in Bad : i <= j
    <3>1. Bad \in SUBSET Nat
      OBVIOUS
    <3> HIDE DEF Bad
    <3> QED
      BY <3>1, LeastOne
  <2>2. i \in 0 .. n /\ ~Inv(i) /\ i # 0
    BY <1>1, <2>1
  <2>3. i - 1 \in 0 .. n /\ i \in 1 .. n /\ ~(i <= i - 1)
    BY <2>2
  <2>4. Inv(i - 1)
    BY <2>1, <2>3
  <2> QED
    BY <1>2, <2>2, <2>3, <2>4
<1> TAKE i \in 1 .. n
<1>4. i - 1 \in 0 .. n /\ Inv(i - 1)
  BY <1>3
<1>5. c[i].ns \in Namespaces /\ IsAllocator(g[i - 1])
  BY <1>4 DEF Inv
<1>6. Issued(g[i - 1], c[i]) \notin Taken(g[i - 1], c[i].ns)
  BY <1>5, IssuedIsFree
<1>7. Issued(g[i - 1], c[i]) \notin avoided[c[i].ns]
  BY <1>4, <1>5, <1>6 DEF Inv
<1>8. \A j \in 1 .. i - 1 : c[j].ns = c[i].ns => Issued(g[j - 1], c[j]) # Issued(g[i - 1], c[i])
  BY <1>4, <1>6 DEF Inv
<1>9. LET rust == Issued(g[i - 1], c[i])
          ns   == c[i].ns
      IN /\ rust \notin Keywords
         /\ ns \in {"value", "member"} => rust \notin Constructors
         /\ ns \in {"type", "lifetime"} => rust \notin BuiltinTypes
  <2>1. CASE Issued(g[i - 1], c[i]) = c[i].name /\ Safe(c[i].name, c[i].ns)
    BY <2>1 DEF Safe
  <2>2. CASE Len(Issued(g[i - 1], c[i])) \in {3, 4}
    BY <2>2
  <2> QED
    BY <1>5, <2>1, <2>2, MadeNamesHaveParts
<1> QED
  BY <1>7, <1>8, <1>9
==============================================================================
