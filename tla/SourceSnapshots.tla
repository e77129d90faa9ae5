--------------------------- MODULE SourceSnapshots ---------------------------
(* compile_source (embedding.py) stores the sources it is given as files whose *)
(* names hold their hash, so that all callers with equal sources share them:   *)
(* each file is looked at, written to a temporary that is its writer's own and *)
(* moved into place (_publish_snapshot), and then analyzed from the disk.      *)
(* Windows denies the move while anybody has the file open.                    *)
EXTENDS Naturals

CONSTANTS Callers,     \* threads of any processes, all with the same sources
          Parts,       \* how many files these are
          Attempts,    \* _SNAPSHOT_REPLACE_ATTEMPTS
          MaxMeddling  \* bound on what outsiders do

ASSUME PartsAssumption == Parts \in Nat \ {0}

VARIABLES stored,   \* what each file holds: "none", the "given" source or an "other"
          held,     \* how outsiders hold each file open: "free", "shared", "exclusive"
          caller,   \* where each call is
          meddling  \* how often outsiders have meddled

snapshotVars == <<stored, held, caller, meddling>>

Files == 1 .. Parts

\* saw is what the call has read of the file it holds open; wrong whether it has
\* compiled anything but its source; disturbed and damaged what it met.
Idle == [at |-> "idle", part |-> 1, attempt |-> 1, saw |-> "none",
         wrong |-> FALSE, disturbed |-> FALSE, damaged |-> FALSE]

SnapshotInit ==
  /\ stored = [p \in Files |-> "none"] /\ held = [p \in Files |-> "free"]
  /\ caller = [c \in Callers |-> Idle] /\ meddling = 0

Part(c) == caller[c].part
Running(c) == caller[c].at \notin {"idle", "returned", "failed", "cancelled"}
At(c, place) == caller[c].at = place
Goto(c, place) == caller' = [caller EXCEPT ![c] = [@ EXCEPT !.at = place, !.saw = "none"]]
Fail(c) == Goto(c, "failed")
Readable(p) == stored[p] # "none" /\ held[p] # "exclusive"
Opens(c, place) == caller' = [caller EXCEPT ![c] = [@ EXCEPT !.at = place, !.saw = stored[Part(c)]]]
Opened(p) == held[p] # "free" \/ \E c \in Callers : caller[c].saw # "none" /\ Part(c) = p

NextFile(c) ==
  LET s == caller[c] IN
  caller' = [caller EXCEPT ![c] =
    IF s.part < Parts THEN [s EXCEPT !.at = "look", !.part = @ + 1, !.attempt = 1, !.saw = "none"]
    ELSE [s EXCEPT !.at = "analyze", !.part = 1, !.saw = "none"]]

------------------------------------------------------------------------------
(* A call; all but a move leaves the files as they are.                        *)

Begin(c) ==
  /\ ~Running(c)
  /\ \/ caller' = [caller EXCEPT ![c] = [Idle EXCEPT !.at = "look",
                   !.damaged = \E p \in Files : stored[p] = "other" \/ held[p] = "exclusive"]]
     \/ caller' = [caller EXCEPT ![c] = [Idle EXCEPT !.at = "cancelled"]]

\* destination.is_file() and destination.read_bytes() == payload; the second fails
\* with the call when the file has gone or cannot be opened.
Look(c) == At(c, "look") /\ Goto(c, IF stored[Part(c)] = "none" THEN "write" ELSE "open")
Open(c) ==
  /\ At(c, "open")
  /\ IF Readable(Part(c)) THEN Opens(c, "check") ELSE Fail(c)
Check(c) ==
  /\ At(c, "check")
  /\ IF caller[c].saw = "given" THEN NextFile(c) ELSE Goto(c, "write")

\* Mutant: the file is written where it belongs.
WriteInPlace(c) ==
  /\ At(c, "write") /\ Goto(c, "replace")
  /\ stored' = [stored EXCEPT ![Part(c)] = "other"]

Write(c) == At(c, "write") /\ Goto(c, "replace") /\ UNCHANGED stored

Move(c) ==
  /\ At(c, "replace") /\ NextFile(c)
  /\ stored' = [stored EXCEPT ![Part(c)] = "given"]

Retry(c) ==
  IF caller[c].attempt = Attempts THEN Fail(c)
  ELSE caller' = [caller EXCEPT ![c].at = "replace", ![c].saw = "none", ![c].attempt = @ + 1]

\* Mutant: whatever denied the move, it is tried again.
RetryAlways(c) == At(c, "replace") /\ Opened(Part(c)) /\ Retry(c)

\* PermissionError.
Denied(c) == At(c, "replace") /\ Opened(Part(c)) /\ Goto(c, "denied")

\* Somebody else may have published the same bytes.
OpenDenied(c) ==
  /\ At(c, "denied")
  /\ IF Readable(Part(c)) THEN Opens(c, "compare") ELSE Retry(c)
Compare(c) ==
  /\ At(c, "compare")
  /\ IF caller[c].saw = "given" THEN NextFile(c) ELSE Retry(c)

\* compile_path analyzes the files one after the other.
OpenSource(c) ==
  /\ At(c, "analyze")
  /\ IF Readable(Part(c)) THEN Opens(c, "read") ELSE Fail(c)
ReadSource(c) ==
  LET last == Part(c) = Parts
  IN /\ At(c, "read")
     /\ caller' = [caller EXCEPT ![c].at = IF last THEN "returned" ELSE "analyze",
                                 ![c].part = IF last THEN @ ELSE @ + 1,
                                 ![c].saw = "none",
                                 ![c].wrong = @ \/ caller[c].saw # "given"]

\* A later phase finds the call cancelled.
Cancel(c) == At(c, "analyze") /\ Goto(c, "cancelled")

\* Its process dies; a temporary stays behind that nobody reads.
Crash(c) == Running(c) /\ caller' = [caller EXCEPT ![c] = Idle]

Reads(c) ==
  \/ Begin(c) \/ Look(c) \/ Open(c) \/ Check(c) \/ Denied(c) \/ OpenDenied(c) \/ Compare(c)
  \/ OpenSource(c) \/ ReadSource(c) \/ Cancel(c) \/ Crash(c)

------------------------------------------------------------------------------
(* Outsiders: scanners hold files open, cleaners remove them, disks fail.      *)

Meddle == meddling < MaxMeddling /\ meddling' = meddling + 1
Disturb == caller' = [c \in Callers |-> [caller[c] EXCEPT !.disturbed = @ \/ Running(c)]]

Hold(p) ==
  /\ stored[p] # "none" /\ held[p] = "free" /\ Meddle
  /\ \/ held' = [held EXCEPT ![p] = "shared"] /\ UNCHANGED caller
     \/ held' = [held EXCEPT ![p] = "exclusive"] /\ Disturb
  /\ UNCHANGED stored
Release(p) ==
  held[p] # "free" /\ held' = [held EXCEPT ![p] = "free"] /\ UNCHANGED <<stored, caller, meddling>>
\* Only of a closed file: elsewhere than on Windows, as if after its closing.
Spoil(p) ==
  /\ ~Opened(p) /\ Meddle /\ Disturb
  /\ \E found \in {"none", "other"} \ {stored[p]} : stored' = [stored EXCEPT ![p] = found]
  /\ UNCHANGED held
DiskFull(c) ==
  /\ At(c, "write") /\ Meddle
  /\ caller' = [caller EXCEPT ![c] = [@ EXCEPT !.at = "failed", !.disturbed = TRUE]]
  /\ UNCHANGED <<stored, held>>

SnapshotNext ==
  \/ \E c \in Callers :
       \/ Reads(c) /\ UNCHANGED <<stored, held, meddling>>
       \/ (Write(c) \/ Move(c)) /\ UNCHANGED <<held, meddling>>
       \/ DiskFull(c)
  \/ \E p \in Files : Hold(p) \/ Release(p) \/ Spoil(p)

SnapshotSpec == SnapshotInit /\ [][SnapshotNext]_snapshotVars

------------------------------------------------------------------------------
(* A call compiles exactly the sources it was given, whatever snapshot it      *)
(* found, unless an outsider changes or locks them during the call; and other  *)
(* callers with equal sources, watchers that only read, and callers that died  *)
(* never make it fail (CRAB001), unless it began with a locked snapshot or     *)
(* with a damaged one, which all of them have to replace.                      *)
SnapshotsHold ==
  \A c \in Callers :
    /\ caller[c].wrong => caller[c].disturbed
    /\ At(c, "failed") => caller[c].disturbed \/ caller[c].damaged
===============================================================================
