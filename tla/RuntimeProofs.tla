--------------------------- MODULE RuntimeProofs ---------------------------
(***************************************************************************)
(* Theorems about the helpers that generated code runs on: ThreadPool, for *)
(* any number of workers and jobs, whatever panics and whatever the jobs   *)
(* wait for, and BlockOnExecutor, for any tree of futures.                 *)
(***************************************************************************)
EXTENDS ThreadPool, BlockOnExecutor, SequenceTheorems, TLAPS

-----------------------------------------------------------------------------
(* The thread pool.                                                        *)

\* The sender lives until the shutdown begins, and the outcome until it ends.
OwnerInv ==
    /\ sender <=> owner \in {"new", "open"}
    /\ owner \notin {"finished", "dropped"} => outcome = Open
    /\ owner \in {"finished", "dropped"} => joined = Size
    /\ \A w \in 1 .. joined : worker[w] = "ended"

\* A worker ends when nothing can come through the channel any more.
EndedDrained ==
    \A w \in Workers : worker[w] = "ended" => ~sender /\ queue = <<>>

\* A job in the channel has not run and is there once.
Queued ==
    /\ \A i \in 1 .. Len(queue) : queue[i] \in sent /\ runs[queue[i]] = 0
    /\ \A i, k \in 1 .. Len(queue) : queue[i] = queue[k] => i = k

\* A job that a worker took has not run and is nowhere else.
Taken ==
    \A w \in Workers : worker[w] = "run" =>
        /\ job[w] \in sent /\ runs[job[w]] = 0
        /\ \A i \in 1 .. Len(queue) : queue[i] # job[w]
        /\ \A v \in Workers : worker[v] = "run" /\ job[v] = job[w] => v = w

\* Every job that was sent has run, or waits in the channel, or at a worker; no
\* other has run.
Accounted ==
    \A j \in Jobs :
        IF j \in sent
        THEN \/ runs[j] = 1
             \/ \E i \in 1 .. Len(queue) : queue[i] = j
             \/ \E w \in Workers : worker[w] = "run" /\ job[w] = j
        ELSE runs[j] = 0

\* The slot names a job that panicked, as soon as it is recorded.
FailureKept ==
    /\ failure # Nobody => failure \in Promise!Failed
    /\ \A w \in Workers : worker[w] = "record" => job[w] \in Promise!Failed
    /\ owner # "finished" /\ Promise!Failed # {} =>
           failure # Nobody \/ \E w \in Workers : worker[w] = "record"

PoolInv ==
    /\ TypeOK
    /\ OwnerInv
    /\ EndedDrained
    /\ Queued
    /\ Taken
    /\ Accounted
    /\ FailureKept

-----------------------------------------------------------------------------
(* The channel as a sequence.                                              *)

\* A job that is sent comes last.
LEMMA JobAppended ==
    ASSUME NEW q \in Seq(Jobs), NEW j \in Jobs
    PROVE  /\ Append(q, j) \in Seq(Jobs)
           /\ Len(q) \in Nat
           /\ Len(Append(q, j)) = Len(q) + 1
           /\ \A i \in 1 .. Len(q) : Append(q, j)[i] = q[i]
           /\ Append(q, j)[Len(q) + 1] = j
  OBVIOUS

\* A job that is received came first.
LEMMA Received ==
    ASSUME NEW q \in Seq(Jobs), q # <<>>
    PROVE  /\ Tail(q) \in Seq(Jobs)
           /\ Len(q) \in Nat \ {0}
           /\ Len(Tail(q)) = Len(q) - 1
           /\ \A i \in 1 .. Len(q) - 1 : Tail(q)[i] = q[i + 1]
           /\ Head(q) = q[1] /\ Head(q) \in Jobs
  OBVIOUS

-----------------------------------------------------------------------------
(* One lemma for each part of the invariant.                               *)

\* The cases of Next, with the stutter of a pool that has ended.
LEMMA StepCases ==
    ASSUME [Next]_vars
    PROVE  \/ \E w \in Workers : Spawn(w)
           \/ SpawnFails
           \/ \E j \in Jobs : Execute(j)
           \/ \E fin \in BOOLEAN : Close(fin)
           \/ Join
           \/ Finished
           \/ \E w \in Workers : Lock(w)
           \/ \E w \in Workers : Receive(w)
           \/ \E w \in Workers : Disconnected(w)
           \/ \E w \in Workers : RunJob(w)
           \/ \E w \in Workers : Record(w)
           \/ UNCHANGED vars
  BY DEF Next, OwnerStep, WorkerStep, Ended

\* The types survive every step.
LEMMA NextType ==
    ASSUME TypeOK, [Next]_vars
    PROVE  TypeOK'
<1> USE PoolAssumption DEF TypeOK, poolVars
<1>1. CASE \E w \in Workers : Spawn(w)
  BY <1>1 DEF Spawn
<1>2. CASE SpawnFails
  BY <1>2 DEF SpawnFails
<1>3. CASE \E j \in Jobs : Execute(j)
  BY <1>3, JobAppended DEF Execute
<1>4. CASE \E fin \in BOOLEAN : Close(fin)
  BY <1>4 DEF Close
<1>5. CASE Join
  BY <1>5 DEF Join
<1>6. CASE Finished
  BY <1>6 DEF Finished
<1>7. CASE \E w \in Workers : Lock(w)
  BY <1>7 DEF Lock, Workers
<1>8. CASE \E w \in Workers : Receive(w)
  BY <1>8, Received DEF Receive
<1>9. CASE \E w \in Workers : Disconnected(w)
  BY <1>9 DEF Disconnected
<1>10. CASE \E w \in Workers : RunJob(w)
  <2>1. PICK w \in Workers : RunJob(w)
    BY <1>10
  <2>2. runs' = [runs EXCEPT ![job[w]] = runs[job[w]] + 1]
    BY <2>1 DEF RunJob
  <2>3. runs' \in [Jobs -> Nat]
    <3>1. CASE job[w] \in Jobs
      <4>1. runs[job[w]] + 1 \in Nat
        BY <3>1
      <4>2. QED
        BY <2>2, <4>1
    <3>2. CASE job[w] \notin Jobs
      BY <2>2, <3>2
    <3>3. QED
      BY <3>1, <3>2
  <2>4. worker' \in [Workers -> {"none", "lock", "recv", "run", "record", "ended"}]
    BY <2>1 DEF RunJob
  <2>5. QED
    BY <2>1, <2>3, <2>4 DEF RunJob
<1>11. CASE \E w \in Workers : Record(w)
  BY <1>11 DEF Record
<1>12. CASE UNCHANGED vars
  BY <1>12 DEF vars
<1>13. QED
  BY <1>1, <1>2, <1>3, <1>4, <1>5, <1>6, <1>7, <1>8, <1>9, <1>10, <1>11, <1>12,
     StepCases

\* Nobody but the owner touches the sender, the outcome and the joins, and a
\* worker that has ended stays so.
LEMMA NextOwnerInv ==
    ASSUME TypeOK, OwnerInv, [Next]_vars
    PROVE  OwnerInv'
<1> USE PoolAssumption DEF TypeOK, OwnerInv, poolVars, Workers
<1>1. CASE \E w \in Workers : Spawn(w)
  BY <1>1 DEF Spawn
<1>2. CASE SpawnFails
  BY <1>2 DEF SpawnFails
<1>3. CASE \E j \in Jobs : Execute(j)
  BY <1>3 DEF Execute
<1>4. CASE \E fin \in BOOLEAN : Close(fin)
  BY <1>4 DEF Close
<1>5. CASE Join
  BY <1>5 DEF Join
<1>6. CASE Finished
  BY <1>6 DEF Finished, AllJoined
<1>7. CASE \E w \in Workers : Lock(w)
  BY <1>7 DEF Lock
<1>8. CASE \E w \in Workers : Receive(w)
  BY <1>8 DEF Receive
<1>9. CASE \E w \in Workers : Disconnected(w)
  BY <1>9 DEF Disconnected
<1>10. CASE \E w \in Workers : RunJob(w)
  BY <1>10 DEF RunJob
<1>11. CASE \E w \in Workers : Record(w)
  BY <1>11 DEF Record
<1>12. CASE UNCHANGED vars
  BY <1>12 DEF vars
<1>13. QED
  BY <1>1, <1>2, <1>3, <1>4, <1>5, <1>6, <1>7, <1>8, <1>9, <1>10, <1>11, <1>12,
     StepCases

\* Only an open pool is sent jobs, so an empty channel without a sender stays
\* empty.
LEMMA NextEndedDrained ==
    ASSUME TypeOK, OwnerInv, EndedDrained, [Next]_vars
    PROVE  EndedDrained'
<1> USE DEF TypeOK, OwnerInv, EndedDrained, poolVars
<1>1. CASE \E w \in Workers : Spawn(w)
  BY <1>1 DEF Spawn
<1>2. CASE SpawnFails \/ (\E fin \in BOOLEAN : Close(fin)) \/ Join \/ Finished
  BY <1>2 DEF SpawnFails, Close, Join, Finished
<1>3. CASE \E j \in Jobs : Execute(j)
  BY <1>3 DEF Execute
<1>4. CASE \E w \in Workers : Receive(w)
  BY <1>4 DEF Receive
<1>5. CASE \E w \in Workers : Lock(w) \/ Disconnected(w) \/ RunJob(w) \/ Record(w)
  BY <1>5 DEF Lock, Disconnected, RunJob, Record
<1>6. CASE UNCHANGED vars
  BY <1>6 DEF vars
<1>7. QED
  BY <1>1, <1>2, <1>3, <1>4, <1>5, <1>6, StepCases

\* The three steps that move a job; the others leave all jobs where they are.
LEMMA JobCases ==
    ASSUME TypeOK, [Next]_vars
    PROVE  \/ \E j \in Jobs : Execute(j)
           \/ \E w \in Workers : Receive(w)
           \/ \E w \in Workers : RunJob(w)
           \/ /\ UNCHANGED <<sent, queue, job, runs>>
              /\ \A w \in Workers : worker'[w] = "run" <=> worker[w] = "run"
<1> USE DEF TypeOK, poolVars
<1>1. CASE \E w \in Workers : Spawn(w)
  BY <1>1 DEF Spawn
<1>2. CASE SpawnFails \/ (\E fin \in BOOLEAN : Close(fin)) \/ Join \/ Finished
  BY <1>2 DEF SpawnFails, Close, Join, Finished
<1>3. CASE \E w \in Workers : Lock(w) \/ Disconnected(w) \/ Record(w)
  BY <1>3 DEF Lock, Disconnected, Record
<1>4. CASE UNCHANGED vars
  BY <1>4 DEF vars
<1>5. QED
  BY <1>1, <1>2, <1>3, <1>4, StepCases

\* A job is sent once, and leaves the channel before it is run.
LEMMA NextQueued ==
    ASSUME TypeOK, Queued, Taken, Accounted, [Next]_vars
    PROVE  Queued'
<1> USE DEF TypeOK
<1>1. CASE \E j \in Jobs : Execute(j)
  <2>1. PICK j \in Jobs : Execute(j)
    BY <1>1
  <2>2. /\ j \notin sent /\ sent' = sent \cup {j}
        /\ queue' = Append(queue, j) /\ runs' = runs /\ runs[j] = 0
    BY <2>1 DEF Execute, Accounted
  <2>3. /\ Len(queue) \in Nat /\ Len(queue') = Len(queue) + 1
        /\ queue'[Len(queue) + 1] = j
        /\ \A i \in 1 .. Len(queue) : queue'[i] = queue[i]
    BY <2>2, JobAppended
  <2>4. \A i \in 1 .. Len(queue') : i \in 1 .. Len(queue) \/ i = Len(queue) + 1
    BY <2>3
  <2>5. \A i \in 1 .. Len(queue) : queue'[i] \in sent /\ queue'[i] # j /\ runs[queue'[i]] = 0
    BY <2>2, <2>3 DEF Queued
  <2>6. \A i \in 1 .. Len(queue') : queue'[i] \in sent' /\ runs'[queue'[i]] = 0
    BY <2>2, <2>3, <2>4, <2>5
  <2>7. ASSUME NEW i \in 1 .. Len(queue'), NEW k \in 1 .. Len(queue'), queue'[i] = queue'[k]
        PROVE  i = k
    <3>1. CASE i \in 1 .. Len(queue) /\ k \in 1 .. Len(queue)
      BY <2>3, <2>7, <3>1 DEF Queued
    <3>2. CASE i = Len(queue) + 1 \/ k = Len(queue) + 1
      BY <2>3, <2>4, <2>5, <2>7, <3>2
    <3>3. QED
      BY <2>4, <3>1, <3>2
  <2>8. QED
    BY <2>6, <2>7 DEF Queued
<1>2. CASE \E w \in Workers : Receive(w)
  <2>1. PICK w \in Workers : Receive(w)
    BY <1>2
  <2>2. queue # <<>> /\ queue' = Tail(queue) /\ UNCHANGED <<sent, runs>>
    BY <2>1 DEF Receive
  <2>3. /\ Len(queue) \in Nat \ {0} /\ Len(queue') = Len(queue) - 1
        /\ \A i \in 1 .. Len(queue') : queue'[i] = queue[i + 1]
    BY <2>2, Received
  <2>4. \A i \in 1 .. Len(queue') : i \in Nat /\ i + 1 \in 1 .. Len(queue)
    BY <2>3
  <2>5. QED
    BY <2>2, <2>3, <2>4 DEF Queued
<1>3. CASE \E w \in Workers : RunJob(w)
  BY <1>3 DEF RunJob, Queued, Taken
<1>4. CASE UNCHANGED <<sent, queue, runs>>
  BY <1>4 DEF Queued
<1>5. QED
  BY <1>1, <1>2, <1>3, <1>4, JobCases

\* A job comes to one worker, and has not run when it gets there.
LEMMA NextTaken ==
    ASSUME TypeOK, Queued, Taken, [Next]_vars
    PROVE  Taken'
<1> USE DEF TypeOK
<1>1. CASE \E j \in Jobs : Execute(j)
  <2>1. PICK j \in Jobs : Execute(j)
    BY <1>1
  <2>2. /\ j \notin sent /\ sent' = sent \cup {j} /\ queue' = Append(queue, j)
        /\ UNCHANGED <<worker, job, runs>>
    BY <2>1 DEF Execute
  <2>3. \A i \in 1 .. Len(queue') : queue'[i] = j \/ (i \in 1 .. Len(queue) /\ queue'[i] = queue[i])
    BY <2>2, JobAppended
  <2>4. QED
    BY <2>2, <2>3 DEF Taken
<1>2. CASE \E w \in Workers : Receive(w)
  <2>1. PICK w \in Workers : Receive(w)
    BY <1>2
  <2>2. /\ queue # <<>> /\ queue' = Tail(queue) /\ UNCHANGED <<sent, runs>>
        /\ worker' = [worker EXCEPT ![w] = "run"] /\ job' = [job EXCEPT ![w] = Head(queue)]
    BY <2>1 DEF Receive
  <2>3. /\ Len(queue) \in Nat \ {0} /\ Head(queue) = queue[1]
        /\ \A i \in 1 .. Len(queue') : i + 1 \in 2 .. Len(queue) /\ queue'[i] = queue[i + 1]
    BY <2>2, Received
  <2>4. /\ queue[1] \in sent /\ runs[queue[1]] = 0
        /\ \A i \in 2 .. Len(queue) : queue[i] # queue[1]
    BY <2>3 DEF Queued
  <2>5. ASSUME NEW v \in Workers, worker'[v] = "run"
        PROVE  /\ job'[v] \in sent' /\ runs'[job'[v]] = 0
               /\ \A i \in 1 .. Len(queue') : queue'[i] # job'[v]
    <3>1. CASE v = w
      BY <2>2, <2>3, <2>4, <3>1
    <3>2. CASE v # w
      <4>1. worker[v] = "run" /\ job'[v] = job[v]
        BY <2>2, <2>5, <3>2
      <4>2. \A i \in 1 .. Len(queue') : i + 1 \in 1 .. Len(queue)
        BY <2>3
      <4>3. QED
        BY <2>2, <2>3, <4>1, <4>2 DEF Taken
    <3>3. QED
      BY <3>1, <3>2
  <2>6. ASSUME NEW v \in Workers, NEW u \in Workers,
               worker'[v] = "run", worker'[u] = "run", job'[v] = job'[u]
        PROVE  v = u
    <3>1. \A x \in Workers : x # w /\ worker'[x] = "run" =>
              worker[x] = "run" /\ job'[x] = job[x] /\ job[x] # queue[1]
      BY <2>2, <2>3 DEF Taken
    <3>2. job'[w] = queue[1]
      BY <2>2, <2>3
    <3>3. QED
      BY <2>6, <3>1, <3>2 DEF Taken
  <2>7. QED
    BY <2>5, <2>6 DEF Taken
<1>3. CASE \E w \in Workers : RunJob(w)
  BY <1>3 DEF RunJob, Taken
<1>4. CASE /\ UNCHANGED <<sent, queue, job, runs>>
           /\ \A w \in Workers : worker'[w] = "run" <=> worker[w] = "run"
  BY <1>4 DEF Taken
<1>5. QED
  BY <1>1, <1>2, <1>3, <1>4, JobCases

\* No job is lost on its way.
LEMMA NextAccounted ==
    ASSUME TypeOK, Taken, Accounted, [Next]_vars
    PROVE  Accounted'
<1> USE DEF TypeOK
<1>1. CASE \E j \in Jobs : Execute(j)
  <2>1. PICK j \in Jobs : Execute(j)
    BY <1>1
  <2>2. /\ sent' = sent \cup {j} /\ queue' = Append(queue, j)
        /\ UNCHANGED <<worker, job, runs>>
    BY <2>1 DEF Execute
  <2>3. /\ \A i \in 1 .. Len(queue) : i \in 1 .. Len(queue') /\ queue'[i] = queue[i]
        /\ \E i \in 1 .. Len(queue') : queue'[i] = j
    BY <2>2, JobAppended
  <2>4. QED
    BY <2>2, <2>3 DEF Accounted
<1>2. CASE \E w \in Workers : Receive(w)
  <2>1. PICK w \in Workers : Receive(w)
    BY <1>2
  <2>2. /\ queue # <<>> /\ queue' = Tail(queue) /\ UNCHANGED <<sent, runs>>
        /\ worker[w] = "recv"
        /\ worker' = [worker EXCEPT ![w] = "run"] /\ job' = [job EXCEPT ![w] = Head(queue)]
    BY <2>1 DEF Receive
  <2>3. \A i \in 1 .. Len(queue) :
            queue[i] = Head(queue) \/ \E k \in 1 .. Len(queue') : queue'[k] = queue[i]
    <3>1. SUFFICES ASSUME NEW i \in 1 .. Len(queue), i # 1
                   PROVE  \E k \in 1 .. Len(queue') : queue'[k] = queue[i]
      BY <2>2, Received
    <3>2. i - 1 \in 1 .. Len(queue') /\ queue'[i - 1] = queue[i]
      BY <2>2, <3>1, Received
    <3>3. QED
      BY <3>2
  <2>4. \A v \in Workers : worker[v] = "run" => worker'[v] = "run" /\ job'[v] = job[v]
    BY <2>2
  <2>5. worker'[w] = "run" /\ job'[w] = Head(queue)
    BY <2>2
  <2>6. SUFFICES ASSUME NEW j \in Jobs
                 PROVE  IF j \in sent
                        THEN \/ runs[j] = 1
                             \/ \E i \in 1 .. Len(queue') : queue'[i] = j
                             \/ \E v \in Workers : worker'[v] = "run" /\ job'[v] = j
                        ELSE runs[j] = 0
    BY <2>2 DEF Accounted
  <2>7. CASE \E i \in 1 .. Len(queue) : queue[i] = j
    BY SMTT(40), <2>3, <2>5, <2>7 DEF Accounted
  <2>8. CASE \E v \in Workers : worker[v] = "run" /\ job[v] = j
    BY <2>4, <2>8 DEF Accounted
  <2>9. QED
    BY <2>7, <2>8 DEF Accounted
<1>3. CASE \E w \in Workers : RunJob(w)
  BY SMTT(40), <1>3 DEF RunJob, Taken, Accounted
<1>4. CASE /\ UNCHANGED <<sent, queue, job, runs>>
           /\ \A w \in Workers : worker'[w] = "run" <=> worker[w] = "run"
  BY <1>4 DEF Accounted
<1>5. QED
  BY <1>1, <1>2, <1>3, <1>4, JobCases

\* A job that panics is recorded before its worker does anything else.
LEMMA NextFailureKept ==
    ASSUME TypeOK, Taken, Accounted, FailureKept, [Next]_vars
    PROVE  FailureKept'
<1> USE PoolAssumption DEF TypeOK, FailureKept, Promise!Failed, poolVars
<1>1. CASE \E w \in Workers : Spawn(w)
  BY <1>1 DEF Spawn
<1>2. CASE SpawnFails \/ (\E fin \in BOOLEAN : Close(fin)) \/ Join
  BY <1>2 DEF SpawnFails, Close, Join
<1>3. CASE \E j \in Jobs : Execute(j)
  <2>1. PICK j \in Jobs : Execute(j)
    BY <1>3
  <2>2. runs[j] = 0 /\ sent' = sent \cup {j}
    BY <2>1 DEF Execute, Accounted
  <2>3. UNCHANGED <<runs, worker, job, failure, owner>>
    BY <2>1 DEF Execute
  <2>4. Promise!Failed' = Promise!Failed
    BY <2>2, <2>3
  <2>5. QED
    BY <2>3, <2>4
<1>4. CASE Finished
  BY <1>4 DEF Finished
<1>5. CASE \E w \in Workers : RunJob(w)
  BY <1>5 DEF RunJob, Taken
<1>6. CASE \E w \in Workers : Record(w)
  BY <1>6 DEF Record
<1>7. CASE \E w \in Workers : Lock(w)
  BY <1>7 DEF Lock
<1>8. CASE \E w \in Workers : Receive(w)
  BY <1>8 DEF Receive
<1>9. CASE \E w \in Workers : Disconnected(w)
  BY <1>9 DEF Disconnected
<1>10. CASE UNCHANGED vars
  BY <1>10 DEF vars
<1>11. QED
  BY <1>1, <1>2, <1>3, <1>4, <1>5, <1>6, <1>7, <1>8, <1>9, <1>10, StepCases

-----------------------------------------------------------------------------
(* The theorems.                                                           *)

\* The invariant holds of a new pool and survives every step.
LEMMA PoolInvariant == Spec => []PoolInv
<1>1. Init => PoolInv
  <2> SUFFICES ASSUME Init PROVE PoolInv
    OBVIOUS
  <2>1. TypeOK
    <3>1. <<>> \in Seq(Jobs) /\ 0 \in 0 .. Size
      BY PoolAssumption
    <3>2. QED
      BY <3>1 DEF Init, TypeOK
  <2>2. OwnerInv
    BY PoolAssumption DEF Init, OwnerInv
  <2>3. EndedDrained /\ Queued /\ Taken /\ Accounted
    BY DEF Init, EndedDrained, Queued, Taken, Accounted
  <2>4. FailureKept
    BY DEF Init, FailureKept, Promise!Failed
  <2>5. QED
    BY <2>1, <2>2, <2>3, <2>4 DEF PoolInv
<1>2. PoolInv /\ [Next]_vars => PoolInv'
  BY NextType, NextOwnerInv, NextEndedDrained, NextQueued, NextTaken,
     NextAccounted, NextFailureKept
  DEF PoolInv
<1>3. QED
  BY <1>1, <1>2, PTL DEF Spec

\* While the owner can still send, every worker holds the receiver's Arc: the
\* unwrap of send in execute never panics.
THEOREM SendNeverFails == Spec => []ReceiverAlive
<1>1. PoolInv => ReceiverAlive
  BY DEF PoolInv, OwnerInv, EndedDrained, ReceiverAlive
<1>2. QED
  BY <1>1, PoolInvariant, PTL

\* The generated pool implements JobPool: every job is run at most once, all of
\* them before the shutdown returns, and finish reports a panic exactly when
\* there was one.
THEOREM ImplementsJobPool == Spec => PromiseSpec
<1>1. Init => Promise!Init
  BY DEF Init, Open, Promise!Init
<1>2. PoolInv /\ [Next]_vars => [Promise!Next]_(Promise!vars)
  <2> SUFFICES ASSUME PoolInv, [Next]_vars
               PROVE  Promise!Next \/ UNCHANGED <<sent, runs, outcome>>
    BY DEF Promise!vars
  <2> USE DEF PoolInv, TypeOK, OwnerInv
  <2>1. CASE \E j \in Jobs : Execute(j)
    <3>1. PICK j \in Jobs : Execute(j)
      BY <2>1
    <3>2. Promise!Accept(j)
      BY <3>1 DEF Execute, Promise!Accept, Open, poolVars
    <3>3. QED
      BY <3>2 DEF Promise!Next
  <2>2. CASE \E w \in Workers : RunJob(w)
    <3>1. PICK w \in Workers : RunJob(w)
      BY <2>2
    <3>2. job[w] \in Jobs /\ job[w] \in sent /\ runs[job[w]] = 0
      BY <3>1 DEF RunJob, Taken
    <3>3. outcome.state = "open"
      BY <3>1 DEF RunJob, Workers, Open
    <3>4. Promise!Run(job[w])
      BY <3>1, <3>2, <3>3 DEF RunJob, Promise!Run
    <3>5. QED
      BY <3>2, <3>4 DEF Promise!Next
  <2>3. CASE Finished
    <3>1. \A w \in Workers : worker[w] = "ended"
      BY <2>3 DEF Finished, AllJoined, Workers
    <3>2. queue = <<>>
      BY <3>1, PoolAssumption DEF EndedDrained, Workers
    <3>3. Promise!AllRun
      BY <3>1, <3>2 DEF Accounted, Promise!AllRun
    <3>4. outcome.state = "open"
      BY <2>3 DEF Finished, Open
    <3>5. failure \in IF Promise!Failed = {} THEN {Nobody} ELSE Promise!Failed
      BY <2>3, <3>1 DEF Finished, FailureKept
    <3>6. Promise!Finish \/ Promise!Drop
      BY <2>3, <3>3, <3>4, <3>5 DEF Finished, Promise!Finish, Promise!Drop
    <3>7. QED
      BY <3>6 DEF Promise!Next
  <2>4. CASE UNCHANGED <<sent, runs, outcome>>
    BY <2>4
  <2>5. QED
    BY <2>1, <2>2, <2>3, <2>4, StepCases
    DEF Spawn, SpawnFails, Close, Join, Lock, Receive, Disconnected, Record, vars,
        poolVars
<1>3. QED
  BY <1>1, <1>2, PoolInvariant, PTL DEF Spec, PromiseSpec, Promise!Spec

-----------------------------------------------------------------------------
(* The executor.                                                           *)

Live == {"new", "pending"}

\* The polls in progress are of futures that have not returned, each in what
\* the one before it awaits.
PathInv ==
    /\ path # <<>> => path[1].node = Root
    /\ \A i \in 1 .. Len(path) : stage[path[i].node] \in Live
    /\ \A i \in 2 .. Len(path) :
          path[i].node \in Awaited(path[i-1].node) \cap path[i-1].polled
    /\ \A i \in 1 .. Len(path) : \A k \in 1 .. i - 1 : path[i].node \in Below[path[k].node]

\* Who is dropped was awaited by somebody who is over.
DropInv ==
    \A m \in Nodes : stage[m] = "dropped" =>
        \E n \in Nodes : m \in Awaited(n) /\ stage[n] \in {"done", "dropped"}

\* Of a select one branch returns, and the select with it.
SelectInv ==
    \A n \in Nodes : Kind[n] = "select" =>
        /\ \A k, m \in Awaited(n) : Done(k) /\ Done(m) => k = m
        /\ \A m \in Awaited(n) : stage[n] \in Live /\ Done(m) =>
              path # <<>> /\ Top.node = n /\ m \in Top.polled
        /\ Done(n) => /\ \E m \in Awaited(n) : Done(m)
                      /\ \A m \in Awaited(n) : stage[m] \in {"done", "dropped"}

\* Only who has returned has a message, and none is lost.
MessageInv ==
    /\ \A n \in Nodes : got[n] # {} => Done(n)
    /\ \A c \in Channels : \A i \in 0 .. counted[c] - 1 :
          \/ i \in ToSet(messages[c])
          \/ \E n \in Nodes : Kind[n] = "recv" /\ Channel[n] = c /\ i \in got[n]

ExecutorInv == ExecutorTypeOK /\ PathInv /\ DropInv /\ SelectInv /\ MessageInv

-----------------------------------------------------------------------------
(* The tree.                                                               *)

LEMMA AwaitedNodes == \A n \in Nodes : Awaited(n) \subseteq Nodes /\ Below[n] \subseteq Nodes
  BY TreeAssumption DEF Awaited, ToSet, Below

LEMMA BelowIsClosed ==
    ASSUME NEW n \in Nodes
    PROVE  /\ Awaited(n) \subseteq Below[n]
           /\ \A k \in Below[n] : Awaited(k) \subseteq Below[n]
<1>1. Below[n] = {m \in Nodes : \A S \in SUBSET Nodes :
        Awaited(n) \subseteq S /\ (\A k \in S : Awaited(k) \subseteq S) => m \in S}
  BY DEF Below
<1>2. QED
  BY <1>1, AwaitedNodes

LEMMA BelowIsLeast ==
    ASSUME NEW n \in Nodes, NEW S \in SUBSET Nodes,
           Awaited(n) \subseteq S, \A k \in S : Awaited(k) \subseteq S
    PROVE  Below[n] \subseteq S
<1>1. Below[n] = {m \in Nodes : \A T \in SUBSET Nodes :
        Awaited(n) \subseteq T /\ (\A k \in T : Awaited(k) \subseteq T) => m \in T}
  BY DEF Below
<1>2. QED
  BY <1>1

LEMMA BelowIsTransitive ==
    ASSUME NEW n \in Nodes, NEW k \in Below[n]
    PROVE  Below[k] \subseteq Below[n]
<1>1. k \in Nodes /\ Below[n] \in SUBSET Nodes
  BY AwaitedNodes
<1>2. QED
  BY <1>1, BelowIsClosed, BelowIsLeast

\* Who awaits a future below n is n or below n, too.
LEMMA AwaitedFromBelow ==
    ASSUME NEW n \in Nodes, NEW m \in Below[n]
    PROVE  /\ \E p \in Nodes : m \in Awaited(p)
           /\ \A p \in Nodes : m \in Awaited(p) => p = n \/ p \in Below[n]
<1> DEFINE S == {k \in Below[n] :
                   /\ \E p \in Nodes : k \in Awaited(p)
                   /\ \A p \in Nodes : k \in Awaited(p) => p = n \/ p \in Below[n]}
<1>1. \A k, p, q \in Nodes : k \in Awaited(p) /\ k \in Awaited(q) => p = q
  BY TreeAssumption
<1>2. S \in SUBSET Nodes
  BY AwaitedNodes
<1>3. Awaited(n) \subseteq S
  BY <1>1, AwaitedNodes, BelowIsClosed
<1>4. ASSUME NEW k \in S PROVE Awaited(k) \subseteq S
  BY <1>1, <1>2, AwaitedNodes, BelowIsClosed
<1> HIDE DEF S
<1>5. Below[n] \subseteq S
  BY <1>2, <1>3, <1>4, BelowIsLeast
<1>6. QED
  BY <1>5 DEF S

-----------------------------------------------------------------------------
(* The path.                                                               *)

LEMMA Appended ==
    ASSUME NEW S, NEW s \in Seq(S), NEW e \in S
    PROVE  /\ Append(s, e) \in Seq(S) /\ Len(s) \in Nat
           /\ Len(Append(s, e)) = Len(s) + 1 /\ Append(s, e)[Len(s) + 1] = e
           /\ \A i \in 1 .. Len(s) : Append(s, e)[i] = s[i]
  OBVIOUS

LEMMA FrontOf ==
    ASSUME NEW S, NEW s \in Seq(S), s # <<>>
    PROVE  /\ Len(s) \in Nat \ {0} /\ \A i \in 1 .. Len(s) : s[i] \in S
           /\ Front(s) \in Seq(S) /\ Len(Front(s)) = Len(s) - 1
           /\ \A i \in 1 .. Len(s) - 1 : Front(s)[i] = s[i]
<1>1. Len(s) \in Nat \ {0} /\ \A i \in 1 .. Len(s) : s[i] \in S
  OBVIOUS
<1> DEFINE n == Len(s) - 1
           l == Len(s)
<1>2. n \in Nat /\ l \in Nat /\ l = n + 1
  BY <1>1
<1> HIDE DEF n, l
<1>3. /\ 1 \in 1 .. l + 1 /\ n \in 1 - 1 .. l /\ n - 1 + 1 = n
      /\ n = IF 1 <= n THEN n - 1 + 1 ELSE 0
      /\ \A i \in 1 .. n : 1 + i - 1 = i
  BY <1>2
<1>4. /\ SubSeq(s, 1, n) \in Seq(S)
      /\ Len(SubSeq(s, 1, n)) = IF 1 <= n THEN n - 1 + 1 ELSE 0
      /\ \A i \in 1 .. n - 1 + 1 : SubSeq(s, 1, n)[i] = s[1 + i - 1]
  BY <1>3, SubSeqProperties DEF l
<1>5. Len(SubSeq(s, 1, n)) = n /\ \A i \in 1 .. n : SubSeq(s, 1, n)[i] = s[i]
  BY <1>3, <1>4
<1>6. QED
  BY <1>2, <1>1, <1>4, <1>5 DEF Front, n

LEMMA FrontOfPath ==
    ASSUME NEW p \in Seq(Frames), p # <<>>
    PROVE  /\ Len(p) \in Nat \ {0} /\ p[Len(p)] \in Frames
           /\ \A i \in 1 .. Len(p) : p[i] \in Frames /\ p[i].node \in Nodes
           /\ Front(p) \in Seq(Frames) /\ Len(Front(p)) = Len(p) - 1
           /\ \A i \in 1 .. Len(p) - 1 : Front(p)[i] = p[i]
<1>1. /\ Len(p) \in Nat \ {0} /\ \A i \in 1 .. Len(p) : p[i] \in Frames
      /\ Front(p) \in Seq(Frames) /\ Len(Front(p)) = Len(p) - 1
      /\ \A i \in 1 .. Len(p) - 1 : Front(p)[i] = p[i]
  BY FrontOf
<1>2. Len(p) \in 1 .. Len(p)
  BY <1>1
<1>3. \A f \in Frames : f.node \in Nodes
  BY DEF Frames
<1>4. QED
  BY <1>1, <1>2, <1>3

LEMMA PathWithChild ==
    ASSUME NEW p \in Seq(Frames), p # <<>>, NEW m \in Nodes
    PROVE  /\ PathTo(p, m) \in Seq(Frames) /\ Len(PathTo(p, m)) = Len(p) + 1
           /\ \A i \in 1 .. Len(p) : /\ PathTo(p, m)[i].node = p[i].node
                                   /\ p[i].polled \subseteq PathTo(p, m)[i].polled
           /\ m \in PathTo(p, m)[Len(p)].polled
           /\ PathTo(p, m)[Len(p) + 1].node = m
<1> DEFINE f == [p[Len(p)] EXCEPT !.polled = @ \cup {m}]
           r == [p EXCEPT ![Len(p)] = f]
           g == [node |-> m, polled |-> {}]
           q == PathTo(p, m)
<1>1. Len(p) \in Nat \ {0} /\ \A i \in 1 .. Len(p) : p[i] \in Frames
  BY FrontOfPath
<1>2. f \in Frames /\ f.node = p[Len(p)].node /\ f.polled = p[Len(p)].polled \cup {m}
  BY <1>1 DEF Frames
<1>3. q = Append(r, g)
  BY DEF PathTo
<1>4. g \in Frames /\ g.node = m
  BY DEF Frames
<1> HIDE DEF f, g, q
<1>5. /\ r \in Seq(Frames) /\ Len(r) = Len(p) /\ r[Len(p)] = f
      /\ \A i \in 1 .. Len(p) - 1 : r[i] = p[i]
  BY <1>1, <1>2
<1> HIDE DEF r
<1>6. /\ Append(r, g) \in Seq(Frames)
      /\ Len(Append(r, g)) = Len(r) + 1 /\ Append(r, g)[Len(r) + 1] = g
      /\ \A i \in 1 .. Len(r) : Append(r, g)[i] = r[i]
  BY <1>4, <1>5, Appended
<1>7. /\ q \in Seq(Frames) /\ Len(q) = Len(p) + 1 /\ q[Len(p) + 1] = g
      /\ \A i \in 1 .. Len(p) : q[i] = r[i]
  BY <1>3, <1>5, <1>6
<1>8. \A i \in 1 .. Len(p) : q[i].node = p[i].node /\ p[i].polled \subseteq q[i].polled
  BY <1>1, <1>2, <1>5, <1>7
<1>9. QED
  BY <1>1, <1>2, <1>4, <1>5, <1>7, <1>8 DEF q

LEMMA Polled ==
    ASSUME ExecutorInv, NEW n \in Nodes, Polls(n)
    PROVE  /\ path \in Seq(Frames) /\ path # <<>> /\ Len(path) \in Nat \ {0}
           /\ path[Len(path)].node = n /\ stage[n] \in Live
           /\ stage \in [Nodes -> Stages]
           /\ \A i \in 1 .. Len(path) : path[i].node \in Nodes
  BY FrontOfPath DEF ExecutorInv, ExecutorTypeOK, PathInv, Polls, Top

\* A future that is polled is the root, or the one before it on the path is the
\* only one that awaits it.
LEMMA AwaitedByTheLast ==
    ASSUME ExecutorInv, NEW n \in Nodes, Polls(n), NEW p \in Nodes, n \in Awaited(p)
    PROVE  /\ Len(path) > 1 /\ path[Len(path) - 1].node = p
           /\ n \in path[Len(path) - 1].polled /\ stage[p] \in Live
<1> DEFINE l == Len(path)
           q == path[l - 1].node
<1>1. /\ l \in Nat \ {0} /\ path[l].node = n /\ path # <<>>
      /\ \A i \in 1 .. l : path[i].node \in Nodes
  BY Polled
<1>2. l # 1
  BY <1>1, TreeAssumption DEF ExecutorInv, PathInv
<1>3. /\ \A i \in 2 .. l : path[i].node \in Awaited(path[i-1].node) \cap path[i-1].polled
      /\ \A i \in 1 .. l : stage[path[i].node] \in Live
  BY DEF ExecutorInv, PathInv
<1> HIDE DEF l
<1>4. l \in 2 .. l /\ l - 1 \in 1 .. l /\ l > 1
  BY <1>1, <1>2
<1>5. n \in Awaited(q) /\ n \in path[l - 1].polled /\ stage[q] \in Live /\ q \in Nodes
  BY <1>1, <1>3, <1>4
<1>6. q = p
  BY <1>5, TreeAssumption
<1>7. QED
  BY <1>4, <1>5, <1>6 DEF l

\* A shorter path is as good.
LEMMA FrontKeepsPath ==
    ASSUME ExecutorInv, NEW n \in Nodes, Polls(n), path' = Front(path),
           \A i \in 1 .. Len(path) - 1 : stage'[path[i].node] \in Live
    PROVE  path' \in Seq(Frames) /\ PathInv'
<1>1. /\ path' \in Seq(Frames) /\ Len(path') = Len(path) - 1 /\ Len(path) \in Nat \ {0}
      /\ \A i \in 1 .. Len(path) - 1 : path'[i] = path[i]
  BY Polled, FrontOfPath
<1>2. path' # <<>> => path'[1].node = Root
  BY <1>1 DEF ExecutorInv, PathInv
<1>3. /\ \A i \in 1 .. Len(path') : stage'[path'[i].node] \in Live
      /\ \A i \in 2 .. Len(path') :
            path'[i].node \in Awaited(path'[i-1].node) \cap path'[i-1].polled
      /\ \A i \in 1 .. Len(path') : \A k \in 1 .. i - 1 : path'[i].node \in Below[path'[k].node]
  BY <1>1 DEF ExecutorInv, PathInv
<1>4. QED
  BY <1>1, <1>2, <1>3 DEF PathInv

-----------------------------------------------------------------------------
(* The answers to a poll.                                                  *)

LEMMA PendingKeeps ==
    ASSUME ExecutorInv, NEW n \in Nodes, Polls(n), Pending(n),
           Kind[n] = "select" => \A m \in Awaited(n) : ~Done(m)
    PROVE  /\ path' \in Seq(Frames) /\ stage' \in [Nodes -> Stages]
           /\ PathInv' /\ DropInv' /\ SelectInv'
           /\ \A m \in Nodes : Done(m)' <=> Done(m)
<1>1. /\ path' = Front(path) /\ stage' = [stage EXCEPT ![n] = "pending"]
      /\ stage \in [Nodes -> Stages] /\ stage[n] \in Live /\ path # <<>> /\ Top.node = n
      /\ \A i \in 1 .. Len(path) : path[i].node \in Nodes
  BY Polled DEF Pending, Top
<1>2. /\ stage' \in [Nodes -> Stages]
      /\ \A m \in Nodes : stage[m] \in Live => stage'[m] \in Live
      /\ \A m \in Nodes : stage[m] \notin Live => stage'[m] = stage[m]
      /\ \A m \in Nodes : Done(m)' <=> Done(m)
  BY <1>1 DEF Live, Stages, Done
<1>3. \A i \in 1 .. Len(path) - 1 : stage'[path[i].node] \in Live
  BY <1>1, <1>2, Polled DEF ExecutorInv, PathInv
<1>4. path' \in Seq(Frames) /\ PathInv'
  BY <1>1, <1>3, FrontKeepsPath
<1>5. DropInv'
  BY <1>1, <1>2 DEF ExecutorInv, DropInv, Live, Stages
<1>6. ASSUME NEW s \in Nodes, Kind[s] = "select"
      PROVE  /\ \A k, m \in Awaited(s) : Done(k)' /\ Done(m)' => k = m
             /\ \A m \in Awaited(s) : ~(stage'[s] \in Live /\ Done(m)')
             /\ Done(s)' => /\ \E m \in Awaited(s) : Done(m)'
                            /\ \A m \in Awaited(s) : stage'[m] \in {"done", "dropped"}
  <2>1. Awaited(s) \subseteq Nodes
    BY AwaitedNodes
  <2>2. \A m \in Awaited(s) : stage[s] \in Live => ~Done(m)
    BY <1>1, <1>6 DEF ExecutorInv, SelectInv
  <2>3. stage'[s] \in Live => stage[s] \in Live
    BY <1>1, <1>2
  <2>4. /\ \A k, m \in Awaited(s) : Done(k) /\ Done(m) => k = m
        /\ Done(s) => /\ \E m \in Awaited(s) : Done(m)
                      /\ \A m \in Awaited(s) : stage[m] \in {"done", "dropped"}
    BY <1>6 DEF ExecutorInv, SelectInv
  <2>5. \A m \in Nodes : stage[m] \in {"done", "dropped"} => stage'[m] \in {"done", "dropped"}
    BY <1>2 DEF Live
  <2>6. QED
    BY <1>2, <2>1, <2>2, <2>3, <2>4, <2>5
<1>7. SelectInv'
  BY <1>6 DEF SelectInv
<1>8. QED
  BY <1>2, <1>4, <1>5, <1>7

LEMMA ReadyKeeps ==
    ASSUME ExecutorInv, NEW n \in Nodes, Polls(n), Ready(n),
           Kind[n] = "select" => \E m \in Awaited(n) : Done(m)
    PROVE  /\ path' \in Seq(Frames) /\ stage' \in [Nodes -> Stages]
           /\ PathInv' /\ DropInv' /\ SelectInv'
           /\ \A m \in Nodes : Done(m)' <=> m = n \/ Done(m)
<1>1. /\ path' = Front(path) /\ path # <<>> /\ Top = path[Len(path)] /\ Top.node = n
      /\ path \in Seq(Frames) /\ Len(path) \in Nat \ {0}
      /\ stage \in [Nodes -> Stages] /\ stage[n] \in Live
      /\ \A i \in 1 .. Len(path) : path[i].node \in Nodes
  BY Polled DEF Ready, Top
<1>2. n \notin Below[n] /\ Below[n] \subseteq Nodes
  BY TreeAssumption, AwaitedNodes
<1>3. /\ stage' \in [Nodes -> Stages] /\ stage'[n] = "done"
      /\ \A m \in Below[n] : stage'[m] = IF Done(m) THEN "done" ELSE "dropped"
      /\ \A m \in Nodes : m # n /\ m \notin Below[n] => stage'[m] = stage[m]
  BY <1>1, <1>2 DEF Ready, Stages, Done
<1>4. /\ \A m \in Nodes : stage[m] \notin Live => stage'[m] = stage[m]
      /\ \A m \in Nodes : Done(m)' <=> m = n \/ Done(m)
      /\ \A m \in Nodes : stage'[m] \in Live => stage[m] \in Live /\ m # n
  BY <1>1, <1>2, <1>3 DEF Done, Live, Stages
<1>5. ASSUME NEW i \in 1 .. Len(path) - 1 PROVE stage'[path[i].node] \in Live
  <2>1. i \in 1 .. Len(path) /\ i \in 1 .. Len(path) - 1 /\ Len(path) \in 1 .. Len(path)
    BY <1>1
  <2>2. path[i].node \in Nodes /\ n \in Below[path[i].node] /\ stage[path[i].node] \in Live
    BY <1>1, <2>1 DEF ExecutorInv, PathInv
  <2>3. path[i].node # n /\ path[i].node \notin Below[n]
    BY <1>2, <2>2, BelowIsTransitive
  <2>4. QED
    BY <1>3, <2>2, <2>3
<1>6. path' \in Seq(Frames) /\ PathInv'
  BY <1>1, <1>5, FrontKeepsPath
<1>7. DropInv'
  <2>1. ASSUME NEW m \in Nodes, stage'[m] = "dropped"
        PROVE  \E p \in Nodes : m \in Awaited(p) /\ stage'[p] \in {"done", "dropped"}
    <3>1. CASE m \in Below[n]
      <4>1. PICK p \in Nodes : m \in Awaited(p) /\ (p = n \/ p \in Below[n])
        BY <3>1, AwaitedFromBelow
      <4>2. QED
        BY <1>3, <4>1
    <3>2. CASE m \notin Below[n]
      <4>1. stage[m] = "dropped"
        BY <1>3, <2>1, <3>2
      <4>2. QED
        BY <1>4, <4>1 DEF ExecutorInv, DropInv, Live
    <3>3. QED
      BY <3>1, <3>2
  <2>2. QED
    BY <2>1 DEF DropInv
<1>8. ASSUME NEW s \in Nodes, Kind[s] = "select"
      PROVE  /\ \A k, m \in Awaited(s) : Done(k)' /\ Done(m)' => k = m
             /\ \A m \in Awaited(s) : stage'[s] \in Live /\ Done(m)' =>
                   path' # <<>> /\ Top'.node = s /\ m \in Top'.polled
             /\ Done(s)' => /\ \E m \in Awaited(s) : Done(m)'
                            /\ \A m \in Awaited(s) : stage'[m] \in {"done", "dropped"}
  <2>1. Awaited(s) \subseteq Nodes /\ Awaited(n) \subseteq Below[n]
    BY AwaitedNodes, BelowIsClosed
  <2>2. /\ \A k, m \in Awaited(s) : Done(k) /\ Done(m) => k = m
        /\ \A m \in Awaited(s) : stage[s] \in Live /\ Done(m) => s = n
        /\ Done(s) => /\ \E m \in Awaited(s) : Done(m)
                      /\ \A m \in Awaited(s) : stage[m] \in {"done", "dropped"}
    BY <1>1, <1>8 DEF ExecutorInv, SelectInv
  <2>3. n \in Awaited(s) => /\ Len(path) > 1 /\ path[Len(path) - 1].node = s
                            /\ n \in path[Len(path) - 1].polled /\ stage[s] \in Live
    BY AwaitedByTheLast
  <2>4. n \in Awaited(s) => s # n
    BY <1>2, <2>1
  <2>5. \A k, m \in Awaited(s) : Done(k)' /\ Done(m)' => k = m
    BY <1>4, <2>1, <2>2, <2>3, <2>4
  <2>6. ASSUME NEW m \in Awaited(s), stage'[s] \in Live, Done(m)'
        PROVE  path' # <<>> /\ Top'.node = s /\ m \in Top'.polled
    <3>1. m = n
      BY <1>4, <2>1, <2>2, <2>6
    <3>2. Len(path') = Len(path) - 1 /\ path'[Len(path) - 1] = path[Len(path) - 1]
      BY <1>1, <2>3, <3>1, FrontOfPath
    <3>3. QED
      BY <1>1, <2>3, <3>1, <3>2 DEF Top
  <2>7. ASSUME Done(s)'
        PROVE  /\ \E m \in Awaited(s) : Done(m)'
               /\ \A m \in Awaited(s) : stage'[m] \in {"done", "dropped"}
    <3>1. CASE s = n
      BY <1>3, <1>4, <1>8, <2>1, <3>1
    <3>2. CASE s # n
      BY <1>4, <2>1, <2>2, <2>7, <3>2 DEF Live
    <3>3. QED
      BY <3>1, <3>2
  <2>8. QED
    BY <2>5, <2>6, <2>7
<1>9. SelectInv'
  BY <1>8 DEF SelectInv
<1>10. QED
  BY <1>3, <1>4, <1>6, <1>7, <1>9

\* Paths, stages and messages together.
LEMMA MessagesStay ==
    ASSUME ExecutorInv, UNCHANGED <<got, messages, counted>>,
           \A m \in Nodes : Done(m) => Done(m)'
    PROVE  MessageInv'
  BY DEF ExecutorInv, MessageInv

LEMMA AnswersKeep ==
    ASSUME ExecutorInv, NEW n \in Nodes, Polls(n), UNCHANGED <<got, elapsed, messages, counted,
              threads, ended>>,
           \/ Ready(n) /\ (Kind[n] = "select" => \E m \in Awaited(n) : Done(m))
           \/ Pending(n) /\ (Kind[n] = "select" => \A m \in Awaited(n) : ~Done(m))
    PROVE  ExecutorInv'
<1>1. /\ path' \in Seq(Frames) /\ stage' \in [Nodes -> Stages]
      /\ PathInv' /\ DropInv' /\ SelectInv'
      /\ \A m \in Nodes : Done(m) => Done(m)'
  <2>1. CASE Ready(n) /\ (Kind[n] = "select" => \E m \in Awaited(n) : Done(m))
    BY <2>1, ReadyKeeps
  <2>2. CASE Pending(n) /\ (Kind[n] = "select" => \A m \in Awaited(n) : ~Done(m))
    BY <2>2, PendingKeeps
  <2>3. QED
    BY <2>1, <2>2
<1>2. MessageInv'
  BY <1>1, MessagesStay
<1>3. ExecutorTypeOK'
  BY <1>1 DEF ExecutorInv, ExecutorTypeOK
<1>4. QED
  BY <1>1, <1>2, <1>3 DEF ExecutorInv

LEMMA OwnAnswersKeep ==
    ASSUME ExecutorInv, NEW n \in Nodes, YieldNow(n) \/ SleepMillis(n) \/ Answer(n)
    PROVE  ExecutorInv'
<1>1. CASE YieldNow(n)
  BY <1>1, AnswersKeep DEF YieldNow
<1>2. CASE SleepMillis(n)
  BY <1>2, AnswersKeep DEF SleepMillis
<1>3. CASE Answer(n)
  <2>1. Polls(n) /\ UNCHANGED <<got, elapsed, messages, counted, threads, ended>>
    BY <1>3 DEF Answer
  <2>2. CASE Kind[n] = "select"
    BY <1>3, <2>1, <2>2, AnswersKeep DEF Answer
  <2>3. CASE Kind[n] # "select"
    BY <1>3, <2>1, <2>3, AnswersKeep DEF Answer
  <2>4. QED
    BY <2>2, <2>3
<1>4. QED
  BY <1>1, <1>2, <1>3

\* A longer path: stages stay.
LEMMA StagesStay ==
    ASSUME ExecutorInv, stage' = stage, path' \in Seq(Frames), PathInv', SelectInv',
           UNCHANGED <<got, elapsed, messages, counted, threads>>, ended' = ended
    PROVE  ExecutorInv'
<1>1. \A m : Done(m)' <=> Done(m)
  BY DEF Done
<1>2. MessageInv' /\ DropInv'
  BY <1>1, MessagesStay DEF ExecutorInv, DropInv
<1>3. QED
  BY <1>2 DEF ExecutorInv, ExecutorTypeOK

LEMMA BlockOnKeeps == ASSUME ExecutorInv, BlockOn PROVE ExecutorInv'
<1>1. path = <<>> /\ UNCHANGED <<stage, got, elapsed, messages, counted, threads>>
  BY DEF BlockOn
<1>2. CASE Done(Root)
  <2>1. path' = path /\ ended' = "returned"
    BY <1>2 DEF BlockOn
  <2>2. PathInv' /\ SelectInv' /\ DropInv' /\ MessageInv'
    BY <1>1, <2>1, MessagesStay
       DEF ExecutorInv, PathInv, SelectInv, DropInv, Done, Top
  <2>3. QED
    BY <1>1, <2>1, <2>2 DEF ExecutorInv, ExecutorTypeOK
<1>3. CASE ~Done(Root)
  <2> DEFINE f == [node |-> Root, polled |-> {}]
  <2>1. path' = <<f>> /\ ended' = ended
    BY <1>3 DEF BlockOn
  <2>2. f \in Frames /\ f.node = Root /\ Root \in Nodes
    BY TreeAssumption DEF Frames
  <2> HIDE DEF f
  <2>3. path' \in Seq(Frames) /\ Len(path') = 1 /\ path'[1] = f
    BY <2>1, <2>2
  <2>4. stage[Root] \in Live
    <3>1. stage[Root] # "dropped"
      BY <2>2, TreeAssumption DEF ExecutorInv, DropInv
    <3>2. stage[Root] \in Stages
      BY <2>2 DEF ExecutorInv, ExecutorTypeOK
    <3>3. QED
      BY <1>3, <3>1, <3>2 DEF Stages, Live, Done
  <2>5. PathInv'
    BY <1>1, <2>2, <2>3, <2>4 DEF PathInv
  <2>6. SelectInv'
    BY <1>1 DEF ExecutorInv, SelectInv, Done
  <2>7. QED
    BY <1>1, <2>1, <2>3, <2>5, <2>6, StagesStay
<1>4. QED
  BY <1>2, <1>3

\* Whoever is polled has not been dropped, nor returned.
LEMMA ChildIsLive ==
    ASSUME ExecutorInv, NEW n \in Nodes, Polls(n), Kind[n] \notin Leaves,
           NEW m \in Awaited(n), PolledNext(n, m)
    PROVE  m \in Nodes /\ stage[m] \in Live
<1>1. stage[n] \in Live /\ m \in Nodes /\ Kind[n] \in {"join", "select", "body"}
  BY Polled, AwaitedNodes, TreeAssumption DEF Kinds
<1>2. stage[m] # "dropped"
  <2>1. \A p \in Nodes : m \in Awaited(p) => p = n
    BY TreeAssumption
  <2>2. QED
    BY <1>1, <2>1 DEF ExecutorInv, DropInv, Live
<1>3. m \notin Top.polled /\ ~Done(m)
  <2>1. Wanted(n, m)
    BY DEF PolledNext
  <2>2. CASE Kind[n] = "join"
    BY <2>1, <2>2 DEF Wanted, JoinPolls
  <2>3. CASE Kind[n] = "body"
    BY <2>1, <2>3 DEF Wanted, BodyPolls
  <2>4. CASE Kind[n] = "select"
    <3>1. m \notin Top.polled
      BY <2>1, <2>4 DEF Wanted, SelectPolls
    <3>2. QED
      BY <1>1, <2>4, <3>1 DEF ExecutorInv, SelectInv
  <2>5. QED
    BY <1>1, <2>2, <2>3, <2>4
<1>4. stage[m] \in Stages
  BY <1>1 DEF ExecutorInv, ExecutorTypeOK
<1>5. QED
  BY <1>1, <1>2, <1>3, <1>4 DEF Stages, Live, Done

LEMMA PollChildKeeps == ASSUME ExecutorInv, NEW n \in Nodes, PollChild(n) PROVE ExecutorInv'
<1>1. PICK m \in Awaited(n) : PolledNext(n, m) /\ path' = PathTo(path, m)
  BY DEF PollChild
<1>2. Polls(n) /\ Kind[n] \notin Leaves
      /\ UNCHANGED <<stage, got, elapsed, messages, counted, threads, ended>>
  BY DEF PollChild
<1>3. m \in Nodes /\ stage[m] \in Live
  BY <1>1, <1>2, ChildIsLive
<1> DEFINE l == Len(path)
<1>4. /\ path \in Seq(Frames) /\ path # <<>> /\ l \in Nat \ {0} /\ path[l].node = n
      /\ Top = path[l]
  BY <1>2, Polled DEF Top
<1> HIDE DEF l
<1>5. /\ path' \in Seq(Frames) /\ Len(path') = l + 1
      /\ \A i \in 1 .. l : path'[i].node = path[i].node /\ path[i].polled \subseteq path'[i].polled
      /\ m \in path'[l].polled
      /\ path'[l + 1].node = m
  BY <1>1, <1>3, <1>4, PathWithChild DEF l
<1>6. /\ path[1].node = Root
      /\ \A i \in 1 .. l : stage[path[i].node] \in Live
      /\ \A i \in 2 .. l : path[i].node \in Awaited(path[i-1].node) \cap path[i-1].polled
      /\ \A i \in 1 .. l : \A k \in 1 .. i - 1 : path[i].node \in Below[path[k].node]
  BY <1>4 DEF ExecutorInv, PathInv, l
<1>7. \A i \in 1 .. l : path[i].node \in Nodes
  BY <1>2, Polled DEF l
<1>8. PathInv'
  <2>1. path'[1].node = Root
    BY <1>4, <1>5, <1>6
  <2>2. ASSUME NEW i \in 1 .. Len(path') PROVE stage'[path'[i].node] \in Live
    <3>1. CASE i \in 1 .. l
      BY <1>2, <1>5, <1>6, <3>1
    <3>2. CASE i = l + 1
      BY <1>2, <1>3, <1>5, <3>2
    <3>3. QED
      BY <1>4, <1>5, <3>1, <3>2
  <2>3. ASSUME NEW i \in 2 .. Len(path')
        PROVE  path'[i].node \in Awaited(path'[i-1].node) \cap path'[i-1].polled
    <3>1. CASE i \in 2 .. l
      <4>1. i \in 1 .. l /\ i - 1 \in 1 .. l
        BY <1>4, <3>1
      <4>2. QED
        BY <1>5, <1>6, <3>1, <4>1
    <3>2. CASE i = l + 1
      <4>1. l \in 1 .. l /\ i - 1 = l
        BY <1>4, <3>2
      <4>2. QED
        BY <1>4, <1>5, <3>2, <4>1
    <3>3. QED
      BY <1>4, <1>5, <3>1, <3>2
  <2>4. ASSUME NEW i \in 1 .. Len(path'), NEW k \in 1 .. i - 1
        PROVE  path'[i].node \in Below[path'[k].node]
    <3>1. CASE i \in 1 .. l
      <4>1. k \in 1 .. l
        BY <1>4, <3>1
      <4>2. QED
        BY <1>5, <1>6, <2>4, <3>1, <4>1
    <3>2. CASE i = l + 1
      <4>1. k \in 1 .. l /\ (k = l \/ k \in 1 .. l - 1) /\ l \in 1 .. l
        BY <1>4, <3>2
      <4>2. path'[k].node = path[k].node /\ path[k].node \in Nodes /\ path'[i].node = m
        BY <1>5, <1>7, <3>2, <4>1
      <4>3. k = l \/ n \in Below[path[k].node]
        BY <1>4, <1>6, <4>1
      <4>4. QED
        BY <1>4, <4>2, <4>3, BelowIsClosed
    <3>3. QED
      BY <1>4, <1>5, <3>1, <3>2
  <2>5. QED
    BY <1>2, <2>1, <2>2, <2>3, <2>4 DEF PathInv
<1>9. SelectInv'
  <2>1. ASSUME NEW s \in Nodes, Kind[s] = "select", NEW k \in Awaited(s), stage[s] \in Live, Done(k)
        PROVE  FALSE
    <3>1. s = n /\ k \in Top.polled
      BY <1>4, <2>1 DEF ExecutorInv, SelectInv
    <3>2. SelectPolls(n, m)
      BY <1>1, <2>1, <3>1 DEF PolledNext, Wanted
    <3>3. QED
      BY <2>1, <3>1, <3>2 DEF SelectPolls
  <2>2. QED
    BY <1>2, <2>1 DEF ExecutorInv, SelectInv, Done
<1>10. QED
  BY <1>2, <1>5, <1>8, <1>9, StagesStay

-----------------------------------------------------------------------------
(* The messages.                                                           *)

LEMMA AppendedMessages ==
    ASSUME NEW s \in Seq(Nat), NEW e \in Nat
    PROVE  Append(s, e) \in Seq(Nat) /\ ToSet(s) \cup {e} \subseteq ToSet(Append(s, e))
<1>1. /\ Append(s, e) \in Seq(Nat) /\ Len(s) \in Nat
      /\ Len(Append(s, e)) = Len(s) + 1 /\ Append(s, e)[Len(s) + 1] = e
      /\ \A i \in 1 .. Len(s) : Append(s, e)[i] = s[i]
  BY Appended
<1>2. /\ DOMAIN s = 1 .. Len(s) /\ DOMAIN Append(s, e) = 1 .. Len(s) + 1
      /\ Len(s) + 1 \in 1 .. Len(s) + 1 /\ 1 .. Len(s) \subseteq 1 .. Len(s) + 1
  BY <1>1
<1>3. ToSet(s) = {s[i] : i \in 1 .. Len(s)}
      /\ ToSet(Append(s, e)) = {Append(s, e)[i] : i \in 1 .. Len(s) + 1}
  BY <1>2 DEF ToSet
<1>4. QED
  BY <1>1, <1>2, <1>3

LEMMA ReceivedMessages ==
    ASSUME NEW s \in Seq(Nat), s # <<>>
    PROVE  Tail(s) \in Seq(Nat) /\ Head(s) \in Nat /\ ToSet(s) \subseteq ToSet(Tail(s)) \cup {Head(s)}
<1>1. /\ Tail(s) \in Seq(Nat) /\ Len(s) \in Nat \ {0} /\ Len(Tail(s)) = Len(s) - 1
      /\ \A i \in 1 .. Len(s) - 1 : Tail(s)[i] = s[i + 1]
      /\ Head(s) = s[1] /\ Head(s) \in Nat
  OBVIOUS
<1>2. DOMAIN s = 1 .. Len(s) /\ DOMAIN Tail(s) = 1 .. Len(s) - 1
  BY <1>1
<1>3. ToSet(s) = {s[i] : i \in 1 .. Len(s)} /\ ToSet(Tail(s)) = {Tail(s)[i] : i \in 1 .. Len(s) - 1}
  BY <1>2 DEF ToSet
<1>4. ASSUME NEW i \in 1 .. Len(s), i # 1 PROVE i - 1 \in 1 .. Len(s) - 1 /\ Tail(s)[i - 1] = s[i]
  BY <1>1, <1>4
<1>5. QED
  BY <1>1, <1>3, <1>4

Sent(i, c, ms, gs) ==
    \/ i \in ToSet(ms[c])
    \/ \E n \in Nodes : Kind[n] = "recv" /\ Channel[n] = c /\ i \in gs[n]

LEMMA PutKeeps ==
    ASSUME ExecutorInv, NEW c \in Channels, Put(c)
    PROVE  /\ messages' \in [Channels -> Seq(Nat)] /\ counted' \in [Channels -> Nat]
           /\ \A d \in Channels : \A i \in 0 .. counted'[d] - 1 : Sent(i, d, messages', got)
<1>1. /\ messages \in [Channels -> Seq(Nat)] /\ counted \in [Channels -> Nat]
      /\ \A d \in Channels : \A i \in 0 .. counted[d] - 1 : Sent(i, d, messages, got)
  BY DEF ExecutorInv, ExecutorTypeOK, MessageInv, Sent
<1>2. /\ counted' = [counted EXCEPT ![c] = @ + 1]
      /\ messages' = [messages EXCEPT ![c] = Append(@, counted[c])]
  BY DEF Put
<1>3. /\ Append(messages[c], counted[c]) \in Seq(Nat)
      /\ ToSet(messages[c]) \cup {counted[c]} \subseteq ToSet(Append(messages[c], counted[c]))
  BY <1>1, AppendedMessages
<1>4. messages' \in [Channels -> Seq(Nat)] /\ counted' \in [Channels -> Nat]
  BY <1>1, <1>2, <1>3
<1>5. /\ ToSet(messages[c]) \cup {counted[c]} \subseteq ToSet(messages'[c])
      /\ counted'[c] = counted[c] + 1
      /\ \A d \in Channels : d # c => messages'[d] = messages[d] /\ counted'[d] = counted[d]
  BY <1>1, <1>2, <1>3
<1>6. ASSUME NEW d \in Channels, NEW i \in 0 .. counted'[d] - 1 PROVE Sent(i, d, messages', got)
  <2>1. CASE d = c /\ i = counted[c]
    BY <1>5, <2>1 DEF Sent
  <2>2. CASE ~(d = c /\ i = counted[c])
    <3>1. counted[d] \in Nat /\ i \in Int
      BY <1>1
    <3>2. i \in 0 .. counted[d] - 1
      BY <1>5, <1>6, <2>2, <3>1
    <3>3. Sent(i, d, messages, got)
      BY <1>1, <3>2
    <3>4. QED
      BY <1>5, <3>3 DEF Sent
  <2>3. QED
    BY <2>1, <2>2
<1>7. QED
  BY <1>4, <1>6

LEMMA SendKeeps == ASSUME ExecutorInv, NEW n \in Nodes, Send(n) PROVE ExecutorInv'
<1>1. /\ Polls(n) /\ Kind[n] = "send" /\ Put(Channel[n]) /\ Ready(n)
      /\ UNCHANGED <<got, elapsed, threads, ended>> /\ Channel[n] \in Channels
  BY TreeAssumption DEF Send
<1>2. /\ path' \in Seq(Frames) /\ stage' \in [Nodes -> Stages]
      /\ PathInv' /\ DropInv' /\ SelectInv'
      /\ \A m \in Nodes : Done(m)' <=> m = n \/ Done(m)
  BY <1>1, ReadyKeeps
<1>3. /\ messages' \in [Channels -> Seq(Nat)] /\ counted' \in [Channels -> Nat]
      /\ \A d \in Channels : \A i \in 0 .. counted'[d] - 1 : Sent(i, d, messages', got')
  BY <1>1, PutKeeps
<1>4. MessageInv'
  BY <1>1, <1>2, <1>3 DEF ExecutorInv, MessageInv, Sent
<1>5. QED
  BY <1>1, <1>2, <1>3, <1>4 DEF ExecutorInv, ExecutorTypeOK

LEMMA RecvAsyncKeeps == ASSUME ExecutorInv, NEW n \in Nodes, RecvAsync(n) PROVE ExecutorInv'
<1> DEFINE c == Channel[n]
           x == Head(messages[c])
<1>1. /\ Polls(n) /\ Kind[n] = "recv" /\ c \in Channels
      /\ UNCHANGED <<elapsed, counted, threads>>
  BY TreeAssumption DEF RecvAsync
<1>2. CASE /\ messages[c] # <<>>
           /\ got' = [got EXCEPT ![n] = {x}]
           /\ messages' = [messages EXCEPT ![c] = Tail(@)]
           /\ Ready(n)
           /\ UNCHANGED ended
  <2>1. /\ path' \in Seq(Frames) /\ stage' \in [Nodes -> Stages]
        /\ PathInv' /\ DropInv' /\ SelectInv'
        /\ \A m \in Nodes : Done(m)' <=> m = n \/ Done(m)
    BY <1>1, <1>2, ReadyKeeps
  <2>2. /\ messages \in [Channels -> Seq(Nat)] /\ got \in [Nodes -> SUBSET Nat]
        /\ \A m \in Nodes : got[m] # {} => Done(m)
        /\ \A d \in Channels : \A i \in 0 .. counted[d] - 1 : Sent(i, d, messages, got)
    BY DEF ExecutorInv, ExecutorTypeOK, MessageInv, Sent
  <2>3. /\ Tail(messages[c]) \in Seq(Nat) /\ x \in Nat
        /\ ToSet(messages[c]) \subseteq ToSet(Tail(messages[c])) \cup {x}
    BY <1>1, <1>2, <2>2, ReceivedMessages
  <2>4. got[n] = {}
    BY <1>1, <2>2, Polled DEF Done, Live
  <2> HIDE DEF c, x
  <2>5. /\ messages' \in [Channels -> Seq(Nat)] /\ messages'[c] = Tail(messages[c])
        /\ \A d \in Channels : d # c => messages'[d] = messages[d]
    BY <1>1, <1>2, <2>2, <2>3
  <2>6. /\ got' \in [Nodes -> SUBSET Nat] /\ got'[n] = {x}
        /\ \A m \in Nodes : m # n => got'[m] = got[m]
    BY <1>2, <2>2, <2>3
  <2>7. ASSUME NEW d \in Channels, NEW i \in 0 .. counted[d] - 1 PROVE Sent(i, d, messages', got')
    <3>1. Sent(i, d, messages, got)
      BY <2>2
    <3>2. CASE d = c /\ i = x
      BY <1>1, <2>6, <3>2 DEF Sent, c
    <3>3. CASE i \in ToSet(messages[d]) /\ ~(d = c /\ i = x)
      BY <2>3, <2>5, <3>3 DEF Sent
    <3>4. CASE \E m \in Nodes : Kind[m] = "recv" /\ Channel[m] = d /\ i \in got[m]
      BY <2>4, <2>6, <3>4 DEF Sent
    <3>5. QED
      BY <3>1, <3>2, <3>3, <3>4 DEF Sent
  <2>8. MessageInv'
    BY <1>1, <2>1, <2>2, <2>6, <2>7 DEF MessageInv, Sent
  <2>9. QED
    BY <1>1, <1>2, <2>1, <2>5, <2>6, <2>8 DEF ExecutorInv, ExecutorTypeOK
<1>3. CASE Pending(n) /\ UNCHANGED <<got, messages, ended>>
  BY <1>1, <1>3, AnswersKeep
<1>4. CASE ended' = "panicked" /\ UNCHANGED <<path, stage, got, messages>>
  <2>1. PathInv' /\ DropInv' /\ SelectInv' /\ MessageInv'
    BY <1>1, <1>4 DEF ExecutorInv, PathInv, DropInv, SelectInv, MessageInv, Done, Top
  <2>2. QED
    BY <1>1, <1>4, <2>1 DEF ExecutorInv, ExecutorTypeOK
<1>5. QED
  BY <1>2, <1>3, <1>4 DEF RecvAsync

LEMMA OutsidersKeep ==
    ASSUME ExecutorInv,
           \/ \E n \in Nodes : Elapse(n)
           \/ \E c \in Channels : ThreadSend(c) \/ ThreadEnds(c)
    PROVE  ExecutorInv'
<1>1. UNCHANGED <<stage, got, path, ended>>
  BY DEF Elapse, ThreadSend, ThreadEnds
<1>2. PathInv' /\ DropInv' /\ SelectInv'
  BY <1>1 DEF ExecutorInv, PathInv, DropInv, SelectInv, Done, Top
<1>3. CASE \E n \in Nodes : Elapse(n)
  BY <1>1, <1>2, <1>3, MessagesStay DEF ExecutorInv, ExecutorTypeOK, Elapse, Done
<1>4. ASSUME NEW c \in Channels, ThreadSend(c) PROVE ExecutorInv'
  <2>1. /\ messages' \in [Channels -> Seq(Nat)] /\ counted' \in [Channels -> Nat]
        /\ \A d \in Channels : \A i \in 0 .. counted'[d] - 1 : Sent(i, d, messages', got')
        /\ UNCHANGED <<elapsed, threads>>
    BY <1>1, <1>4, PutKeeps DEF ThreadSend
  <2>2. MessageInv'
    BY <1>1, <2>1 DEF ExecutorInv, MessageInv, Sent, Done
  <2>3. QED
    BY <1>1, <1>2, <2>1, <2>2 DEF ExecutorInv, ExecutorTypeOK
<1>5. CASE \E c \in Channels : ThreadEnds(c)
  BY <1>1, <1>2, <1>5, MessagesStay DEF ExecutorInv, ExecutorTypeOK, ThreadEnds, Done
<1>6. QED
  BY <1>3, <1>4, <1>5

LEMMA ExecutorKeeps == ASSUME ExecutorInv, [ExecutorNext]_executorVars PROVE ExecutorInv'
<1>1. ASSUME UNCHANGED executorVars PROVE ExecutorInv'
  <2>1. PathInv' /\ DropInv' /\ SelectInv' /\ MessageInv'
    BY <1>1 DEF executorVars, ExecutorInv, PathInv, DropInv, SelectInv, MessageInv, Done, Top
  <2>2. QED
    BY <1>1, <2>1 DEF executorVars, ExecutorInv, ExecutorTypeOK
<1>2. QED
  BY <1>1, BlockOnKeeps, OwnAnswersKeep, RecvAsyncKeeps, SendKeeps, PollChildKeeps, OutsidersKeep
     DEF ExecutorNext, PollStep

LEMMA ExecutorInvariant == ExecutorSpec => []ExecutorInv
<1>1. ExecutorInit => ExecutorInv
  <2>1. SUFFICES ASSUME ExecutorInit PROVE ExecutorInv
    OBVIOUS
  <2>2. "new" \in Stages /\ {} \in SUBSET Nat /\ <<>> \in Seq(Nat) /\ <<>> \in Seq(Frames)
         /\ 0 \in Nat /\ Len(<<>>) = 0 /\ 0 .. 0 - 1 = {}
    BY DEF Stages
  <2>3. ExecutorTypeOK
    BY <2>1, <2>2 DEF ExecutorInit, ExecutorTypeOK
  <2>4. Len(path) = 0 /\ \A n \in Nodes : stage[n] = "new" /\ ~Done(n)
    BY <2>1, <2>2 DEF ExecutorInit, Done
  <2>5. PathInv /\ DropInv
    BY <2>1, <2>4 DEF ExecutorInit, PathInv, DropInv
  <2>6. SelectInv
    BY <2>4, AwaitedNodes DEF SelectInv
  <2>7. MessageInv
    BY <2>1, <2>2 DEF ExecutorInit, MessageInv
  <2>8. QED
    BY <2>3, <2>5, <2>6, <2>7 DEF ExecutorInv
<1>2. QED
  BY <1>1, ExecutorKeeps, PTL DEF ExecutorSpec

(* No future of a tree of any shape is polled after it returned or was     *)
(* dropped: the generated join2, select2 and block_on never resume an      *)
(* async fn that has completed.                                            *)
THEOREM FuturesArePolledWhileLive == ExecutorSpec => NoPollAfterReady
<1>1. ExecutorInv /\ ExecutorInv' /\ [ExecutorNext]_executorVars =>
        [Len(path') > Len(path) => stage[path'[Len(path')].node] \in {"new", "pending"}]_executorVars
  <2>1. SUFFICES ASSUME ExecutorInv, ExecutorInv', ExecutorNext, Len(path') > Len(path)
                 PROVE  stage[path'[Len(path')].node] \in {"new", "pending"}
    OBVIOUS
  <2>2. Len(path) \in Nat /\ Len(path') \in Nat
    BY <2>1 DEF ExecutorInv, ExecutorTypeOK
  <2>3. stage' = stage
    <3>1. \A n \in Nodes : Polls(n) => path \in Seq(Frames) /\ path # <<>>
      BY <2>1, Polled
    <3>2. \A n \in Nodes : Polls(n) => path' # Front(path)
      BY <2>1, <2>2, <3>1, FrontOfPath
    <3>3. QED
      BY <2>1, <3>2
         DEF ExecutorNext, PollStep, BlockOn, YieldNow, SleepMillis, RecvAsync, Send, PollChild,
             Answer, Ready, Pending, Elapse, ThreadSend, ThreadEnds
  <2>4. Len(path') \in 1 .. Len(path')
    BY <2>1, <2>2
  <2>5. stage'[path'[Len(path')].node] \in Live
    BY <2>1, <2>4 DEF ExecutorInv, PathInv
  <2>6. QED
    BY <2>3, <2>5 DEF Live
<1>2. QED
  BY <1>1, ExecutorInvariant, PTL DEF ExecutorSpec, NoPollAfterReady

(* No message is lost in a branch that did not win, unless the branch was  *)
(* dropped after it had received it: a select of any two futures whose     *)
(* branches are both ready leaves the second one's message in the channel. *)
THEOREM NoMessageIsLost == ExecutorSpec => []MessagesKept
<1>1. ExecutorInv => MessagesKept
  <2>1. ASSUME ExecutorInv, NEW n \in Nodes, got[n] # {} PROVE InAnswer(n) \/ DroppedHalfway(n)
    <3>1. Done(n)
      BY <2>1 DEF ExecutorInv, MessageInv
    <3>2. ASSUME NEW m \in Lost PROVE m \in Nodes /\ stage[m] = "dropped"
      <4>1. PICK s \in Nodes : Kind[s] = "select" /\ Done(s) /\ m \in Awaited(s) \ {Winner(s)}
        BY DEF Lost
      <4>2. /\ \A k, j \in Awaited(s) : Done(k) /\ Done(j) => k = j
            /\ \E k \in Awaited(s) : Done(k)
            /\ stage[m] \in {"done", "dropped"}
        BY <2>1, <4>1 DEF ExecutorInv, SelectInv
      <4>3. Winner(s) \in Awaited(s) /\ Done(Winner(s))
        <5>1. Awaits[s] \in Seq(Nodes) /\ Len(Awaits[s]) = 2
          BY <4>1, TreeAssumption
        <5>2. DOMAIN Awaits[s] = {1, 2} /\ Awaited(s) = {Awaits[s][1], Awaits[s][2]}
          BY <5>1 DEF Awaited, ToSet
        <5>3. \E i \in {1, 2} : Done(Awaits[s][i]) /\ \A j \in 1 .. i - 1 : ~Done(Awaits[s][j])
          BY <4>2, <5>2
        <5>4. PICK i \in {1, 2} : Done(Awaits[s][i]) /\ Winner(s) = Awaits[s][i]
          BY <5>3 DEF Winner
        <5>5. QED
          BY <5>2, <5>4
      <4>4. QED
        BY <4>1, <4>2, <4>3, AwaitedNodes DEF Done
    <3>3. QED
      BY <3>1, <3>2 DEF InAnswer, DroppedHalfway, Done
  <2>2. QED
    BY <2>1 DEF ExecutorInv, MessageInv, MessagesKept
<1>2. QED
  BY <1>1, ExecutorInvariant, PTL
=============================================================================
