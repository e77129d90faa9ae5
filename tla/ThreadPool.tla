----------------------------- MODULE ThreadPool -----------------------------
(***************************************************************************)
(* The thread pool that compiler/codegen.py writes into a native module    *)
(* (_write_thread_pool): workers share the receiver of a channel behind a  *)
(* mutex, which they hold while they wait for a job and not while they run *)
(* it; the owner sends jobs and shuts the pool down by dropping its sender *)
(* and joining the workers in order.                                       *)
(*                                                                         *)
(* A job may wait for a message from another job of the pool (Needs).      *)
(***************************************************************************)
EXTENDS Naturals, Sequences

CONSTANTS
    Size,       \* the number of workers; new asserts that it is positive
    Jobs,       \* the closures the owner may send
    Panics,     \* those that panic
    Needs,      \* Needs[j]: jobs whose messages j receives
    Nobody      \* no job: an empty failure slot, an idle worker

ASSUME PoolAssumption ==
    /\ Size \in Nat \ {0}
    /\ Panics \subseteq Jobs
    /\ Needs \in [Jobs -> SUBSET Jobs]
    /\ Nobody \notin Jobs

Workers == 1 .. Size

VARIABLES
    owner,      \* where the owner stands: "new", "open", "closing", and what
                \* became of the pool: "finished", "dropped", "aborted"
    finishing,  \* the shutdown is finish() and not a drop
    sender,     \* the channel still has its sender
    joined,     \* workers joined so far, in order
    sent,       \* jobs handed to execute
    queue,      \* jobs in the channel
    receiver,   \* the worker that holds the receiver's mutex, or 0
    worker,     \* worker[w]: where worker w stands
    job,        \* job[w]: the job it took
    runs,       \* runs[j]: how often job j has been run
    failure,    \* the failure slot
    outcome     \* what finish returned, as JobPool has it

poolVars == <<owner, finishing, sender, joined>>
vars == <<poolVars, sent, queue, receiver, worker, job, runs, failure, outcome>>

TypeOK ==
    /\ owner \in {"new", "open", "closing", "finished", "dropped", "aborted"}
    /\ finishing \in BOOLEAN
    /\ sender \in BOOLEAN
    /\ joined \in 0 .. Size
    /\ sent \in SUBSET Jobs
    /\ queue \in Seq(Jobs)
    /\ receiver \in 0 .. Size
    /\ worker \in [Workers -> {"none", "lock", "recv", "run", "record", "ended"}]
    /\ job \in [Workers -> Jobs \cup {Nobody}]
    /\ runs \in [Jobs -> Nat]
    /\ failure \in Jobs \cup {Nobody}

Open == [state |-> "open", failure |-> Nobody]

Init ==
    /\ owner = "new"
    /\ finishing = FALSE
    /\ sender = TRUE
    /\ joined = 0
    /\ sent = {}
    /\ queue = <<>>
    /\ receiver = 0
    /\ worker = [w \in Workers |-> "none"]
    /\ job = [w \in Workers |-> Nobody]
    /\ runs = [j \in Jobs |-> 0]
    /\ failure = Nobody
    /\ outcome = Open

-----------------------------------------------------------------------------
(* The owner.                                                              *)

\* __CwThreadPool::new spawns the workers one after the other.
Spawn(w) ==
    /\ owner = "new"
    /\ worker[w] = "none"
    /\ \A v \in 1 .. w - 1 : worker[v] # "none"
    /\ worker' = [worker EXCEPT ![w] = "lock"]
    /\ owner' = IF w = Size THEN "open" ELSE "new"
    /\ UNCHANGED <<finishing, sender, joined, sent, queue, receiver, job, runs,
                   failure, outcome>>

\* Mutant: the sender outlives the constructor that failed.
SenderLeaks ==
    /\ owner = "new"
    /\ owner' = "aborted"
    /\ UNCHANGED <<finishing, sender, joined, sent, queue, receiver, worker, job,
                   runs, failure, outcome>>

\* The system refuses a thread and std::thread::spawn panics: unwinding new
\* drops the sender and detaches the workers there are.
SpawnFails ==
    /\ owner = "new"
    /\ owner' = "aborted"
    /\ sender' = FALSE
    /\ UNCHANGED <<finishing, joined, sent, queue, receiver, worker, job, runs,
                   failure, outcome>>

\* execute: send cannot fail while a worker holds the receiver.
Execute(j) ==
    /\ owner = "open"
    /\ j \notin sent
    /\ sent' = sent \cup {j}
    /\ queue' = Append(queue, j)
    /\ UNCHANGED <<poolVars, receiver, worker, job, runs, failure, outcome>>

\* finish(), or the pool goes out of scope, perhaps because its owner panics:
\* shutdown drops the sender.  An owner that has sent a job has sent those
\* the job waits for.
Close(fin) ==
    /\ owner = "open"
    /\ \A j \in sent : Needs[j] \subseteq sent
    /\ owner' = "closing"
    /\ finishing' = fin
    /\ sender' = FALSE
    /\ UNCHANGED <<joined, sent, queue, receiver, worker, job, runs, failure, outcome>>

\* worker.thread.join(), worker after worker.
Join ==
    /\ owner = "closing"
    /\ joined < Size
    /\ worker[joined + 1] = "ended"
    /\ joined' = joined + 1
    /\ UNCHANGED <<owner, finishing, sender, sent, queue, receiver, worker, job, runs,
                   failure, outcome>>

\* Mutant: one worker that has ended is taken for all.
OneJoined == joined > 0

\* for worker in self.workers.drain(..)
AllJoined == joined = Size

\* finish takes the failure slot; the drop that follows it finds nothing to do.
Finished ==
    /\ owner = "closing"
    /\ AllJoined
    /\ \/ /\ finishing
          /\ owner' = "finished"
          /\ outcome' = [state |-> "finished", failure |-> failure]
          /\ failure' = Nobody
       \/ /\ ~finishing
          /\ owner' = "dropped"
          /\ outcome' = [state |-> "dropped", failure |-> Nobody]
          /\ UNCHANGED failure
    /\ UNCHANGED <<finishing, sender, joined, sent, queue, receiver, worker, job, runs>>

-----------------------------------------------------------------------------
(* A worker's loop.                                                        *)

\* receiver.lock(); nobody panics under this mutex.
Lock(w) ==
    /\ worker[w] = "lock"
    /\ receiver = 0
    /\ receiver' = w
    /\ worker' = [worker EXCEPT ![w] = "recv"]
    /\ UNCHANGED <<poolVars, sent, queue, job, runs, failure, outcome>>

\* Mutant: the mutex is held until the job is done ("while let Ok(job) = ...").
ReceiveHoldingLock(w) ==
    /\ worker[w] = "recv"
    /\ queue # <<>>
    /\ \A k \in Needs[Head(queue)] : runs[k] > 0
    /\ job' = [job EXCEPT ![w] = Head(queue)]
    /\ queue' = Tail(queue)
    /\ receiver' = 0
    /\ worker' = [worker EXCEPT ![w] = "run"]
    /\ UNCHANGED <<poolVars, sent, runs, failure, outcome>>

\* recv() returns a job; the guard dies with the statement.
Receive(w) ==
    /\ worker[w] = "recv"
    /\ queue # <<>>
    /\ job' = [job EXCEPT ![w] = Head(queue)]
    /\ queue' = Tail(queue)
    /\ receiver' = 0
    /\ worker' = [worker EXCEPT ![w] = "run"]
    /\ UNCHANGED <<poolVars, sent, runs, failure, outcome>>

\* recv() fails once the channel is empty and has no sender: break.
Disconnected(w) ==
    /\ worker[w] = "recv"
    /\ queue = <<>>
    /\ ~sender
    /\ receiver' = 0
    /\ worker' = [worker EXCEPT ![w] = "ended"]
    /\ UNCHANGED <<poolVars, sent, queue, job, runs, failure, outcome>>

\* catch_unwind(job), once the messages it receives are there.
RunJob(w) ==
    /\ worker[w] = "run"
    /\ \A k \in Needs[job[w]] : runs[k] > 0
    /\ runs' = [runs EXCEPT ![job[w]] = @ + 1]
    /\ worker' = [worker EXCEPT ![w] = IF job[w] \in Panics THEN "record" ELSE "lock"]
    /\ UNCHANGED <<poolVars, sent, queue, receiver, job, failure, outcome>>

\* Mutant: a worker whose job panicked does not go on.
RecordAndEnd(w) ==
    /\ worker[w] = "record"
    /\ failure' = IF failure = Nobody THEN job[w] ELSE failure
    /\ worker' = [worker EXCEPT ![w] = "ended"]
    /\ UNCHANGED <<poolVars, sent, queue, receiver, job, runs, outcome>>

\* __cw_record_worker_failure: the first one stays.
Record(w) ==
    /\ worker[w] = "record"
    /\ failure' = IF failure = Nobody THEN job[w] ELSE failure
    /\ worker' = [worker EXCEPT ![w] = "lock"]
    /\ UNCHANGED <<poolVars, sent, queue, receiver, job, runs, outcome>>

-----------------------------------------------------------------------------
WorkerStep(w) ==
    Lock(w) \/ Receive(w) \/ Disconnected(w) \/ RunJob(w) \/ Record(w)

OwnerStep ==
    \/ \E w \in Workers : Spawn(w)
    \/ SpawnFails
    \/ \E j \in Jobs : Execute(j)
    \/ \E fin \in BOOLEAN : Close(fin)
    \/ Join
    \/ Finished

\* Everything has ended: the process goes on without the pool.
Ended ==
    /\ owner \in {"finished", "dropped", "aborted"}
    /\ \A w \in Workers : worker[w] \in {"none", "ended"}
    /\ UNCHANGED vars

Next == OwnerStep \/ (\E w \in Workers : WorkerStep(w)) \/ Ended

Spec == Init /\ [][Next]_vars

\* The operating system schedules every thread that can go on, and jobs end
\* once they have their messages; the mutex need not be fair.
Fairness ==
    /\ \A w \in Workers : WF_vars(WorkerStep(w))
    /\ WF_vars(Join \/ Finished)

FairSpec == Spec /\ Fairness

-----------------------------------------------------------------------------
\* execute unwraps the result of send, which fails when no receiver is left:
\* while the owner can send, no worker has ended, whatever panicked.
ReceiverAlive ==
    owner = "open" => \A w \in Workers : worker[w] # "ended"

\* "Its Drop path closes and joins": a shutdown ends, although jobs wait for
\* jobs sent after them, as long as there is a worker for each that waits.
EveryShutdownEnds == owner = "closing" ~> owner \in {"finished", "dropped"}

\* No worker is left behind, not even by a constructor that failed half way.
EveryWorkerEnds ==
    owner \notin {"new", "open"} ~> \A w \in Workers : worker[w] \in {"none", "ended"}

\* The pool implements JobPool: every job sent is run exactly once before the
\* shutdown returns, and finish reports a panic exactly when there was one.
Promise == INSTANCE JobPool WITH accepted <- sent

PromiseSpec == Promise!Spec

=============================================================================
