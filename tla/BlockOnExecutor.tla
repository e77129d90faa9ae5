-------------------------- MODULE BlockOnExecutor --------------------------
(***************************************************************************)
(* The executor that _write_block_on_executor (compiler/codegen.py) emits: *)
(* __cw_block_on polls a tree of futures until the root is ready.  Nobody  *)
(* wakes it, so it polls again after every Pending.  Other threads own     *)
(* senders of the channels that futures receive from.                      *)
(*                                                                         *)
(* Receivers are owned outside of the tree and outlive it.                 *)
(***************************************************************************)
EXTENDS Naturals, Sequences, FiniteSets, SequencesExt

CONSTANTS
    Nodes, Root,
    Kind,       \* Kind[n]: see Kinds
    Awaits,     \* Awaits[n]: the futures it awaits, left before right
    Channels,
    Channel,    \* Channel[n]: where a "recv" or "send" future receives or sends
    Owns,       \* Owns[n]: channels of which the async body n owns a sender
    ThreadSends \* bound: threads send only on channels with fewer messages sent

\* "body" is an async function that awaits its children one after the other.
Leaves == {"yield", "sleep", "recv", "send"}
Kinds == Leaves \cup {"join", "select", "body"}

Awaited(n) == ToSet(Awaits[n])

\* The futures that n awaits, that these await, and so on.
Below == [n \in Nodes |->
    {m \in Nodes : \A S \in SUBSET Nodes :
        Awaited(n) \subseteq S /\ (\A k \in S : Awaited(k) \subseteq S) => m \in S}]

\* A future is a value: it is moved into the one that awaits it.
ASSUME TreeAssumption ==
    /\ Root \in Nodes
    /\ Kind \in [Nodes -> Kinds]
    /\ Awaits \in [Nodes -> Seq(Nodes)]
    /\ \A n \in Nodes : Kind[n] \in {"join", "select"} => Len(Awaits[n]) = 2
    /\ \A n \in Nodes : Root \notin Awaited(n) /\ n \notin Below[n]
    /\ \A m, n \in Nodes : m # n => Awaited(m) \cap Awaited(n) = {}
    /\ Channel \in [Nodes -> Channels]
    /\ Owns \in [Nodes -> SUBSET Channels]
    /\ ThreadSends \in Nat

VARIABLES
    stage,      \* stage[n]: how far future n is
    got,        \* got[n]: the messages that "recv" future n returned
    path,       \* the polls in progress, from the root
    elapsed,    \* the sleeps whose deadline has passed
    messages,   \* messages[c]: messages in channel c
    counted,    \* counted[c]: number of messages sent on c
    threads,    \* the channels of which another thread owns a sender
    ended       \* how block_on ended

executorVars == <<stage, got, path, elapsed, messages, counted, threads, ended>>

Stages == {"new", "pending", "done", "dropped"}

Frames == [node : Nodes, polled : SUBSET Nodes]

ExecutorTypeOK ==
    /\ stage \in [Nodes -> Stages]
    /\ got \in [Nodes -> SUBSET Nat]
    /\ path \in Seq(Frames)
    /\ elapsed \subseteq Nodes
    /\ messages \in [Channels -> Seq(Nat)]
    /\ counted \in [Channels -> Nat]
    /\ threads \subseteq Channels
    /\ ended \in {"no", "returned", "panicked"}

ExecutorInit ==
    /\ stage = [n \in Nodes |-> "new"]
    /\ got = [n \in Nodes |-> {}]
    /\ path = <<>>
    /\ elapsed = {}
    /\ messages = [c \in Channels |-> <<>>]
    /\ counted = [c \in Channels |-> 0]
    /\ threads = Channels
    /\ ended = "no"

-----------------------------------------------------------------------------
Top == path[Len(path)]

Polls(n) == path # <<>> /\ Top.node = n /\ ended = "no"

Done(n) == stage[n] = "done"

\* A future that is ready drops what it still holds: a select its loser.
Ready(n) ==
    /\ path' = Front(path)
    /\ stage' = [m \in Nodes |->
          IF m = n THEN "done"
          ELSE IF m \in Below[n] /\ ~Done(m) THEN "dropped" ELSE stage[m]]

Pending(n) ==
    /\ path' = Front(path)
    /\ stage' = [stage EXCEPT ![n] = "pending"]

\* __cw_block_on: the loop around the poll of the root.
BlockOn ==
    /\ path = <<>> /\ ended = "no"
    /\ IF Done(Root)
       THEN ended' = "returned" /\ UNCHANGED path
       ELSE path' = <<[node |-> Root, polled |-> {}]>> /\ UNCHANGED ended
    /\ UNCHANGED <<stage, got, elapsed, messages, counted, threads>>

\* __cw_yield_now: Pending once.
YieldNow(n) ==
    /\ Polls(n) /\ Kind[n] = "yield"
    /\ IF stage[n] = "new" THEN Pending(n) ELSE Ready(n)
    /\ UNCHANGED <<got, elapsed, messages, counted, threads, ended>>

\* __cw_sleep_millis: the deadline is computed by the first poll, which may
\* find it passed at once.
SleepMillis(n) ==
    /\ Polls(n) /\ Kind[n] = "sleep"
    /\ \/ n \notin elapsed /\ Pending(n)
       \/ (stage[n] = "new" \/ n \in elapsed) /\ Ready(n)
    /\ UNCHANGED <<got, elapsed, messages, counted, threads, ended>>

\* A sender of c is left: with a thread or with an async body.
Connected(c) ==
    c \in threads \/ \E n \in Nodes : c \in Owns[n] /\ stage[n] \in {"new", "pending"}

\* __cw_recv_async: try_recv, which says Disconnected only of an empty channel.
RecvAsync(n) ==
    /\ Polls(n) /\ Kind[n] = "recv"
    /\ LET channel == Channel[n]
       IN  \/ /\ messages[channel] # <<>>
              /\ got' = [got EXCEPT ![n] = {Head(messages[channel])}]
              /\ messages' = [messages EXCEPT ![channel] = Tail(@)]
              /\ Ready(n)
              /\ UNCHANGED ended
           \/ /\ messages[channel] = <<>> /\ Connected(channel)
              /\ Pending(n)
              /\ UNCHANGED <<got, messages, ended>>
           \/ /\ messages[channel] = <<>> /\ ~Connected(channel)
              /\ ended' = "panicked"
              /\ UNCHANGED <<path, stage, got, messages>>
    /\ UNCHANGED <<elapsed, counted, threads>>

Put(c) ==
    /\ counted' = [counted EXCEPT ![c] = @ + 1]
    /\ messages' = [messages EXCEPT ![c] = Append(@, counted[c])]

\* A send in an async body does not wait.
Send(n) ==
    /\ Polls(n) /\ Kind[n] = "send"
    /\ Put(Channel[n])
    /\ Ready(n)
    /\ UNCHANGED <<got, elapsed, threads, ended>>

-----------------------------------------------------------------------------
(* Futures that poll others: which child next, and what the poll answers.  *)

\* Mutant: join2 polls a child whether it has returned or not.
JoinPollsAll(n, m) == m \notin Top.polled

\* Mutant: join2 awaits the left future before it polls the right one.
JoinInOrder(n, m) ==
    /\ m \notin Top.polled /\ ~Done(m)
    /\ m # Awaits[n][1] => Done(Awaits[n][1])

\* join2: each child once in a round, as long as it has no output.
JoinPolls(n, m) == m \notin Top.polled /\ ~Done(m)

\* Mutant: select2 polls both before it looks at their answers.
SelectPollsBoth(n, m) == m \notin Top.polled

\* select2: the right one only if the left one is pending.
SelectPolls(n, m) == m \notin Top.polled /\ \A k \in Top.polled : ~Done(k)

\* An awaited future is made when those before it have returned.
BodyPolls(n, m) ==
    LET i == CHOOSE i \in DOMAIN Awaits[n] : Awaits[n][i] = m
    IN  /\ m \notin Top.polled /\ ~Done(m)
        /\ \A j \in 1 .. i - 1 : Done(Awaits[n][j])

Wanted(n, m) ==
    CASE Kind[n] = "join" -> JoinPolls(n, m)
      [] Kind[n] = "select" -> SelectPolls(n, m)
      [] Kind[n] = "body" -> BodyPolls(n, m)

\* The child that n polls next: of those it wants, the leftmost.
PolledNext(n, m) ==
    \E i \in DOMAIN Awaits[n] :
        /\ Awaits[n][i] = m /\ Wanted(n, m)
        /\ \A j \in 1 .. i - 1 : ~Wanted(n, Awaits[n][j])

\* The poll in progress goes on to child m.
PathTo(p, m) ==
    Append([p EXCEPT ![Len(p)].polled = @ \cup {m}], [node |-> m, polled |-> {}])

PollChild(n) ==
    /\ Polls(n) /\ Kind[n] \notin Leaves
    /\ \E m \in Awaited(n) : PolledNext(n, m) /\ path' = PathTo(path, m)
    /\ UNCHANGED <<stage, got, elapsed, messages, counted, threads, ended>>

\* The answer when no child is left to poll in this round.
Answer(n) ==
    /\ Polls(n) /\ Kind[n] \notin Leaves
    /\ \A m \in Awaited(n) : ~Wanted(n, m)
    /\ IF IF Kind[n] = "select"
          THEN \E m \in Awaited(n) : Done(m)
          ELSE \A m \in Awaited(n) : Done(m)
       THEN Ready(n) ELSE Pending(n)
    /\ UNCHANGED <<got, elapsed, messages, counted, threads, ended>>

-----------------------------------------------------------------------------
(* The clock and other threads.                                            *)

Elapse(n) ==
    /\ Kind[n] = "sleep" /\ stage[n] = "pending" /\ n \notin elapsed
    /\ elapsed' = elapsed \cup {n}
    /\ UNCHANGED <<stage, got, path, messages, counted, threads, ended>>

ThreadSend(c) ==
    /\ c \in threads /\ counted[c] < ThreadSends
    /\ Put(c)
    /\ UNCHANGED <<stage, got, path, elapsed, threads, ended>>

\* The thread ends, or panics, and drops its sender.
ThreadEnds(c) ==
    /\ c \in threads
    /\ threads' = threads \ {c}
    /\ UNCHANGED <<stage, got, path, elapsed, messages, counted, ended>>

PollStep ==
    \/ BlockOn
    \/ \E n \in Nodes :
          \/ YieldNow(n) \/ SleepMillis(n) \/ RecvAsync(n) \/ Send(n)
          \/ PollChild(n) \/ Answer(n)

ExecutorNext ==
    \/ PollStep
    \/ \E n \in Nodes : Elapse(n)
    \/ \E c \in Channels : ThreadSend(c) \/ ThreadEnds(c)

ExecutorSpec == ExecutorInit /\ [][ExecutorNext]_executorVars

-----------------------------------------------------------------------------
(* Properties.                                                             *)

(* A future that has returned is not polled again, which would panic       *)
(* ("`async fn` resumed after completion"), nor one that was dropped.       *)
NoPollAfterReady ==
    [][Len(path') > Len(path) =>
          stage[path'[Len(path')].node] \in {"new", "pending"}]_executorVars

\* The left branch of a select, if both have returned.
Winner(n) ==
    Awaits[n][CHOOSE i \in {1, 2} :
                 Done(Awaits[n][i]) /\ \A j \in 1 .. i - 1 : ~Done(Awaits[n][j])]

\* What block_on's caller gets nothing of: the branches that did not win.
Lost == UNION {Awaited(n) \ {Winner(n)} : n \in {m \in Nodes : Kind[m] = "select" /\ Done(m)}}

InAnswer(n) == \A m \in Lost : n # m /\ n \notin Below[m]

\* A part of a branch that was dropped before it returned.
DroppedHalfway(n) == \E m \in Nodes : stage[m] = "dropped" /\ n \in Below[m]

(* No message is lost by being received in a future whose answer nobody    *)
(* uses: what was sent is in the channel, in block_on's answer or went     *)
(* with a branch of a select that lost after receiving it.                 *)
MessagesKept ==
    \A c \in Channels : \A i \in 0 .. counted[c] - 1 :
        \/ i \in ToSet(messages[c])
        \/ \E n \in Nodes :
              /\ Kind[n] = "recv" /\ Channel[n] = c /\ i \in got[n]
              /\ InAnswer(n) \/ DroppedHalfway(n)

(* Nobody wakes a future: join2 and block_on come back to each of them, so *)
(* that futures which wait for each other's messages, for the clock or for *)
(* another thread all end, and block_on with them.                         *)
BlockOnEnds == path # <<>> ~> ended # "no"

=============================================================================
