----------------------------- MODULE BlockFetch -----------------------------
(***************************************************************************)
(* How a node obtains a block that its peers announce: the handler of      *)
(* BlockPropagation, blocks_processing_task and request_block              *)
(* (daemon/src/p2p/mod.rs), and the ObjectTracker that asks the peers for  *)
(* the transactions the node does not have (daemon/src/p2p/tracker/).      *)
(*                                                                         *)
(* The peers answer, answer "not found", stay silent or close.  The block  *)
(* task polls the first n futures of its Scheduler and takes the first one *)
(* when it is ready; blocks are added one at a time by its Executor.       *)
(***************************************************************************)
EXTENDS Naturals, Sequences, FiniteSets, Functions

CONSTANTS
    Peers, Blocks, Txs,
    TxsOf,          \* block -> sequence of its transactions
    ChannelSize,    \* REQUESTER_CHANNEL_BUFFER
    Concurrency,    \* PEER_OBJECTS_CONCURRENCY
    QueueSize,      \* capacity of blocks_propagation_queue (STABLE_LIMIT * TIPS_LIMIT)
    Gossiped,       \* bound: transactions that also arrive by their own propagation
    MaxAsked        \* bound: requests for one transaction a peer has not answered

ASSUME BlockFetchAssumption ==
    /\ TxsOf \in [Blocks -> Seq(Txs)]
    /\ Gossiped \subseteq Txs
    /\ ChannelSize \in Nat \ {0} /\ Concurrency \in Nat \ {0}
    /\ QueueSize \in Nat \ {0} /\ MaxAsked \in Nat \ {0}

VARIABLES
    chain,       \* blocks in the storage
    txs,         \* transactions in the mempool or the storage
    closed,      \* peers whose connection is closed
    propagating, \* blocks_propagation_queue, oldest first
    handling,    \* peer -> block its handler is about to queue, or <<>>
    processor,   \* channel of blocks_processing_task
    pending,     \* pending_requests
    futures,     \* Scheduler: request_block of a block and a peer
    executor,    \* Executor: blocks being added
    queue,       \* ObjectTracker::queue
    channel,     \* request_sender
    asked,       \* <<peer, tx>> -> requests the peer has not answered
    abandoned    \* transactions queued by a future that was dropped before it sent them

vars == <<chain, txs, closed, propagating, handling, processor, pending,
          futures, executor, queue, channel, asked, abandoned>>

node == <<chain, txs>>
caches == <<propagating, handling>>
task == <<processor, pending, futures, executor, abandoned>>
tracker == <<queue, channel, asked>>

Init ==
    /\ chain = {} /\ txs = {} /\ closed = {}
    /\ propagating = <<>>
    /\ handling = [p \in Peers |-> <<>>]
    /\ processor = <<>> /\ pending = {} /\ futures = <<>> /\ executor = <<>>
    /\ queue = <<>> /\ channel = <<>>
    /\ asked = [r \in Peers \X Txs |-> 0] /\ abandoned = {}

-----------------------------------------------------------------------------
(* Packet::BlockPropagation.                                               *)

\* An announcement the handler goes on with.  Which announcements it drops because
\* the peer, or a peer connected to it, sent the block before is left out: any may come.
Announce(p, b) ==
    /\ p \notin closed /\ handling[p] = <<>>
    /\ b \notin chain /\ b \notin Range(propagating)
    /\ handling' = [handling EXCEPT ![p] = <<b>>]
    /\ UNCHANGED <<node, closed, propagating, task, tracker>>

\* What is left of a queue, in its order: the elements at the positions K.
Kept(q, K) ==
    LET f == CHOOSE f \in [1..Cardinality(K) -> K] : \A i, j \in DOMAIN f : i < j => f[i] < f[j]
    IN  [i \in 1..Cardinality(K) |-> q[f[i]]]

\* LruCache::put
Put(q, b) ==
    LET r == Append(Kept(q, {i \in DOMAIN q : q[i] # b}), b)
    IN  IF Len(r) > QueueSize THEN Tail(r) ELSE r

\* The rest of the handler: the check was made under another lock.
Enqueue(p) ==
    /\ handling[p] # <<>>
    /\ propagating' = Put(propagating, handling[p][1])
    /\ processor' = Append(processor, <<p, handling[p][1]>>)
    /\ handling' = [handling EXCEPT ![p] = <<>>]
    /\ UNCHANGED <<abandoned, node, closed, pending, futures, executor, tracker>>

-----------------------------------------------------------------------------
(* blocks_processing_task.  A future holds, per transaction of its block,   *)
(* where its own future is: not polled, waiting for room in the channel,    *)
(* listening, and the answer its listener has received.                     *)

NewFuture(p, b) ==
    [peer |-> p, block |-> b, state |-> "run",
     at |-> [i \in DOMAIN TxsOf[b] |-> "new"], got |-> [i \in DOMAIN TxsOf[b] |-> "none"]]

Over(f, s) ==
    [f EXCEPT !.state = s, !.at = [i \in DOMAIN @ |-> "over"], !.got = [i \in DOMAIN @ |-> "none"]]

\* Mutant of Duplicate: every announcement starts a request.
DuplicateNever(b) == FALSE

Duplicate(b) == b \in pending

ReceiveBlock ==
    /\ processor # <<>>
    /\ LET p == Head(processor)[1]
           b == Head(processor)[2]
       IN  IF Duplicate(b) THEN UNCHANGED <<pending, futures>>
           ELSE /\ pending' = pending \cup {b}
                /\ futures' = Append(futures, NewFuture(p, b))
    /\ processor' = Tail(processor)
    /\ UNCHANGED <<abandoned, node, closed, caches, executor, tracker>>

\* The futures the Scheduler polls: its n is decremented per block being added.
Polled == 1..(IF Len(futures) < Concurrency - Len(executor) THEN Len(futures)
              ELSE Concurrency - Len(executor))

Entry(p, t) == [tx |-> t, peer |-> p, state |-> "new"]
Tracked(t) == \E i \in DOMAIN queue : queue[i].tx = t

\* The channel has room.
Room == Len(channel) < ChannelSize

\* request_block for one transaction: it is known, it is requested already, or it is
\* queued and sent to the requester, at once if the channel has room.
Request(i, k) ==
    LET f == futures[i]
        t == TxsOf[f.block][k]
    IN  /\ f.state = "run" /\ f.at[k] = "new"
        /\ IF t \in txs
           THEN /\ futures' = [futures EXCEPT ![i].at[k] = "listening", ![i].got[k] = "ok"]
                /\ UNCHANGED <<queue, channel>>
           ELSE IF Tracked(t)
           THEN /\ futures' = [futures EXCEPT ![i].at[k] = "listening"]
                /\ UNCHANGED <<queue, channel>>
           ELSE /\ queue' = Append(queue, Entry(f.peer, t))
                /\ channel' = IF Room THEN Append(channel, t) ELSE channel
                /\ futures' = [futures EXCEPT ![i].at[k] =
                                 IF Room THEN "listening" ELSE "sending"]
        /\ UNCHANGED <<abandoned, node, closed, caches, processor, pending, executor, asked>>

\* A slot has become free.
Send(i, k) ==
    /\ futures[i].at[k] = "sending"
    /\ Room
    /\ channel' = Append(channel, TxsOf[futures[i].block][k])
    /\ futures' = [futures EXCEPT ![i].at[k] = "listening"]
    /\ UNCHANGED <<abandoned, node, closed, caches, processor, pending, executor, queue, asked>>

\* try_collect ends: with every transaction, or with the first error in their order,
\* dropping the other futures wherever they are.
Heard(f, k, answer) == f.at[k] = "listening" /\ f.got[k] = answer

Collected(i) ==
    LET f == futures[i]
    IN  /\ f.state = "run"
        /\ \/ /\ \A k \in DOMAIN f.at : Heard(f, k, "ok")
              /\ futures' = [futures EXCEPT ![i] = Over(f, "ok")]
              /\ UNCHANGED abandoned
           \/ /\ \E k \in DOMAIN f.at :
                    Heard(f, k, "failed") /\ \A j \in 1..(k - 1) : Heard(f, j, "ok")
              /\ futures' = [futures EXCEPT ![i] = Over(f, "failed")]
              /\ abandoned' = abandoned \cup {TxsOf[f.block][k] :
                                k \in {j \in DOMAIN f.at : f.at[j] = "sending"}}
        /\ UNCHANGED <<node, closed, caches, processor, pending, executor, tracker>>

\* The first future is ready.
Yield ==
    /\ futures # <<>> /\ 1 \in Polled
    /\ LET f == Head(futures)
       IN  \/ /\ f.state = "ok"
              /\ executor' = Append(executor, f.block)
              /\ UNCHANGED pending
           \/ /\ f.state = "failed"
              /\ pending' = pending \ {f.block}
              /\ UNCHANGED executor
    /\ futures' = Tail(futures)
    /\ UNCHANGED <<abandoned, node, closed, caches, processor, tracker>>

\* add_new_block succeeds: the block and its transactions are stored.
AddBlock ==
    /\ executor # <<>>
    /\ LET b == Head(executor)
       IN  /\ b \notin chain
           /\ chain' = chain \cup {b}
           /\ txs' = txs \cup Range(TxsOf[b])
           /\ pending' = pending \ {b}
    /\ executor' = Tail(executor)
    /\ UNCHANGED <<abandoned, closed, caches, processor, futures, tracker>>

\* add_new_block fails: it is in the storage, or refused.
RefuseBlock ==
    /\ executor # <<>>
    /\ pending' = pending \ {Head(executor)}
    /\ executor' = Tail(executor)
    /\ UNCHANGED <<abandoned, node, closed, caches, processor, futures, tracker>>

-----------------------------------------------------------------------------
(* ObjectTracker.                                                          *)

\* The listeners of the requests for the transactions T are told.
Notify(T, answer) ==
    [i \in DOMAIN futures |->
       [futures[i] EXCEPT !.got = [k \in DOMAIN @ |->
          IF TxsOf[futures[i].block][k] \in T /\ futures[i].at[k] \in {"sending", "listening"}
             /\ @[k] = "none"
          THEN answer ELSE @[k]]]]

\* clean_queue: the requests of this peer, of closed peers, and those timed out.
ToClean(e, p) == e.peer = p \/ e.peer \in closed \/ e.state = "expired"

clean_queue(q, p) ==
    LET gone == {e.tx : e \in {x \in Range(q) : ToClean(x, p)}}
    IN  /\ queue' = Kept(q, {i \in DOMAIN q : ~ToClean(q[i], p)})
        /\ futures' = Notify(gone, "failed")

\* Mutant of Requested: the request is not marked as sent.
RequestedNever(e) == e

\* Request::set_requested
Requested(e) == [e EXCEPT !.state = "requested"]

\* request_object_from_peer_internal: the packet is sent, or the peer is gone.
Ask ==
    /\ channel # <<>>
    /\ channel' = Tail(channel)
    /\ LET t == Head(channel)
           q == [i \in DOMAIN queue |-> IF queue[i].tx = t THEN Requested(queue[i]) ELSE queue[i]]
       IN  \/ ~Tracked(t) /\ UNCHANGED <<queue, asked, futures>>
           \/ \E i \in DOMAIN queue :
                 /\ queue[i].tx = t
                 /\ \/ /\ queue[i].peer \notin closed
                       /\ asked[<<queue[i].peer, t>>] < MaxAsked
                       /\ asked' = [asked EXCEPT ![<<queue[i].peer, t>>] = @ + 1]
                       /\ queue' = q
                       /\ UNCHANGED futures
                    \/ /\ clean_queue(q, queue[i].peer)
                       /\ UNCHANGED asked
    /\ UNCHANGED <<abandoned, node, closed, caches, processor, pending, executor>>

\* PEER_TIMEOUT_REQUEST_OBJECT elapses for a request.
Expire(i) ==
    /\ queue[i].state = "requested"
    /\ queue' = [queue EXCEPT ![i].state = "expired"]
    /\ UNCHANGED <<node, closed, caches, task, channel, asked>>

\* Mutant of TimedOut: a request that was sent is waited for.
TimedOutUnsent(e) == e.state = "new"

TimedOut(e) == e.state = "expired"

\* handler_loop: the first request has timed out.
HandleTimeouts ==
    /\ queue # <<>> /\ TimedOut(Head(queue))
    /\ clean_queue(queue, Head(queue).peer)
    /\ UNCHANGED <<abandoned, node, closed, caches, processor, pending, executor, channel, asked>>

\* Packet::ObjectResponse and handle_object_response.  Whichever peer answers, the
\* request is removed and its listeners notified.  An answer without a request has no
\* effect; the ExpirableCache, which tells a cancelled request from one never made, is
\* left out.
Answer(p, t, answer) ==
    /\ p \notin closed /\ asked[<<p, t>>] > 0
    /\ asked' = [asked EXCEPT ![<<p, t>>] = @ - 1]
    /\ queue' = Kept(queue, {i \in DOMAIN queue : queue[i].tx # t})
    /\ futures' = IF Tracked(t) THEN Notify({t}, answer) ELSE futures
    /\ UNCHANGED <<abandoned, node, closed, caches, processor, pending, executor, channel>>

-----------------------------------------------------------------------------
(* The rest of the node and of the network.                                *)

\* A transaction arrives by its own propagation.
LearnTx(t) ==
    /\ t \notin txs /\ txs' = txs \cup {t}
    /\ UNCHANGED <<chain, closed, caches, task, tracker>>

ClosePeer(p) ==
    /\ p \notin closed /\ closed' = closed \cup {p}
    /\ handling' = [handling EXCEPT ![p] = <<>>]
    /\ asked' = [r \in Peers \X Txs |-> IF r[1] = p THEN 0 ELSE asked[r]]
    /\ UNCHANGED <<node, propagating, task, queue, channel>>

FutureStep(i) == Collected(i) \/ \E k \in DOMAIN futures[i].at : Request(i, k) \/ Send(i, k)
BlockTask == ReceiveBlock \/ Yield \/ (\E i \in Polled : FutureStep(i))
             \/ RefuseBlock \/ AddBlock

Next ==
    \/ \E p \in Peers : \/ \E b \in Blocks : Announce(p, b)
                        \/ Enqueue(p) \/ ClosePeer(p)
                        \/ \E t \in Txs : Answer(p, t, "ok") \/ Answer(p, t, "failed")
    \/ BlockTask
    \/ Ask \/ HandleTimeouts
    \/ \E i \in DOMAIN queue : Expire(i)
    \/ \E t \in Gossiped : LearnTx(t)

\* The tasks of the node run, and time passes; peers need not answer.
Fairness ==
    /\ \A p \in Peers : WF_vars(Enqueue(p))
    /\ WF_vars(BlockTask) /\ WF_vars(Ask) /\ WF_vars(HandleTimeouts)
    /\ WF_vars(\E i \in DOMAIN queue : Expire(i))

Spec == Init /\ [][Next]_vars /\ Fairness

-----------------------------------------------------------------------------
BlocksOf(s) == {s[i].block : i \in DOMAIN s}

\* pending_requests holds exactly the blocks being requested or added, each once: two
\* peers announcing a block together start one request, and no block is forgotten.
PendingExact ==
    /\ pending = BlocksOf(futures) \cup Range(executor)
    /\ Len(futures) + Len(executor) = Cardinality(pending)

\* "we don't want to block the queue": a request that was never sent has its hash on
\* the way to the requester, so the first request of the queue times out one day.
\* The exception is a block of several transactions given up while it waits for room
\* in the channel: its request stays in the queue and nobody sends it.
UnsentOnItsWay ==
    \A q \in DOMAIN queue : queue[q].state = "new" =>
        \/ queue[q].tx \in Range(channel) \/ queue[q].tx \in abandoned
        \/ \E i \in DOMAIN futures : \E k \in DOMAIN futures[i].at :
              futures[i].at[k] = "sending" /\ TxsOf[futures[i].block][k] = queue[q].tx

\* A block being processed is added, refused or given up, whatever the peers do, as
\* long as no request was abandoned.
FetchEnds == \A b \in Blocks : b \in pending ~> b \notin pending \/ abandoned # {}
=============================================================================
