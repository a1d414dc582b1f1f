------------------------------- MODULE Client -------------------------------
(***************************************************************************)
(* The Ethereum JSON-RPC server of rpc/src: the node it follows, the       *)
(* subscription, the task that fills the block cache, the main task, and   *)
(* the requests that read the cache and fall back to the node.             *)
(*                                                                         *)
(* A step is what a task does between two `await`s.  A request takes one   *)
(* step to ask for the lock and another to use the guard, so that the      *)
(* subscriber can get in between wherever it can in the program.           *)
(***************************************************************************)
EXTENDS ReceiptInfos

CONSTANTS
    N,              \* CACHE_SIZE
    None,           \* an Option that is None
    Numbers,        \* block numbers a request may name
    Indices,        \* transaction indices a request may name
    MaxHead,        \* bound: number of the last block the node finalizes
    MaxDisconnects, \* bound: times the connection to the node is lost
    Failures,       \* TRUE: calls to the node and the subscription may fail
    Requests,       \* bound: slots for requests in flight at the same time
    Main,           \* the main task, as a reader of the cache
    Queries,        \* what a request may ask: [method, at, index]
    Latest          \* a block tag: every tag means the newest cached block

\* The node finalizes a chain of blocks numbered from zero.
ASSUME ChainAssumption ==
    /\ MaxHead \in Nat /\ MaxDisconnects \in Nat /\ Failures \in BOOLEAN
    /\ \A n \in 0..MaxHead : \E b \in Blocks : NumberOf[b] = n

ASSUME MainAssumption == Main \notin Requests

\* The cache holds at least one block, and None is no value of an Option.
ASSUME CacheAssumption ==
    N \in Nat \ {0} /\ None \notin Blocks /\ None \notin Receipts /\ None \notin Nat

Methods ==
    {"block_number", "transaction", "transaction_at_hash", "transaction_at_number",
     "count_by_hash", "count_by_number", "block_by_hash", "block_by_number", "state_at"}

\* Methods that resolve a block through `block_by_number_or_tag`.
ByNumberMethods == {"block_by_number", "count_by_number", "transaction_at_number"}

\* Each method names a block as its type allows: by hash, by number or tag
\* (BlockNumberOrTag), or by any of them (BlockNumberOrTagOrHash).  A hash is
\* that of a block of the chain, finalized yet or not.
ASSUME QueriesAssumption ==
    \A q \in Queries :
        /\ q.method \in Methods
        /\ q.method \in {"block_by_hash", "transaction_at_hash"} => q.at \in Blocks
        /\ q.method = "count_by_hash" => q.at = Latest \/ q.at \in Blocks
        /\ q.method \in ByNumberMethods => q.at = Latest \/ q.at \in Nat
        /\ q.method = "state_at" => q.at = Latest \/ q.at \in Blocks \/ q.at \in Nat

VARIABLES
    head,         \* number of the node's finalized head
    feed,         \* "up" while the finalized-heads subscription is established
    next,         \* number of the next block of the subscription
    disconnects,
    subscriber,   \* the task of `subscribe_blocks`
    main,         \* the main task
    pc,           \* where each request is, named for the function it is in
    query,        \* what it asks
    found,        \* the block it resolved so far, or None
    answer        \* the response to its last query

VARIABLES buffer, blocks_by_number, blocks_by_hash, receipts_by_hash,
          receipt_hashes_by_block_and_index
VARIABLES writer, guards, queued

Cache == INSTANCE BlockCache WITH Redelivery <- TRUE
Lock == INSTANCE RwLock WITH Readers <- Requests \cup {Main}, MaxGuards <- 2

cacheVars == <<buffer, blocks_by_number, blocks_by_hash, receipts_by_hash,
               receipt_hashes_by_block_and_index>>
lockVars == <<writer, guards, queued>>
nodeVars == <<head, feed, next, disconnects>>
requestVars == <<pc, query, found, answer>>
vars == <<nodeVars, subscriber, main, requestVars, cacheVars, lockVars>>

\* Responses: Ok(Some(x)), Ok(None), and the errors.
Ok(x) == [result |-> "ok", value |-> x]
Null == [result |-> "null"]
Error == [result |-> "error"]
CacheEmpty == [result |-> "CacheEmpty"]
NoAnswer == [result |-> "none"]

BlockAt(n) == CHOOSE b \in Blocks : NumberOf[b] = n

\* The block that the subscription delivered last.
Delivered == BlockAt(next - 1)

Running == main \notin {"exited", "panicked"}

Init ==
    /\ head \in 0..MaxHead
    /\ feed = "down" /\ next = 0 /\ disconnects = 0
    /\ subscriber = "subscribing"
    /\ main = "connecting"
    /\ pc = [r \in Requests |-> "idle"]
    /\ query = [r \in Requests |-> None]
    /\ found = [r \in Requests |-> None]
    /\ answer = [r \in Requests |-> NoAnswer]
    /\ Cache!Init
    /\ Lock!LockInit

-----------------------------------------------------------------------------
\* The node and the connection to it.

Finalize ==
    /\ head < MaxHead
    /\ head' = head + 1
    /\ UNCHANGED <<feed, next, disconnects, subscriber, main, requestVars, cacheVars, lockVars>>

\* The connection is lost; the stream yields DisconnectedWillReconnect, over
\* which `subscribe_blocks` continues.
Disconnect ==
    /\ feed = "up"
    /\ disconnects < MaxDisconnects
    /\ feed' = "down"
    /\ disconnects' = disconnects + 1
    /\ UNCHANGED <<head, next, subscriber, main, requestVars, cacheVars, lockVars>>

\* Variant with a bug: the subscription starts over.
ResubscribeFromStart ==
    /\ subscriber = "streaming" /\ feed = "down"
    /\ feed' = "up"
    /\ next' = 0
    /\ UNCHANGED <<head, disconnects, subscriber, main, requestVars, cacheVars, lockVars>>

\* The stream subscribes again once the client is reconnected.  The node first
\* sends its finalized head as it is now.
Resubscribe ==
    /\ subscriber = "streaming" /\ feed = "down"
    /\ feed' = "up"
    /\ next' = head
    /\ UNCHANGED <<head, disconnects, subscriber, main, requestVars, cacheVars, lockVars>>

-----------------------------------------------------------------------------
\* The task of `subscribe_blocks`.

Subscribe ==
    /\ subscriber = "subscribing"
    /\ subscriber' = "streaming"
    /\ feed' = "up"
    /\ next' = head
    /\ UNCHANGED <<head, disconnects, main, requestVars, cacheVars, lockVars>>

\* `subscribe_finalized` fails, the stream yields another error, or it ends:
\* the task returns and drops the sender of `updates`.
SubscriptionFails ==
    /\ Failures
    /\ subscriber \in {"subscribing", "streaming"}
    /\ subscriber' = "stopped"
    /\ UNCHANGED <<nodeVars, main, requestVars, cacheVars, lockVars>>

\* Variants with a bug: the newest block only, one block too late, and the lock
\* taken over the readers.
NextBlockSkips ==
    /\ subscriber = "streaming" /\ feed = "up"
    /\ next <= head
    /\ next' = head + 1
    /\ subscriber' = "receipts"
    /\ Lock!AcquireWrite
    /\ UNCHANGED <<head, feed, disconnects, main, requestVars, cacheVars>>
NextBlockLate ==
    /\ subscriber = "streaming" /\ feed = "up"
    /\ next < head
    /\ next' = next + 1
    /\ subscriber' = "receipts"
    /\ Lock!AcquireWrite
    /\ UNCHANGED <<head, feed, disconnects, main, requestVars, cacheVars>>
NextBlockBarges ==
    /\ subscriber = "streaming" /\ feed = "up"
    /\ next <= head
    /\ next' = next + 1
    /\ subscriber' = "receipts"
    /\ writer' = "holding"
    /\ UNCHANGED <<head, feed, disconnects, main, requestVars, cacheVars, guards, queued>>

\* The stream yields the next block and the task asks for the write lock.
NextBlock ==
    /\ subscriber = "streaming" /\ feed = "up"
    /\ next <= head
    /\ next' = next + 1
    /\ subscriber' = "receipts"
    /\ Lock!AcquireWrite
    /\ UNCHANGED <<head, feed, disconnects, main, requestVars, cacheVars>>

\* With the write guard held all the while, the receipts arrive from the node,
\* the cache takes them and the block, `updates` is signalled, and the guard is
\* dropped.
PushBlock ==
    /\ subscriber = "receipts" /\ writer = "holding"
    /\ FeesFound(Delivered)
    /\ Cache!Push(Delivered)
    /\ Lock!ReleaseWrite
    /\ subscriber' = "streaming"
    /\ UNCHANGED <<nodeVars, main, requestVars>>

\* Variant with a bug: the loop goes on with the guard still held.
ReceiptsFailGoesOn ==
    /\ subscriber = "receipts" /\ writer = "holding"
    /\ Failures \/ ~FeesFound(Delivered)
    /\ subscriber' = "streaming"
    /\ UNCHANGED <<nodeVars, main, requestVars, lockVars, cacheVars>>

\* `receipt_infos` fails: the task returns its error and drops the guard.
ReceiptsFail ==
    /\ subscriber = "receipts" /\ writer = "holding"
    /\ Failures \/ ~FeesFound(Delivered)
    /\ Lock!ReleaseWrite
    /\ subscriber' = "stopped"
    /\ UNCHANGED <<nodeVars, main, requestVars, cacheVars>>

SubscriberStep == Subscribe \/ NextBlock \/ PushBlock \/ ReceiptsFail

-----------------------------------------------------------------------------
\* The main task.

\* Variant with a bug: the server does not wait for the first block.
StartServerAtOnce ==
    /\ main = "connecting"
    /\ main' = "checking"
    /\ UNCHANGED <<nodeVars, subscriber, requestVars, cacheVars, lockVars>>

\* `updates` has been signalled: `from_url` returns and the server starts.
StartServer ==
    /\ main = "connecting"
    /\ buffer # <<>>
    /\ main' = "checking"
    /\ UNCHANGED <<nodeVars, subscriber, requestVars, cacheVars, lockVars>>

\* `updates.changed().await.expect("tx is not dropped")`
FromUrlPanics ==
    /\ main = "connecting"
    /\ buffer = <<>> /\ subscriber = "stopped"
    /\ main' = "panicked"
    /\ UNCHANGED <<nodeVars, subscriber, requestVars, cacheVars, lockVars>>

\* The server cannot be built or bound.
StartServerFails ==
    /\ Failures
    /\ main = "connecting" /\ buffer # <<>>
    /\ main' = "exited"
    /\ UNCHANGED <<nodeVars, subscriber, requestVars, cacheVars, lockVars>>

\* main asks its own server for the block number.
SelfCheckLock ==
    /\ main = "checking"
    /\ guards[Main] = 0
    /\ Lock!AcquireRead(Main)
    /\ UNCHANGED <<nodeVars, subscriber, main, requestVars, cacheVars>>

SelfCheck ==
    /\ main = "checking"
    /\ Lock!ReleaseRead(Main)
    /\ main' = IF buffer = <<>> THEN "exited" ELSE "serving"
    /\ UNCHANGED <<nodeVars, subscriber, requestVars, cacheVars>>

\* The HTTP client cannot be built, or its request fails or is given up after the
\* client's timeout, wherever the handler waits: `main` returns the error.
SelfCheckFails ==
    /\ main = "checking"
    /\ main' = "exited"
    /\ UNCHANGED <<nodeVars, subscriber, requestVars, cacheVars, lockVars>>

\* Variant with a bug: the sender is kept alive elsewhere.
ExitNever == FALSE

\* `updates.wait_for(|_| false)` returns only when the sender is dropped.
Exit ==
    /\ main = "serving"
    /\ subscriber = "stopped"
    /\ main' = "exited"
    /\ UNCHANGED <<nodeVars, subscriber, requestVars, cacheVars, lockVars>>

MainProceeds ==
    \/ StartServer
    \/ FromUrlPanics
    \/ SelfCheckLock
    \/ SelfCheck
    \/ SelfCheckFails
    \/ Exit
MainStep == MainProceeds \/ StartServerFails

-----------------------------------------------------------------------------
\* Requests: the handlers of EthRpcServerImpl (rpc/src/lib.rs) and the methods
\* of `Client` they call.

\* Places where a request needs a read guard to go on.
Locked == {"latest_block", "block_by_number", "get_block_hash", "block_by_hash", "lookup"}

\* Places where it waits for the node.
AtNode == {"chain_get_block_hash", "blocks_at", "node_call"}

\* Guards a request holds from before its current function: `block_by_number`
\* keeps its own while it calls `get_block_hash` and `block_by_hash`.
Outer(r) ==
    IF /\ pc[r] \in {"get_block_hash", "chain_get_block_hash", "block_by_hash", "blocks_at"}
       /\ query[r].method \in ByNumberMethods
    THEN 1 ELSE 0

HasGuard(r) == guards[r] = Outer(r) + 1

\* Where a query starts.
Entry(q) ==
    CASE q.method \in {"block_number", "transaction", "transaction_at_hash"} -> "lookup"
      [] q.method = "count_by_hash" -> IF q.at = Latest THEN "latest_block" ELSE "lookup"
      [] q.method = "block_by_hash" -> "block_by_hash"
      [] q.method \in ByNumberMethods -> IF q.at = Latest THEN "latest_block" ELSE "block_by_number"
      [] q.method = "state_at" -> CASE q.at = Latest -> "latest_block"
                                    [] q.at \in Blocks -> "node_call"
                                    [] OTHER -> "get_block_hash"

\* Where it goes on once its block is resolved.  `count_by_number` asks for the
\* whole EVM block first.
AfterBlock(q) ==
    IF q.method \in {"count_by_hash", "transaction_at_number"} THEN "lookup" ELSE "node_call"

Respond(r, a) ==
    /\ pc' = [pc EXCEPT ![r] = "idle"]
    /\ found' = [found EXCEPT ![r] = None]
    /\ answer' = [answer EXCEPT ![r] = a]
    /\ UNCHANGED query

Goto(r, place, b) ==
    /\ pc' = [pc EXCEPT ![r] = place]
    /\ found' = [found EXCEPT ![r] = b]
    /\ UNCHANGED <<query, answer>>

Issue(r) ==
    /\ main \in {"checking", "serving"}
    /\ pc[r] = "idle"
    /\ \E q \in Queries :
         /\ query' = [query EXCEPT ![r] = q]
         /\ pc' = [pc EXCEPT ![r] = Entry(q)]
         /\ found' = [found EXCEPT ![r] = IF q.method \in {"count_by_hash", "transaction_at_hash", "state_at"} /\ q.at \in Blocks
                                          THEN q.at ELSE None]
    /\ answer' = [answer EXCEPT ![r] = NoAnswer]
    /\ UNCHANGED lockVars

\* Variant with a bug: the guards of an abandoned handler stay.
HangupLeaks(r) ==
    /\ pc[r] # "idle"
    /\ Respond(r, NoAnswer)
    /\ queued' = queued \ {r}
    /\ UNCHANGED <<writer, guards>>

\* The caller hangs up: the handler is dropped wherever it waits, and its guards
\* with it.
Hangup(r) ==
    /\ pc[r] # "idle"
    /\ Respond(r, NoAnswer)
    /\ Lock!Abandon(r)

ReadLock(r) ==
    /\ pc[r] \in Locked
    /\ guards[r] = Outer(r)
    /\ Lock!AcquireRead(r)
    /\ UNCHANGED requestVars

\* `latest_block`, and the tag branch of `block_by_number_or_tag`.  Without a
\* block, the state methods read the node's best block.
LatestBlock(r) ==
    /\ pc[r] = "latest_block" /\ HasGuard(r)
    /\ Lock!ReleaseRead(r)
    /\ IF Cache!LatestBlock # None
       THEN Goto(r, AfterBlock(query[r]), Cache!LatestBlock)
       ELSE IF query[r].method = "state_at"
            THEN Goto(r, "node_call", BlockAt(head))
            ELSE Respond(r, IF query[r].method = "count_by_hash" THEN Error ELSE Null)

\* Variant with a bug: a hit goes on with the newest block.
BlockByNumberLatest(r) ==
    /\ pc[r] = "block_by_number" /\ HasGuard(r)
    /\ LET b == Cache!BlockByNumber(query[r].at) IN
         \/ b # None /\ Lock!ReleaseRead(r) /\ Goto(r, AfterBlock(query[r]), Cache!LatestBlock)
         \/ b = None /\ Goto(r, "get_block_hash", None) /\ UNCHANGED lockVars

\* `block_by_number`: on a miss the guard stays held over the two calls that
\* follow.
BlockByNumber(r) ==
    /\ pc[r] = "block_by_number" /\ HasGuard(r)
    /\ LET b == Cache!BlockByNumber(query[r].at) IN
         \/ b # None /\ Lock!ReleaseRead(r) /\ Goto(r, AfterBlock(query[r]), b)
         \/ b = None /\ Goto(r, "get_block_hash", None) /\ UNCHANGED lockVars

\* The hash is known: `block_by_number` goes on to `block_by_hash`, the state
\* methods to the node.
WithHash(r, b) ==
    /\ Lock!ReleaseRead(r)
    /\ Goto(r, IF query[r].method = "state_at" THEN "node_call" ELSE "block_by_hash", b)

\* Variant with a bug: no fallback to the node.
GetBlockHashCacheOnly(r) ==
    /\ pc[r] = "get_block_hash" /\ HasGuard(r)
    /\ LET b == Cache!BlockByNumber(query[r].at) IN
         \/ b # None /\ WithHash(r, b)
         \/ b = None /\ Lock!Abandon(r) /\ Respond(r, Null)

GetBlockHash(r) ==
    /\ pc[r] = "get_block_hash" /\ HasGuard(r)
    /\ LET b == Cache!BlockByNumber(query[r].at) IN
         \/ b # None /\ WithHash(r, b)
         \/ b = None /\ Goto(r, "chain_get_block_hash", None) /\ UNCHANGED lockVars

\* The node answers `chain_get_block_hash`, the guard still held.
ChainGetBlockHash(r) ==
    /\ pc[r] = "chain_get_block_hash"
    /\ \/ query[r].at <= head /\ WithHash(r, BlockAt(query[r].at))
       \/ /\ query[r].at > head
          /\ Lock!Abandon(r)
          /\ Respond(r, IF query[r].method = "state_at" THEN Error ELSE Null)
       \/ Failures /\ Lock!Abandon(r) /\ Respond(r, Error)

\* The hash that `block_by_hash` is asked for.
WantedHash(r) == IF query[r].method = "block_by_hash" THEN query[r].at ELSE found[r]

BlockByHash(r) ==
    /\ pc[r] = "block_by_hash" /\ HasGuard(r)
    /\ LET b == Cache!BlockByHash(WantedHash(r)) IN
         \/ b # None /\ Lock!Abandon(r) /\ Goto(r, AfterBlock(query[r]), b)
         \/ b = None /\ Goto(r, "blocks_at", WantedHash(r)) /\ UNCHANGED lockVars

\* The node answers `blocks().at(hash)`, the guards still held.
BlocksAt(r) ==
    /\ pc[r] = "blocks_at"
    /\ Lock!Abandon(r)
    /\ \/ NumberOf[found[r]] <= head /\ Goto(r, AfterBlock(query[r]), found[r])
       \/ NumberOf[found[r]] > head /\ Respond(r, Null)
       \/ Failures /\ Respond(r, Error)

\* The runtime call of `evm_block`, or the state query at the resolved block; no
\* guard is held.
NodeCall(r) ==
    /\ pc[r] = "node_call"
    /\ \/ /\ NumberOf[found[r]] <= head
          /\ IF query[r].method = "count_by_number"
             THEN Goto(r, "lookup", found[r])
             ELSE Respond(r, Ok(found[r]))
       \/ (Failures \/ NumberOf[found[r]] > head) /\ Respond(r, Error)
    /\ UNCHANGED lockVars

OrNull(x) == IF x = None THEN Null ELSE Ok(x)

\* The last read of the cache, which gives the response.
Lookup(r) ==
    LET q == query[r] IN
    /\ pc[r] = "lookup" /\ HasGuard(r)
    /\ Lock!ReleaseRead(r)
    /\ Respond(r,
         CASE q.method = "block_number" ->
                IF buffer = <<>> THEN CacheEmpty ELSE Ok(NumberOf[Cache!LatestBlock])
           [] q.method = "transaction" -> OrNull(Cache!ReceiptByHash(q.at))
           [] q.method \in {"transaction_at_hash", "transaction_at_number"} ->
                OrNull(Cache!ReceiptByHashAndIndex(found[r], q.index))
           [] q.method \in {"count_by_hash", "count_by_number"} ->
                OrNull(Cache!ReceiptsCountPerBlock(found[r])))

Handle(r) ==
    \/ ReadLock(r)
    \/ LatestBlock(r)
    \/ BlockByNumber(r)
    \/ GetBlockHash(r)
    \/ ChainGetBlockHash(r)
    \/ BlockByHash(r)
    \/ BlocksAt(r)
    \/ NodeCall(r)
    \/ Lookup(r)

RequestStep ==
    /\ \E r \in Requests : Issue(r) \/ Hangup(r) \/ Handle(r)
    /\ UNCHANGED <<nodeVars, subscriber, main, cacheVars>>

-----------------------------------------------------------------------------
\* The process ends with its main task; the node goes on.
Next ==
    \/ Finalize
    \/ /\ Running
       /\ \/ Disconnect
          \/ Resubscribe
          \/ SubscriptionFails
          \/ SubscriberStep
          \/ MainStep
          \/ RequestStep
    \/ ~Running /\ UNCHANGED vars

Spec == Init /\ [][Next]_vars

HandleStep(r) == Running /\ Handle(r) /\ UNCHANGED <<nodeVars, subscriber, main, cacheVars>>

\* The runtime polls every task that can make progress, the client reconnects
\* with an unbounded backoff, the node answers each call with a reply or an
\* error, and main's own request is answered or given up.  Nothing obliges the
\* node to finalize, the connection to break, or a caller to ask or to hang up.
Fairness ==
    /\ WF_vars(Running /\ SubscriberStep)
    /\ WF_vars(Running /\ Resubscribe)
    /\ WF_vars(Running /\ MainProceeds)
    /\ \A r \in Requests : WF_vars(HandleStep(r))

FairSpec == Spec /\ Fairness

-----------------------------------------------------------------------------
Buffered == Cache!Buffered

\* Methods that hold a guard while they ask for another one.
Nests(q) == q.method \in ByNumberMethods /\ q.at # Latest

\* The cache is not read while the subscriber changes it, no wake-up of the lock
\* is lost, the subscriber lets go of the lock whatever becomes of the receipts,
\* and only a nested read can wait for the writer with the guard in hand that the
\* writer waits for (`Shared<BlockCache>`, rpc/src/client.rs:56).
CacheLockSafe ==
    /\ Lock!WriterExcludesReaders /\ Lock!NobodyWaitsForNobody
    /\ writer # "idle" <=> subscriber = "receipts"
    /\ \A r \in queued : guards[r] > 0 => r \in Requests /\ Nests(query[r])

\* A request holds just the guards of the functions it is in: the outer one and,
\* past the lock, its own; over a call to the node it keeps both; a finished or
\* abandoned request holds none and is not queued for one.
GuardsFit(r) ==
    /\ guards[r] \in {Outer(r), Outer(r) + 1}
    /\ pc[r] \in {"idle", "node_call"} => guards[r] = 0
    /\ pc[r] \in {"chain_get_block_hash", "blocks_at"} => guards[r] = Outer(r) + 1
    /\ r \in queued => pc[r] \in Locked /\ guards[r] = Outer(r)

NoGuardLeaks == \A r \in Requests : GuardsFit(r)

\* The server starts only once `updates` was signalled, so no caller is ever
\* told CacheEmpty (rpc/src/client.rs:418, 730).
NeverCacheEmpty == \A r \in Requests : answer[r] # CacheEmpty

\* `v` answers `q` for the chain as it is finalized now.
AnswerFits(q, v) ==
    LET Count(b) == Cardinality(EvmPositions(b)) IN
    /\ q.method = "block_number" => v <= head
    /\ q.method = "transaction" => v.transaction_hash = q.at
    /\ q.method \in {"transaction_at_hash", "transaction_at_number"} =>
         v.transaction_index = q.index
    /\ q.method = "transaction_at_hash" => v.block_hash = q.at
    /\ q.method = "transaction_at_number" =>
         IF q.at = Latest THEN v.block_number <= head ELSE v.block_number = q.at
    /\ q.method \in {"block_by_number", "block_by_hash", "state_at"} =>
         /\ NumberOf[v] <= head
         /\ q.at # Latest => v = q.at \/ NumberOf[v] = q.at
    /\ q.method = "count_by_hash" /\ q.at # Latest => v = Count(q.at)
    /\ q.method = "count_by_number" /\ q.at # Latest => v = Count(BlockAt(q.at))

\* Whatever was evicted or appended between the steps of a request, a response
\* is about the block, transaction and index that were asked for, and about
\* finalized blocks only.
AnswersMatchTheChain ==
    \A r \in Requests : answer[r].result = "ok" => AnswerFits(query[r], answer[r].value)

Finishes(r) == pc[r] # "idle" /\ pc'[r] = "idle"

\* `block_by_number` and `block_by_hash` fall back to the node: a block that is
\* finalized is never reported missing, in the cache or not.
FinalizedBlocksFound ==
    [][\A r \in Requests : Finishes(r) /\ answer'[r] = Null =>
         /\ query[r].method = "block_by_hash" => NumberOf[query[r].at] > head
         /\ query[r].method \in ByNumberMethods /\ query[r].at # Latest /\ pc[r] # "lookup"
              => query[r].at > head]_vars

\* The resolved block has what the request asks for: the transaction at the index,
\* or transactions to count.
Has(b, q) ==
    \/ q.method \in {"transaction_at_hash", "transaction_at_number"} /\ q.index \in IndicesOf(b)
    \/ q.method \in {"count_by_hash", "count_by_number"} /\ IndicesOf(b) # {}

\* Transactions are served from the cache alone.  One of a block that was resolved
\* first, or the count of such a block's transactions, is missed only if the block
\* is not buffered (any more), or is the oldest one buffered after the connection
\* was lost, when it may have been delivered twice and its first copy pruned.
TransactionMissedOnlyOutsideWindow ==
    [][\A r \in Requests :
         pc[r] = "lookup" /\ Finishes(r) /\ answer'[r] = Null /\ Has(found[r], query[r])
         => found[r] \notin Buffered \/ (found[r] = Head(buffer) /\ disconnects > 0)]_vars

\* "The cache maintains a buffer of the last N blocks" (rpc/src/client.rs:67):
\* each place where the buffer is not contiguous was a lost connection.
IrregularitiesAreReconnections ==
    Cardinality({i \in 1..(Len(buffer) - 1) :
                   NumberOf[buffer[i + 1]] # NumberOf[buffer[i]] + 1}) <= disconnects

\* The number `eth_blockNumber` reports never goes back, reconnections included.
BlockNumberNeverGoesBack ==
    [][buffer # <<>> => NumberOf[Cache!LatestBlock'] >= NumberOf[Cache!LatestBlock]]_vars

\* The subscriber uses the cache as BlockCache's environment is allowed to.
ImplementsBlockCache == Cache!Spec

\* Tasks use the lock as RwLock allows, nesting at most two read guards.
ImplementsRwLock == Lock!LockSpec

-----------------------------------------------------------------------------
\* Calls, and steps of the lock, that are left to a request at most.
CallsLeft(p) ==
    CASE p = "block_by_number" -> 7 [] p = "get_block_hash" -> 6
      [] p = "chain_get_block_hash" -> 5 [] p = "block_by_hash" -> 4
      [] p \in {"blocks_at", "latest_block"} -> 3 [] p = "node_call" -> 2
      [] p = "lookup" -> 1 [] OTHER -> 0
StepsLeft(r) ==
    3 * CallsLeft(pc[r]) - (IF HasGuard(r) THEN 2 ELSE IF r \in queued THEN 1 ELSE 0)

\* No handler goes in circles between the cache and the node: whatever happens to
\* a request leaves it fewer steps.
RequestsGetOn ==
    [][\A r \in Requests : pc[r] # "idle" =>
         \/ UNCHANGED <<pc[r], guards[r], r \in queued>>
         \/ StepsLeft(r)' < StepsLeft(r)]_vars

\* Every request is answered, or the process ends.
EveryRequestAnswered ==
    /\ RequestsGetOn
    /\ \A r \in Requests : pc[r] # "idle" ~> pc[r] = "idle" \/ ~Running

\* "The client will subscribe to new blocks and maintain a cache of
\* [`CACHE_SIZE`] blocks." (rpc/src/client.rs:407)  A finalized block, or one
\* that follows it, becomes the newest cached block unless the process ends.
CacheFollowsChain ==
    \A n \in 0..MaxHead :
        head >= n ~> ~Running \/ (buffer # <<>> /\ NumberOf[Cache!LatestBlock] >= n)

\* `Shared<BlockCache>` is a fair lock (rpc/src/client.rs:56): once the
\* subscriber asks for it no request gets a guard before it, and as long as no
\* request nests its guards, it gets the lock, or the process ends.
SubscriberGetsIn ==
    /\ Lock!NoOvertaking
    /\ writer = "waiting" ~> writer = "holding" \/ ~Running

\* The `expect` in `from_url` panics only if the subscription failed before the
\* first block was cached (rpc/src/client.rs:450).  A subscription that failed
\* stays down and keeps no lock from the main task.  A server that is up ends for
\* no other reason; until then an error of main's own check may end it, too
\* (rpc/src/main.rs:53-59).
StopsForGood ==
    /\ [](main = "panicked" => subscriber = "stopped" /\ buffer = <<>>)
    /\ [][/\ subscriber = "stopped" => subscriber' = "stopped" /\ writer' = "idle" /\ queued' = {}
          /\ main = "serving" => main' = "serving" \/ subscriber = "stopped"]_vars

\* "keep running server until ctrl-c or client subscription fails"
\* (rpc/src/main.rs:58)
ExitsWhenSubscriptionStops ==
    /\ StopsForGood
    /\ subscriber = "stopped" ~> ~Running
=============================================================================
