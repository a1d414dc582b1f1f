----------------------------- MODULE BlockCache -----------------------------
(***************************************************************************)
(* `BlockCache<N>` of rpc/src/client.rs: a buffer of the last N blocks and *)
(* the four maps that index them, as `subscribe_blocks` fills them and the *)
(* read operations of `Client` look them up.                               *)
(*                                                                         *)
(* The node side is reduced to which block the subscription may deliver    *)
(* next; module Client replaces it by the node, the connection and the     *)
(* subscriber task.                                                        *)
(***************************************************************************)
EXTENDS ReceiptInfos

CONSTANTS
    N,            \* CACHE_SIZE
    Redelivery,   \* TRUE: a resubscription may deliver the cached head again
    None,         \* an Option that is None
    Numbers,      \* block numbers a request may name
    Indices       \* transaction indices a request may name

ASSUME NAssumption == N \in Nat \ {0}
ASSUME RedeliveryAssumption == Redelivery \in BOOLEAN
ASSUME NoneAssumption == None \notin Blocks /\ None \notin Receipts /\ None \notin Nat

VARIABLES
    buffer,            \* VecDeque of blocks, oldest first
    blocks_by_number,
    blocks_by_hash,
    receipts_by_hash,
    receipt_hashes_by_block_and_index

vars == <<buffer, blocks_by_number, blocks_by_hash, receipts_by_hash,
          receipt_hashes_by_block_and_index>>

\* HashMap: empty, insert, extend with the entries of `n`, remove the keys `S`.
EmptyMap == [k \in {} |-> k]
With(m, key, v) == [k \in DOMAIN m \cup {key} |-> IF k = key THEN v ELSE m[k]]
Extended(m, n) == [k \in DOMAIN m \cup DOMAIN n |-> IF k \in DOMAIN n THEN n[k] ELSE m[k]]
Without(m, S) == [k \in DOMAIN m \ S |-> m[k]]

Buffered == {buffer[i] : i \in 1..Len(buffer)}

-----------------------------------------------------------------------------
\* The read operations of `Client`, under the read lock.

LatestBlock == IF buffer = <<>> THEN None ELSE buffer[Len(buffer)]

BlockByNumber(n) ==
    IF n \in DOMAIN blocks_by_number THEN blocks_by_number[n] ELSE None

BlockByHash(h) ==
    IF h \in DOMAIN blocks_by_hash THEN blocks_by_hash[h] ELSE None

ReceiptByHash(t) ==
    IF t \in DOMAIN receipts_by_hash THEN receipts_by_hash[t] ELSE None

\* `receipt_by_hash_and_index`: three lookups, each of which may miss.
ReceiptByHashAndIndex(h, k) ==
    IF /\ h \in DOMAIN receipt_hashes_by_block_and_index
       /\ k \in DOMAIN receipt_hashes_by_block_and_index[h]
    THEN ReceiptByHash(receipt_hashes_by_block_and_index[h][k])
    ELSE None

\* `receipts_count_per_block`: None for a block with no entry.
ReceiptsCountPerBlock(h) ==
    IF h \in DOMAIN receipt_hashes_by_block_and_index
    THEN Cardinality(DOMAIN receipt_hashes_by_block_and_index[h])
    ELSE None

-----------------------------------------------------------------------------
Init ==
    /\ buffer = <<>>
    /\ blocks_by_number = EmptyMap
    /\ blocks_by_hash = EmptyMap
    /\ receipts_by_hash = EmptyMap
    /\ receipt_hashes_by_block_and_index = EmptyMap

\* The two receipt maps once `subscribe_blocks` has added the receipts of `b`.
\* A block without EVM transactions gets no entry.
ExtendedReceipts(b) == Extended(receipts_by_hash, ReceiptsOf(b))

ExtendedHashes(b) ==
    IF TxsOf(b) = {}
    THEN receipt_hashes_by_block_and_index
    ELSE With(receipt_hashes_by_block_and_index, b, HashesByIndex(b))

\* Variants with a bug: pruning forgets the receipts, or clears them all.
PrunedTxsNone(hashes, c) == {}
PrunedTxsAll(hashes, c) == UNION {{hashes[h][k] : k \in DOMAIN hashes[h]} : h \in DOMAIN hashes}

\* The hashes that pruning block `c` removes from `receipts_by_hash`.
PrunedTxs(hashes, c) ==
    IF c \in DOMAIN hashes THEN {hashes[c][k] : k \in DOMAIN hashes[c]} ELSE {}

\* Variant with a bug: off by one in the test for a full buffer.
InsertIntoSpaceOffByOne(b) ==
    /\ Len(buffer) <= N
    /\ buffer' = Append(buffer, b)
    /\ blocks_by_number' = With(blocks_by_number, NumberOf[b], b)
    /\ blocks_by_hash' = With(blocks_by_hash, b, b)
    /\ receipts_by_hash' = ExtendedReceipts(b)
    /\ receipt_hashes_by_block_and_index' = ExtendedHashes(b)

\* `BlockCache::insert` while the buffer has room.
InsertIntoSpace(b) ==
    /\ Len(buffer) < N
    /\ buffer' = Append(buffer, b)
    /\ blocks_by_number' = With(blocks_by_number, NumberOf[b], b)
    /\ blocks_by_hash' = With(blocks_by_hash, b, b)
    /\ receipts_by_hash' = ExtendedReceipts(b)
    /\ receipt_hashes_by_block_and_index' = ExtendedHashes(b)

\* Variant with a bug: the maps forget the newest block instead of the oldest.
PruneAndInsertWrongEnd(b) ==
    /\ Len(buffer) >= N
    /\ buffer' = Append(Tail(buffer), b)
    /\ blocks_by_number' =
         With(Without(blocks_by_number, {NumberOf[LatestBlock]}), NumberOf[b], b)
    /\ blocks_by_hash' = With(Without(blocks_by_hash, {LatestBlock}), b, b)
    /\ receipts_by_hash' =
         Without(ExtendedReceipts(b), PrunedTxs(ExtendedHashes(b), LatestBlock))
    /\ receipt_hashes_by_block_and_index' = Without(ExtendedHashes(b), {LatestBlock})

\* Variant with a bug: the number of the pruned block is not forgotten.
PruneAndInsertKeepsNumber(b) ==
    LET oldest == Head(buffer) IN
    /\ Len(buffer) >= N
    /\ buffer' = Append(Tail(buffer), b)
    /\ blocks_by_number' = With(blocks_by_number, NumberOf[b], b)
    /\ blocks_by_hash' = With(Without(blocks_by_hash, {oldest}), b, b)
    /\ receipts_by_hash' =
         Without(ExtendedReceipts(b), PrunedTxs(ExtendedHashes(b), oldest))
    /\ receipt_hashes_by_block_and_index' = Without(ExtendedHashes(b), {oldest})

\* `BlockCache::insert` on a full buffer: the oldest block is pruned first.
PruneAndInsert(b) ==
    LET oldest == Head(buffer) IN
    /\ Len(buffer) >= N
    /\ buffer' = Append(Tail(buffer), b)
    /\ blocks_by_number' =
         With(Without(blocks_by_number, {NumberOf[oldest]}), NumberOf[b], b)
    /\ blocks_by_hash' = With(Without(blocks_by_hash, {oldest}), b, b)
    /\ receipts_by_hash' =
         Without(ExtendedReceipts(b), PrunedTxs(ExtendedHashes(b), oldest))
    /\ receipt_hashes_by_block_and_index' = Without(ExtendedHashes(b), {oldest})

\* One turn of the loop of `subscribe_blocks` once the receipts of `b` are
\* known: the receipts are added, then the block is inserted.
Push(b) ==
    \/ InsertIntoSpace(b)
    \/ PruneAndInsert(b)

\* The subscription delivers finalized blocks in increasing order.  It may skip
\* some while the connection is lost.  A fresh subscription starts with the
\* current finalized head, which may be the block delivered last.
Deliverable(b) ==
    buffer # <<>> =>
        \/ NumberOf[b] > NumberOf[LatestBlock]
        \/ Redelivery /\ b = LatestBlock

Next == \E b \in Blocks : Deliverable(b) /\ FeesFound(b) /\ Push(b)

Spec == Init /\ [][Next]_vars

-----------------------------------------------------------------------------
\* Blocks with an EVM transaction.  Of the other blocks the cache has no count
\* (TransactionsCounted).
Counted == {b \in Blocks : TxsOf(b) # {}}

\* What the cache answers now, to every lookup there is.
CacheAnswers ==
    [byNumber |-> [n \in Numbers |-> BlockByNumber(n)],
     byHash   |-> [h \in Blocks |-> BlockByHash(h)],
     receipt  |-> [t \in TxHashes |-> ReceiptByHash(t)],
     receiptAt |-> [h \in Blocks |-> [k \in Indices |-> ReceiptByHashAndIndex(h, k)]],
     count    |-> [h \in Counted |-> ReceiptsCountPerBlock(h)]]

Abstract == INSTANCE RecentBlocks WITH window <- buffer, answers <- CacheAnswers

\* The maps, maintained block by block, answer every lookup as a scan of the
\* last N blocks would (the doc of `BlockCache`, rpc/src/client.rs:67), except
\* the count of a block without EVM transactions.
ImplementsRecentBlocks == Abstract!Spec

\* Every map is a partial function between the expected sets.
TypeOK ==
    /\ buffer \in Seq(Blocks) /\ Len(buffer) <= N
    /\ DOMAIN blocks_by_number \subseteq Nat
    /\ \A n \in DOMAIN blocks_by_number : blocks_by_number[n] \in Blocks
    /\ DOMAIN blocks_by_hash \subseteq Blocks
    /\ \A h \in DOMAIN blocks_by_hash : blocks_by_hash[h] \in Blocks
    /\ DOMAIN receipts_by_hash \subseteq TxHashes
    /\ \A t \in DOMAIN receipts_by_hash : receipts_by_hash[t] \in Receipts
    /\ DOMAIN receipt_hashes_by_block_and_index \subseteq Blocks
    /\ \A h \in DOMAIN receipt_hashes_by_block_and_index :
         \A k \in DOMAIN receipt_hashes_by_block_and_index[h] :
            k \in Nat /\ receipt_hashes_by_block_and_index[h][k] \in TxHashes

-----------------------------------------------------------------------------
\* What each map holds when it indexes exactly the blocks in `S`.
IndexesNumbers(S, m) ==
    /\ DOMAIN m = {NumberOf[b] : b \in S}
    /\ \A b \in S : m[NumberOf[b]] = b

IndexesHashes(S, m) ==
    /\ DOMAIN m = S
    /\ \A b \in S : m[b] = b

IndexesReceipts(S, m) ==
    /\ DOMAIN m = UNION {TxsOf(b) : b \in S}
    /\ \A b \in S : \A i \in EvmPositions(b) : m[Extrinsics[b][i].hash] = Receipt(b, i)

IndexesPositions(S, m) ==
    /\ DOMAIN m = {b \in S : TxsOf(b) # {}}
    /\ \A b \in DOMAIN m : m[b] = HashesByIndex(b)

\* The inductive invariant while no block is delivered twice: the buffer is in
\* chain order, and each map indexes the blocks in the buffer, all of them and
\* no other (`insert` and its caller, rpc/src/client.rs:201-222, 477-489).
IndexesBuffer ==
    /\ \A i, j \in 1..Len(buffer) : i < j => NumberOf[buffer[i]] < NumberOf[buffer[j]]
    /\ IndexesNumbers(Buffered, blocks_by_number)
    /\ IndexesHashes(Buffered, blocks_by_hash)
    /\ IndexesReceipts(Buffered, receipts_by_hash)
    /\ IndexesPositions(Buffered, receipt_hashes_by_block_and_index)

\* "For each block in the cache, we also store the EVM transaction receipts."
\* (rpc/src/client.rs:193)  Every buffered block is found by its number and by
\* its hash, and every receipt of it by its hash and by block and index: the
\* window that `insert` maintains is what the lookups answer from.
BufferedFound ==
    \A b \in Buffered :
        /\ BlockByNumber(NumberOf[b]) = b /\ BlockByHash(b) = b
        /\ \A i \in EvmPositions(b) :
             /\ ReceiptByHash(Extrinsics[b][i].hash) = Receipt(b, i)
             /\ ReceiptByHashAndIndex(b, i - 1) = Receipt(b, i)

\* Pruning forgets a block entirely: no map keeps an entry of a block that has
\* left the buffer, so the maps stay as bounded as the buffer.
NothingOutlivesItsBlock ==
    /\ \A n \in DOMAIN blocks_by_number : blocks_by_number[n] \in Buffered
    /\ DOMAIN blocks_by_hash \subseteq Buffered
    /\ DOMAIN receipt_hashes_by_block_and_index \subseteq Buffered
    /\ \A t \in DOMAIN receipts_by_hash :
         receipts_by_hash[t].block_hash \in Buffered

\* Under redelivery at worst the oldest buffered block is lost to the lookups:
\* any younger block is still found, with all its receipts.
YoungerBlocksFound ==
    \A b \in Buffered : b # Head(buffer) =>
        /\ BlockByNumber(NumberOf[b]) = b
        /\ BlockByHash(b) = b
        /\ \A i \in EvmPositions(b) :
             ReceiptByHashAndIndex(b, i - 1) = Receipt(b, i)

\* A receipt that was served stays served, with the same contents, until its
\* block is the oldest of a full buffer and a further block arrives.
ReceiptKeptWhileWindowed ==
    [][\A t \in DOMAIN receipts_by_hash :
         \/ t \in DOMAIN receipts_by_hash' /\ receipts_by_hash'[t] = receipts_by_hash[t]
         \/ Len(buffer) = N /\ receipts_by_hash[t].block_hash = Head(buffer)]_vars

\* "Returns the number of transactions in a block" (rpc/src/rpc_methods.rs:63,
\* 70): of every buffered block, that is the number its extrinsics give.
TransactionsCounted ==
    \A b \in Buffered : ReceiptsCountPerBlock(b) = Cardinality(EvmPositions(b))

\* "Either 1 (success) or 0 (failure)" (rpc/api/src/rpc_types.rs:241): the
\* status of a stored receipt is the outcome of its extrinsic.
StatusReportsOutcome ==
    \A t \in DOMAIN receipts_by_hash :
        LET r == receipts_by_hash[t]
            x == Extrinsics[r.block_hash][r.transaction_index + 1]
        IN  r.status = IF x.success THEN 1 ELSE 0
=============================================================================
