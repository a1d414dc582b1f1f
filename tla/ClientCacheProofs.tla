-------------------------- MODULE ClientCacheProofs --------------------------
(***************************************************************************)
(* What the client's readers are told, for every chain, every window and   *)
(* any number of requests: the subscriber uses the cache as BlockCache     *)
(* allows, and the answers are those of the finalized chain.               *)
(***************************************************************************)
EXTENDS ClientProofs, FiniteSetTheorems

\* The proofs about the cache, for a subscription that may start over.
Window == INSTANCE RedeliveryProofs WITH Redelivery <- TRUE

\* The proofs about the cache, for a subscription that never starts over.
Strict == INSTANCE BlockCacheProofs WITH Redelivery <- FALSE

Newest == NumberOf[buffer[Len(buffer)]]

\* The subscriber's position on the chain: what is cached is finalized, and what
\* comes next does not precede it.
Follows ==
  /\ head \in 0..MaxHead /\ next \in Nat /\ feed \in {"up", "down"}
  /\ subscriber \in {"subscribing", "streaming", "receipts", "stopped"}
  /\ subscriber = "subscribing" => buffer = <<>> /\ feed = "down"
  /\ \A b \in Window!Buffered : NumberOf[b] <= head
  /\ subscriber = "streaming" /\ feed = "up" =>
       next <= head + 1 /\ (buffer # <<>> => Newest <= next)
  /\ subscriber = "receipts" =>
       next \in 1..(head + 1) /\ (buffer # <<>> => Newest <= next - 1)

CacheInv == Window!TypeOK /\ Window!IndexesWindow /\ Follows

\* Places where the buffer is not contiguous.
Gaps(s) == {i \in 1..(Len(s) - 1) : NumberOf[s[i + 1]] # NumberOf[s[i]] + 1}

\* A gap that the block being delivered will add, and a connection lost since.
Skipping ==
  /\ buffer # <<>>
  /\ \/ subscriber = "streaming" /\ feed = "up" /\ next # Newest + 1
     \/ subscriber = "receipts" /\ next # Newest + 2
Lost == subscriber \in {"streaming", "receipts"} /\ feed = "down"

One(p) == IF p THEN 1 ELSE 0

GapsCounted ==
  /\ disconnects \in Nat
  /\ Cardinality(Gaps(buffer)) + One(Skipping) + One(Lost) <= disconnects

\* The server runs, and a request is under way, only once a block is cached.
Warm ==
  /\ main \in {"checking", "serving"} => buffer # <<>>
  /\ \A r \in Requests : pc[r] # "idle" => buffer # <<>>

\* Block `b` is the one that query `q` is about.
Matches(q, b) ==
  /\ b \in Blocks
  /\ q.method \in ByNumberMethods /\ q.at # Latest => NumberOf[b] = q.at
  /\ q.method \in {"block_by_hash", "transaction_at_hash"} => b = q.at
  /\ q.method = "count_by_hash" /\ q.at # Latest => b = q.at
  /\ q.method = "state_at" /\ q.at # Latest => b = q.at \/ NumberOf[b] = q.at

\* A request for `q` that is at place `p` has resolved block `b` so far.
Resolved(q, p, b) ==
  /\ p # "idle" => q \in Queries
  /\ p = "latest_block" =>
       q.at = Latest /\ q.method \in ByNumberMethods \cup {"count_by_hash", "state_at"}
  /\ p = "block_by_number" => q.at # Latest /\ q.method \in ByNumberMethods
  /\ p \in {"get_block_hash", "chain_get_block_hash"} =>
       /\ q.at # Latest /\ q.at \in Nat
       /\ q.method \in ByNumberMethods \cup {"state_at"}
  /\ p = "block_by_hash" =>
       \/ q.method = "block_by_hash"
       \/ Nests(q) /\ Matches(q, b)
  /\ p = "blocks_at" => (Nests(q) \/ q.method = "block_by_hash") /\ Matches(q, b)
  /\ p = "node_call" =>
       /\ q.method \in {"block_by_number", "count_by_number", "block_by_hash", "state_at"}
       /\ Matches(q, b)
  /\ p = "lookup" =>
       \/ q.method \in {"block_number", "transaction"}
       \/ /\ q.method \in {"transaction_at_hash", "transaction_at_number",
                           "count_by_hash", "count_by_number"}
          /\ Matches(q, b)

\* The kind of value that answers each query.
AnswerTyped(q, v) ==
  /\ q.method = "block_number" => v \in Nat
  /\ q.method = "transaction_at_number" => v.block_number \in Nat
  /\ q.method \in {"block_by_number", "block_by_hash", "state_at"} => v \in Blocks

Answered(q, a) ==
  /\ a # CacheEmpty
  /\ a.result = "ok" => q \in Queries /\ AnswerTyped(q, a.value) /\ AnswerFits(q, a.value)

RequestsOK ==
  /\ DOMAIN found = Requests /\ DOMAIN answer = Requests
  /\ \A r \in Requests : Resolved(query[r], pc[r], found[r]) /\ Answered(query[r], answer[r])

\* The inductive invariant of the client.
ClientInv == PlacesOK /\ CacheInv /\ Warm /\ RequestsOK

-----------------------------------------------------------------------------
\* The cache of the client is the one that RedeliveryProofs is about.

LEMMA WindowAssumptions ==
  /\ Window!NumberOfAssumption
  /\ Window!ExtrinsicsAssumption
  /\ Window!NAssumption
  /\ Window!RedeliveryAssumption
  /\ Window!NoneAssumption
<1>1. Window!NumberOfAssumption
  BY NumberOfAssumption DEF Window!NumberOfAssumption
<1>2. Window!ExtrinsicsAssumption
  BY ExtrinsicsAssumption
     DEF Window!ExtrinsicsAssumption, Window!Extrinsic, Window!Kinds, Extrinsic, Kinds
<1>3. Window!NAssumption /\ Window!RedeliveryAssumption
  BY CacheAssumption DEF Window!NAssumption, Window!RedeliveryAssumption
<1>4. Window!NoneAssumption
  BY CacheAssumption DEF Window!NoneAssumption, Window!Receipts, Receipts
<1> QED
  BY <1>1, <1>2, <1>3, <1>4

\* The contents of a block are the same to both.
LEMMA SameBlocks ==
  ASSUME NEW b
  PROVE  /\ Window!EvmPositions(b) = EvmPositions(b)
         /\ Window!IndicesOf(b) = IndicesOf(b)
         /\ \A i : Window!Receipt(b, i) = Receipt(b, i)
         /\ Cache!FeesFound(b) <=> FeesFound(b)
<1>1. Window!EvmPositions(b) = EvmPositions(b)
  BY DEF Window!EvmPositions, EvmPositions, Window!IntoReceiptInfo, IntoReceiptInfo
<1>2. Window!IndicesOf(b) = IndicesOf(b)
  BY <1>1 DEF Window!IndicesOf, IndicesOf
<1>3. \A i : Window!Receipt(b, i) = Receipt(b, i)
  BY DEF Window!Receipt, Receipt, Window!FindFirstSuccess, FindFirstSuccess
<1>4. Cache!FeesFound(b) <=> FeesFound(b)
  BY DEF Cache!FeesFound, FeesFound, Cache!EvmPositions, EvmPositions, Cache!IntoReceiptInfo,
         IntoReceiptInfo
<1> QED
  BY <1>1, <1>2, <1>3, <1>4

\* A push is the same to both.
LEMMA SamePush ==
  ASSUME NEW b, Cache!Push(b)
  PROVE  Window!Push(b)
  BY DEF Cache!Push, Window!Push, Cache!InsertIntoSpace, Window!InsertIntoSpace,
         Cache!PruneAndInsert, Window!PruneAndInsert, Cache!With, Window!With, Cache!Without,
         Window!Without, Cache!Extended, Window!Extended, Cache!ExtendedReceipts,
         Window!ExtendedReceipts, Cache!ExtendedHashes, Window!ExtendedHashes,
         Cache!PrunedTxs, Window!PrunedTxs, Cache!ReceiptsOf, Window!ReceiptsOf,
         Cache!HashesByIndex, Window!HashesByIndex, Cache!TxsOf, Window!TxsOf,
         Cache!EvmPositions, Window!EvmPositions, Cache!IntoReceiptInfo,
         Window!IntoReceiptInfo, Cache!Receipt, Window!Receipt, Cache!IndicesOf,
         Window!IndicesOf, Cache!PositionOf, Window!PositionOf, Cache!FindFirstSuccess,
         Window!FindFirstSuccess

\* So is every lookup.
LEMMA SameLookups ==
  /\ Cache!LatestBlock = Window!LatestBlock
  /\ \A n : Cache!BlockByNumber(n) = Window!BlockByNumber(n)
  /\ \A h : Cache!BlockByHash(h) = Window!BlockByHash(h)
  /\ \A t : Cache!ReceiptByHash(t) = Window!ReceiptByHash(t)
  /\ \A h, k : Cache!ReceiptByHashAndIndex(h, k) = Window!ReceiptByHashAndIndex(h, k)
  /\ \A h : Cache!ReceiptsCountPerBlock(h) = Window!ReceiptsCountPerBlock(h)
<1>1. Cache!LatestBlock = Window!LatestBlock
  BY DEF Cache!LatestBlock, Window!LatestBlock
<1>2. /\ \A n : Cache!BlockByNumber(n) = Window!BlockByNumber(n)
      /\ \A h : Cache!BlockByHash(h) = Window!BlockByHash(h)
      /\ \A t : Cache!ReceiptByHash(t) = Window!ReceiptByHash(t)
  BY DEF Cache!BlockByNumber, Window!BlockByNumber, Cache!BlockByHash, Window!BlockByHash,
         Cache!ReceiptByHash, Window!ReceiptByHash
<1>3. \A h, k : Cache!ReceiptByHashAndIndex(h, k) = Window!ReceiptByHashAndIndex(h, k)
  BY <1>2 DEF Cache!ReceiptByHashAndIndex, Window!ReceiptByHashAndIndex
<1>4. \A h : Cache!ReceiptsCountPerBlock(h) = Window!ReceiptsCountPerBlock(h)
  BY DEF Cache!ReceiptsCountPerBlock, Window!ReceiptsCountPerBlock, Cache!Cardinality,
         Window!Cardinality
<1> QED
  BY <1>1, <1>2, <1>3, <1>4

\* Indices and positions of a block are as many.
LEMMA AsManyIndices ==
  ASSUME NEW b \in Blocks
  PROVE  Cardinality(IndicesOf(b)) = Cardinality(EvmPositions(b))
<1> DEFINE f == [i \in EvmPositions(b) |-> i - 1]
<1>1. Len(Extrinsics[b]) \in Nat /\ EvmPositions(b) \subseteq 1..Len(Extrinsics[b])
  BY ExtrinsicsAssumption DEF EvmPositions
<1>2. IsFiniteSet(EvmPositions(b))
  <2>1. IsFiniteSet(1..Len(Extrinsics[b]))
    BY <1>1, FS_Interval
  <2> QED
    BY <1>1, <2>1, FS_Subset
<1>3. f \in Bijection(EvmPositions(b), IndicesOf(b))
  <2>1. f \in [EvmPositions(b) -> IndicesOf(b)]
    BY DEF IndicesOf
  <2>2. \A i, j \in EvmPositions(b) : f[i] = f[j] => i = j
    BY <1>1
  <2>3. \A k \in IndicesOf(b) : \E i \in EvmPositions(b) : f[i] = k
    BY DEF IndicesOf
  <2> HIDE DEF f
  <2> QED
    BY <2>1, <2>2, <2>3 DEF Bijection, Injection, Surjection, IsInjective
<1> QED
  BY <1>2, <1>3, FS_Bijection DEF ExistsBijection

\* So is the size of a set.
LEMMA SameCardinality == ASSUME NEW S PROVE Window!Cardinality(S) = Cardinality(S)
  BY DEF Window!Cardinality, Cardinality

\* What the lookups of the client find.
LEMMA ClientFinds ==
  ASSUME CacheInv
  PROVE  /\ Cache!LatestBlock # None =>
              Cache!LatestBlock \in Blocks /\ NumberOf[Cache!LatestBlock] <= head
         /\ buffer # <<>> <=> Cache!LatestBlock # None
         /\ \A n : Cache!BlockByNumber(n) # None =>
              /\ Cache!BlockByNumber(n) \in Blocks
              /\ NumberOf[Cache!BlockByNumber(n)] = n
         /\ \A h : Cache!BlockByHash(h) # None => Cache!BlockByHash(h) = h /\ h \in Blocks
         /\ \A t : Cache!ReceiptByHash(t) # None => Cache!ReceiptByHash(t).transaction_hash = t
         /\ \A h, k : Cache!ReceiptByHashAndIndex(h, k) # None =>
              LET x == Cache!ReceiptByHashAndIndex(h, k) IN
              /\ h \in Blocks /\ NumberOf[h] <= head
              /\ x.block_hash = h /\ x.block_number = NumberOf[h] /\ x.transaction_index = k
         /\ \A h : Cache!ReceiptsCountPerBlock(h) # None =>
              h \in Blocks /\ Cache!ReceiptsCountPerBlock(h) = Cardinality(EvmPositions(h))
<1>1. /\ Window!TypeOK /\ Window!IndexesWindow
      /\ \A b \in Window!Buffered : b \in Blocks /\ NumberOf[b] <= head
  BY DEF CacheInv, Follows, Window!TypeOK, Window!Buffered
<1>2. /\ Cache!LatestBlock # None =>
           Cache!LatestBlock \in Blocks /\ NumberOf[Cache!LatestBlock] <= head
      /\ \A n : Cache!BlockByNumber(n) # None =>
           Cache!BlockByNumber(n) \in Blocks /\ NumberOf[Cache!BlockByNumber(n)] = n
      /\ \A h : Cache!BlockByHash(h) # None => Cache!BlockByHash(h) = h /\ h \in Blocks
  BY <1>1, WindowAssumptions, Window!FoundInWindow, SameLookups
<1>3. buffer # <<>> <=> Cache!LatestBlock # None
  BY <1>1, CacheAssumption DEF Cache!LatestBlock, Window!TypeOK
<1>4. ASSUME NEW t, Cache!ReceiptByHash(t) # None
      PROVE  Cache!ReceiptByHash(t).transaction_hash = t
  <2>1. \E b \in Window!Buffered : \E i \in Window!EvmPositions(b) :
           Window!ReceiptByHash(t) = Window!Receipt(b, i) /\ Extrinsics[b][i].hash = t
    BY <1>1, <1>4, WindowAssumptions, Window!FoundInWindow, SameLookups
  <2> QED
    BY <2>1, SameBlocks, SameLookups DEF Receipt
<1>5. ASSUME NEW h, NEW k, Cache!ReceiptByHashAndIndex(h, k) # None
      PROVE  LET x == Cache!ReceiptByHashAndIndex(h, k) IN
             /\ h \in Blocks /\ NumberOf[h] <= head
             /\ x.block_hash = h /\ x.block_number = NumberOf[h] /\ x.transaction_index = k
  <2>1. /\ h \in Window!Buffered
        /\ Window!ReceiptByHashAndIndex(h, k) = Window!Receipt(h, k + 1)
        /\ Window!Receipt(h, k + 1).transaction_index = k
    BY <1>1, <1>5, WindowAssumptions, Window!FoundAtIndex, SameLookups
  <2>2. /\ Cache!ReceiptByHashAndIndex(h, k) = Receipt(h, k + 1)
        /\ Receipt(h, k + 1).transaction_index = k
    BY <2>1, SameBlocks, SameLookups
  <2> QED
    BY <1>1, <2>1, <2>2 DEF Receipt
<1>6. ASSUME NEW h, Cache!ReceiptsCountPerBlock(h) # None
      PROVE  h \in Blocks /\ Cache!ReceiptsCountPerBlock(h) = Cardinality(EvmPositions(h))
  <2>1. /\ h \in Window!Buffered
        /\ Window!ReceiptsCountPerBlock(h) = Window!Cardinality(Window!IndicesOf(h))
    BY <1>1, <1>6, WindowAssumptions, Window!FoundAtIndex, SameLookups
  <2>2. Cache!ReceiptsCountPerBlock(h) = Cardinality(IndicesOf(h))
    BY <2>1, SameBlocks, SameCardinality, SameLookups
  <2> QED
    BY <1>1, <2>1, <2>2, AsManyIndices
<1> QED
  BY <1>2, <1>3, <1>4, <1>5, <1>6

-----------------------------------------------------------------------------
\* The subscriber follows the chain.

\* Every number up to the bound names a block.
LEMMA BlockAtNumber ==
  ASSUME NEW n \in 0..MaxHead
  PROVE  BlockAt(n) \in Blocks /\ NumberOf[BlockAt(n)] = n
  BY ChainAssumption DEF BlockAt

\* Steps that leave the cache alone.
LEMMA CacheFrame ==
  ASSUME Window!TypeOK, Window!IndexesWindow, UNCHANGED cacheVars
  PROVE  /\ Window!TypeOK' /\ Window!IndexesWindow'
         /\ buffer' = buffer /\ Window!Buffered' = Window!Buffered
<1>1. buffer' = buffer /\ Window!Buffered' = Window!Buffered /\ Window!Younger' = Window!Younger
  BY DEF cacheVars, Window!Buffered, Window!Younger
<1>2. Window!TypeOK'
  BY DEF cacheVars, Window!TypeOK
<1>3. Window!IndexesWindow'
  BY <1>1 DEF cacheVars, Window!IndexesWindow
<1> QED
  BY <1>1, <1>2, <1>3

\* The delivered block is one that the cache expects.
LEMMA DeliveredFollows ==
  ASSUME CacheInv, subscriber = "receipts"
  PROVE  /\ Delivered \in Blocks /\ NumberOf[Delivered] = next - 1 /\ next - 1 \in 0..head
         /\ Cache!Deliverable(Delivered) /\ Window!Deliverable(Delivered)
<1> USE DEF CacheInv, Follows
<1>1. next - 1 \in 0..head /\ next - 1 \in 0..MaxHead
  BY ChainAssumption
<1>2. Delivered \in Blocks /\ NumberOf[Delivered] = next - 1
  BY <1>1, BlockAtNumber DEF Delivered
<1>3. ASSUME buffer # <<>>
      PROVE  \/ NumberOf[Delivered] > NumberOf[buffer[Len(buffer)]]
             \/ Delivered = buffer[Len(buffer)]
  <2>1. buffer[Len(buffer)] \in Blocks
    BY <1>3 DEF Window!TypeOK
  <2>2. NumberOf[buffer[Len(buffer)]] \in Nat /\ NumberOf[buffer[Len(buffer)]] <= next - 1
    BY <1>3, <2>1, NumberOfAssumption DEF Newest
  <2>3. NumberOf[buffer[Len(buffer)]] = next - 1 => Delivered = buffer[Len(buffer)]
    BY <1>2, <2>1, NumberOfAssumption
  <2> QED
    BY <1>1, <1>2, <2>2, <2>3
<1> QED
  BY <1>1, <1>2, <1>3
     DEF Cache!Deliverable, Window!Deliverable, Cache!LatestBlock, Window!LatestBlock

\* What a push leaves.
LEMMA PushedBlock ==
  ASSUME CacheInv, subscriber = "receipts", Cache!Push(Delivered)
  PROVE  /\ Window!TypeOK' /\ Window!IndexesWindow'
         /\ buffer' # <<>> /\ Newest' = next - 1
         /\ buffer' = Append(IF Len(buffer) < N THEN buffer ELSE Tail(buffer), Delivered)
         /\ Len(buffer) >= N => buffer # <<>>
         /\ \A b \in Window!Buffered' : b = Delivered \/ b \in Window!Buffered
<1>1. /\ Delivered \in Blocks /\ NumberOf[Delivered] = next - 1 /\ Window!Deliverable(Delivered)
      /\ Window!Push(Delivered) /\ Window!TypeOK /\ Window!IndexesWindow
  BY DeliveredFollows, SamePush DEF CacheInv
<1>2. Window!TypeOK' /\ Window!IndexesWindow'
  BY <1>1, WindowAssumptions, Window!TypeOKPush, Window!IndexesWindowPush
<1>3. buffer \in Seq(Blocks) /\ Len(buffer) <= N /\ N \in Nat /\ Len(buffer) \in Nat
  BY <1>1, CacheAssumption DEF Window!TypeOK
<1>4. /\ buffer' \in Seq(Blocks) /\ Len(buffer') > 0 /\ buffer'[Len(buffer')] = Delivered
      /\ Len(buffer) < N => buffer' = Append(buffer, Delivered)
      /\ Len(buffer) >= N => buffer # <<>> /\ buffer' = Append(Tail(buffer), Delivered)
  BY <1>1, <1>3, WindowAssumptions, Window!BufferAfterPush
<1> DEFINE kept == IF Len(buffer) < N THEN buffer ELSE Tail(buffer)
<1>5. /\ buffer' = Append(kept, Delivered) /\ kept \in Seq(Blocks)
      /\ \A i \in 1..Len(kept) : kept[i] \in Window!Buffered
  <2>1. CASE Len(buffer) < N
    BY <1>3, <1>4, <2>1 DEF Window!Buffered
  <2>2. CASE Len(buffer) >= N
    <3>1. /\ Tail(buffer) \in Seq(Blocks) /\ Len(Tail(buffer)) = Len(buffer) - 1
          /\ \A i \in 1..Len(Tail(buffer)) : Tail(buffer)[i] = buffer[i + 1]
      BY <1>3, <1>4, <2>2
    <3>2. kept = Tail(buffer)
      BY <1>3, <2>2
    <3>3. ASSUME NEW i \in 1..Len(Tail(buffer)) PROVE Tail(buffer)[i] \in Window!Buffered
      <4>1. Tail(buffer)[i] = buffer[i + 1]
        BY <3>1
      <4>2. i + 1 \in 1..Len(buffer)
        BY <1>3, <3>1
      <4> QED
        BY <4>1, <4>2 DEF Window!Buffered
    <3>4. buffer' = Append(Tail(buffer), Delivered)
      BY <1>4, <2>2
    <3> HIDE DEF kept
    <3> QED
      BY <3>1, <3>2, <3>3, <3>4
  <2> QED
    BY <1>3, <2>1, <2>2
<1>6. \A b \in Window!Buffered' : b = Delivered \/ b \in Window!Buffered
  <2> HIDE DEF kept
  <2>1. /\ Len(buffer') = Len(kept) + 1 /\ Len(kept) \in Nat
        /\ \A i \in 1..Len(buffer') :
             buffer'[i] = IF i = Len(kept) + 1 THEN Delivered ELSE kept[i]
    BY <1>1, <1>5
  <2>2. Window!Buffered' = {buffer'[i] : i \in 1..Len(buffer')}
    BY DEF Window!Buffered
  <2> QED
    BY <1>5, <2>1, <2>2
<1>7. buffer' # <<>> /\ Newest' = next - 1
  BY <1>1, <1>4 DEF Newest
<1> QED
  BY <1>2, <1>4, <1>5, <1>6, <1>7

\* Every step keeps the subscriber on the chain, and changes the cache only by
\* the insertion of a block that it expects.
LEMMA CacheStep ==
  ASSUME CacheInv, [Next]_vars
  PROVE  CacheInv' /\ [Cache!Next]_(Cache!vars)
<1>1. /\ Window!TypeOK /\ Window!IndexesWindow /\ Follows
      /\ head \in Nat /\ next \in Nat
      /\ \A b \in Window!Buffered : NumberOf[b] \in Nat
      /\ buffer # <<>> => Newest \in Nat /\ Newest <= head
  <2>1. \A b \in Window!Buffered : NumberOf[b] \in Nat /\ NumberOf[b] <= head
    BY NumberOfAssumption DEF CacheInv, Follows, Window!TypeOK, Window!Buffered
  <2>2. buffer # <<>> => buffer[Len(buffer)] \in Window!Buffered
    BY DEF CacheInv, Window!TypeOK, Window!Buffered
  <2> QED
    BY <2>1, <2>2, ChainAssumption DEF CacheInv, Follows, Newest
<1>2. ASSUME UNCHANGED cacheVars, Follows'
      PROVE  CacheInv' /\ [Cache!Next]_(Cache!vars)
  BY <1>1, <1>2, CacheFrame DEF CacheInv, cacheVars, Cache!vars
<1>3. ASSUME UNCHANGED cacheVars
      PROVE  buffer' = buffer /\ Newest' = Newest /\ Window!Buffered' = Window!Buffered
  BY <1>1, <1>3, CacheFrame DEF Newest
<1>4. CASE UNCHANGED <<head, feed, next, subscriber, cacheVars>>
  BY <1>1, <1>2, <1>3, <1>4 DEF Follows
<1>5. CASE Finalize
  <2>1. head' = head + 1 /\ head' \in 0..MaxHead /\ UNCHANGED <<feed, next, subscriber, cacheVars>>
    BY <1>1, <1>5, ChainAssumption DEF Finalize, Follows
  <2>2. \A b \in Window!Buffered : NumberOf[b] <= head'
    BY <1>1, <2>1 DEF Follows
  <2>3. Follows'
    BY <1>1, <1>3, <2>1, <2>2 DEF Follows
  <2> QED
    BY <1>2, <2>1, <2>3
<1>6. CASE Disconnect \/ SubscriptionFails
  <2>1. /\ UNCHANGED <<head, next, cacheVars>>
        /\ \/ feed' = "down" /\ subscriber' = subscriber
           \/ feed' = feed /\ subscriber' = "stopped"
    BY <1>6 DEF Disconnect, SubscriptionFails, nodeVars
  <2>2. Follows'
    BY <1>1, <1>3, <2>1 DEF Follows
  <2> QED
    BY <1>2, <2>1, <2>2
<1>7. CASE Resubscribe \/ Subscribe
  <2>1. /\ UNCHANGED <<head, cacheVars>>
        /\ feed' = "up" /\ next' = head /\ subscriber' = "streaming"
    BY <1>7 DEF Resubscribe, Subscribe
  <2>2. Follows'
    BY <1>1, <1>3, <2>1 DEF Follows
  <2> QED
    BY <1>2, <2>1, <2>2
<1>8. CASE NextBlock
  <2>1. /\ UNCHANGED <<head, feed, cacheVars>>
        /\ subscriber = "streaming" /\ feed = "up" /\ next <= head
        /\ next' = next + 1 /\ subscriber' = "receipts"
    BY <1>8 DEF NextBlock
  <2>2. Follows'
    BY <1>1, <1>3, <2>1 DEF Follows
  <2> QED
    BY <1>2, <2>1, <2>2
<1>9. CASE PushBlock
  <2>1. /\ subscriber = "receipts" /\ FeesFound(Delivered) /\ Cache!Push(Delivered)
        /\ subscriber' = "streaming" /\ UNCHANGED <<head, feed, next>>
    BY <1>9 DEF PushBlock, nodeVars
  <2>2. /\ Delivered \in Blocks /\ NumberOf[Delivered] = next - 1 /\ next - 1 \in 0..head
        /\ Cache!Deliverable(Delivered) /\ Cache!FeesFound(Delivered)
    BY <2>1, DeliveredFollows, SameBlocks
  <2>3. /\ Window!TypeOK' /\ Window!IndexesWindow' /\ Newest' = next - 1 /\ buffer' # <<>>
        /\ \A b \in Window!Buffered' : b = Delivered \/ b \in Window!Buffered
    BY <2>1, PushedBlock
  <2>4. \A b \in Window!Buffered' : NumberOf[b] <= head
    BY <1>1, <2>2, <2>3 DEF Follows
  <2>5. Follows'
    BY <1>1, <2>1, <2>2, <2>3, <2>4 DEF Follows
  <2> QED
    BY <2>1, <2>2, <2>3, <2>5 DEF CacheInv, Cache!Next
<1>10. CASE ReceiptsFail
  <2>1. UNCHANGED <<head, feed, next, cacheVars>> /\ subscriber' = "stopped"
    BY <1>10 DEF ReceiptsFail, nodeVars
  <2>2. Follows'
    BY <1>1, <1>3, <2>1 DEF Follows
  <2> QED
    BY <1>2, <2>1, <2>2
<1>11. CASE MainStep \/ RequestStep \/ UNCHANGED vars
  BY <1>4, <1>11
     DEF MainStep, MainProceeds, StartServer, FromUrlPanics, StartServerFails, SelfCheckLock,
         SelfCheck, SelfCheckFails, Exit, RequestStep, nodeVars, vars
<1> QED
  BY <1>5, <1>6, <1>7, <1>8, <1>9, <1>10, <1>11 DEF Next, SubscriberStep

LEMMA CacheInit == Init => CacheInv /\ Cache!Init
<1> SUFFICES ASSUME Init PROVE CacheInv
  BY DEF Init
<1>1. Window!Init
  BY DEF Init, Cache!Init, Window!Init, Cache!EmptyMap, Window!EmptyMap
<1>2. Window!TypeOK
  BY <1>1, CacheAssumption DEF Window!Init, Window!EmptyMap, Window!TypeOK
<1>3. Window!IndexesWindow
  BY <1>1, WindowAssumptions, Window!IndexesWindowInit
<1>4. Follows
  BY <1>1 DEF Init, Follows, Window!Init, Window!Buffered
<1> QED
  BY <1>2, <1>3, <1>4 DEF CacheInv

\* The subscriber is on the chain, always.
LEMMA CacheInvariant == Spec => []CacheInv
  BY CacheInit, CacheStep, PTL DEF Spec

\* `subscribe_blocks` uses the cache as BlockCache allows, whatever is lost,
\* repeated or skipped on the way: what is proved about the cache holds in the
\* client (ImplementsBlockCache).
THEOREM UsesCacheProperly == Spec => ImplementsBlockCache
  BY CacheInit, CacheStep, CacheInvariant, PTL DEF Spec, ImplementsBlockCache, Cache!Spec

\* The number that `eth_blockNumber` reports never goes back, reconnections
\* included.
THEOREM BlockNumberMonotone == Spec => BlockNumberNeverGoesBack
<1> DEFINE Monotone == buffer # <<>> => NumberOf[Cache!LatestBlock'] >= NumberOf[Cache!LatestBlock]
<1>1. ASSUME CacheInv, CacheInv', [Next]_vars
      PROVE  [Monotone]_vars
  <2> SUFFICES ASSUME buffer # <<>> PROVE Monotone
    OBVIOUS
  <2>1. /\ buffer \in Seq(Blocks) /\ Len(buffer) <= N /\ buffer[Len(buffer)] \in Blocks
        /\ NumberOf[buffer[Len(buffer)]] \in Nat
    BY <1>1, NumberOfAssumption DEF CacheInv, Window!TypeOK
  <2>2. CASE buffer' = buffer
    <3>1. Cache!LatestBlock' = Cache!LatestBlock /\ Cache!LatestBlock = buffer[Len(buffer)]
      BY <2>2 DEF Cache!LatestBlock
    <3> QED
      BY <2>1, <3>1
  <2>3. ASSUME NEW b \in Blocks, Cache!Deliverable(b), Cache!Push(b) PROVE Monotone
    <3>0. /\ Len(buffer') > 0 /\ buffer'[Len(buffer')] = b /\ buffer' \in Seq(Blocks)
      BY <2>1, <2>3, WindowAssumptions, SamePush, Window!BufferAfterPush
    <3>1. buffer' # <<>> /\ buffer'[Len(buffer')] = b
      BY <3>0
    <3>2. Cache!LatestBlock' = b
      BY <3>1 DEF Cache!LatestBlock
    <3>3. NumberOf[b] \in Nat
      BY NumberOfAssumption
    <3> QED
      BY <2>1, <2>3, <3>2, <3>3 DEF Cache!Deliverable, Cache!LatestBlock
  <2> QED
    BY <1>1, <2>2, <2>3, CacheStep DEF Cache!Next, Cache!vars
<1> QED
  BY <1>1, CacheInvariant, PTL DEF Spec, BlockNumberNeverGoesBack

-----------------------------------------------------------------------------
\* Every irregularity of the buffer is a lost connection.

LEMMA GapsFinite ==
  ASSUME NEW s \in Seq(Blocks)
  PROVE  IsFiniteSet(Gaps(s)) /\ Cardinality(Gaps(s)) \in Nat
<1>1. Len(s) - 1 \in Int
  OBVIOUS
<1>2. IsFiniteSet(1..(Len(s) - 1))
  BY <1>1, FS_Interval
<1>3. Gaps(s) \subseteq 1..(Len(s) - 1)
  BY DEF Gaps
<1>4. IsFiniteSet(Gaps(s))
  BY <1>2, <1>3, FS_Subset
<1> QED
  BY <1>4, FS_CardinalityType

\* An appended block is a gap of its own, at most.
LEMMA GapsAppend ==
  ASSUME NEW s \in Seq(Blocks), NEW b \in Blocks
  PROVE  Cardinality(Gaps(Append(s, b))) =
           Cardinality(Gaps(s)) + One(s # <<>> /\ NumberOf[b] # NumberOf[s[Len(s)]] + 1)
<1> DEFINE t == Append(s, b)
           last == Len(s)
<1>1. /\ last \in Nat /\ Len(t) = last + 1 /\ t[last + 1] = b
      /\ \A i \in 1..last : t[i] = s[i]
      /\ s = <<>> <=> last = 0
  OBVIOUS
<1> HIDE DEF t
<1>2. \A i \in 1..(last - 1) : i \in 1..(Len(t) - 1) /\ t[i] = s[i] /\ t[i + 1] = s[i + 1]
  BY <1>1
<1>3. last \notin Gaps(s) /\ IsFiniteSet(Gaps(s)) /\ Cardinality(Gaps(s)) \in Nat
  BY <1>1, GapsFinite DEF Gaps
<1>4. CASE s # <<>> /\ NumberOf[b] # NumberOf[s[last]] + 1
  <2>1. last \in 1..(Len(t) - 1) /\ t[last] = s[last] /\ t[last + 1] = b
    BY <1>1, <1>4
  <2>2. 1..(Len(t) - 1) = 1..(last - 1) \cup {last}
    BY <1>1, <1>4
  <2>3. Gaps(t) = Gaps(s) \cup {last}
    BY <1>2, <1>4, <2>1, <2>2 DEF Gaps
  <2> QED
    BY <1>3, <1>4, <2>3, FS_AddElement DEF One, t
<1>5. CASE s # <<>> /\ NumberOf[b] = NumberOf[s[last]] + 1
  <2>1. last \in 1..(Len(t) - 1) /\ t[last] = s[last] /\ t[last + 1] = b
    BY <1>1, <1>5
  <2>2. 1..(Len(t) - 1) = 1..(last - 1) \cup {last}
    BY <1>1, <1>5
  <2>3. Gaps(t) = Gaps(s)
    BY <1>2, <1>3, <1>5, <2>1, <2>2 DEF Gaps
  <2> QED
    BY <1>3, <1>5, <2>3 DEF One, t
<1>6. CASE s = <<>>
  <2>1. 1..(Len(t) - 1) = {} /\ 1..(Len(s) - 1) = {}
    BY <1>1, <1>6
  <2>2. Gaps(t) = {} /\ Gaps(s) = {}
    BY <2>1 DEF Gaps
  <2>3. One(s # <<>> /\ NumberOf[b] # NumberOf[s[last]] + 1) = 0
    BY <1>6 DEF One
  <2> QED
    BY <1>3, <2>2, <2>3 DEF t
<1> QED
  BY <1>4, <1>5, <1>6

\* Dropping the oldest block adds no gap.
LEMMA GapsTail ==
  ASSUME NEW s \in Seq(Blocks), s # <<>>
  PROVE  Cardinality(Gaps(Tail(s))) <= Cardinality(Gaps(s))
<1> DEFINE t == Tail(s)
<1>1. /\ t \in Seq(Blocks) /\ Len(t) = Len(s) - 1 /\ Len(s) \in Nat
      /\ \A i \in 1..Len(t) : t[i] = s[i + 1]
  OBVIOUS
<1> HIDE DEF t
<1> DEFINE f == [i \in Gaps(t) |-> i + 1]
<1>2. ASSUME NEW i \in Gaps(t) PROVE i + 1 \in Gaps(s)
  <2>1. i \in 1..(Len(t) - 1) /\ NumberOf[t[i + 1]] # NumberOf[t[i]] + 1
    BY DEF Gaps
  <2>2. t[i] = s[i + 1] /\ t[i + 1] = s[(i + 1) + 1] /\ i + 1 \in 1..(Len(s) - 1)
    BY <1>1, <2>1
  <2> QED
    BY <2>1, <2>2 DEF Gaps
<1>3. \A i, j \in Gaps(t) : i + 1 = j + 1 => i = j
  BY DEF Gaps
<1>4. f \in Injection(Gaps(t), Gaps(s))
  <2>1. f \in [Gaps(t) -> Gaps(s)]
    BY <1>2
  <2>2. \A i, j \in Gaps(t) : f[i] = f[j] => i = j
    BY <1>3
  <2> HIDE DEF f
  <2> QED
    BY <2>1, <2>2 DEF Injection, IsInjective
<1>5. Cardinality(Gaps(t)) <= Cardinality(Gaps(s))
  BY <1>4, GapsFinite, FS_Injection
<1> QED
  BY <1>5 DEF t

\* A push leaves one gap more, at most, and none if the block follows the newest.
LEMMA GapsPushed ==
  ASSUME CacheInv, subscriber = "receipts", Cache!Push(Delivered)
  PROVE  Cardinality(Gaps(buffer')) <= Cardinality(Gaps(buffer)) + One(Skipping)
<1> DEFINE kept == IF Len(buffer) < N THEN buffer ELSE Tail(buffer)
<1>1. /\ Delivered \in Blocks /\ NumberOf[Delivered] = next - 1 /\ next \in Nat
      /\ buffer' = Append(kept, Delivered) /\ buffer \in Seq(Blocks)
      /\ Len(buffer) >= N => buffer # <<>>
  BY DeliveredFollows, PushedBlock DEF CacheInv, Follows, Window!TypeOK
<1>2. /\ kept \in Seq(Blocks) /\ Cardinality(Gaps(kept)) <= Cardinality(Gaps(buffer))
      /\ kept # <<>> => buffer # <<>> /\ kept[Len(kept)] = buffer[Len(buffer)]
  <2>1. CASE Len(buffer) < N
    BY <1>1, <2>1, GapsFinite
  <2>2. CASE ~(Len(buffer) < N)
    <3>1. kept = Tail(buffer) /\ buffer # <<>>
      BY <1>1, <2>2, CacheAssumption
    <3>2. Tail(buffer) \in Seq(Blocks)
      BY <1>1, <3>1
    <3>3. Tail(buffer) # <<>> => Tail(buffer)[Len(Tail(buffer))] = buffer[Len(buffer)]
      BY <1>1, <3>1
    <3> HIDE DEF kept
    <3> QED
      BY <1>1, <3>1, <3>2, <3>3, GapsTail
  <2> QED
    BY <2>1, <2>2
<1> HIDE DEF kept
<1>3. Cardinality(Gaps(buffer')) =
        Cardinality(Gaps(kept)) + One(kept # <<>> /\ next - 1 # NumberOf[kept[Len(kept)]] + 1)
  BY <1>1, <1>2, GapsAppend
<1>4. Cardinality(Gaps(kept)) \in Nat /\ Cardinality(Gaps(buffer)) \in Nat
  BY <1>1, <1>2, GapsFinite
<1>5. kept # <<>> /\ next - 1 # NumberOf[kept[Len(kept)]] + 1 => Skipping
  <2> SUFFICES ASSUME kept # <<>>, next - 1 # NumberOf[kept[Len(kept)]] + 1
               PROVE  Skipping
    OBVIOUS
  <2>1. buffer # <<>> /\ next - 1 # Newest + 1 /\ Newest \in Nat
    BY <1>1, <1>2, NumberOfAssumption DEF Newest
  <2> QED
    BY <1>1, <2>1 DEF Skipping
<1> QED
  BY <1>2, <1>3, <1>4, <1>5 DEF One

\* The step of a gap: a lost connection is counted before the block that skips.
LEMMA GapsStep ==
  ASSUME CacheInv, GapsCounted, [Next]_vars
  PROVE  GapsCounted'
<1> DEFINE G == Cardinality(Gaps(buffer))
<1>1. /\ disconnects \in Nat /\ G \in Nat /\ G + One(Skipping) + One(Lost) <= disconnects
      /\ \A p : One(p) \in {0, 1}
  BY GapsFinite DEF GapsCounted, CacheInv, Window!TypeOK, One
<1>2. ASSUME buffer' = buffer PROVE G' = G /\ Newest' = Newest
  BY <1>2 DEF Newest
<1> HIDE DEF G
<1>3. GapsCounted' <=> disconnects' \in Nat /\ G' + One(Skipping') + One(Lost') <= disconnects'
  BY DEF GapsCounted, G
<1>4. CASE UNCHANGED <<buffer, next, disconnects, subscriber, feed>>
  <2>1. G' = G /\ (Skipping' <=> Skipping) /\ (Lost' <=> Lost)
    BY <1>2, <1>4 DEF Skipping, Lost
  <2> QED
    BY <1>1, <1>3, <1>4, <2>1 DEF One
<1>5. CASE Disconnect
  <2>1. /\ feed = "up" /\ feed' = "down" /\ disconnects' = disconnects + 1
        /\ UNCHANGED <<buffer, next, subscriber>>
    BY <1>5 DEF Disconnect, cacheVars
  <2>2. G' = G /\ (Skipping' => Skipping) /\ ~Lost
    BY <1>2, <2>1 DEF Skipping, Lost
  <2> QED
    BY <1>1, <1>3, <2>1, <2>2 DEF One
<1>6. CASE Resubscribe
  <2>1. /\ subscriber = "streaming" /\ feed = "down" /\ feed' = "up"
        /\ UNCHANGED <<buffer, disconnects, subscriber>>
    BY <1>6 DEF Resubscribe, cacheVars
  <2>2. G' = G /\ Lost /\ ~Lost'
    BY <1>2, <2>1 DEF Lost
  <2> QED
    BY <1>1, <1>3, <2>1, <2>2 DEF One
<1>7. CASE Subscribe
  <2>1. /\ buffer = <<>> /\ buffer' = buffer /\ disconnects' = disconnects /\ feed' = "up"
    BY <1>7 DEF Subscribe, cacheVars, CacheInv, Follows
  <2>2. G' = G /\ ~Skipping' /\ ~Lost'
    BY <1>2, <2>1 DEF Skipping, Lost
  <2> QED
    BY <1>1, <1>3, <2>1, <2>2 DEF One
<1>8. CASE SubscriptionFails \/ ReceiptsFail
  <2>1. subscriber' = "stopped" /\ buffer' = buffer /\ disconnects' = disconnects
    BY <1>8 DEF SubscriptionFails, ReceiptsFail, cacheVars, nodeVars
  <2>2. G' = G /\ ~Skipping' /\ ~Lost'
    BY <1>2, <2>1 DEF Skipping, Lost
  <2> QED
    BY <1>1, <1>3, <2>1, <2>2 DEF One
<1>9. CASE NextBlock
  <2>1. /\ subscriber = "streaming" /\ feed = "up" /\ next' = next + 1
        /\ subscriber' = "receipts" /\ UNCHANGED <<buffer, disconnects, feed>>
    BY <1>9 DEF NextBlock, cacheVars
  <2>2. next \in Nat /\ (buffer # <<>> => Newest \in Nat)
    BY NumberOfAssumption DEF CacheInv, Follows, Window!TypeOK, Newest
  <2>3. G' = G /\ (Skipping' => Skipping) /\ ~Lost'
    BY <1>2, <2>1, <2>2 DEF Skipping, Lost
  <2> QED
    BY <1>1, <1>3, <2>1, <2>3 DEF One
<1>10. CASE PushBlock
  <2>1. /\ subscriber = "receipts" /\ Cache!Push(Delivered) /\ subscriber' = "streaming"
        /\ UNCHANGED <<next, disconnects, feed>>
    BY <1>10 DEF PushBlock, nodeVars
  <2>2. G' <= G + One(Skipping) /\ G' \in Nat
    <3>1. buffer' \in Seq(Blocks)
      BY <2>1, PushedBlock DEF Window!TypeOK
    <3> QED
      BY <2>1, <3>1, GapsPushed, GapsFinite DEF G
  <2>3. Newest' = next - 1 /\ next \in Nat
    BY <2>1, PushedBlock DEF CacheInv, Follows
  <2>4. ~Skipping' /\ (Lost' <=> Lost)
    BY <2>1, <2>3 DEF Skipping, Lost
  <2>5. One(Skipping') = 0 /\ One(Lost') = One(Lost)
    BY <2>4 DEF One
  <2> QED
    BY <1>1, <1>3, <2>1, <2>2, <2>5
<1>11. CASE Finalize \/ MainStep \/ RequestStep \/ UNCHANGED vars
  BY <1>4, <1>11
     DEF Finalize, MainStep, MainProceeds, StartServer, FromUrlPanics, StartServerFails,
         SelfCheckLock, SelfCheck, SelfCheckFails, Exit, RequestStep, nodeVars, cacheVars, vars
<1> QED
  BY <1>5, <1>6, <1>7, <1>8, <1>9, <1>10, <1>11 DEF Next, SubscriberStep

\* A lost connection is counted before the gap it leaves, always.
LEMMA GapsInvariant == Spec => []GapsCounted
<1>1. Init => GapsCounted
  <2> SUFFICES ASSUME Init PROVE GapsCounted
    OBVIOUS
  <2>1. buffer = <<>> /\ disconnects = 0 /\ ~Skipping /\ ~Lost
    BY DEF Init, Cache!Init, Skipping, Lost
  <2>2. 1..(Len(buffer) - 1) = {}
    BY <2>1
  <2>3. Gaps(buffer) = {}
    BY <2>2 DEF Gaps
  <2> QED
    BY <2>1, <2>3, FS_EmptySet DEF GapsCounted, One
<1>2. CacheInv /\ GapsCounted /\ [Next]_vars => GapsCounted'
  BY GapsStep
<1> QED
  BY <1>1, <1>2, CacheInvariant, PTL DEF Spec

\* Each place where the buffer is not contiguous was a lost connection, however
\* often the subscription starts over.
THEOREM GapsAreReconnections == Spec => []IrregularitiesAreReconnections
<1>1. CacheInv /\ GapsCounted => IrregularitiesAreReconnections
  <2> SUFFICES ASSUME CacheInv, GapsCounted PROVE IrregularitiesAreReconnections
    OBVIOUS
  <2>1. Cardinality(Gaps(buffer)) \in Nat
    BY GapsFinite DEF CacheInv, Window!TypeOK
  <2>2. Cardinality(Gaps(buffer)) <= disconnects
    BY <2>1 DEF GapsCounted, One
  <2> QED
    BY <2>2 DEF Gaps, IrregularitiesAreReconnections
<1> QED
  BY <1>1, CacheInvariant, GapsInvariant, PTL

-----------------------------------------------------------------------------
\* A chain that is followed without a break.

\* A push is the same to a cache whose subscription never starts over.
LEMMA SameStrictPush ==
  ASSUME NEW b, Cache!Push(b)
  PROVE  Strict!Push(b)
  BY DEF Cache!Push, Strict!Push, Cache!InsertIntoSpace, Strict!InsertIntoSpace,
         Cache!PruneAndInsert, Strict!PruneAndInsert, Cache!With, Strict!With, Cache!Without,
         Strict!Without, Cache!Extended, Strict!Extended, Cache!ExtendedReceipts,
         Strict!ExtendedReceipts, Cache!ExtendedHashes, Strict!ExtendedHashes,
         Cache!PrunedTxs, Strict!PrunedTxs, Cache!ReceiptsOf, Strict!ReceiptsOf,
         Cache!HashesByIndex, Strict!HashesByIndex, Cache!TxsOf, Strict!TxsOf,
         Cache!EvmPositions, Strict!EvmPositions, Cache!IntoReceiptInfo,
         Strict!IntoReceiptInfo, Cache!Receipt, Strict!Receipt, Cache!IndicesOf,
         Strict!IndicesOf, Cache!PositionOf, Strict!PositionOf, Cache!FindFirstSuccess,
         Strict!FindFirstSuccess

\* Without a reconnection, the block that is pushed follows the newest one.
LEMMA PushedFollows ==
  ASSUME CacheInv, GapsCounted, disconnects = 0, PushBlock
  PROVE  /\ Delivered \in Blocks /\ FeesFound(Delivered) /\ Cache!Push(Delivered)
         /\ buffer # <<>> => NumberOf[Delivered] > Newest
<1>1. subscriber = "receipts" /\ FeesFound(Delivered) /\ Cache!Push(Delivered)
  BY DEF PushBlock
<1>2. Delivered \in Blocks /\ NumberOf[Delivered] = next - 1 /\ next \in Nat
  BY <1>1, DeliveredFollows DEF CacheInv, Follows
<1>3. buffer # <<>> => next = Newest + 2
  <2>1. Cardinality(Gaps(buffer)) \in Nat
    BY GapsFinite DEF CacheInv, Window!TypeOK
  <2>2. One(Skipping) = 0
    BY <2>1 DEF GapsCounted, One
  <2> QED
    BY <1>1, <2>2 DEF One, Skipping
<1>4. buffer # <<>> => Newest \in Nat
  BY NumberOfAssumption DEF CacheInv, Window!TypeOK, Newest
<1> QED
  BY <1>1, <1>2, <1>3, <1>4

\* The cache changes by a push only.
LEMMA PushOrNothing == ASSUME [Next]_vars PROVE PushBlock \/ UNCHANGED cacheVars
  BY DEF Next, SubscriberStep, Finalize, Disconnect, SubscriptionFails, Resubscribe, Subscribe,
         NextBlock, ReceiptsFail, MainStep, MainProceeds, StartServer, FromUrlPanics,
         StartServerFails, SelfCheckLock, SelfCheck, SelfCheckFails, Exit, RequestStep,
         nodeVars, vars

LEMMA DeliveredOnce ==
  ASSUME CacheInv, GapsCounted, disconnects = 0, [Next]_vars
  PROVE  [Strict!Next]_(Strict!vars)
<1>1. CASE PushBlock
  <2>1. Strict!Deliverable(Delivered)
    BY <1>1, PushedFollows DEF Strict!Deliverable, Strict!LatestBlock, Newest
  <2>2. Strict!FeesFound(Delivered)
    BY <1>1, PushedFollows
       DEF Strict!FeesFound, FeesFound, Strict!EvmPositions, EvmPositions,
           Strict!IntoReceiptInfo, IntoReceiptInfo
  <2> QED
    BY <1>1, <2>1, <2>2, PushedFollows, SameStrictPush DEF Strict!Next
<1>2. CASE UNCHANGED cacheVars
  BY <1>2 DEF cacheVars, Strict!vars
<1> QED
  BY <1>1, <1>2, PushOrNothing

\* Until the first connection is lost, the maps index the whole buffer.
WholeWindow == disconnects = 0 => Window!IndexesBuffer

LEMMA WholeWindowStep ==
  ASSUME CacheInv, GapsCounted, WholeWindow, [Next]_vars
  PROVE  WholeWindow'
<1> SUFFICES ASSUME disconnects' = 0 PROVE Window!IndexesBuffer'
  BY DEF WholeWindow
<1>1. disconnects = 0
  BY DEF GapsCounted, Next, SubscriberStep, Finalize, Disconnect, SubscriptionFails,
         Resubscribe, Subscribe, NextBlock, PushBlock, ReceiptsFail, MainStep, MainProceeds,
         StartServer, FromUrlPanics, StartServerFails, SelfCheckLock, SelfCheck,
         SelfCheckFails, Exit, RequestStep, nodeVars, vars
<1>2. Window!TypeOK /\ Window!IndexesBuffer
  BY <1>1 DEF WholeWindow, CacheInv
<1>3. CASE PushBlock
  <2>1. /\ Delivered \in Blocks /\ Window!Push(Delivered)
        /\ buffer # <<>> => NumberOf[Delivered] > NumberOf[Window!LatestBlock]
    BY <1>1, <1>3, PushedFollows, SamePush DEF Window!LatestBlock, Newest
  <2> QED
    BY <1>2, <2>1, WindowAssumptions, Window!IndexesBufferPush
<1>4. CASE UNCHANGED cacheVars
  BY <1>2, <1>4 DEF cacheVars, Window!IndexesBuffer, Window!Buffered, Window!IndexesNumbers,
     Window!IndexesHashes, Window!IndexesReceipts, Window!IndexesPositions
<1> QED
  BY <1>3, <1>4, PushOrNothing

LEMMA WholeWindowInvariant == Spec => []WholeWindow
<1>1. Init => WholeWindow
  BY DEF Init, WholeWindow, Cache!Init, Cache!EmptyMap, Window!IndexesBuffer, Window!Buffered,
         Window!IndexesNumbers, Window!IndexesHashes, Window!IndexesReceipts,
         Window!IndexesPositions
<1>2. CacheInv /\ GapsCounted /\ WholeWindow /\ [Next]_vars => WholeWindow'
  BY WholeWindowStep
<1> QED
  BY <1>1, <1>2, CacheInvariant, GapsInvariant, PTL DEF Spec

\* As long as no connection is lost, what the client's readers find in the
\* cache is what a scan of the last N blocks delivered would find (RecentBlocks).
THEOREM CacheIsRecentBlocks ==
  Spec /\ [](disconnects = 0) => Strict!ImplementsRecentBlocks
<1>1. Init => Strict!Init
  BY DEF Init, Cache!Init, Strict!Init, Cache!EmptyMap, Strict!EmptyMap
<1>2. Spec /\ [](disconnects = 0) => Strict!Spec
  BY <1>1, CacheInvariant, GapsInvariant, DeliveredOnce, PTL DEF Spec, Strict!Spec
<1>3. Strict!Spec => Strict!ImplementsRecentBlocks
  <2>1. /\ Strict!NumberOfAssumption /\ Strict!ExtrinsicsAssumption /\ Strict!NAssumption
        /\ Strict!RedeliveryAssumption /\ Strict!NoneAssumption
    <3>1. Strict!NumberOfAssumption
      BY NumberOfAssumption DEF Strict!NumberOfAssumption
    <3>2. Strict!ExtrinsicsAssumption
      BY ExtrinsicsAssumption
         DEF Strict!ExtrinsicsAssumption, Strict!Extrinsic, Strict!Kinds, Extrinsic, Kinds
    <3>3. Strict!NAssumption /\ Strict!RedeliveryAssumption
      BY CacheAssumption DEF Strict!NAssumption, Strict!RedeliveryAssumption
    <3>4. Strict!NoneAssumption
      BY CacheAssumption DEF Strict!NoneAssumption, Strict!Receipts, Receipts
    <3> QED
      BY <3>1, <3>2, <3>3, <3>4
  <2> QED
    BY <2>1, Strict!RefinesRecentBlocks
<1> QED
  BY <1>2, <1>3, PTL

-----------------------------------------------------------------------------
\* The requests.

\* The server has a block to answer from.
LEMMA WarmStep ==
  ASSUME CacheInv, PlacesOK, Warm, [Next]_vars
  PROVE  Warm'
<1>1. buffer # <<>> => buffer' # <<>>
  <2>1. CASE PushBlock
    BY <2>1, PushedBlock DEF PushBlock
  <2>2. CASE UNCHANGED cacheVars
    BY <2>2 DEF cacheVars
  <2>3. PushBlock \/ UNCHANGED cacheVars
    BY DEF Next, Finalize, Disconnect, Resubscribe, SubscriptionFails, SubscriberStep, Subscribe,
           NextBlock, ReceiptsFail, MainStep, MainProceeds, StartServer, FromUrlPanics,
           StartServerFails, SelfCheckLock, SelfCheck, SelfCheckFails, Exit, RequestStep, vars
  <2> QED
    BY <2>1, <2>2, <2>3
<1>2. main' \in {"checking", "serving"} => main \in {"checking", "serving"} \/ buffer # <<>>
  BY DEF Next, Finalize, Disconnect, Resubscribe, SubscriptionFails, SubscriberStep, Subscribe,
         NextBlock, PushBlock, ReceiptsFail, MainStep, MainProceeds, StartServer, FromUrlPanics,
         StartServerFails, SelfCheckLock, SelfCheck, SelfCheckFails, Exit, RequestStep, vars
<1>3. ASSUME NEW r \in Requests, pc'[r] # "idle"
      PROVE  pc[r] # "idle" \/ main \in {"checking", "serving"}
  <2>1. CASE UNCHANGED pc
    BY <1>3, <2>1
  <2>2. CASE RequestStep
    <3>1. PICK q \in Requests : Issue(q) \/ Hangup(q) \/ Handle(q)
      BY <2>2 DEF RequestStep
    <3>2. CASE Issue(q)
      BY <3>2 DEF Issue
    <3>3. CASE q # r /\ (Hangup(q) \/ Handle(q))
      <4>1. pc'[r] = pc[r]
        BY <3>3 DEF Hangup, Handle, Respond, Goto, ReadLock, requestVars, LatestBlock,
             BlockByNumber, GetBlockHash, ChainGetBlockHash, BlockByHash, BlocksAt, NodeCall,
             Lookup, WithHash, PlacesOK
      <4> QED
        BY <1>3, <4>1
    <3>4. CASE q = r /\ (Hangup(r) \/ Handle(r))
      <4>1. pc[r] # "idle"
        BY <3>4 DEF Hangup, Handle, ReadLock, Locked, LatestBlock, BlockByNumber, GetBlockHash,
             ChainGetBlockHash, BlockByHash, BlocksAt, NodeCall, Lookup
      <4> QED
        BY <4>1
    <3> QED
      BY <3>1, <3>2, <3>3, <3>4
  <2>3. UNCHANGED pc \/ RequestStep
    BY DEF Next, Finalize, Disconnect, Resubscribe, SubscriptionFails, SubscriberStep, Subscribe,
           NextBlock, PushBlock, ReceiptsFail, MainStep, MainProceeds, StartServer,
           FromUrlPanics, StartServerFails, SelfCheckLock, SelfCheck, SelfCheckFails,
           Exit, requestVars, vars
  <2> QED
    BY <2>1, <2>2, <2>3
<1> QED
  BY <1>1, <1>2, <1>3 DEF Warm

\* A number names one block.
LEMMA BlockAtItsNumber == \A b \in Blocks : BlockAt(NumberOf[b]) = b
  BY NumberOfAssumption DEF BlockAt

\* An answer stays one while the node finalizes more.
LEMMA AnsweredFrame ==
  ASSUME NEW q, NEW a, Answered(q, a), head \in Nat, head' \in Nat, head <= head'
  PROVE  /\ a # CacheEmpty
         /\ a.result = "ok" => q \in Queries /\ AnswerTyped(q, a.value) /\ AnswerFits(q, a.value)'
<1> SUFFICES ASSUME a.result = "ok" PROVE AnswerFits(q, a.value)'
  BY DEF Answered
<1>1. AnswerTyped(q, a.value) /\ AnswerFits(q, a.value)
  BY DEF Answered
<1>2. a.value \in Blocks => NumberOf[a.value] \in Nat
  BY NumberOfAssumption
<1> QED
  BY <1>1, <1>2 DEF AnswerTyped, AnswerFits

\* What concerns one request: its place fits its query, and its answer is true.
RequestOK(r) == Resolved(query[r], pc[r], found[r]) /\ Answered(query[r], answer[r])

\* A request whose entries stay as they are.
LEMMA RequestFrame ==
  ASSUME head \in Nat, head' \in Nat, head <= head', NEW r \in Requests, RequestOK(r),
         pc'[r] = pc[r], query'[r] = query[r], found'[r] = found[r], answer'[r] = answer[r]
  PROVE  RequestOK(r)'
<1>1. Answered(query[r], answer[r])'
  BY AnsweredFrame DEF RequestOK, Answered, AnswerTyped
<1>2. Resolved(query[r], pc[r], found[r])'
  BY DEF RequestOK, Resolved, Nests, Matches
<1> QED
  BY <1>1, <1>2 DEF RequestOK

\* A request that has an answer.
LEMMA Responded ==
  ASSUME PlacesOK, RequestsOK, NEW r \in Requests, NEW a, Respond(r, a), UNCHANGED head,
         Answered(query[r], a)
  PROVE  RequestOK(r)'
<1>1. pc'[r] = "idle" /\ answer'[r] = a /\ query'[r] = query[r]
  BY DEF PlacesOK, RequestsOK, Respond
<1>2. Answered(query[r], answer[r])'
  BY <1>1 DEF Answered, AnswerTyped, AnswerFits
<1>3. Resolved(query[r], pc[r], found[r])'
  BY <1>1 DEF Resolved, Nests
<1> QED
  BY <1>2, <1>3 DEF RequestOK

\* A request that goes on.
LEMMA WentOn ==
  ASSUME PlacesOK, RequestsOK, NEW r \in Requests, NEW p, NEW b, Goto(r, p, b), UNCHANGED head,
         Resolved(query[r], p, b)
  PROVE  RequestOK(r)'
<1>1. pc'[r] = p /\ found'[r] = b /\ query'[r] = query[r] /\ answer'[r] = answer[r]
  BY DEF PlacesOK, RequestsOK, Goto
<1>2. Answered(query[r], answer[r])'
  BY <1>1 DEF RequestsOK, Answered, AnswerTyped, AnswerFits
<1>3. Resolved(query[r], pc[r], found[r])'
  BY <1>1 DEF Resolved, Nests, Matches
<1> QED
  BY <1>2, <1>3 DEF RequestOK

\* Answers without a value.
LEMMA NoValue ==
  ASSUME NEW q, NEW a \in {Null, Error, NoAnswer}
  PROVE  Answered(q, a) /\ a.result # "ok"
<1>1. a.result \in {"null", "error", "none"} /\ CacheEmpty.result = "CacheEmpty"
  BY DEF Null, Error, NoAnswer, CacheEmpty
<1> QED
  BY <1>1 DEF Answered

\* An answer with a value.
LEMMA WithValue ==
  ASSUME NEW q \in Queries, NEW v, AnswerTyped(q, v), AnswerFits(q, v)
  PROVE  Answered(q, Ok(v))
<1>1. Ok(v).result = "ok" /\ Ok(v).value = v /\ CacheEmpty.result = "CacheEmpty"
  BY DEF Ok, CacheEmpty
<1> QED
  BY <1>1 DEF Answered

\* The last read of the cache answers what was asked.
LEMMA LookupAnswers ==
  ASSUME ClientInv, NEW r \in Requests, Lookup(r), UNCHANGED head
  PROVE  RequestOK(r)'
<1> DEFINE q == query[r]
           b == found[r]
<1> USE DEF ClientInv
<1>1. /\ q \in Queries /\ pc[r] = "lookup" /\ buffer # <<>>
      /\ \/ q.method \in {"block_number", "transaction"}
         \/ /\ q.method \in {"transaction_at_hash", "transaction_at_number",
                             "count_by_hash", "count_by_number"}
            /\ Matches(q, b)
  BY DEF Lookup, RequestsOK, Resolved, Nests, Warm
<1>2. PlacesOK /\ RequestsOK
  OBVIOUS
<1> HIDE DEF ClientInv, q, b
<1> SUFFICES ASSUME NEW a, Respond(r, a),
               a = CASE q.method = "block_number" -> Ok(NumberOf[Cache!LatestBlock])
                     [] q.method = "transaction" -> OrNull(Cache!ReceiptByHash(q.at))
                     [] q.method \in {"transaction_at_hash", "transaction_at_number"} ->
                          OrNull(Cache!ReceiptByHashAndIndex(b, q.index))
                     [] q.method \in {"count_by_hash", "count_by_number"} ->
                          OrNull(Cache!ReceiptsCountPerBlock(b))
             PROVE  Answered(q, a)
  BY <1>1, <1>2, Responded DEF Lookup, q, b
<1>3. CacheInv
  BY DEF ClientInv
<1>4. CASE q.method = "block_number"
  <2>1. a = Ok(NumberOf[Cache!LatestBlock])
    BY <1>4
  <2>2. NumberOf[Cache!LatestBlock] \in Nat /\ NumberOf[Cache!LatestBlock] <= head
    BY <1>1, <1>3, ClientFinds, NumberOfAssumption
  <2>3. AnswerTyped(q, NumberOf[Cache!LatestBlock]) /\ AnswerFits(q, NumberOf[Cache!LatestBlock])
    BY <1>4, <2>2 DEF AnswerTyped, AnswerFits
  <2> QED
    BY <1>1, <2>1, <2>3, WithValue
<1>5. CASE q.method = "transaction"
  <2> DEFINE x == Cache!ReceiptByHash(q.at)
  <2>1. a = OrNull(x)
    BY <1>5
  <2>2. x # None => x.transaction_hash = q.at
    BY <1>3, ClientFinds
  <2> HIDE DEF x
  <2>3. x # None => AnswerTyped(q, x) /\ AnswerFits(q, x)
    BY <1>5, <2>2 DEF AnswerTyped, AnswerFits
  <2> QED
    BY <1>1, <2>1, <2>3, WithValue, NoValue DEF OrNull
<1>6. CASE q.method \in {"transaction_at_hash", "transaction_at_number"}
  <2> DEFINE x == Cache!ReceiptByHashAndIndex(b, q.index)
  <2>1. a = OrNull(x)
    BY <1>6
  <2>2. x # None => /\ b \in Blocks /\ NumberOf[b] <= head
                    /\ x.block_hash = b /\ x.block_number = NumberOf[b]
                    /\ x.transaction_index = q.index
    BY <1>3, ClientFinds
  <2> HIDE DEF x
  <2>3. Matches(q, b)
    BY <1>1, <1>6
  <2>4. x # None => AnswerTyped(q, x) /\ AnswerFits(q, x)
    BY <1>6, <2>2, <2>3, NumberOfAssumption DEF AnswerTyped, AnswerFits, Matches, ByNumberMethods
  <2> QED
    BY <1>1, <2>1, <2>4, WithValue, NoValue DEF OrNull
<1>7. CASE q.method \in {"count_by_hash", "count_by_number"}
  <2> DEFINE x == Cache!ReceiptsCountPerBlock(b)
  <2>1. a = OrNull(x)
    BY <1>7
  <2>2. x # None => b \in Blocks /\ x = Cardinality(EvmPositions(b))
    BY <1>3, ClientFinds
  <2> HIDE DEF x
  <2>3. Matches(q, b)
    BY <1>1, <1>7
  <2>4. q.method = "count_by_number" /\ q.at # Latest => BlockAt(q.at) = b
    BY <2>3, BlockAtItsNumber DEF Matches, ByNumberMethods
  <2>5. x # None => AnswerTyped(q, x) /\ AnswerFits(q, x)
    BY <1>7, <2>2, <2>3, <2>4 DEF AnswerTyped, AnswerFits, Matches
  <2> QED
    BY <1>1, <2>1, <2>5, WithValue, NoValue DEF OrNull
<1> QED
  BY <1>1, <1>4, <1>5, <1>6, <1>7

\* Where a query starts, nothing but a block that it names is resolved.
LEMMA EntryResolved ==
  ASSUME NEW q \in Queries, NEW b,
         b = IF q.method \in {"count_by_hash", "transaction_at_hash", "state_at"} /\ q.at \in Blocks
             THEN q.at ELSE None
  PROVE  Resolved(q, Entry(q), b)
<1> USE DEF Resolved, Nests, Matches, Entry, ByNumberMethods
<1>1. /\ q.method \in Methods
      /\ q.method \in {"block_by_hash", "transaction_at_hash"} => q.at \in Blocks
      /\ q.method = "count_by_hash" => q.at = Latest \/ q.at \in Blocks
      /\ q.method \in ByNumberMethods => q.at = Latest \/ q.at \in Nat
      /\ q.method = "state_at" => q.at = Latest \/ q.at \in Blocks \/ q.at \in Nat
  BY QueriesAssumption
<1>2. CASE q.method \in {"block_number", "transaction", "transaction_at_hash"}
  BY <1>1, <1>2
<1>3. CASE q.method = "count_by_hash"
  BY <1>1, <1>3
<1>4. CASE q.method = "block_by_hash"
  BY <1>1, <1>4
<1>5. CASE q.method \in ByNumberMethods
  BY <1>1, <1>5
<1>6. CASE q.method = "state_at"
  BY <1>1, <1>6
<1> QED
  BY <1>1, <1>2, <1>3, <1>4, <1>5, <1>6 DEF Methods

\* Once its block is resolved a request reads the cache or calls the node.
LEMMA AfterBlockResolved ==
  ASSUME NEW q \in Queries, NEW b, Matches(q, b),
         \/ q.method \in ByNumberMethods \cup {"block_by_hash"}
         \/ q.method \in {"count_by_hash", "state_at"}
  PROVE  Resolved(q, AfterBlock(q), b)
  BY DEF Resolved, Nests, AfterBlock, ByNumberMethods

\* The hash of its block is known.
LEMMA WithHashResolved ==
  ASSUME NEW q \in Queries, NEW b \in Blocks, NumberOf[b] = q.at, q.at # Latest,
         q.method \in ByNumberMethods \cup {"state_at"}
  PROVE  Resolved(q, IF q.method = "state_at" THEN "node_call" ELSE "block_by_hash", b)
  BY DEF Resolved, Nests, Matches, ByNumberMethods

\* Every step of a handler keeps its request on the block that was asked for.
LEMMA HandlerStep ==
  ASSUME ClientInv, NEW r \in Requests, Issue(r) \/ Hangup(r) \/ Handle(r),
         UNCHANGED <<nodeVars, cacheVars>>
  PROVE  RequestOK(r)'
<1> DEFINE q == query[r]
           b == found[r]
<1>1. /\ PlacesOK /\ RequestsOK /\ CacheInv /\ head' = head /\ head \in Nat /\ head <= MaxHead
      /\ Resolved(q, pc[r], b) /\ Answered(q, answer[r])
      /\ pc[r] # "idle" => buffer # <<>> /\ q \in Queries
  BY ChainAssumption DEF ClientInv, RequestsOK, Warm, Resolved, Nests, nodeVars, CacheInv, Follows
\* An error, nothing, or a block that fits the query.
<1>2. ASSUME NEW a \in {Null, Error, NoAnswer}, Respond(r, a)
      PROVE  RequestOK(r)'
  BY <1>1, <1>2, Responded, NoValue
<1>3. ASSUME NEW p, NEW c, Goto(r, p, c), Resolved(q, p, c)
      PROVE  RequestOK(r)'
  BY <1>1, <1>3, WentOn
<1>4. ASSUME NEW c, Goto(r, AfterBlock(q), c), Matches(q, c), q \in Queries,
             q.method \in ByNumberMethods \cup {"block_by_hash", "count_by_hash", "state_at"}
      PROVE  RequestOK(r)'
  BY <1>3, <1>4, AfterBlockResolved
<1>5. ASSUME NEW c \in Blocks, WithHash(r, c), NumberOf[c] = q.at, q.at # Latest, q \in Queries,
             q.method \in ByNumberMethods \cup {"state_at"}
      PROVE  RequestOK(r)'
  BY <1>3, <1>5, WithHashResolved DEF WithHash
<1>6. \A n : LET c == Cache!BlockByNumber(n) IN c # None => c \in Blocks /\ NumberOf[c] = n
  BY <1>1, ClientFinds
<1>7. CASE Issue(r)
  <2>1. PICK s \in Queries :
          /\ query' = [query EXCEPT ![r] = s]
          /\ pc' = [pc EXCEPT ![r] = Entry(s)]
          /\ found' = [found EXCEPT ![r] =
                         IF s.method \in {"count_by_hash", "transaction_at_hash", "state_at"} /\ s.at \in Blocks
                         THEN s.at ELSE None]
    BY <1>7 DEF Issue
  <2>2. /\ query'[r] = s /\ pc'[r] = Entry(s) /\ answer'[r] = NoAnswer
        /\ found'[r] = IF s.method \in {"count_by_hash", "transaction_at_hash", "state_at"} /\ s.at \in Blocks
                       THEN s.at ELSE None
    BY <1>1, <1>7, <2>1 DEF Issue, PlacesOK, RequestsOK
  <2>3. Resolved(query[r], pc[r], found[r])'
    <3>1. Resolved(s, Entry(s), found'[r])
      BY <2>2, EntryResolved
    <3> QED
      BY <2>2, <3>1 DEF Resolved, Nests, Matches
  <2>4. Answered(query[r], answer[r])'
    <3>1. NoAnswer # CacheEmpty /\ NoAnswer.result # "ok"
      BY NoValue DEF Answered
    <3> QED
      BY <2>2, <3>1 DEF Answered
  <2> QED
    BY <2>3, <2>4 DEF RequestOK
<1>8. CASE Hangup(r)
  BY <1>2, <1>8 DEF Hangup
<1>9. CASE ReadLock(r)
  <2>1. RequestOK(r)
    BY <1>1 DEF RequestOK
  <2> QED
    BY <1>1, <1>9, <2>1, RequestFrame DEF ReadLock, requestVars
<1>10. CASE LatestBlock(r)
  <2>1. /\ q \in Queries /\ q.at = Latest
        /\ q.method \in ByNumberMethods \cup {"count_by_hash", "state_at"}
        /\ Cache!LatestBlock \in Blocks /\ Cache!LatestBlock # None
    BY <1>1, <1>10, ClientFinds DEF LatestBlock, Resolved, Nests
  <2>2. Matches(q, Cache!LatestBlock)
    BY <2>1 DEF Matches, ByNumberMethods
  <2>3. Goto(r, AfterBlock(q), Cache!LatestBlock)
    BY <1>10, <2>1 DEF LatestBlock
  <2> QED
    BY <1>4, <2>1, <2>2, <2>3
<1>11. CASE BlockByNumber(r)
  <2> DEFINE c == Cache!BlockByNumber(q.at)
  <2>1. q \in Queries /\ q.at # Latest /\ q.method \in ByNumberMethods /\ q.at \in Nat
    BY <1>1, <1>11, QueriesAssumption DEF BlockByNumber, Resolved, Nests
  <2>2. \/ c # None /\ Goto(r, AfterBlock(q), c)
        \/ Goto(r, "get_block_hash", None)
    BY <1>11 DEF BlockByNumber
  <2>3. c # None => Matches(q, c)
    BY <1>6, <2>1 DEF Matches, ByNumberMethods
  <2> HIDE DEF c
  <2>4. Resolved(q, "get_block_hash", None)
    BY <2>1 DEF Resolved, Nests
  <2> QED
    BY <1>3, <1>4, <2>1, <2>2, <2>3, <2>4
<1>12. CASE GetBlockHash(r)
  <2> DEFINE c == Cache!BlockByNumber(q.at)
  <2>1. /\ q \in Queries /\ q.at # Latest /\ q.at \in Nat
        /\ q.method \in ByNumberMethods \cup {"state_at"}
    BY <1>1, <1>12 DEF GetBlockHash, Resolved, Nests
  <2>2. \/ c # None /\ WithHash(r, c)
        \/ Goto(r, "chain_get_block_hash", None)
    BY <1>12 DEF GetBlockHash
  <2>3. c # None => c \in Blocks /\ NumberOf[c] = q.at
    BY <1>6
  <2> HIDE DEF c
  <2>4. Resolved(q, "chain_get_block_hash", None)
    BY <2>1 DEF Resolved, Nests
  <2> QED
    BY <1>3, <1>5, <2>1, <2>2, <2>3, <2>4
<1>13. CASE ChainGetBlockHash(r)
  <2>1. /\ q \in Queries /\ q.at # Latest /\ q.at \in Nat
        /\ q.method \in ByNumberMethods \cup {"state_at"}
    BY <1>1, <1>13 DEF ChainGetBlockHash, Resolved, Nests
  <2>2. \/ q.at <= head /\ WithHash(r, BlockAt(q.at))
        \/ \E a \in {Null, Error, NoAnswer} : Respond(r, a)
    BY <1>13 DEF ChainGetBlockHash
  <2>3. q.at <= head => BlockAt(q.at) \in Blocks /\ NumberOf[BlockAt(q.at)] = q.at
    <3>1. q.at <= head => q.at \in 0..MaxHead
      BY <1>1, <2>1, ChainAssumption
    <3> QED
      BY <3>1, BlockAtNumber
  <2> QED
    BY <1>2, <1>5, <2>1, <2>2, <2>3
<1>14. CASE BlockByHash(r)
  <2> DEFINE h == WantedHash(r)
             c == Cache!BlockByHash(h)
  <2>1. /\ q \in Queries /\ q.method \in ByNumberMethods \cup {"block_by_hash"}
        /\ q.method \in ByNumberMethods => Nests(q) /\ Matches(q, b)
    BY <1>1, <1>14 DEF BlockByHash, Resolved, Nests, ByNumberMethods
  <2>2. Matches(q, h)
    BY <2>1, QueriesAssumption DEF Matches, WantedHash, ByNumberMethods
  <2>3. c # None => c = h
    BY <1>1, ClientFinds
  <2>4. \/ c # None /\ Goto(r, AfterBlock(q), c)
        \/ Goto(r, "blocks_at", h)
    BY <1>14 DEF BlockByHash
  <2> HIDE DEF c, h
  <2>5. Resolved(q, "blocks_at", h)
    BY <2>1, <2>2 DEF Resolved, Nests
  <2> QED
    BY <1>3, <1>4, <2>1, <2>2, <2>3, <2>4, <2>5
<1>15. CASE BlocksAt(r)
  <2>1. /\ q \in Queries /\ q.method \in ByNumberMethods \cup {"block_by_hash"} /\ Matches(q, b)
    BY <1>1, <1>15 DEF BlocksAt, Resolved, Nests
  <2>2. \/ Goto(r, AfterBlock(q), b)
        \/ \E a \in {Null, Error, NoAnswer} : Respond(r, a)
    BY <1>15 DEF BlocksAt
  <2> QED
    BY <1>2, <1>4, <2>1, <2>2
<1>16. CASE NodeCall(r)
  <2>1. /\ q \in Queries /\ Matches(q, b)
        /\ q.method \in {"block_by_number", "count_by_number", "block_by_hash", "state_at"}
    BY <1>1, <1>16 DEF NodeCall, Resolved, Nests
  <2>2. \/ q.method = "count_by_number" /\ Goto(r, "lookup", b)
        \/ q.method # "count_by_number" /\ NumberOf[b] <= head /\ Respond(r, Ok(b))
        \/ Respond(r, Error)
    BY <1>16 DEF NodeCall
  <2>3. q.method = "count_by_number" => Resolved(q, "lookup", b)
    BY <2>1 DEF Resolved, Nests
  <2>4. q.method # "count_by_number" /\ NumberOf[b] <= head
          => AnswerTyped(q, b) /\ AnswerFits(q, b)
    BY <2>1 DEF AnswerTyped, AnswerFits, Matches, ByNumberMethods
  <2> QED
    BY <1>1, <1>2, <1>3, <2>1, <2>2, <2>3, <2>4, WithValue, Responded
<1>17. CASE Lookup(r)
  BY <1>1, <1>17, LookupAnswers
<1> QED
  BY <1>7, <1>8, <1>9, <1>10, <1>11, <1>12, <1>13, <1>14, <1>15, <1>16, <1>17 DEF Handle

\* A step of request `r` does nothing to another.
LEMMA OtherRequests ==
  ASSUME PlacesOK, RequestsOK, NEW r \in Requests, Issue(r) \/ Hangup(r) \/ Handle(r)
  PROVE  /\ DOMAIN found' = Requests /\ DOMAIN answer' = Requests
         /\ \A q \in Requests \ {r} :
              /\ pc'[q] = pc[q] /\ query'[q] = query[q]
              /\ found'[q] = found[q] /\ answer'[q] = answer[q]
<1> USE DEF PlacesOK, RequestsOK
<1> DEFINE Same == /\ DOMAIN found' = Requests /\ DOMAIN answer' = Requests
                   /\ \A q \in Requests \ {r} :
                        /\ pc'[q] = pc[q] /\ query'[q] = query[q]
                        /\ found'[q] = found[q] /\ answer'[q] = answer[q]
<1> SUFFICES Same
  OBVIOUS
<1>1. ASSUME NEW a, Respond(r, a) PROVE Same
  BY <1>1 DEF Respond
<1>2. ASSUME NEW p, NEW b, Goto(r, p, b) PROVE Same
  BY <1>2 DEF Goto
<1>3. CASE Issue(r) \/ UNCHANGED requestVars
  BY <1>3 DEF Issue, requestVars
<1> HIDE DEF Same
<1>4. CASE Hangup(r) \/ ReadLock(r) \/ Lookup(r) \/ NodeCall(r)
  BY <1>1, <1>2, <1>3, <1>4 DEF Hangup, ReadLock, Lookup, NodeCall
<1>5. CASE LatestBlock(r) \/ BlockByNumber(r) \/ GetBlockHash(r)
  BY <1>1, <1>2, <1>5 DEF LatestBlock, BlockByNumber, GetBlockHash, WithHash
<1>6. CASE ChainGetBlockHash(r) \/ BlockByHash(r) \/ BlocksAt(r)
  BY <1>1, <1>2, <1>6 DEF ChainGetBlockHash, WithHash, BlockByHash, BlocksAt
<1> QED
  BY <1>3, <1>4, <1>5, <1>6 DEF Handle

LEMMA RequestsStep ==
  ASSUME ClientInv, [Next]_vars
  PROVE  RequestsOK'
<1>1. /\ PlacesOK /\ RequestsOK /\ CacheInv /\ head \in Nat
      /\ \A r \in Requests : RequestOK(r)
      /\ DOMAIN found = Requests /\ DOMAIN answer = Requests
  BY ChainAssumption DEF ClientInv, RequestsOK, RequestOK, CacheInv, Follows
<1>2. ASSUME \A r \in Requests : RequestOK(r)', DOMAIN found' = Requests, DOMAIN answer' = Requests
      PROVE  RequestsOK'
  BY <1>2 DEF RequestsOK, RequestOK
<1>3. CASE RequestStep
  <2>1. PICK r \in Requests : Issue(r) \/ Hangup(r) \/ Handle(r)
    BY <1>3 DEF RequestStep
  <2>2. UNCHANGED <<nodeVars, cacheVars>> /\ head' = head
    BY <1>3 DEF RequestStep, nodeVars
  <2>3. RequestOK(r)'
    BY <2>1, <2>2, HandlerStep
  <2>4. ASSUME NEW q \in Requests, q # r PROVE RequestOK(q)'
    BY <1>1, <2>1, <2>2, <2>4, OtherRequests, RequestFrame
  <2>5. DOMAIN found' = Requests /\ DOMAIN answer' = Requests
    BY <1>1, <2>1, OtherRequests
  <2> QED
    BY <1>2, <2>3, <2>4, <2>5
<1>4. CASE UNCHANGED requestVars
  <2>1. head' \in Nat /\ head <= head'
    BY <1>1 DEF Next, Finalize, Disconnect, Resubscribe, SubscriptionFails, SubscriberStep,
       Subscribe, NextBlock, PushBlock, ReceiptsFail, MainStep, MainProceeds, StartServer,
       FromUrlPanics, StartServerFails, SelfCheckLock, SelfCheck, SelfCheckFails,
       Exit, RequestStep, nodeVars, vars
  <2>2. UNCHANGED <<pc, query, found, answer>>
    BY <1>4 DEF requestVars
  <2>3. ASSUME NEW r \in Requests PROVE RequestOK(r)'
    BY <1>1, <2>1, <2>2, RequestFrame
  <2> QED
    BY <1>1, <1>2, <2>2, <2>3
<1>5. RequestStep \/ UNCHANGED requestVars
  BY DEF Next, Finalize, Disconnect, Resubscribe, SubscriptionFails, SubscriberStep, Subscribe,
         NextBlock, PushBlock, ReceiptsFail, MainStep, MainProceeds, StartServer, FromUrlPanics,
         StartServerFails, SelfCheckLock, SelfCheck, SelfCheckFails, Exit, vars
<1> QED
  BY <1>3, <1>4, <1>5

LEMMA ClientInvariant == Spec => []ClientInv
<1>1. Init => ClientInv
  <2> SUFFICES ASSUME Init PROVE ClientInv
    OBVIOUS
  <2>1. PlacesOK /\ Warm
    BY DEF Init, PlacesOK, Warm
  <2>2. ASSUME NEW r \in Requests
        PROVE Resolved(query[r], pc[r], found[r]) /\ Answered(query[r], answer[r])
    <3>1. pc[r] = "idle" /\ answer[r] = NoAnswer
      BY DEF Init
    <3> QED
      BY <3>1, NoValue DEF Resolved, Nests
  <2>3. RequestsOK
    BY <2>2 DEF Init, RequestsOK
  <2> QED
    BY <2>1, <2>3, CacheInit DEF ClientInv
<1>2. ClientInv /\ [Next]_vars => ClientInv'
  BY CacheStep, PlacesStep, WarmStep, RequestsStep DEF ClientInv
<1> QED
  BY <1>1, <1>2, PTL DEF Spec

\* The server starts only once `updates` was signalled, so no caller is ever
\* told CacheEmpty.
THEOREM CacheIsNeverEmpty == Spec => []NeverCacheEmpty
<1>1. ClientInv => NeverCacheEmpty
  BY DEF ClientInv, RequestsOK, Answered, NeverCacheEmpty
<1> QED
  BY <1>1, ClientInvariant, PTL

\* Whatever was evicted or appended between the steps of a request, its answer
\* is about what was asked for, and about finalized blocks only.
THEOREM AnswersAreTrue == Spec => []AnswersMatchTheChain
<1>1. ClientInv => AnswersMatchTheChain
  BY DEF ClientInv, RequestsOK, Answered, AnswersMatchTheChain
<1> QED
  BY <1>1, ClientInvariant, PTL

-----------------------------------------------------------------------------
\* What is reported missing.

\* Only its own handler finishes a request, or its caller.
LEMMA FinishedByItself ==
  ASSUME ClientInv, [Next]_vars, NEW r \in Requests, Finishes(r)
  PROVE  (Hangup(r) \/ Handle(r)) /\ query[r] \in Queries /\ buffer # <<>>
<1>1. PlacesOK /\ RequestsOK /\ pc[r] # "idle" /\ pc'[r] = "idle"
  BY DEF ClientInv, Finishes
<1>2. pc' # pc
  BY <1>1
<1>3. RequestStep
  BY <1>2 DEF Next, Finalize, Disconnect, Resubscribe, SubscriptionFails, SubscriberStep,
       Subscribe, NextBlock, PushBlock, ReceiptsFail, MainStep, MainProceeds, StartServer,
       FromUrlPanics, StartServerFails, SelfCheckLock, SelfCheck, SelfCheckFails,
       Exit, requestVars, vars
<1>4. PICK q \in Requests : Issue(q) \/ Hangup(q) \/ Handle(q)
  BY <1>3 DEF RequestStep
<1>5. q = r
  BY <1>1, <1>4, OtherRequests
<1>6. ~Issue(r)
  BY <1>1 DEF Issue
<1> QED
  BY <1>1, <1>4, <1>5, <1>6 DEF ClientInv, RequestsOK, Resolved, Nests, Warm

\* The responses that are not null.
LEMMA NotNull == Error # Null /\ NoAnswer # Null /\ \A x : Ok(x) # Null
<1>1. /\ Null.result = "null" /\ Error.result = "error" /\ NoAnswer.result = "none"
      /\ \A x : Ok(x).result = "ok"
  BY DEF Null, Error, NoAnswer, Ok
<1> QED
  BY <1>1

\* The answer that a request is given is the one it has.
LEMMA AnswerGiven ==
  ASSUME RequestsOK, NEW r \in Requests, NEW a, Respond(r, a)
  PROVE  answer'[r] = a
  BY DEF RequestsOK, Respond

\* A block that is reported missing is not finalized.
LEMMA MissingBlock ==
  ASSUME ClientInv, [Next]_vars, NEW r \in Requests, Finishes(r), answer'[r] = Null
  PROVE  /\ query[r].method = "block_by_hash" => NumberOf[query[r].at] > head
         /\ query[r].method \in ByNumberMethods /\ query[r].at # Latest /\ pc[r] # "lookup"
              => query[r].at > head
<1> DEFINE q == query[r]
           b == found[r]
<1>1. /\ Hangup(r) \/ Handle(r)
      /\ q \in Queries /\ buffer # <<>>
      /\ PlacesOK /\ RequestsOK /\ CacheInv /\ Resolved(q, pc[r], b) /\ pc'[r] # pc[r]
      /\ pc'[r] = "idle"
  BY FinishedByItself DEF ClientInv, RequestsOK, Finishes
<1>2. \A p, c : Goto(r, p, c) => p = "idle"
  BY <1>1 DEF Goto, PlacesOK
<1>3. \A a : Respond(r, a) => a = Null
  BY <1>1, AnswerGiven
<1>4. ~Hangup(r)
  BY <1>3, NotNull DEF Hangup
<1>5. ~ReadLock(r)
  BY <1>1 DEF ReadLock, requestVars
<1>6. ~LatestBlock(r)
  <2>1. Cache!LatestBlock # None /\ AfterBlock(q) # "idle"
    BY <1>1, ClientFinds DEF AfterBlock
  <2> QED
    BY <1>2, <2>1 DEF LatestBlock
<1>7. ~BlockByNumber(r) /\ ~GetBlockHash(r) /\ ~BlockByHash(r)
  BY <1>2 DEF BlockByNumber, GetBlockHash, BlockByHash, WithHash, AfterBlock
<1>8. ~NodeCall(r)
  BY <1>2, <1>3, NotNull DEF NodeCall
<1>9. CASE ChainGetBlockHash(r)
  <2>1. q.at > head \/ WithHash(r, BlockAt(q.at)) \/ Respond(r, Error)
    BY <1>9 DEF ChainGetBlockHash
  <2>2. ~WithHash(r, BlockAt(q.at)) /\ ~Respond(r, Error)
    BY <1>2, <1>3, NotNull DEF WithHash
  <2>3. q.method \in ByNumberMethods \cup {"state_at"}
    BY <1>1, <1>9 DEF ChainGetBlockHash, Resolved, Nests
  <2> QED
    BY <2>1, <2>2, <2>3 DEF ByNumberMethods
<1>10. CASE BlocksAt(r)
  <2>1. NumberOf[b] > head \/ Goto(r, AfterBlock(q), b) \/ Respond(r, Error)
    BY <1>10 DEF BlocksAt
  <2>2. ~Goto(r, AfterBlock(q), b) /\ ~Respond(r, Error)
    BY <1>2, <1>3, NotNull DEF AfterBlock
  <2>3. Matches(q, b)
    BY <1>1, <1>10 DEF BlocksAt, Resolved, Nests
  <2> QED
    BY <2>1, <2>2, <2>3 DEF Matches, ByNumberMethods
<1>11. CASE Lookup(r)
  <2>1. pc[r] = "lookup" /\ q.method # "block_by_hash"
    BY <1>1, <1>11 DEF Lookup, Resolved, Nests
  <2> QED
    BY <2>1
<1> QED
  BY <1>1, <1>4, <1>5, <1>6, <1>7, <1>8, <1>9, <1>10, <1>11 DEF Handle

\* `block_by_number` and `block_by_hash` fall back to the node: a finalized
\* block is never reported missing, in the cache or not.
THEOREM BlocksFoundAnywhere == Spec => FinalizedBlocksFound
<1>1. ClientInv /\ [Next]_vars =>
        [\A r \in Requests : Finishes(r) /\ answer'[r] = Null =>
           /\ query[r].method = "block_by_hash" => NumberOf[query[r].at] > head
           /\ query[r].method \in ByNumberMethods /\ query[r].at # Latest /\ pc[r] # "lookup"
                => query[r].at > head]_vars
  BY MissingBlock
<1> QED
  BY <1>1, ClientInvariant, PTL DEF Spec, FinalizedBlocksFound

\* The lookups find what a block has, if the maps index it.
LEMMA FoundIfIndexed ==
  ASSUME CacheInv, NEW b \in Buffered, b \in Window!Younger \/ Window!IndexesBuffer
  PROVE  /\ \A k \in IndicesOf(b) : Cache!ReceiptByHashAndIndex(b, k) # None
         /\ IndicesOf(b) # {} => Cache!ReceiptsCountPerBlock(b) # None
<1>1. b \in Window!Buffered /\ b \in Blocks /\ Window!TypeOK /\ Window!IndexesWindow
  BY DEF CacheInv, Buffered, Cache!Buffered, Window!Buffered, Window!TypeOK
<1>2. ASSUME NEW i \in EvmPositions(b)
      PROVE  Window!ReceiptByHashAndIndex(b, i - 1) # None
  <2>1. Window!ReceiptByHashAndIndex(b, i - 1) = Window!Receipt(b, i)
    <3>1. CASE b \in Window!Younger
      BY <1>1, <1>2, <3>1, WindowAssumptions, Window!YoungerFound, SameBlocks
    <3>2. CASE Window!IndexesBuffer
      BY <1>1, <1>2, <3>2, WindowAssumptions, Window!IndexedFound, SameBlocks
    <3> QED
      BY <3>1, <3>2
  <2>2. Window!Receipt(b, i) \in Window!Receipts
    BY <1>1, <1>2, WindowAssumptions, Window!ReceiptType, SameBlocks
  <2> QED
    BY <2>1, <2>2, WindowAssumptions DEF Window!NoneAssumption
<1>3. \A k \in IndicesOf(b) : Cache!ReceiptByHashAndIndex(b, k) # None
  BY <1>2, SameLookups DEF IndicesOf
<1>4. ASSUME NEW k \in IndicesOf(b) PROVE Cache!ReceiptsCountPerBlock(b) # None
  <2>1. Window!ReceiptsCountPerBlock(b) = Window!Cardinality(Window!IndicesOf(b))
    BY <1>1, <1>3, <1>4, WindowAssumptions, Window!FoundAtIndex, SameLookups
  <2>2. Cache!ReceiptsCountPerBlock(b) = Cardinality(EvmPositions(b))
    BY <1>1, <2>1, SameBlocks, SameCardinality, SameLookups, AsManyIndices
  <2>3. Cardinality(EvmPositions(b)) \in Nat
    <3>1. Len(Extrinsics[b]) \in Nat /\ EvmPositions(b) \subseteq 1..Len(Extrinsics[b])
      BY <1>1, ExtrinsicsAssumption DEF EvmPositions
    <3>2. IsFiniteSet(1..Len(Extrinsics[b]))
      BY <3>1, FS_Interval
    <3>3. IsFiniteSet(EvmPositions(b))
      BY <3>1, <3>2, FS_Subset
    <3> QED
      BY <3>3, FS_CardinalityType
  <2> QED
    BY <2>2, <2>3, CacheAssumption
<1> QED
  BY <1>3, <1>4

\* A transaction or a count that is reported missing is of a block outside the
\* window, or of its oldest block after a reconnection.
LEMMA MissingTransaction ==
  ASSUME ClientInv, GapsCounted, WholeWindow, [Next]_vars, NEW r \in Requests,
         pc[r] = "lookup", Finishes(r), answer'[r] = Null, Has(found[r], query[r])
  PROVE  found[r] \notin Buffered \/ (found[r] = Head(buffer) /\ disconnects > 0)
<1> DEFINE q == query[r]
           b == found[r]
<1>1. /\ Hangup(r) \/ Handle(r)
      /\ RequestsOK /\ CacheInv
  BY FinishedByItself DEF ClientInv
<1>2. \A a : Respond(r, a) => a = Null
  BY <1>1, AnswerGiven
<1>3. Lookup(r)
  <2>1. ~Hangup(r)
    BY <1>2, NotNull DEF Hangup
  <2>2. ~ReadLock(r)
    BY DEF ReadLock, requestVars, Finishes
  <2> QED
    BY <1>1, <2>1, <2>2 DEF Handle, LatestBlock, BlockByNumber, GetBlockHash, ChainGetBlockHash,
         BlockByHash, BlocksAt, NodeCall
<1>4. \/ /\ q.index \in IndicesOf(b)
         /\ Respond(r, OrNull(Cache!ReceiptByHashAndIndex(b, q.index)))
      \/ /\ IndicesOf(b) # {}
         /\ Respond(r, OrNull(Cache!ReceiptsCountPerBlock(b)))
  BY <1>3 DEF Lookup, Has
<1>5. \/ q.index \in IndicesOf(b) /\ Cache!ReceiptByHashAndIndex(b, q.index) = None
      \/ IndicesOf(b) # {} /\ Cache!ReceiptsCountPerBlock(b) = None
  BY <1>2, <1>4, NotNull DEF OrNull
<1> SUFFICES ASSUME b \in Buffered PROVE b = Head(buffer) /\ disconnects > 0
  OBVIOUS
<1>6. b \notin Window!Younger /\ ~Window!IndexesBuffer
  BY <1>1, <1>5, FoundIfIndexed
<1>7. b = Head(buffer)
  BY <1>6 DEF Window!Younger, Window!Buffered, Buffered, Cache!Buffered
<1>8. disconnects > 0
  BY <1>6 DEF WholeWindow, GapsCounted
<1> QED
  BY <1>7, <1>8

\* Transactions are served from the cache alone, and from all of it, but for the
\* oldest block after a reconnection.
THEOREM TransactionsFoundInWindow == Spec => TransactionMissedOnlyOutsideWindow
<1>1. ClientInv /\ GapsCounted /\ WholeWindow /\ [Next]_vars =>
        [\A r \in Requests :
           pc[r] = "lookup" /\ Finishes(r) /\ answer'[r] = Null /\ Has(found[r], query[r])
           => found[r] \notin Buffered \/ (found[r] = Head(buffer) /\ disconnects > 0)]_vars
  BY MissingTransaction
<1> QED
  BY <1>1, ClientInvariant, GapsInvariant, WholeWindowInvariant, PTL
     DEF Spec, TransactionMissedOnlyOutsideWindow

-----------------------------------------------------------------------------
\* The lock in the whole system: who holds it, and who waits with it in hand.

\* The subscriber holds or waits for the lock just while it handles a block, the
\* main task never asks for a second guard, and it panics only if the subscription
\* failed before the first block was cached.
TasksOK ==
  /\ writer # "idle" <=> subscriber = "receipts"
  /\ Main \in queued => guards[Main] = 0
  /\ main = "panicked" => subscriber = "stopped" /\ buffer = <<>>

\* What a step of a request may do to the lock.
LEMMA RequestLockStep ==
  ASSUME NEW r \in Requests, Issue(r) \/ Hangup(r) \/ Handle(r)
  PROVE  Lock!AcquireRead(r) \/ Lock!ReleaseRead(r) \/ Lock!Abandon(r) \/ UNCHANGED lockVars
BY DEF Issue, Hangup, Handle, ReadLock, LatestBlock, BlockByNumber, GetBlockHash, WithHash,
       ChainGetBlockHash, BlockByHash, BlocksAt, NodeCall, Lookup

\* A reader neither starts nor ends the writing, nor touches another reader.
LEMMA ReaderLockStep ==
  ASSUME Lock!LockTypeOK, NEW r \in Requests \cup {Main},
         Lock!AcquireRead(r) \/ Lock!ReleaseRead(r) \/ Lock!Abandon(r) \/ UNCHANGED lockVars
  PROVE  /\ writer' # "idle" <=> writer # "idle"
         /\ \A q \in (Requests \cup {Main}) \ {r} :
              guards'[q] = guards[q] /\ (q \in queued' <=> q \in queued)
<1> USE DEF Lock!LockTypeOK
<1>1. CASE Lock!AcquireRead(r)
  BY <1>1 DEF Lock!AcquireRead, Lock!GrantRead, Lock!QueueRead
<1>2. CASE Lock!ReleaseRead(r)
  BY <1>2 DEF Lock!ReleaseRead, Lock!DropGuards
<1>3. CASE Lock!Abandon(r)
  BY <1>3 DEF Lock!Abandon, Lock!DropGuards
<1>4. CASE UNCHANGED lockVars
  BY <1>4 DEF lockVars
<1> QED
  BY <1>1, <1>2, <1>3, <1>4

LEMMA TasksStep == ASSUME Lock!LockInv, TasksOK, [Next]_vars PROVE TasksOK'
<1> USE DEF TasksOK
<1>0. Lock!LockTypeOK /\ guards \in [Requests \cup {Main} -> Nat]
  BY DEF Lock!LockInv, Lock!LockTypeOK
<1>1. CASE UNCHANGED <<lockVars, subscriber, main, cacheVars>>
  BY <1>1 DEF lockVars, cacheVars
<1>2. CASE RequestStep
  <2>1. PICK r \in Requests : Issue(r) \/ Hangup(r) \/ Handle(r)
    BY <1>2 DEF RequestStep
  <2>2. UNCHANGED <<subscriber, main, buffer>>
    BY <1>2 DEF RequestStep, cacheVars
  <2>3. r # Main
    BY MainAssumption
  <2>4. /\ writer' # "idle" <=> writer # "idle"
        /\ guards'[Main] = guards[Main] /\ (Main \in queued' <=> Main \in queued)
    BY <1>0, <2>1, <2>3, RequestLockStep, ReaderLockStep
  <2> QED
    BY <2>2, <2>4
<1>3. CASE Running /\ SubscriptionFails
  BY <1>3 DEF Running, SubscriptionFails, lockVars, cacheVars
<1>4. CASE Running /\ SubscriberStep
  <2>1. CASE Subscribe
    BY <1>4, <2>1 DEF Running, Subscribe, lockVars, cacheVars
  <2>2. CASE NextBlock
    BY <1>4, <2>2 DEF Running, NextBlock, Lock!AcquireWrite
  <2>3. CASE PushBlock \/ ReceiptsFail
    BY <1>4, <2>3 DEF Running, PushBlock, ReceiptsFail, Lock!ReleaseWrite
  <2> QED
    BY <1>4, <2>1, <2>2, <2>3 DEF SubscriberStep
<1>5. CASE MainStep
  <2>1. CASE SelfCheckLock
    BY <1>0, <2>1 DEF SelfCheckLock, Lock!AcquireRead, Lock!GrantRead, Lock!QueueRead, cacheVars
  <2>2. CASE SelfCheck
    <3>1. writer' # "idle" <=> writer # "idle"
      BY <1>0, <2>2, ReaderLockStep DEF SelfCheck
    <3>2. Main \notin queued' /\ main' # "panicked" /\ UNCHANGED subscriber
      BY <2>2 DEF SelfCheck, Lock!ReleaseRead
    <3> QED
      BY <3>1, <3>2
  <2>3. CASE StartServer \/ StartServerFails \/ FromUrlPanics \/ SelfCheckFails \/ Exit
    BY <2>3 DEF StartServer, StartServerFails, FromUrlPanics, SelfCheckFails, Exit, lockVars,
         cacheVars
  <2> QED
    BY <1>5, <2>1, <2>2, <2>3 DEF MainStep, MainProceeds
<1>6. CASE Finalize \/ Disconnect \/ Resubscribe \/ UNCHANGED vars
  BY <1>1, <1>6 DEF Finalize, Disconnect, Resubscribe, vars
<1> QED
  BY <1>2, <1>3, <1>4, <1>5, <1>6 DEF Next

LEMMA TasksInvariant == Spec => []TasksOK
<1>1. Init => TasksOK
  BY DEF Init, TasksOK, Lock!LockInit
<1> QED
  BY <1>1, TasksStep, LockInvariant, PTL DEF Spec

\* The cache is never read while `subscribe_blocks` changes it, no wake-up of the
\* lock is lost, whatever becomes of the receipts the lock is let go, and whoever
\* queues for a guard with one in hand is in a nested read.
THEOREM CacheLockIsSafe == Spec => []CacheLockSafe
<1>1. ASSUME Lock!LockInv, TasksOK, NoGuardLeaks, ClientInv PROVE CacheLockSafe
  <2>1. ASSUME NEW r \in queued, guards[r] > 0 PROVE r \in Requests /\ Nests(query[r])
    <3>1. r \in Requests
      BY <1>1, <2>1 DEF Lock!LockInv, Lock!LockTypeOK, TasksOK
    <3>2. GuardsFit(r) /\ Resolved(query[r], pc[r], found[r])
      BY <1>1, <3>1 DEF NoGuardLeaks, ClientInv, RequestsOK
    <3>3. guards[r] = Outer(r) /\ Outer(r) # 0
      BY <2>1, <3>2 DEF GuardsFit, Outer
    <3> QED
      BY <3>1, <3>2, <3>3 DEF Outer, Resolved, Nests, ByNumberMethods
  <2> QED
    BY <1>1, <2>1 DEF Lock!LockInv, TasksOK, CacheLockSafe
<1> QED
  BY <1>1, LockInvariant, TasksInvariant, NoGuardLeaked, ClientInvariant, PTL

\* As long as nobody asks for a block by its number, no reader that the writer
\* waits for is itself waiting: the deadlock of nested reads is the only one.
THEOREM FlatReadsNeverBlock ==
  ASSUME \A q \in Queries : ~Nests(q)
  PROVE  Spec => [](writer = "waiting" => \E r \in (Requests \cup {Main}) \ queued : guards[r] > 0)
<1>1. ASSUME CacheLockSafe, ClientInv, Lock!LockInv, NoGuardLeaks, writer = "waiting"
      PROVE  \E r \in (Requests \cup {Main}) \ queued : guards[r] > 0
  <2>1. PICK r \in Requests \cup {Main} : guards[r] > 0
    BY <1>1 DEF CacheLockSafe, Lock!NobodyWaitsForNobody
  <2>2. ASSUME r \in queued PROVE FALSE
    <3>1. r \in Requests /\ Nests(query[r])
      BY <1>1, <2>1, <2>2 DEF CacheLockSafe
    <3>2. pc[r] # "idle" => query[r] \in Queries
      BY <1>1, <3>1 DEF ClientInv, RequestsOK, Resolved
    <3>3. pc[r] # "idle"
      BY <1>1, <2>1, <3>1 DEF NoGuardLeaks, GuardsFit
    <3> QED
      BY <3>1, <3>2, <3>3
  <2> QED
    BY <2>1, <2>2
<1> QED
  BY <1>1, CacheLockIsSafe, ClientInvariant, LockInvariant, NoGuardLeaked, PTL

-----------------------------------------------------------------------------
\* Requests get on.

\* StepsLeft as a function of a place, of whether its guard is held, and of
\* whether the request is queued.
Left(p, has, waits) == 3 * CallsLeft(p) - (IF has THEN 2 ELSE IF waits THEN 1 ELSE 0)

LEMMA CallsLeftType == ASSUME NEW p PROVE CallsLeft(p) \in 0..7
BY DEF CallsLeft

\* A later place leaves fewer steps, whoever holds what.
LEMMA LaterPlace ==
  ASSUME NEW p, NEW p2, CallsLeft(p2) < CallsLeft(p),
         NEW has, NEW has2, NEW waits, NEW waits2
  PROVE  Left(p2, has2, waits2) < Left(p, has, waits)
BY CallsLeftType DEF Left

\* So does a guard, or a place in the queue, at the same place.
LEMMA SamePlace ==
  ASSUME NEW p
  PROVE  /\ \A waits : Left(p, TRUE, waits) < Left(p, FALSE, FALSE)
         /\ \A waits : Left(p, TRUE, waits) < Left(p, FALSE, TRUE)
         /\ Left(p, FALSE, TRUE) < Left(p, FALSE, FALSE)
BY CallsLeftType DEF Left

\* Every step of a handler but asking for the lock is a step to a later place.
LEMMA HandlerGoesOn ==
  ASSUME PlacesOK, NEW r \in Requests, Hangup(r) \/ Handle(r), ~ReadLock(r), pc[r] # "idle"
  PROVE  CallsLeft(pc'[r]) < CallsLeft(pc[r])
<1> USE DEF PlacesOK
<1>1. ASSUME NEW a, Respond(r, a) PROVE CallsLeft(pc'[r]) < CallsLeft(pc[r])
  <2>1. pc'[r] = "idle" /\ pc[r] \in Locked \cup AtNode
    BY <1>1 DEF Respond
  <2> QED
    BY <2>1 DEF CallsLeft, Locked, AtNode
<1>2. ASSUME NEW p, NEW b, Goto(r, p, b), CallsLeft(p) < CallsLeft(pc[r])
      PROVE  CallsLeft(pc'[r]) < CallsLeft(pc[r])
  BY <1>2 DEF Goto
<1>3. \A q : CallsLeft(AfterBlock(q)) <= 2 /\ CallsLeft(AfterBlock(q)) \in Nat
  BY DEF AfterBlock, CallsLeft
<1>4. CASE Hangup(r) \/ Lookup(r)
  BY <1>1, <1>4 DEF Hangup, Lookup
<1>5. CASE LatestBlock(r)
  <2>1. CallsLeft(pc[r]) = 3 /\ CallsLeft("node_call") = 2
    BY <1>5 DEF LatestBlock, CallsLeft
  <2> QED
    BY <1>1, <1>2, <1>3, <1>5, <2>1 DEF LatestBlock
<1>6. CASE BlockByNumber(r)
  <2>1. CallsLeft(pc[r]) = 7 /\ CallsLeft("get_block_hash") = 6
    BY <1>6 DEF BlockByNumber, CallsLeft
  <2> QED
    BY <1>2, <1>3, <1>6, <2>1 DEF BlockByNumber
<1>7. ASSUME NEW b, WithHash(r, b), CallsLeft(pc[r]) \in {5, 6}
      PROVE  CallsLeft(pc'[r]) < CallsLeft(pc[r])
  <2>1. CallsLeft("node_call") = 2 /\ CallsLeft("block_by_hash") = 4
    BY DEF CallsLeft
  <2> QED
    BY <1>2, <1>7, <2>1 DEF WithHash
<1>8. CASE GetBlockHash(r)
  <2>1. CallsLeft(pc[r]) = 6 /\ CallsLeft("chain_get_block_hash") = 5
    BY <1>8 DEF GetBlockHash, CallsLeft
  <2> QED
    BY <1>2, <1>7, <1>8, <2>1 DEF GetBlockHash
<1>9. CASE ChainGetBlockHash(r)
  <2>1. CallsLeft(pc[r]) = 5
    BY <1>9 DEF ChainGetBlockHash, CallsLeft
  <2> QED
    BY <1>1, <1>7, <1>9, <2>1 DEF ChainGetBlockHash
<1>10. CASE BlockByHash(r)
  <2>1. CallsLeft(pc[r]) = 4 /\ CallsLeft("blocks_at") = 3
    BY <1>10 DEF BlockByHash, CallsLeft
  <2> QED
    BY <1>2, <1>3, <1>10, <2>1 DEF BlockByHash
<1>11. CASE BlocksAt(r)
  <2>1. CallsLeft(pc[r]) = 3
    BY <1>11 DEF BlocksAt, CallsLeft
  <2> QED
    BY <1>1, <1>2, <1>3, <1>11, <2>1 DEF BlocksAt
<1>12. CASE NodeCall(r)
  <2>1. CallsLeft(pc[r]) = 2 /\ CallsLeft("lookup") = 1
    BY <1>12 DEF NodeCall, CallsLeft
  <2> QED
    BY <1>1, <1>2, <1>12, <2>1 DEF NodeCall
<1> QED
  BY <1>4, <1>5, <1>6, <1>8, <1>9, <1>10, <1>11, <1>12 DEF Handle

\* Steps of the others leave a request as it is, or hand it the guard it queued for.
LEMMA OthersWait ==
  ASSUME PlacesOK, Lock!LockInv, NoGuardLeaks, [Next]_vars, NEW q \in Requests,
         \A r \in Requests : Issue(r) \/ Hangup(r) \/ Handle(r) => r # q
  PROVE  /\ pc'[q] = pc[q] /\ query'[q] = query[q]
         /\ \/ guards'[q] = guards[q] /\ (q \in queued' <=> q \in queued)
            \/ q \in queued /\ q \notin queued' /\ guards'[q] = guards[q] + 1
<1>0. Lock!LockTypeOK /\ q # Main
  BY MainAssumption DEF Lock!LockInv
<1>1. CASE RequestStep
  <2>1. PICK r \in Requests : Issue(r) \/ Hangup(r) \/ Handle(r)
    BY <1>1 DEF RequestStep
  <2>2. q \in Requests \ {r} /\ q \in (Requests \cup {Main}) \ {r}
    BY <2>1
  <2>3. pc'[q] = pc[q] /\ query'[q] = query[q]
    BY <2>1, <2>2, RequestMovesAlone
  <2>4. guards'[q] = guards[q] /\ (q \in queued' <=> q \in queued)
    BY <1>0, <2>1, <2>2, RequestLockStep, ReaderLockStep
  <2> QED
    BY <2>3, <2>4
<1>2. CASE /\ UNCHANGED requestVars
           /\ \/ UNCHANGED lockVars \/ Lock!AcquireWrite \/ Lock!ReleaseWrite
              \/ Lock!AcquireRead(Main) \/ Lock!ReleaseRead(Main)
  <2>1. pc'[q] = pc[q] /\ query'[q] = query[q]
    BY <1>2 DEF requestVars
  <2>2. CASE Lock!ReleaseWrite
    BY <1>0, <2>1, <2>2 DEF Lock!ReleaseWrite
  <2>3. CASE Lock!AcquireWrite
    BY <2>1, <2>3 DEF Lock!AcquireWrite
  <2>4. CASE UNCHANGED lockVars \/ Lock!AcquireRead(Main) \/ Lock!ReleaseRead(Main)
    BY <1>0, <2>1, <2>4, ReaderLockStep
  <2> QED
    BY <1>2, <2>2, <2>3, <2>4
<1>3. CASE Finalize \/ Disconnect \/ Resubscribe \/ SubscriptionFails \/ UNCHANGED vars
  BY <1>2, <1>3 DEF Finalize, Disconnect, Resubscribe, SubscriptionFails, vars
<1>4. CASE SubscriberStep
  BY <1>2, <1>4 DEF SubscriberStep, Subscribe, NextBlock, PushBlock, ReceiptsFail
<1>5. CASE MainStep
  BY <1>2, <1>5
     DEF MainStep, MainProceeds, StartServer, FromUrlPanics, StartServerFails,
         SelfCheckLock, SelfCheck, SelfCheckFails, Exit
<1> QED
  BY <1>1, <1>3, <1>4, <1>5 DEF Next

\* No handler goes in circles between the cache and the node: whatever happens to a
\* request under way leaves it fewer steps, whoever else reads or writes meanwhile.
THEOREM RequestsAlwaysGetOn == Spec => RequestsGetOn
<1> DEFINE GetsOn(r) == \/ UNCHANGED <<pc[r], guards[r], r \in queued>>
                        \/ StepsLeft(r)' < StepsLeft(r)
<1>1. ASSUME PlacesOK, Lock!LockInv, NoGuardLeaks, NoGuardLeaks', [Next]_vars,
             NEW r \in Requests, pc[r] # "idle"
      PROVE  GetsOn(r)
  <2>1. /\ StepsLeft(r) = Left(pc[r], HasGuard(r), r \in queued)
        /\ StepsLeft(r)' = Left(pc'[r], HasGuard(r)', r \in queued')
    BY DEF StepsLeft, Left
  <2>2. GuardsFit(r) /\ GuardsFit(r)' /\ Outer(r) \in {0, 1} /\ guards[r] \in Nat
    BY <1>1 DEF NoGuardLeaks, Outer, Lock!LockInv, Lock!LockTypeOK
  <2>3. CASE (Hangup(r) \/ Handle(r)) /\ ~ReadLock(r)
    <3>1. CallsLeft(pc'[r]) < CallsLeft(pc[r])
      BY <1>1, <2>3, HandlerGoesOn
    <3> QED
      BY <2>1, <3>1, LaterPlace
  <2>4. CASE ReadLock(r)
    <3>1. pc'[r] = pc[r] /\ query'[r] = query[r] /\ guards[r] = Outer(r) /\ r \notin queued
      BY <2>4 DEF ReadLock, requestVars, Lock!AcquireRead
    <3>2. Outer(r)' = Outer(r) /\ ~HasGuard(r)
      BY <2>2, <3>1 DEF Outer, HasGuard
    <3>3. \/ guards'[r] = Outer(r) + 1
          \/ guards'[r] = Outer(r) /\ r \in queued'
      BY <1>1, <2>4, <3>1
         DEF ReadLock, Lock!AcquireRead, Lock!GrantRead, Lock!QueueRead, Lock!LockInv,
             Lock!LockTypeOK
    <3>4. (HasGuard(r)' = TRUE) \/ (HasGuard(r)' = FALSE /\ (r \in queued') = TRUE)
      BY <2>2, <3>2, <3>3 DEF HasGuard
    <3>5. HasGuard(r) = FALSE /\ (r \in queued) = FALSE
      BY <3>1, <3>2 DEF HasGuard
    <3> QED
      BY <2>1, <3>1, <3>4, <3>5, SamePlace
  <2>5. CASE \A q \in Requests : Issue(q) \/ Hangup(q) \/ Handle(q) => q # r
    <3>1. /\ pc'[r] = pc[r] /\ query'[r] = query[r]
          /\ \/ guards'[r] = guards[r] /\ (r \in queued' <=> r \in queued)
             \/ r \in queued /\ r \notin queued' /\ guards'[r] = guards[r] + 1
      BY <1>1, <2>5, OthersWait
    <3>2. CASE guards'[r] = guards[r] /\ (r \in queued' <=> r \in queued)
      BY <3>1, <3>2
    <3>3. CASE r \in queued /\ r \notin queued' /\ guards'[r] = guards[r] + 1
      <4>1. guards[r] = Outer(r) /\ Outer(r)' = Outer(r)
        BY <2>2, <3>1, <3>3 DEF GuardsFit, Outer
      <4>2. HasGuard(r) = FALSE /\ HasGuard(r)' = TRUE /\ (r \in queued) = TRUE
        BY <2>2, <3>3, <4>1 DEF HasGuard
      <4> QED
        BY <2>1, <3>1, <4>2, SamePlace
    <3> QED
      BY <3>1, <3>2, <3>3
  <2>6. ~Issue(r)
    BY <1>1 DEF Issue
  <2> QED
    BY <2>3, <2>4, <2>5, <2>6 DEF Handle
<1>2. PlacesOK /\ Lock!LockInv /\ NoGuardLeaks /\ NoGuardLeaks' /\ [Next]_vars
        => [\A r \in Requests : pc[r] # "idle" => GetsOn(r)]_vars
  BY <1>1
<1> QED
  BY <1>2, PlacesInvariant, LockInvariant, NoGuardLeaked, PTL DEF Spec, RequestsGetOn

\* The writer of the cache is overtaken by no request: guards taken before it asked
\* are all it ever waits for.
THEOREM SubscriberNotOvertaken == Spec => Lock!NoOvertaking
  BY UsesLockProperly, Lock!WriterNotOvertaken DEF ImplementsRwLock

\* The `expect` in `from_url` panics only if the subscription failed before the
\* first block was cached; a subscription that failed stays down and leaves the lock
\* free; and a server that is up ends for no other reason.
THEOREM FailedSubscriptionStops == Spec => StopsForGood
<1> DEFINE Stays == /\ subscriber = "stopped" =>
                         subscriber' = "stopped" /\ writer' = "idle" /\ queued' = {}
                    /\ main = "serving" => main' = "serving" \/ subscriber = "stopped"
<1>1. ASSUME TasksOK', Lock!LockInv', Next PROVE Stays
  <2>1. subscriber = "stopped" => subscriber' = "stopped"
    BY <1>1 DEF Next, Finalize, Disconnect, Resubscribe, SubscriptionFails, SubscriberStep,
       Subscribe, NextBlock, PushBlock, ReceiptsFail, MainStep, MainProceeds, StartServer,
       FromUrlPanics, StartServerFails, SelfCheckLock, SelfCheck, SelfCheckFails, Exit,
       RequestStep, vars
  <2>2. subscriber' = "stopped" => writer' = "idle" /\ queued' = {}
    BY <1>1 DEF TasksOK, Lock!LockInv, Lock!NobodyWaitsForNobody
  <2>3. main = "serving" => main' = "serving" \/ subscriber = "stopped"
    BY <1>1 DEF Next, Finalize, Disconnect, Resubscribe, SubscriptionFails, SubscriberStep,
       Subscribe, NextBlock, PushBlock, ReceiptsFail, MainStep, MainProceeds, StartServer,
       FromUrlPanics, StartServerFails, SelfCheckLock, SelfCheck, SelfCheckFails, Exit,
       RequestStep, vars
  <2> QED
    BY <2>1, <2>2, <2>3
<1>2. TasksOK' /\ Lock!LockInv' /\ [Next]_vars => [Stays]_vars
  BY <1>1
<1>3. TasksOK => (main = "panicked" => subscriber = "stopped" /\ buffer = <<>>)
  BY DEF TasksOK
<1> QED
  <2>1. Spec => [](main = "panicked" => subscriber = "stopped" /\ buffer = <<>>)
    BY <1>3, TasksInvariant, PTL
  <2>2. Spec => [][Stays]_vars
    BY <1>2, TasksInvariant, LockInvariant, PTL DEF Spec
  <2> QED
    BY <2>1, <2>2 DEF StopsForGood
=============================================================================
