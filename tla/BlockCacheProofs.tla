-------------------------- MODULE BlockCacheProofs --------------------------
(***************************************************************************)
(* Proofs about BlockCache, for every chain, every N and every content of  *)
(* the blocks.                                                             *)
(***************************************************************************)
EXTENDS BlockCache, TLAPS

-----------------------------------------------------------------------------
\* The receipts of a block.

\* What the assumption on the extrinsics says of one position of a block.
LEMMA ExtrinsicType ==
  ASSUME NEW b \in Blocks, NEW i \in 1..Len(Extrinsics[b])
  PROVE  Extrinsics[b][i] \in Extrinsic /\ Extrinsics[b][i].hash \in TxHashes
<1>1. Extrinsics[b] \in Seq(Extrinsic)
  BY ExtrinsicsAssumption
<1>2. Extrinsics[b][i] \in Extrinsic
  BY <1>1
<1> QED
  BY <1>2 DEF Extrinsic

\* A transaction hash determines its block and its position.
LEMMA HashNamesPosition ==
  ASSUME NEW b \in Blocks, NEW c \in Blocks,
         NEW i \in EvmPositions(b), NEW j \in EvmPositions(c),
         Extrinsics[b][i].hash = Extrinsics[c][j].hash
  PROVE  b = c /\ i = j
  BY ExtrinsicsAssumption DEF EvmPositions

\* Receipts and hashes have their types.
LEMMA ReceiptType ==
  ASSUME NEW b \in Blocks, NEW i \in EvmPositions(b)
  PROVE  /\ Receipt(b, i) \in Receipts
         /\ Extrinsics[b][i].hash \in TxsOf(b)
         /\ Extrinsics[b][i].hash \in TxHashes
<1>1. i \in 1..Len(Extrinsics[b]) /\ i - 1 \in Nat
  <2>1. Len(Extrinsics[b]) \in Nat
    BY ExtrinsicsAssumption
  <2> QED
    BY <2>1 DEF EvmPositions
<1>2. Extrinsics[b][i].hash \in TxHashes
  BY <1>1, ExtrinsicType
<1>3. NumberOf[b] \in Nat
  BY NumberOfAssumption
<1> QED
  BY <1>1, <1>2, <1>3 DEF Receipt, Receipts, TxsOf

\* `receipt_infos` returns the receipt of each EVM extrinsic under its hash.
LEMMA ReceiptsOfBlock ==
  ASSUME NEW b \in Blocks
  PROVE  /\ DOMAIN ReceiptsOf(b) = TxsOf(b)
         /\ \A i \in EvmPositions(b) : ReceiptsOf(b)[Extrinsics[b][i].hash] = Receipt(b, i)
<1>1. ASSUME NEW i \in EvmPositions(b)
      PROVE  PositionOf(b, Extrinsics[b][i].hash) = i
  BY HashNamesPosition DEF PositionOf
<1> QED
  BY <1>1 DEF ReceiptsOf, TxsOf

\* The map of receipts is typed.
LEMMA ReceiptsOfType ==
  ASSUME NEW b \in Blocks
  PROVE  /\ DOMAIN ReceiptsOf(b) \subseteq TxHashes
         /\ \A t \in DOMAIN ReceiptsOf(b) : ReceiptsOf(b)[t] \in Receipts
<1> SUFFICES ASSUME NEW t \in TxsOf(b)
             PROVE  t \in TxHashes /\ ReceiptsOf(b)[t] \in Receipts
  BY ReceiptsOfBlock
<1>1. PICK i \in EvmPositions(b) : t = Extrinsics[b][i].hash
  BY DEF TxsOf
<1> QED
  BY <1>1, ReceiptsOfBlock, ReceiptType

-----------------------------------------------------------------------------
\* Each map keeps indexing its set of blocks when a block is added or removed.

LEMMA AddNumber ==
  ASSUME NEW S \in SUBSET Blocks, NEW m, IndexesNumbers(S, m), NEW b \in Blocks
  PROVE  IndexesNumbers(S \cup {b}, With(m, NumberOf[b], b))
  BY NumberOfAssumption DEF IndexesNumbers, With

LEMMA RemoveNumber ==
  ASSUME NEW S \in SUBSET Blocks, NEW m, IndexesNumbers(S, m), NEW c \in Blocks
  PROVE  IndexesNumbers(S \ {c}, Without(m, {NumberOf[c]}))
  BY NumberOfAssumption DEF IndexesNumbers, Without

LEMMA AddHash ==
  ASSUME NEW S \in SUBSET Blocks, NEW m, IndexesHashes(S, m), NEW b \in Blocks
  PROVE  IndexesHashes(S \cup {b}, With(m, b, b))
  BY DEF IndexesHashes, With

LEMMA RemoveHash ==
  ASSUME NEW S \in SUBSET Blocks, NEW m, IndexesHashes(S, m), NEW c \in Blocks
  PROVE  IndexesHashes(S \ {c}, Without(m, {c}))
  BY DEF IndexesHashes, Without

LEMMA AddReceipts ==
  ASSUME NEW S \in SUBSET Blocks, NEW m, IndexesReceipts(S, m), NEW b \in Blocks
  PROVE  IndexesReceipts(S \cup {b}, Extended(m, ReceiptsOf(b)))
<1> DEFINE m2 == Extended(m, ReceiptsOf(b))
<1>1. DOMAIN m2 = UNION {TxsOf(c) : c \in S \cup {b}}
  BY ReceiptsOfBlock DEF IndexesReceipts, Extended
<1>2. ASSUME NEW c \in S \cup {b}, NEW i \in EvmPositions(c)
      PROVE  m2[Extrinsics[c][i].hash] = Receipt(c, i)
  <2> DEFINE t == Extrinsics[c][i].hash
  <2>1. t \in TxsOf(c) /\ t \in DOMAIN m2
    BY <1>1, ReceiptType
  <2>2. CASE t \in TxsOf(b)
    <3>1. PICK j \in EvmPositions(b) : t = Extrinsics[b][j].hash
      BY <2>2 DEF TxsOf
    <3>2. c = b /\ i = j
      BY <3>1, HashNamesPosition
    <3> QED
      BY <2>1, <2>2, <3>2, ReceiptsOfBlock DEF Extended
  <2>3. CASE t \notin TxsOf(b)
    <3>1. c \in S
      BY <2>1, <2>3
    <3> QED
      BY <2>1, <2>3, <3>1, ReceiptsOfBlock DEF Extended, IndexesReceipts
  <2> QED
    BY <2>2, <2>3
<1> QED
  BY <1>1, <1>2 DEF IndexesReceipts

LEMMA RemoveReceipts ==
  ASSUME NEW S \in SUBSET Blocks, NEW m, IndexesReceipts(S, m), NEW c \in Blocks
  PROVE  IndexesReceipts(S \ {c}, Without(m, TxsOf(c)))
<1> DEFINE m2 == Without(m, TxsOf(c))
<1>1. ASSUME NEW b \in Blocks, b # c, NEW t \in TxsOf(b)
      PROVE  t \notin TxsOf(c)
  BY <1>1, HashNamesPosition DEF TxsOf
<1>2. DOMAIN m2 = UNION {TxsOf(b) : b \in S \ {c}}
  BY <1>1 DEF IndexesReceipts, Without
<1>3. ASSUME NEW b \in S \ {c}, NEW i \in EvmPositions(b)
      PROVE  m2[Extrinsics[b][i].hash] = Receipt(b, i)
  BY <1>2, ReceiptType DEF IndexesReceipts, Without
<1> QED
  BY <1>2, <1>3 DEF IndexesReceipts

LEMMA AddPositions ==
  ASSUME NEW S \in SUBSET Blocks, NEW m, IndexesPositions(S, m), NEW b \in Blocks
  PROVE  IndexesPositions(S \cup {b},
                          IF TxsOf(b) = {} THEN m ELSE With(m, b, HashesByIndex(b)))
  BY DEF IndexesPositions, With

LEMMA RemovePositions ==
  ASSUME NEW S \in SUBSET Blocks, NEW m, IndexesPositions(S, m), NEW c \in Blocks
  PROVE  IndexesPositions(S \ {c}, Without(m, {c}))
  BY DEF IndexesPositions, Without

\* What pruning block `c` removes are its transactions.
LEMMA PrunedAreItsOwn ==
  ASSUME NEW S \in SUBSET Blocks, NEW m, IndexesPositions(S, m), NEW c \in S
  PROVE  PrunedTxs(m, c) = TxsOf(c)
<1>1. CASE TxsOf(c) = {}
  BY <1>1 DEF IndexesPositions, PrunedTxs
<1>2. CASE TxsOf(c) # {}
  <2>1. PrunedTxs(m, c) = {HashesByIndex(c)[k] : k \in IndicesOf(c)}
    BY <1>2 DEF IndexesPositions, PrunedTxs, HashesByIndex
  <2>2. \A i \in EvmPositions(c) : i \in Int /\ i - 1 \in IndicesOf(c) /\ (i - 1) + 1 = i
    BY ExtrinsicsAssumption DEF EvmPositions, IndicesOf
  <2>3. \A k \in IndicesOf(c) : k + 1 \in EvmPositions(c)
    BY ExtrinsicsAssumption DEF EvmPositions, IndicesOf
  <2> QED
    BY <2>1, <2>2, <2>3 DEF HashesByIndex, TxsOf
<1> QED
  BY <1>1, <1>2

-----------------------------------------------------------------------------
\* Type correctness.

\* The buffer after a push, in both branches of `insert`.
LEMMA BufferAfterPush ==
  ASSUME buffer \in Seq(Blocks), Len(buffer) <= N, NEW b \in Blocks, Push(b)
  PROVE  /\ buffer' \in Seq(Blocks) /\ Len(buffer') <= N /\ Len(buffer') > 0
         /\ buffer'[Len(buffer')] = b
         /\ Len(buffer) < N => buffer' = Append(buffer, b)
         /\ Len(buffer) >= N => /\ buffer # <<>> /\ Head(buffer) \in Blocks
                                /\ buffer' = Append(Tail(buffer), b)
  BY NAssumption DEF Push, InsertIntoSpace, PruneAndInsert

\* A map from indices to hashes, as `receipt_hashes_by_block_and_index` holds.
IsPositionMap(m) == \A k \in DOMAIN m : k \in Nat /\ m[k] \in TxHashes

LEMMA HashesByIndexType ==
  ASSUME NEW b \in Blocks
  PROVE  IsPositionMap(HashesByIndex(b))
<1> SUFFICES ASSUME NEW k \in IndicesOf(b)
             PROVE  k \in Nat /\ Extrinsics[b][k + 1].hash \in TxHashes
  BY DEF IsPositionMap, HashesByIndex
<1>1. PICK i \in EvmPositions(b) : k = i - 1
  BY DEF IndicesOf
<1>2. i \in 1..Len(Extrinsics[b]) /\ Len(Extrinsics[b]) \in Nat
  BY ExtrinsicsAssumption DEF EvmPositions
<1> QED
  BY <1>1, <1>2, ReceiptType

\* Each map keeps its type in a push.
LEMMA TypeOKPush ==
  ASSUME TypeOK, NEW b \in Blocks, Push(b)
  PROVE  TypeOK'
<1> USE DEF TypeOK
<1> DEFINE ER == ExtendedReceipts(b)
           EH == ExtendedHashes(b)
<1>1. buffer' \in Seq(Blocks) /\ Len(buffer') <= N
  BY BufferAfterPush
<1>2. NumberOf[b] \in Nat
  BY NumberOfAssumption
<1>3. DOMAIN ER \subseteq TxHashes /\ \A t \in DOMAIN ER : ER[t] \in Receipts
  BY ReceiptsOfType DEF ExtendedReceipts, Extended
<1>4. DOMAIN EH \subseteq Blocks /\ \A h \in DOMAIN EH : IsPositionMap(EH[h])
  BY HashesByIndexType DEF ExtendedHashes, With, IsPositionMap
<1>5. CASE InsertIntoSpace(b)
  <2>1. /\ DOMAIN blocks_by_number' \subseteq Nat
        /\ \A n \in DOMAIN blocks_by_number' : blocks_by_number'[n] \in Blocks
    BY <1>2, <1>5 DEF InsertIntoSpace, With
  <2>2. /\ DOMAIN blocks_by_hash' \subseteq Blocks
        /\ \A h \in DOMAIN blocks_by_hash' : blocks_by_hash'[h] \in Blocks
    BY <1>5 DEF InsertIntoSpace, With
  <2>3. /\ DOMAIN receipts_by_hash' \subseteq TxHashes
        /\ \A t \in DOMAIN receipts_by_hash' : receipts_by_hash'[t] \in Receipts
    BY <1>3, <1>5 DEF InsertIntoSpace
  <2>4. /\ DOMAIN receipt_hashes_by_block_and_index' \subseteq Blocks
        /\ \A h \in DOMAIN receipt_hashes_by_block_and_index' :
             IsPositionMap(receipt_hashes_by_block_and_index'[h])
    BY <1>4, <1>5 DEF InsertIntoSpace
  <2> QED
    BY <1>1, <2>1, <2>2, <2>3, <2>4 DEF IsPositionMap
<1>6. CASE PruneAndInsert(b)
  <2>1. /\ DOMAIN blocks_by_number' \subseteq Nat
        /\ \A n \in DOMAIN blocks_by_number' : blocks_by_number'[n] \in Blocks
    BY <1>2, <1>6 DEF PruneAndInsert, With, Without
  <2>2. /\ DOMAIN blocks_by_hash' \subseteq Blocks
        /\ \A h \in DOMAIN blocks_by_hash' : blocks_by_hash'[h] \in Blocks
    BY <1>6 DEF PruneAndInsert, With, Without
  <2>3. /\ DOMAIN receipts_by_hash' \subseteq TxHashes
        /\ \A t \in DOMAIN receipts_by_hash' : receipts_by_hash'[t] \in Receipts
    BY <1>3, <1>6 DEF PruneAndInsert, Without
  <2>4. /\ DOMAIN receipt_hashes_by_block_and_index' \subseteq Blocks
        /\ \A h \in DOMAIN receipt_hashes_by_block_and_index' :
             IsPositionMap(receipt_hashes_by_block_and_index'[h])
    BY <1>4, <1>6 DEF PruneAndInsert, Without
  <2> QED
    BY <1>1, <2>1, <2>2, <2>3, <2>4 DEF IsPositionMap
<1> QED
  BY <1>5, <1>6 DEF Push

\* The cache holds blocks, receipts and hashes where it should, and never more
\* than N blocks, under redelivery too.
THEOREM TypeCorrect == Spec => []TypeOK
<1>1. Init => TypeOK
  BY NAssumption DEF Init, TypeOK, EmptyMap
<1>2. TypeOK /\ [Next]_vars => TypeOK'
  <2> SUFFICES ASSUME TypeOK, [Next]_vars PROVE TypeOK'
    OBVIOUS
  <2>1. CASE UNCHANGED vars
    BY <2>1 DEF TypeOK, vars
  <2>2. CASE Next
    BY <2>2, TypeOKPush DEF Next
  <2> QED
    BY <2>1, <2>2
<1> QED
  BY <1>1, <1>2, PTL DEF Spec

-----------------------------------------------------------------------------
\* Consistency of the maps with the buffer, when no block is delivered twice.

InChainOrder(s) == \A i, j \in 1..Len(s) : i < j => NumberOf[s[i]] < NumberOf[s[j]]

\* Appending a block keeps the buffer in chain order.
LEMMA AppendInOrder ==
  ASSUME NEW s \in Seq(Blocks), InChainOrder(s), NEW b \in Blocks,
         s # <<>> => NumberOf[b] > NumberOf[s[Len(s)]]
  PROVE  /\ InChainOrder(Append(s, b))
         /\ {Append(s, b)[i] : i \in 1..Len(Append(s, b))} = {s[i] : i \in 1..Len(s)} \cup {b}
         /\ b \notin {s[i] : i \in 1..Len(s)}
<1>1. \A i \in 1..Len(s) : s[i] \in Blocks /\ NumberOf[s[i]] \in Nat
  BY NumberOfAssumption
<1>2. NumberOf[b] \in Nat
  BY NumberOfAssumption
<1>3. \A i \in 1..Len(s) : NumberOf[s[i]] < NumberOf[b]
  <2> SUFFICES ASSUME NEW i \in 1..Len(s) PROVE NumberOf[s[i]] < NumberOf[b]
    OBVIOUS
  <2>1. Len(s) \in 1..Len(s) /\ s # <<>>
    OBVIOUS
  <2>2. CASE i = Len(s)
    BY <1>1, <1>2, <2>1, <2>2
  <2>3. CASE i < Len(s)
    <3>1. NumberOf[s[i]] < NumberOf[s[Len(s)]]
      BY <2>1, <2>3 DEF InChainOrder
    <3> QED
      BY <1>1, <1>2, <2>1, <3>1
  <2> QED
    BY <2>2, <2>3
<1>4. InChainOrder(Append(s, b))
  BY <1>1, <1>2, <1>3 DEF InChainOrder
<1>5. b \notin {s[i] : i \in 1..Len(s)}
  BY <1>1, <1>2, <1>3
<1>6. {Append(s, b)[i] : i \in 1..Len(Append(s, b))} = {s[i] : i \in 1..Len(s)} \cup {b}
  <2> DEFINE t == Append(s, b)
  <2>1. Len(t) = Len(s) + 1 /\ t[Len(s) + 1] = b /\ \A i \in 1..Len(s) : t[i] = s[i]
    OBVIOUS
  <2>2. 1..Len(t) = 1..Len(s) \cup {Len(s) + 1}
    BY <2>1
  <2> HIDE DEF t
  <2> QED
    BY <2>1, <2>2
<1> QED
  BY <1>4, <1>5, <1>6

\* Removing the oldest block removes it from the set of buffered blocks.
LEMMA TailInOrder ==
  ASSUME NEW s \in Seq(Blocks), s # <<>>, InChainOrder(s)
  PROVE  /\ Tail(s) \in Seq(Blocks)
         /\ InChainOrder(Tail(s))
         /\ {Tail(s)[i] : i \in 1..Len(Tail(s))} = {s[i] : i \in 1..Len(s)} \ {Head(s)}
         /\ Tail(s) # <<>> => Tail(s)[Len(Tail(s))] = s[Len(s)]
<1> DEFINE t == Tail(s)
<1>1. /\ t \in Seq(Blocks) /\ Len(t) = Len(s) - 1
      /\ \A i \in 1..Len(t) : t[i] = s[i + 1]
      /\ Head(s) = s[1] /\ Len(s) \in Nat /\ Len(s) > 0
      /\ t # <<>> => Len(t) > 0
  OBVIOUS
<1>2. \A i \in 1..Len(s) : NumberOf[s[i]] \in Nat
  BY NumberOfAssumption
<1> HIDE DEF t
<1>3. InChainOrder(t)
  BY <1>1 DEF InChainOrder
<1>4. \A i \in 2..Len(s) : s[i] # s[1]
  BY <1>1, <1>2 DEF InChainOrder
<1>5. {t[i] : i \in 1..Len(t)} = {s[i] : i \in 2..Len(s)}
  <2>1. \A i \in 2..Len(s) : i - 1 \in 1..Len(t) /\ t[i - 1] = s[i]
    BY <1>1
  <2>2. \A i \in 1..Len(t) : i + 1 \in 2..Len(s) /\ t[i] = s[i + 1]
    BY <1>1
  <2> DEFINE T == {t[i] : i \in 1..Len(t)}
             S == {s[i] : i \in 2..Len(s)}
  <2>3. ASSUME NEW x \in T PROVE x \in S
    <3>1. PICK i \in 1..Len(t) : x = t[i]
      OBVIOUS
    <3> QED
      BY <2>2, <3>1
  <2>4. ASSUME NEW x \in S PROVE x \in T
    <3>1. PICK i \in 2..Len(s) : x = s[i]
      OBVIOUS
    <3> QED
      BY <2>1, <3>1
  <2> QED
    BY <2>3, <2>4
<1>6. {s[i] : i \in 2..Len(s)} = {s[i] : i \in 1..Len(s)} \ {s[1]}
  <2>1. 1..Len(s) = {1} \cup 2..Len(s)
    BY <1>1
  <2> QED
    BY <1>4, <2>1
<1>7. t # <<>> => t[Len(t)] = s[Len(s)]
  BY <1>1
<1> QED
  BY <1>1, <1>3, <1>5, <1>6, <1>7 DEF t

\* A push of a block that follows the newest one keeps every map in step.
LEMMA IndexesBufferPush ==
  ASSUME TypeOK, IndexesBuffer, NEW b \in Blocks, Push(b),
         buffer # <<>> => NumberOf[b] > NumberOf[LatestBlock]
  PROVE  IndexesBuffer'
<1>1. buffer \in Seq(Blocks) /\ InChainOrder(buffer) /\ Buffered \in SUBSET Blocks
  BY DEF TypeOK, IndexesBuffer, InChainOrder, Buffered
<1>2. buffer # <<>> => NumberOf[b] > NumberOf[buffer[Len(buffer)]]
  BY DEF LatestBlock
<1>3. /\ IndexesReceipts(Buffered \cup {b}, ExtendedReceipts(b))
      /\ IndexesPositions(Buffered \cup {b}, ExtendedHashes(b))
  BY <1>1, AddReceipts, AddPositions DEF IndexesBuffer, ExtendedReceipts, ExtendedHashes
<1>4. CASE InsertIntoSpace(b)
  <2>1. InChainOrder(buffer') /\ Buffered' = Buffered \cup {b}
    BY <1>1, <1>2, <1>4, AppendInOrder DEF InsertIntoSpace, Buffered
  <2>2. IndexesNumbers(Buffered', blocks_by_number')
    BY <1>1, <1>4, <2>1, AddNumber DEF IndexesBuffer, InsertIntoSpace
  <2>3. IndexesHashes(Buffered', blocks_by_hash')
    BY <1>1, <1>4, <2>1, AddHash DEF IndexesBuffer, InsertIntoSpace
  <2>4. /\ IndexesReceipts(Buffered', receipts_by_hash')
        /\ IndexesPositions(Buffered', receipt_hashes_by_block_and_index')
    BY <1>3, <1>4, <2>1 DEF InsertIntoSpace
  <2> QED
    BY <2>1, <2>2, <2>3, <2>4 DEF IndexesBuffer, InChainOrder
<1>5. CASE PruneAndInsert(b)
  <2> DEFINE c == Head(buffer)
  <2>1. Len(buffer) >= N /\ buffer # <<>> /\ c \in Buffered /\ c \in Blocks
    <3>1. Len(buffer) >= N
      BY <1>5 DEF PruneAndInsert
    <3>2. Len(buffer) > 0 /\ 1 \in 1..Len(buffer) /\ c = buffer[1]
      BY <1>1, <3>1, NAssumption
    <3> QED
      BY <1>1, <3>1, <3>2 DEF Buffered
  <2>2. b \notin Buffered
    BY <1>1, <1>2, AppendInOrder DEF Buffered
  <2>3. /\ InChainOrder(buffer')
        /\ Buffered' = (Buffered \ {c}) \cup {b}
    <3>1. /\ Tail(buffer) \in Seq(Blocks) /\ InChainOrder(Tail(buffer))
          /\ {Tail(buffer)[i] : i \in 1..Len(Tail(buffer))} = Buffered \ {c}
          /\ Tail(buffer) # <<>> => Tail(buffer)[Len(Tail(buffer))] = buffer[Len(buffer)]
      BY <1>1, <2>1, TailInOrder DEF Buffered
    <3>2. Tail(buffer) # <<>> => NumberOf[b] > NumberOf[Tail(buffer)[Len(Tail(buffer))]]
      BY <1>2, <2>1, <3>1
    <3>3. buffer' = Append(Tail(buffer), b)
      BY <1>5 DEF PruneAndInsert
    <3> DEFINE t == Tail(buffer)
    <3>4. /\ InChainOrder(Append(t, b))
          /\ {Append(t, b)[i] : i \in 1..Len(Append(t, b))} = {t[i] : i \in 1..Len(t)} \cup {b}
      <4> HIDE DEF t
      <4> QED
        BY <3>1, <3>2, AppendInOrder DEF t
    <3>5. Buffered' = {buffer'[i] : i \in 1..Len(buffer')}
      BY DEF Buffered
    <3> QED
      BY <3>1, <3>3, <3>4, <3>5
  <2>4. Buffered' = (Buffered \cup {b}) \ {c}
    BY <2>1, <2>2, <2>3
  <2>5. IndexesNumbers(Buffered', blocks_by_number')
    <3>1. IndexesNumbers(Buffered \ {c}, Without(blocks_by_number, {NumberOf[c]}))
      BY <1>1, <2>1, RemoveNumber DEF IndexesBuffer
    <3> QED
      BY <1>1, <1>5, <2>3, <3>1, AddNumber DEF PruneAndInsert
  <2>6. IndexesHashes(Buffered', blocks_by_hash')
    <3>1. IndexesHashes(Buffered \ {c}, Without(blocks_by_hash, {c}))
      BY <1>1, <2>1, RemoveHash DEF IndexesBuffer
    <3> QED
      BY <1>1, <1>5, <2>3, <3>1, AddHash DEF PruneAndInsert
  <2>7. IndexesReceipts(Buffered', receipts_by_hash')
    <3>1. PrunedTxs(ExtendedHashes(b), c) = TxsOf(c)
      BY <1>1, <1>3, <2>1, PrunedAreItsOwn
    <3> QED
      BY <1>1, <1>3, <1>5, <2>1, <2>4, <3>1, RemoveReceipts DEF PruneAndInsert
  <2>8. IndexesPositions(Buffered', receipt_hashes_by_block_and_index')
    BY <1>1, <1>3, <1>5, <2>1, <2>4, RemovePositions DEF PruneAndInsert
  <2> QED
    BY <2>3, <2>5, <2>6, <2>7, <2>8 DEF IndexesBuffer, InChainOrder
<1> QED
  BY <1>4, <1>5 DEF Push

\* The maps index exactly the buffered blocks, always.
THEOREM IndexesCorrect ==
  ASSUME Redelivery = FALSE
  PROVE  Spec => []IndexesBuffer
<1>1. Init => IndexesBuffer
  BY DEF Init, IndexesBuffer, Buffered, EmptyMap, IndexesNumbers, IndexesHashes,
         IndexesReceipts, IndexesPositions
<1>2. TypeOK /\ IndexesBuffer /\ [Next]_vars => IndexesBuffer'
  <2> SUFFICES ASSUME TypeOK, IndexesBuffer, [Next]_vars PROVE IndexesBuffer'
    OBVIOUS
  <2>1. CASE UNCHANGED vars
    BY <2>1 DEF IndexesBuffer, Buffered, vars, IndexesNumbers, IndexesHashes,
                IndexesReceipts, IndexesPositions
  <2>2. CASE Next
    BY <2>2, IndexesBufferPush DEF Next, Deliverable
  <2> QED
    BY <2>1, <2>2
<1> QED
  BY <1>1, <1>2, TypeCorrect, PTL DEF Spec

-----------------------------------------------------------------------------
\* What the invariant gives the readers.

\* Lookups of one block that the maps index.
LEMMA IndexedFound ==
  ASSUME TypeOK, IndexesBuffer, NEW b \in Buffered
  PROVE  /\ BlockByNumber(NumberOf[b]) = b /\ BlockByHash(b) = b
         /\ \A i \in EvmPositions(b) :
              /\ ReceiptByHash(Extrinsics[b][i].hash) = Receipt(b, i)
              /\ ReceiptByHashAndIndex(b, i - 1) = Receipt(b, i)
<1>1. b \in Blocks
  BY DEF TypeOK, Buffered
<1>2. BlockByNumber(NumberOf[b]) = b /\ BlockByHash(b) = b
  BY DEF IndexesBuffer, IndexesNumbers, IndexesHashes, BlockByNumber, BlockByHash
<1>3. ASSUME NEW i \in EvmPositions(b)
      PROVE  /\ ReceiptByHash(Extrinsics[b][i].hash) = Receipt(b, i)
             /\ ReceiptByHashAndIndex(b, i - 1) = Receipt(b, i)
  <2>1. Extrinsics[b][i].hash \in TxsOf(b)
    BY <1>1, ReceiptType
  <2>2. ReceiptByHash(Extrinsics[b][i].hash) = Receipt(b, i)
    BY <2>1 DEF IndexesBuffer, IndexesReceipts, ReceiptByHash
  <2>3. /\ b \in DOMAIN receipt_hashes_by_block_and_index
        /\ receipt_hashes_by_block_and_index[b] = HashesByIndex(b)
    BY <2>1 DEF IndexesBuffer, IndexesPositions
  <2>4. i - 1 \in IndicesOf(b) /\ (i - 1) + 1 = i
    BY <1>1, ExtrinsicsAssumption DEF EvmPositions, IndicesOf
  <2>5. HashesByIndex(b)[i - 1] = Extrinsics[b][i].hash /\ i - 1 \in DOMAIN HashesByIndex(b)
    BY <2>4 DEF HashesByIndex
  <2> QED
    BY <2>2, <2>3, <2>5 DEF ReceiptByHashAndIndex
<1> QED
  BY <1>2, <1>3

\* Nothing is indexed beyond the buffer.
LEMMA IndexedBuffered ==
  ASSUME TypeOK, IndexesBuffer
  PROVE  NothingOutlivesItsBlock
<1>1. \A n \in DOMAIN blocks_by_number : blocks_by_number[n] \in Buffered
  BY DEF IndexesBuffer, IndexesNumbers
<1>2. /\ DOMAIN blocks_by_hash \subseteq Buffered
      /\ DOMAIN receipt_hashes_by_block_and_index \subseteq Buffered
  BY DEF IndexesBuffer, IndexesHashes, IndexesPositions
<1>3. ASSUME NEW t \in DOMAIN receipts_by_hash
      PROVE  receipts_by_hash[t].block_hash \in Buffered
  <2>1. PICK b \in Buffered : t \in TxsOf(b)
    BY DEF IndexesBuffer, IndexesReceipts
  <2>2. PICK i \in EvmPositions(b) : t = Extrinsics[b][i].hash
    BY <2>1 DEF TxsOf
  <2>3. receipts_by_hash[t] = Receipt(b, i)
    BY <2>1, <2>2 DEF IndexesBuffer, IndexesReceipts
  <2> QED
    BY <2>3 DEF Receipt
<1> QED
  BY <1>1, <1>2, <1>3 DEF NothingOutlivesItsBlock

\* Every block in the window is found, with all its receipts, and no map
\* remembers more than the window.
THEOREM WindowServed ==
  ASSUME Redelivery = FALSE
  PROVE  Spec => [](BufferedFound /\ NothingOutlivesItsBlock)
<1>1. TypeOK /\ IndexesBuffer
        => BufferedFound /\ NothingOutlivesItsBlock
  BY IndexedFound, IndexedBuffered DEF BufferedFound
<1> QED
  BY <1>1, TypeCorrect, IndexesCorrect, PTL

-----------------------------------------------------------------------------
\* The maps answer as a scan of the window does.

\* `TheOne` picks the only element.
LEMMA TheOneOf ==
  ASSUME NEW x, NEW S, x \in S, \A y \in S : y = x
  PROVE  Abstract!TheOne(S) = x
  BY DEF Abstract!TheOne

LEMMA TheOneOfNone == Abstract!TheOne({}) = None
  BY DEF Abstract!TheOne

\* The window of the abstract cache is the set of buffered blocks.
LEMMA WindowIsBuffered == Abstract!InWindow(buffer) = Buffered
  BY DEF Abstract!InWindow, Buffered

\* A receipt of the window is that of a position of a buffered block.
LEMMA ReceiptsInWindow ==
  ASSUME NEW r
  PROVE  r \in Abstract!ReceiptsIn(buffer)
           <=> \E b \in Buffered : \E i \in EvmPositions(b) : r = Receipt(b, i)
<1>1. Abstract!ReceiptsIn(buffer)
        = UNION {{Abstract!Receipt(b, i) : i \in Abstract!EvmPositions(b)} : b \in Buffered}
  BY WindowIsBuffered DEF Abstract!ReceiptsIn
<1>2. /\ \A b : Abstract!EvmPositions(b) = EvmPositions(b)
      /\ \A b, i : Abstract!Receipt(b, i) = Receipt(b, i)
  BY DEF Abstract!EvmPositions, EvmPositions, Abstract!IntoReceiptInfo, IntoReceiptInfo,
         Abstract!Receipt, Receipt, Abstract!FindFirstSuccess, FindFirstSuccess
<1> QED
  BY <1>1, <1>2

LEMMA SameByNumber ==
  ASSUME TypeOK, IndexesBuffer, NEW n
  PROVE  BlockByNumber(n) = Abstract!ByNumber(buffer, n)
<1> DEFINE S == {b \in Buffered : NumberOf[b] = n}
<1>1. Abstract!ByNumber(buffer, n) = Abstract!TheOne(S)
  BY WindowIsBuffered DEF Abstract!ByNumber
<1>2. CASE S = {}
  <2>1. n \notin DOMAIN blocks_by_number
    BY <1>2 DEF IndexesBuffer, IndexesNumbers
  <2> QED
    BY <1>1, <1>2, <2>1, TheOneOfNone DEF BlockByNumber
<1>3. CASE S # {}
  <2>1. PICK b \in Buffered : NumberOf[b] = n
    BY <1>3
  <2>2. \A c \in S : c = b
    BY <2>1, NumberOfAssumption DEF TypeOK, Buffered
  <2>3. Abstract!TheOne(S) = b
    BY <2>1, <2>2, TheOneOf
  <2> QED
    BY <1>1, <2>1, <2>3, IndexedFound
<1> QED
  BY <1>2, <1>3

LEMMA SameByHash ==
  ASSUME TypeOK, IndexesBuffer, NEW h
  PROVE  BlockByHash(h) = Abstract!ByHash(buffer, h)
<1> DEFINE S == {b \in Buffered : b = h}
<1>1. Abstract!ByHash(buffer, h) = Abstract!TheOne(S)
  BY WindowIsBuffered DEF Abstract!ByHash
<1>2. CASE h \in Buffered
  <2>1. Abstract!TheOne(S) = h
    BY <1>2, TheOneOf
  <2> QED
    BY <1>1, <1>2, <2>1, IndexedFound
<1>3. CASE h \notin Buffered
  <2>1. S = {} /\ h \notin DOMAIN blocks_by_hash
    BY <1>3 DEF IndexesBuffer, IndexesHashes
  <2> QED
    BY <1>1, <2>1, TheOneOfNone DEF BlockByHash
<1> QED
  BY <1>2, <1>3

LEMMA SameReceipt ==
  ASSUME TypeOK, IndexesBuffer, NEW t
  PROVE  ReceiptByHash(t) = Abstract!Transaction(buffer, t)
<1> DEFINE S == {r \in Abstract!ReceiptsIn(buffer) : r.transaction_hash = t}
<1>1. Abstract!Transaction(buffer, t) = Abstract!TheOne(S)
  BY DEF Abstract!Transaction
<1>2. Buffered \subseteq Blocks
  BY DEF TypeOK, Buffered
<1>3. CASE \E b \in Buffered : t \in TxsOf(b)
  <2>1. PICK b \in Buffered : \E j \in EvmPositions(b) : t = Extrinsics[b][j].hash
    BY <1>3 DEF TxsOf
  <2> PICK i \in EvmPositions(b) : t = Extrinsics[b][i].hash
    BY <2>1
  <2>2. Receipt(b, i) \in S
    BY <2>1, ReceiptsInWindow DEF Receipt
  <2>3. ASSUME NEW r \in S PROVE r = Receipt(b, i)
    <3>0. PICK c \in Buffered : \E j \in EvmPositions(c) : r = Receipt(c, j)
      BY ReceiptsInWindow
    <3>1. PICK j \in EvmPositions(c) : r = Receipt(c, j)
      BY <3>0
    <3>2. Extrinsics[c][j].hash = t
      BY <3>1 DEF Receipt
    <3>3. b \in Blocks /\ c \in Blocks /\ Extrinsics[b][i].hash = Extrinsics[c][j].hash
      BY <1>2, <3>2
    <3>4. b = c /\ i = j
      BY <3>3, HashNamesPosition
    <3> QED
      BY <3>1, <3>4
  <2>4. Abstract!TheOne(S) = Receipt(b, i)
    BY <2>2, <2>3, TheOneOf
  <2> QED
    BY <1>1, <2>1, <2>4, IndexedFound
<1>4. CASE ~ \E b \in Buffered : t \in TxsOf(b)
  <2>1. t \notin DOMAIN receipts_by_hash
    BY <1>4 DEF IndexesBuffer, IndexesReceipts
  <2>2. ASSUME NEW r \in S PROVE FALSE
    <3>0. PICK c \in Buffered : \E j \in EvmPositions(c) : r = Receipt(c, j)
      BY ReceiptsInWindow
    <3>1. PICK j \in EvmPositions(c) : r = Receipt(c, j)
      BY <3>0
    <3>2. Extrinsics[c][j].hash = t
      BY <3>1 DEF Receipt
    <3> QED
      BY <1>4, <3>1, <3>2 DEF TxsOf
  <2> QED
    BY <1>1, <2>1, <2>2, TheOneOfNone DEF ReceiptByHash
<1> QED
  BY <1>3, <1>4

\* The receipts of the window that belong to block `h`.
ReceiptsAt(h) == {r \in Abstract!ReceiptsIn(buffer) : r.block_hash = h}

LEMMA ReceiptsAtBlock ==
  ASSUME TypeOK, NEW h
  PROVE  ReceiptsAt(h) = IF h \in Buffered THEN {Receipt(h, i) : i \in EvmPositions(h)} ELSE {}
<1>1. ASSUME NEW r
      PROVE  r \in ReceiptsAt(h) <=> h \in Buffered /\ \E i \in EvmPositions(h) : r = Receipt(h, i)
  <2>1. ASSUME NEW b, NEW i PROVE Receipt(b, i).block_hash = b
    BY DEF Receipt
  <2> QED
    BY <2>1, ReceiptsInWindow DEF ReceiptsAt
<1> QED
  BY <1>1

\* Positions and indices of a buffered block differ by one.
LEMMA PositionsAndIndices ==
  ASSUME NEW b \in Blocks
  PROVE  /\ \A i \in EvmPositions(b) : /\ i - 1 \in IndicesOf(b) /\ (i - 1) + 1 = i
                                       /\ Receipt(b, i).transaction_index = i - 1
         /\ \A k \in IndicesOf(b) : k + 1 \in EvmPositions(b) /\ (k + 1) - 1 = k
<1>1. \A i \in EvmPositions(b) : i \in Nat
  BY ExtrinsicsAssumption DEF EvmPositions
<1>2. \A i \in EvmPositions(b) : Receipt(b, i).transaction_index = i - 1
  BY DEF Receipt
<1> QED
  BY <1>1, <1>2 DEF IndicesOf

LEMMA SameReceiptAt ==
  ASSUME TypeOK, IndexesBuffer, NEW h, NEW k
  PROVE  ReceiptByHashAndIndex(h, k) = Abstract!TransactionAt(buffer, h, k)
<1> DEFINE S == {r \in Abstract!ReceiptsIn(buffer) : r.block_hash = h /\ r.transaction_index = k}
<1>1. Abstract!TransactionAt(buffer, h, k) = Abstract!TheOne(S)
  BY DEF Abstract!TransactionAt
<1>2. S = {r \in ReceiptsAt(h) : r.transaction_index = k}
  BY DEF ReceiptsAt
<1>3. Buffered \subseteq Blocks
  BY DEF TypeOK, Buffered
<1>4. CASE h \in Buffered /\ k \in IndicesOf(h)
  <2>1. k + 1 \in EvmPositions(h) /\ (k + 1) - 1 = k
    BY <1>3, <1>4, PositionsAndIndices
  <2>2. Receipt(h, k + 1) \in S
    BY <1>2, <1>3, <1>4, <2>1, ReceiptsAtBlock, PositionsAndIndices
  <2>3. ASSUME NEW r \in S PROVE r = Receipt(h, k + 1)
    <3>1. PICK j \in EvmPositions(h) : r = Receipt(h, j) /\ r.transaction_index = k
      BY <1>2, <1>4, ReceiptsAtBlock
    <3>2. j - 1 = k /\ (j - 1) + 1 = j
      BY <1>3, <1>4, <3>1, PositionsAndIndices
    <3> QED
      BY <3>1, <3>2
  <2>4. Abstract!TheOne(S) = Receipt(h, k + 1)
    BY <2>2, <2>3, TheOneOf
  <2>5. ReceiptByHashAndIndex(h, (k + 1) - 1) = Receipt(h, k + 1)
    BY <1>4, <2>1, IndexedFound
  <2> QED
    BY <1>1, <2>1, <2>4, <2>5
<1>5. CASE ~(h \in Buffered /\ k \in IndicesOf(h))
  <2>1. ReceiptByHashAndIndex(h, k) = None
    BY <1>5 DEF IndexesBuffer, IndexesPositions, HashesByIndex, ReceiptByHashAndIndex
  <2>2. S = {}
    <3> SUFFICES ASSUME NEW r \in S PROVE FALSE
      OBVIOUS
    <3>1. h \in Buffered /\ \E j \in EvmPositions(h) : r = Receipt(h, j) /\ r.transaction_index = k
      BY <1>2, ReceiptsAtBlock
    <3> QED
      BY <1>3, <1>5, <3>1, PositionsAndIndices
  <2> QED
    BY <1>1, <2>1, <2>2, TheOneOfNone
<1> QED
  BY <1>4, <1>5

LEMMA SameCount ==
  ASSUME TypeOK, IndexesBuffer, NEW h \in Counted
  PROVE  ReceiptsCountPerBlock(h) = Abstract!TransactionCount(buffer, h)
<1> DEFINE S == {r.transaction_index : r \in ReceiptsAt(h)}
<1>1. Abstract!TransactionCount(buffer, h) = IF h \in Buffered THEN Cardinality(S) ELSE None
  <2> DEFINE X == {r.transaction_index : r \in {q \in Abstract!ReceiptsIn(buffer) : q.block_hash = h}}
  <2>1. S = X
    BY DEF ReceiptsAt
  <2>2. Abstract!TransactionCount(buffer, h) = IF h \in Buffered THEN Cardinality(X) ELSE None
    BY WindowIsBuffered DEF Abstract!TransactionCount, Abstract!Cardinality, Cardinality
  <2> HIDE DEF S, X
  <2> QED
    BY <2>1, <2>2
<1>2. TxsOf(h) # {}
  BY DEF Counted
<1>3. CASE h \in Buffered
  <2>1. S = IndicesOf(h)
    <3>1. ReceiptsAt(h) = {Receipt(h, i) : i \in EvmPositions(h)}
      BY <1>3, ReceiptsAtBlock
    <3>2. \A i \in EvmPositions(h) : Receipt(h, i).transaction_index = i - 1
      BY PositionsAndIndices DEF Counted
    <3>3. S = {Receipt(h, i).transaction_index : i \in EvmPositions(h)}
      BY <3>1, Zenon
    <3> QED
      BY <3>2, <3>3 DEF IndicesOf
  <2>2. DOMAIN HashesByIndex(h) = IndicesOf(h)
    BY DEF HashesByIndex
  <2>3. ReceiptsCountPerBlock(h) = Cardinality(IndicesOf(h))
    BY <1>2, <1>3, <2>2 DEF IndexesBuffer, IndexesPositions, ReceiptsCountPerBlock
  <2> HIDE DEF S
  <2> QED
    BY <1>1, <1>3, <2>1, <2>3
<1>4. CASE h \notin Buffered
  <2>1. ReceiptsCountPerBlock(h) = None
    BY <1>4 DEF IndexesBuffer, IndexesPositions, ReceiptsCountPerBlock
  <2> HIDE DEF S
  <2> QED
    BY <1>1, <1>4, <2>1
<1> QED
  BY <1>3, <1>4

\* Every lookup agrees with the scan.
LEMMA SameAnswers == TypeOK /\ IndexesBuffer => CacheAnswers = Abstract!Answers(buffer)
  BY SameByNumber, SameByHash, SameReceipt, SameReceiptAt, SameCount
     DEF CacheAnswers, Abstract!Answers

\* The cache implements its abstract specification: the answers from the maps
\* are those of the last N blocks received, except the count of a block without EVM
\* transactions (TransactionsCounted).
THEOREM RefinesRecentBlocks ==
  ASSUME Redelivery = FALSE
  PROVE  Spec => ImplementsRecentBlocks
<1>1. Init /\ TypeOK /\ IndexesBuffer => Abstract!Init
  <2> SUFFICES ASSUME Init, TypeOK, IndexesBuffer PROVE Abstract!Init
    OBVIOUS
  <2>1. buffer = <<>> /\ CacheAnswers = Abstract!Answers(buffer)
    BY SameAnswers DEF Init
  <2> QED
    BY <2>1 DEF Abstract!Init
<1>2. (TypeOK /\ IndexesBuffer => CacheAnswers = Abstract!Answers(buffer))'
  BY SameAnswers, PTL
<1>3. /\ TypeOK /\ IndexesBuffer /\ TypeOK' /\ IndexesBuffer'
      /\ [Next]_vars
      => [Abstract!Next]_(Abstract!vars)
  <2> SUFFICES ASSUME TypeOK, IndexesBuffer, TypeOK', IndexesBuffer', [Next]_vars
               PROVE  [Abstract!Next]_(Abstract!vars)
    OBVIOUS
  <2>1. CASE UNCHANGED vars
    BY <2>1 DEF vars, Abstract!vars, CacheAnswers, BlockByNumber, BlockByHash,
                ReceiptByHash, ReceiptByHashAndIndex, ReceiptsCountPerBlock
  <2>2. ASSUME NEW b \in Blocks, Deliverable(b), Push(b)
        PROVE  Abstract!Receive(b)
    <3>1. buffer # <<>> => NumberOf[b] > NumberOf[buffer[Len(buffer)]]
      BY <2>2 DEF Deliverable, LatestBlock
    <3>2. buffer' = Append(IF Len(buffer) < N THEN buffer ELSE Tail(buffer), b)
      <4>1. Len(buffer) \in Nat /\ N \in Nat
        BY NAssumption DEF TypeOK
      <4>2. CASE InsertIntoSpace(b)
        BY <4>1, <4>2 DEF InsertIntoSpace
      <4>3. CASE PruneAndInsert(b)
        BY <4>1, <4>3 DEF PruneAndInsert
      <4> QED
        BY <2>2, <4>2, <4>3 DEF Push
    <3>3. CacheAnswers' = Abstract!Answers(buffer')
      BY <1>2
    <3> QED
      BY <3>1, <3>2, <3>3 DEF Abstract!Receive
  <2> QED
    BY <2>1, <2>2 DEF Next, Abstract!Next
<1> QED
  BY <1>1, <1>3, TypeCorrect, IndexesCorrect, PTL DEF Spec, ImplementsRecentBlocks, Abstract!Spec
=============================================================================
