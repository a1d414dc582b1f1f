-------------------------- MODULE RedeliveryProofs --------------------------
(***************************************************************************)
(* The cache when a fresh subscription may deliver the newest cached block *)
(* once more: the buffer then holds a block several times under one entry  *)
(* of each map, and pruning one copy forgets the block.                    *)
(***************************************************************************)
EXTENDS BlockCacheProofs

\* Buffered blocks other than the oldest one.
Younger == {b \in Buffered : b # Head(buffer)}

InWeakOrder(s) == \A i, j \in 1..Len(s) : i < j => NumberOf[s[i]] <= NumberOf[s[j]]

\* The inductive invariant under redelivery: each map indexes the buffered
\* blocks, except perhaps the oldest one.  The maps of blocks and the maps of
\* receipts may disagree on it, since `insert` prunes the former before and the
\* latter after the block is added (rpc/src/client.rs:201-222, 477-489).
IndexesWindow ==
  /\ InWeakOrder(buffer)
  /\ \E S \in {Buffered, Younger} : /\ IndexesNumbers(S, blocks_by_number)
                                    /\ IndexesHashes(S, blocks_by_hash)
  /\ \E S \in {Buffered, Younger} : /\ IndexesReceipts(S, receipts_by_hash)
                                    /\ IndexesPositions(S, receipt_hashes_by_block_and_index)

-----------------------------------------------------------------------------
\* The buffer when blocks arrive in weakly increasing order.

Elements(s) == {s[i] : i \in 1..Len(s)}

LEMMA AppendInWeakOrder ==
  ASSUME NEW s \in Seq(Blocks), InWeakOrder(s), NEW b \in Blocks,
         s # <<>> => NumberOf[b] >= NumberOf[s[Len(s)]]
  PROVE  /\ InWeakOrder(Append(s, b))
         /\ Elements(Append(s, b)) = Elements(s) \cup {b}
         /\ Head(Append(s, b)) = IF s = <<>> THEN b ELSE Head(s)
<1> DEFINE t == Append(s, b)
<1>1. /\ Len(s) \in Nat /\ Len(t) = Len(s) + 1 /\ t[Len(s) + 1] = b
      /\ \A i \in 1..Len(s) : t[i] = s[i]
  OBVIOUS
<1>2. \A i \in 1..Len(s) : s[i] \in Blocks /\ NumberOf[s[i]] \in Nat
  BY NumberOfAssumption
<1>3. NumberOf[b] \in Nat
  BY NumberOfAssumption
<1>4. \A i \in 1..Len(s) : NumberOf[s[i]] <= NumberOf[b]
  <2> SUFFICES ASSUME NEW i \in 1..Len(s) PROVE NumberOf[s[i]] <= NumberOf[b]
    OBVIOUS
  <2>1. Len(s) \in 1..Len(s) /\ s # <<>>
    BY <1>1
  <2>2. CASE i = Len(s)
    BY <1>2, <1>3, <2>1, <2>2
  <2>3. CASE i < Len(s)
    <3>1. NumberOf[s[i]] <= NumberOf[s[Len(s)]]
      BY <2>1, <2>3 DEF InWeakOrder
    <3> QED
      BY <1>2, <1>3, <2>1, <3>1
  <2> QED
    BY <1>1, <2>2, <2>3
<1>5. Head(t) = t[1] /\ (s # <<>> => Head(s) = s[1] /\ 1 \in 1..Len(s)) /\ (s = <<>> => Len(s) = 0)
  OBVIOUS
<1> HIDE DEF t
<1>6. InWeakOrder(t)
  BY <1>1, <1>2, <1>3, <1>4 DEF InWeakOrder
<1>7. 1..Len(t) = 1..Len(s) \cup {Len(s) + 1}
  BY <1>1
<1>8. Elements(t) = Elements(s) \cup {b}
  BY <1>1, <1>7 DEF Elements
<1> QED
  BY <1>1, <1>5, <1>6, <1>8 DEF t

\* Dropping the oldest entry drops its block, unless it is there twice: then
\* its next copy is the oldest entry.
LEMMA TailInWeakOrder ==
  ASSUME NEW s \in Seq(Blocks), s # <<>>, InWeakOrder(s)
  PROVE  /\ Tail(s) \in Seq(Blocks)
         /\ InWeakOrder(Tail(s))
         /\ Tail(s) # <<>> => Tail(s)[Len(Tail(s))] = s[Len(s)]
         /\ \/ Elements(Tail(s)) = Elements(s) \ {Head(s)}
            \/ Tail(s) # <<>> /\ Head(Tail(s)) = Head(s) /\ Elements(Tail(s)) = Elements(s)
<1> DEFINE t == Tail(s)
<1>1. /\ t \in Seq(Blocks) /\ Len(t) = Len(s) - 1 /\ Len(t) \in Nat
      /\ \A i \in 1..Len(t) : t[i] = s[i + 1]
      /\ Head(s) = s[1] /\ Len(s) \in Nat /\ Len(s) > 0
      /\ t # <<>> => Len(t) > 0
      /\ Len(t) > 0 => t # <<>> /\ Head(t) = t[1]
  <2>1. /\ t \in Seq(Blocks) /\ Len(t) = Len(s) - 1
        /\ \A i \in 1..Len(t) : t[i] = s[i + 1]
        /\ Head(s) = s[1] /\ Len(s) \in Nat /\ Len(s) > 0
    OBVIOUS
  <2> HIDE DEF t
  <2> QED
    BY <2>1
<1>2. \A i \in 1..Len(s) : s[i] \in Blocks /\ NumberOf[s[i]] \in Nat
  BY NumberOfAssumption
<1> HIDE DEF t
<1>3. InWeakOrder(t)
  BY <1>1 DEF InWeakOrder
<1>4. t # <<>> => t[Len(t)] = s[Len(s)]
  BY <1>1
<1>5. Elements(s) = Elements(t) \cup {s[1]}
  <2>1. ASSUME NEW x \in Elements(s) PROVE x \in Elements(t) \cup {s[1]}
    <3>1. PICK i \in 1..Len(s) : x = s[i]
      BY DEF Elements
    <3>2. i # 1 => i - 1 \in 1..Len(t) /\ t[i - 1] = s[i]
      BY <1>1
    <3> QED
      BY <3>1, <3>2 DEF Elements
  <2>2. ASSUME NEW x \in Elements(t) PROVE x \in Elements(s)
    <3>1. PICK i \in 1..Len(t) : x = t[i]
      BY DEF Elements
    <3>2. i + 1 \in 1..Len(s) /\ t[i] = s[i + 1]
      BY <1>1
    <3> QED
      BY <3>1, <3>2 DEF Elements
  <2>3. s[1] \in Elements(s)
    BY <1>1 DEF Elements
  <2> QED
    BY <2>1, <2>2, <2>3
<1>6. ASSUME s[1] \in Elements(t) PROVE t # <<>> /\ t[1] = s[1]
  <2>1. PICK j \in 1..Len(t) : t[j] = s[1]
    BY <1>6 DEF Elements
  <2>2. j + 1 \in 1..Len(s) /\ s[j + 1] = s[1] /\ 2 \in 1..Len(s) /\ 1 \in 1..Len(s) /\ t[1] = s[2]
    BY <1>1, <2>1
  <2>3. NumberOf[s[1]] <= NumberOf[s[2]]
    BY <2>2 DEF InWeakOrder
  <2>4. NumberOf[s[2]] <= NumberOf[s[1]]
    <3>1. CASE j = 1
      BY <1>2, <2>2, <3>1
    <3>2. CASE j > 1
      BY <2>2, <3>2 DEF InWeakOrder
    <3> QED
      BY <2>1, <3>1, <3>2
  <2>5. NumberOf[s[1]] = NumberOf[s[2]]
    BY <1>2, <2>2, <2>3, <2>4
  <2>6. s[1] = s[2]
    BY <1>2, <2>2, <2>5, NumberOfAssumption
  <2> QED
    BY <1>1, <2>1, <2>2, <2>6
<1>7. CASE s[1] \in Elements(t)
  BY <1>1, <1>3, <1>4, <1>5, <1>6, <1>7 DEF t
<1>8. CASE s[1] \notin Elements(t)
  BY <1>1, <1>3, <1>4, <1>5, <1>8 DEF t
<1> QED
  BY <1>7, <1>8

\* A block that arrives again while it is the oldest one is the only one there.
LEMMA OldestAgain ==
  ASSUME NEW s \in Seq(Blocks), s # <<>>, InWeakOrder(s),
         NumberOf[Head(s)] >= NumberOf[s[Len(s)]]
  PROVE  Elements(s) = {Head(s)}
<1>1. Len(s) \in Nat /\ Len(s) > 0 /\ Head(s) = s[1]
  OBVIOUS
<1>2. \A i \in 1..Len(s) : s[i] \in Blocks /\ NumberOf[s[i]] \in Nat
  BY NumberOfAssumption
<1>3. ASSUME NEW i \in 1..Len(s) PROVE s[i] = s[1]
  <2>1. 1 \in 1..Len(s) /\ Len(s) \in 1..Len(s)
    BY <1>1
  <2>2. NumberOf[s[1]] <= NumberOf[s[i]]
    BY <1>2, <2>1 DEF InWeakOrder
  <2>3. NumberOf[s[i]] <= NumberOf[s[Len(s)]]
    BY <1>1, <1>2, <2>1 DEF InWeakOrder
  <2>4. NumberOf[s[i]] = NumberOf[s[1]]
    BY <1>1, <1>2, <2>1, <2>2, <2>3
  <2> QED
    BY <1>2, <2>1, <2>4, NumberOfAssumption
<1> QED
  BY <1>1, <1>3 DEF Elements

-----------------------------------------------------------------------------
\* The maps across a push.

\* Pruning a block forgets exactly its receipts, or none when the block has no
\* entry any more.
LEMMA PruneReceipts ==
  ASSUME NEW S \in SUBSET Blocks, NEW m, IndexesReceipts(S, m),
         NEW hashes, IndexesPositions(S, hashes), NEW c \in Blocks
  PROVE  IndexesReceipts(S \ {c}, Without(m, PrunedTxs(hashes, c)))
<1>1. CASE c \in S
  BY <1>1, PrunedAreItsOwn, RemoveReceipts
<1>2. CASE c \notin S
  <2>1. PrunedTxs(hashes, c) = {} /\ S \ {c} = S
    BY <1>2 DEF IndexesPositions, PrunedTxs
  <2>2. ASSUME NEW b \in S, NEW i \in EvmPositions(b)
        PROVE  Extrinsics[b][i].hash \in DOMAIN m
    BY <2>2, ReceiptType DEF IndexesReceipts
  <2> QED
    BY <2>1, <2>2 DEF IndexesReceipts, Without
<1> QED
  BY <1>1, <1>2

\* A delivered block does not precede the newest one.
LEMMA DeliveredInOrder ==
  ASSUME TypeOK, NEW b \in Blocks, Deliverable(b), buffer # <<>>
  PROVE  NumberOf[b] >= NumberOf[buffer[Len(buffer)]]
<1>1. NumberOf[b] > NumberOf[buffer[Len(buffer)]] \/ b = buffer[Len(buffer)]
  BY DEF Deliverable, LatestBlock
<1>2. buffer[Len(buffer)] \in Blocks
  BY DEF TypeOK
<1>3. NumberOf[b] \in Nat /\ NumberOf[buffer[Len(buffer)]] \in Nat
  BY <1>2, NumberOfAssumption
<1> QED
  BY <1>1, <1>3

\* The sets of blocks that the maps may index, after a push into space.
LEMMA WindowAfterInsert ==
  ASSUME TypeOK, InWeakOrder(buffer), NEW b \in Blocks, Deliverable(b), InsertIntoSpace(b)
  PROVE  /\ InWeakOrder(buffer')
         /\ \A S \in {Buffered, Younger} : S \cup {b} \in {Buffered', Younger'}
<1>1. buffer \in Seq(Blocks) /\ buffer' = Append(buffer, b)
  BY DEF TypeOK, InsertIntoSpace
<1>2. buffer # <<>> => NumberOf[b] >= NumberOf[buffer[Len(buffer)]]
  BY DeliveredInOrder
<1>3. /\ InWeakOrder(buffer') /\ Buffered' = Buffered \cup {b}
      /\ Head(buffer') = IF buffer = <<>> THEN b ELSE Head(buffer)
  <2>1. Elements(buffer') = Buffered' /\ Elements(buffer) = Buffered
    BY DEF Elements, Buffered
  <2> QED
    BY <1>1, <1>2, <2>1, AppendInWeakOrder
<1>4. Younger' = {x \in Buffered' : x # Head(buffer')}
  BY DEF Younger
<1>5. CASE buffer = <<>>
  BY <1>3, <1>5 DEF Buffered, Younger
<1>6. CASE buffer # <<>>
  BY <1>3, <1>4, <1>6 DEF Younger
<1> QED
  BY <1>3, <1>5, <1>6

\* The same after a push that prunes: the maps of blocks forget the oldest one
\* before the new one is added, those of receipts after.
LEMMA WindowAfterPrune ==
  ASSUME TypeOK, InWeakOrder(buffer), NEW b \in Blocks, Deliverable(b), PruneAndInsert(b)
  PROVE  /\ InWeakOrder(buffer') /\ Head(buffer) \in Blocks
         /\ \A S \in {Buffered, Younger} :
              /\ (S \ {Head(buffer)}) \cup {b} \in {Buffered', Younger'}
              /\ (S \cup {b}) \ {Head(buffer)} \in {Buffered', Younger'}
<1> DEFINE c == Head(buffer)
           t == Tail(buffer)
<1>1. buffer \in Seq(Blocks) /\ buffer # <<>> /\ buffer' = Append(t, b) /\ c \in Blocks
  BY NAssumption DEF TypeOK, PruneAndInsert
<1>3. NumberOf[b] >= NumberOf[buffer[Len(buffer)]]
  BY <1>1, DeliveredInOrder
<1>4. /\ t \in Seq(Blocks) /\ InWeakOrder(t)
      /\ t # <<>> => t[Len(t)] = buffer[Len(buffer)]
      /\ \/ Elements(t) = Buffered \ {c}
         \/ t # <<>> /\ Head(t) = c /\ Elements(t) = Buffered
  BY <1>1, TailInWeakOrder DEF Elements, Buffered
<1>5. /\ InWeakOrder(buffer') /\ Buffered' = Elements(t) \cup {b}
      /\ Head(buffer') = IF t = <<>> THEN b ELSE Head(t)
  <2>1. Elements(buffer') = Buffered'
    BY DEF Elements, Buffered
  <2> HIDE DEF t
  <2> QED
    BY <1>1, <1>3, <1>4, <2>1, AppendInWeakOrder
<1>6. Younger' = {x \in Buffered' : x # Head(buffer')} /\ Younger = Buffered \ {c}
  BY DEF Younger
<1>7. Head(buffer') \in Buffered'
  <2>1. buffer' \in Seq(Blocks) /\ Len(buffer') > 0
    BY <1>1, <1>4
  <2>2. Head(buffer') = buffer'[1] /\ 1 \in 1..Len(buffer')
    BY <2>1
  <2> QED
    BY <2>2 DEF Buffered
<1> HIDE DEF c, t
<1>8. CASE b = c
  <2>1. Buffered = {c}
    BY <1>1, <1>3, <1>8, OldestAgain DEF c, Elements, Buffered
  <2>2. Buffered' = {c} /\ Younger = {} /\ Younger' = {}
    BY <1>4, <1>5, <1>6, <1>7, <1>8, <2>1
  <2> QED
    BY <1>1, <1>5, <1>8, <2>1, <2>2 DEF c
<1>9. CASE b # c
  <2>1. ASSUME NEW S \in {Buffered, Younger}
        PROVE  (S \ {c}) \cup {b} = Younger \cup {b} /\ (S \cup {b}) \ {c} = Younger \cup {b}
    BY <1>6, <1>9, <2>1
  <2>2. Younger \cup {b} \in {Buffered', Younger'}
    <3>1. CASE Elements(t) = Buffered \ {c}
      BY <1>5, <1>6, <3>1
    <3>2. CASE t # <<>> /\ Head(t) = c /\ Elements(t) = Buffered
      BY <1>5, <1>6, <1>9, <3>2
    <3> QED
      BY <1>4, <3>1, <3>2
  <2> QED
    BY <1>1, <1>5, <2>1, <2>2 DEF c
<1> QED
  BY <1>8, <1>9

\* A delivered block keeps the maps within the window, whichever blocks a fresh
\* subscription delivers again.
LEMMA IndexesWindowPush ==
  ASSUME TypeOK, IndexesWindow, NEW b \in Blocks, Deliverable(b), Push(b)
  PROVE  IndexesWindow'
<1>1. Buffered \in SUBSET Blocks /\ Younger \in SUBSET Blocks /\ InWeakOrder(buffer)
  BY DEF TypeOK, Buffered, Younger, IndexesWindow
<1>2. PICK S \in {Buffered, Younger} : /\ IndexesNumbers(S, blocks_by_number)
                                       /\ IndexesHashes(S, blocks_by_hash)
  BY DEF IndexesWindow
<1>3. PICK R \in {Buffered, Younger} :
        /\ IndexesReceipts(R, receipts_by_hash)
        /\ IndexesPositions(R, receipt_hashes_by_block_and_index)
  BY DEF IndexesWindow
<1>4. /\ IndexesReceipts(R \cup {b}, ExtendedReceipts(b))
      /\ IndexesPositions(R \cup {b}, ExtendedHashes(b))
  BY <1>1, <1>3, AddReceipts, AddPositions DEF ExtendedReceipts, ExtendedHashes
<1>5. CASE InsertIntoSpace(b)
  <2>1. /\ IndexesNumbers(S \cup {b}, blocks_by_number')
        /\ IndexesHashes(S \cup {b}, blocks_by_hash')
    BY <1>1, <1>2, <1>5, AddNumber, AddHash DEF InsertIntoSpace
  <2>2. /\ IndexesReceipts(R \cup {b}, receipts_by_hash')
        /\ IndexesPositions(R \cup {b}, receipt_hashes_by_block_and_index')
    BY <1>4, <1>5 DEF InsertIntoSpace
  <2>3. InWeakOrder(buffer') /\ {S \cup {b}, R \cup {b}} \subseteq {Buffered', Younger'}
    BY <1>1, <1>5, WindowAfterInsert
  <2> QED
    BY <2>1, <2>2, <2>3 DEF IndexesWindow
<1>6. CASE PruneAndInsert(b)
  <2> DEFINE c == Head(buffer)
             S2 == (S \ {c}) \cup {b}
             R2 == (R \cup {b}) \ {c}
  <2>1. c \in Blocks /\ InWeakOrder(buffer') /\ {S2, R2} \subseteq {Buffered', Younger'}
    BY <1>1, <1>6, WindowAfterPrune
  <2>2. IndexesNumbers(S2, blocks_by_number') /\ IndexesHashes(S2, blocks_by_hash')
    <3>1. /\ IndexesNumbers(S \ {c}, Without(blocks_by_number, {NumberOf[c]}))
          /\ IndexesHashes(S \ {c}, Without(blocks_by_hash, {c}))
      BY <1>1, <1>2, <2>1, RemoveNumber, RemoveHash
    <3>2. S \ {c} \in SUBSET Blocks
      BY <1>1
    <3> QED
      BY <1>6, <3>1, <3>2, AddNumber, AddHash DEF PruneAndInsert
  <2>3. IndexesReceipts(R2, receipts_by_hash')
    BY <1>1, <1>4, <1>6, <2>1, PruneReceipts DEF PruneAndInsert
  <2>4. IndexesPositions(R2, receipt_hashes_by_block_and_index')
    BY <1>1, <1>4, <1>6, <2>1, RemovePositions DEF PruneAndInsert
  <2> QED
    BY <2>1, <2>2, <2>3, <2>4 DEF IndexesWindow
<1> QED
  BY <1>5, <1>6 DEF Push

\* Nothing but the invariant is needed of the start.
LEMMA IndexesWindowInit == Init => IndexesWindow
  BY DEF Init, IndexesWindow, InWeakOrder, Buffered, EmptyMap, IndexesNumbers, IndexesHashes,
         IndexesReceipts, IndexesPositions

\* The maps index the window, give or take its oldest block, for every order of
\* deliveries that a subscription allows (`subscribe_blocks` and `insert`).
THEOREM WindowIndexed == Spec => []IndexesWindow
<1>1. TypeOK /\ IndexesWindow /\ [Next]_vars => IndexesWindow'
  <2> SUFFICES ASSUME TypeOK, IndexesWindow, [Next]_vars PROVE IndexesWindow'
    OBVIOUS
  <2>1. CASE UNCHANGED vars
    <3>1. buffer' = buffer /\ Buffered' = Buffered /\ Younger' = Younger
      BY <2>1 DEF vars, Buffered, Younger
    <3> QED
      BY <2>1, <3>1 DEF vars, IndexesWindow
  <2>2. CASE Next
    BY <2>2, IndexesWindowPush DEF Next
  <2> QED
    BY <2>1, <2>2
<1> QED
  BY <1>1, IndexesWindowInit, TypeCorrect, PTL DEF Spec

-----------------------------------------------------------------------------
\* What the invariant gives the readers.

\* Whatever a lookup finds is a buffered block, or the receipt of one, and is
\* what was asked for.
LEMMA FoundInWindow ==
  ASSUME TypeOK, IndexesWindow
  PROVE  /\ LatestBlock # None => LatestBlock \in Buffered
         /\ \A n : BlockByNumber(n) # None =>
              BlockByNumber(n) \in Buffered /\ NumberOf[BlockByNumber(n)] = n
         /\ \A h : BlockByHash(h) # None => BlockByHash(h) = h /\ h \in Buffered
         /\ \A t : ReceiptByHash(t) # None =>
              \E b \in Buffered : \E i \in EvmPositions(b) :
                 ReceiptByHash(t) = Receipt(b, i) /\ Extrinsics[b][i].hash = t
<1>1. LatestBlock # None => LatestBlock \in Buffered
  BY DEF TypeOK, LatestBlock, Buffered
<1>2. PICK S \in {Buffered, Younger} : /\ IndexesNumbers(S, blocks_by_number)
                                       /\ IndexesHashes(S, blocks_by_hash)
  BY DEF IndexesWindow
<1>3. PICK R \in {Buffered, Younger} : IndexesReceipts(R, receipts_by_hash)
  BY DEF IndexesWindow
<1>4. S \subseteq Buffered /\ R \subseteq Buffered
  BY DEF Younger
<1>5. ASSUME NEW n, BlockByNumber(n) # None
      PROVE  BlockByNumber(n) \in Buffered /\ NumberOf[BlockByNumber(n)] = n
  BY <1>2, <1>4, <1>5 DEF IndexesNumbers, BlockByNumber
<1>6. ASSUME NEW h, BlockByHash(h) # None
      PROVE  BlockByHash(h) = h /\ h \in Buffered
  BY <1>2, <1>4, <1>6 DEF IndexesHashes, BlockByHash
<1>7. ASSUME NEW t, ReceiptByHash(t) # None
      PROVE  \E b \in Buffered : \E i \in EvmPositions(b) :
                ReceiptByHash(t) = Receipt(b, i) /\ Extrinsics[b][i].hash = t
  <2>1. t \in DOMAIN receipts_by_hash /\ ReceiptByHash(t) = receipts_by_hash[t]
    BY <1>7 DEF ReceiptByHash
  <2>2. PICK b \in R : t \in TxsOf(b)
    BY <1>3, <2>1 DEF IndexesReceipts
  <2>3. PICK i \in EvmPositions(b) : t = Extrinsics[b][i].hash
    BY <2>2 DEF TxsOf
  <2> QED
    BY <1>3, <1>4, <2>1, <2>3 DEF IndexesReceipts
<1> QED
  BY <1>1, <1>5, <1>6, <1>7

\* A receipt found by block and index is that of the position, and a count is
\* that of the block's EVM transactions.
LEMMA FoundAtIndex ==
  ASSUME TypeOK, IndexesWindow, NEW h
  PROVE  /\ \A k : ReceiptByHashAndIndex(h, k) # None =>
              /\ h \in Buffered /\ k + 1 \in EvmPositions(h)
              /\ ReceiptByHashAndIndex(h, k) = Receipt(h, k + 1)
              /\ Receipt(h, k + 1).transaction_index = k
         /\ ReceiptsCountPerBlock(h) # None =>
              h \in Buffered /\ ReceiptsCountPerBlock(h) = Cardinality(IndicesOf(h))
         /\ \A k : ReceiptByHashAndIndex(h, k) # None =>
              ReceiptsCountPerBlock(h) = Cardinality(IndicesOf(h))
<1>1. PICK R \in {Buffered, Younger} :
        /\ IndexesReceipts(R, receipts_by_hash)
        /\ IndexesPositions(R, receipt_hashes_by_block_and_index)
  BY DEF IndexesWindow
<1>2. R \subseteq Buffered /\ Buffered \subseteq Blocks
  BY DEF TypeOK, Buffered, Younger
<1>3. ASSUME h \in DOMAIN receipt_hashes_by_block_and_index
      PROVE  /\ h \in R /\ h \in Buffered /\ h \in Blocks
             /\ receipt_hashes_by_block_and_index[h] = HashesByIndex(h)
             /\ DOMAIN HashesByIndex(h) = IndicesOf(h)
  BY <1>1, <1>2, <1>3 DEF IndexesPositions, HashesByIndex
<1>4. ASSUME NEW k, ReceiptByHashAndIndex(h, k) # None
      PROVE  /\ h \in Buffered /\ k + 1 \in EvmPositions(h)
             /\ ReceiptByHashAndIndex(h, k) = Receipt(h, k + 1)
             /\ Receipt(h, k + 1).transaction_index = k
  <2>1. /\ h \in DOMAIN receipt_hashes_by_block_and_index
        /\ k \in DOMAIN receipt_hashes_by_block_and_index[h]
        /\ ReceiptByHashAndIndex(h, k) = ReceiptByHash(receipt_hashes_by_block_and_index[h][k])
    BY <1>4 DEF ReceiptByHashAndIndex
  <2>2. k \in IndicesOf(h) /\ k + 1 \in EvmPositions(h) /\ (k + 1) - 1 = k
    BY <1>3, <2>1, PositionsAndIndices
  <2>3. ReceiptByHashAndIndex(h, k) = ReceiptByHash(Extrinsics[h][k + 1].hash)
    BY <1>3, <2>1, <2>2 DEF HashesByIndex
  <2>4. Extrinsics[h][k + 1].hash \in TxsOf(h)
    BY <2>2 DEF TxsOf
  <2>5. ReceiptByHash(Extrinsics[h][k + 1].hash) = Receipt(h, k + 1)
    BY <1>1, <1>3, <2>1, <2>2, <2>4 DEF IndexesReceipts, ReceiptByHash
  <2> QED
    BY <1>3, <2>1, <2>2, <2>3, <2>5 DEF Receipt
<1>5. ASSUME ReceiptsCountPerBlock(h) # None
      PROVE  h \in Buffered /\ ReceiptsCountPerBlock(h) = Cardinality(IndicesOf(h))
  BY <1>3, <1>5 DEF ReceiptsCountPerBlock
<1>6. ASSUME NEW k, ReceiptByHashAndIndex(h, k) # None
      PROVE  ReceiptsCountPerBlock(h) = Cardinality(IndicesOf(h))
  BY <1>3, <1>6 DEF ReceiptByHashAndIndex, ReceiptsCountPerBlock
<1> QED
  BY <1>4, <1>5, <1>6

\* Every block of the window but its oldest is found, with all its receipts.
LEMMA YoungerFound ==
  ASSUME TypeOK, IndexesWindow, NEW b \in Younger
  PROVE  /\ BlockByNumber(NumberOf[b]) = b /\ BlockByHash(b) = b
         /\ \A i \in EvmPositions(b) : ReceiptByHashAndIndex(b, i - 1) = Receipt(b, i)
<1>1. PICK S \in {Buffered, Younger} : /\ IndexesNumbers(S, blocks_by_number)
                                       /\ IndexesHashes(S, blocks_by_hash)
  BY DEF IndexesWindow
<1>2. PICK R \in {Buffered, Younger} :
        /\ IndexesReceipts(R, receipts_by_hash)
        /\ IndexesPositions(R, receipt_hashes_by_block_and_index)
  BY DEF IndexesWindow
<1>3. b \in S /\ b \in R /\ b \in Blocks
  BY DEF TypeOK, Buffered, Younger
<1>4. BlockByNumber(NumberOf[b]) = b /\ BlockByHash(b) = b
  BY <1>1, <1>3 DEF IndexesNumbers, IndexesHashes, BlockByNumber, BlockByHash
<1>5. ASSUME NEW i \in EvmPositions(b)
      PROVE  ReceiptByHashAndIndex(b, i - 1) = Receipt(b, i)
  <2>1. Extrinsics[b][i].hash \in TxsOf(b)
    BY DEF TxsOf
  <2>2. ReceiptByHash(Extrinsics[b][i].hash) = Receipt(b, i)
    BY <1>2, <1>3, <2>1 DEF IndexesReceipts, ReceiptByHash
  <2>3. /\ b \in DOMAIN receipt_hashes_by_block_and_index
        /\ receipt_hashes_by_block_and_index[b] = HashesByIndex(b)
    BY <1>2, <1>3, <2>1 DEF IndexesPositions
  <2>4. i - 1 \in IndicesOf(b) /\ (i - 1) + 1 = i
    BY <1>3, PositionsAndIndices
  <2>5. HashesByIndex(b)[i - 1] = Extrinsics[b][i].hash /\ i - 1 \in DOMAIN HashesByIndex(b)
    BY <2>4 DEF HashesByIndex
  <2> QED
    BY <2>2, <2>3, <2>5 DEF ReceiptByHashAndIndex
<1> QED
  BY <1>4, <1>5

\* A block that left the buffer has left every map.
LEMMA NothingBeyondWindow ==
  ASSUME TypeOK, IndexesWindow
  PROVE  NothingOutlivesItsBlock
<1>1. PICK S \in {Buffered, Younger} : /\ IndexesNumbers(S, blocks_by_number)
                                       /\ IndexesHashes(S, blocks_by_hash)
  BY DEF IndexesWindow
<1>2. PICK R \in {Buffered, Younger} :
        /\ IndexesReceipts(R, receipts_by_hash)
        /\ IndexesPositions(R, receipt_hashes_by_block_and_index)
  BY DEF IndexesWindow
<1>3. S \subseteq Buffered /\ R \subseteq Buffered
  BY DEF Younger
<1>4. ASSUME NEW t \in DOMAIN receipts_by_hash
      PROVE  receipts_by_hash[t].block_hash \in Buffered
  <2>1. PICK b \in R : \E i \in EvmPositions(b) : t = Extrinsics[b][i].hash
    BY <1>2 DEF IndexesReceipts, TxsOf
  <2>2. PICK i \in EvmPositions(b) : t = Extrinsics[b][i].hash
    BY <2>1
  <2>3. receipts_by_hash[t] = Receipt(b, i)
    BY <1>2, <2>2 DEF IndexesReceipts
  <2> QED
    BY <1>3, <2>3 DEF Receipt
<1>5. \A n \in DOMAIN blocks_by_number : blocks_by_number[n] \in Buffered
  BY <1>1, <1>3 DEF IndexesNumbers
<1>6. /\ DOMAIN blocks_by_hash \subseteq Buffered
      /\ DOMAIN receipt_hashes_by_block_and_index \subseteq Buffered
  BY <1>1, <1>2, <1>3 DEF IndexesHashes, IndexesPositions
<1> QED
  BY <1>4, <1>5, <1>6 DEF NothingOutlivesItsBlock

\* A redelivered block costs the lookups at most the oldest buffered block.
THEOREM RedeliveryIsHarmless == Spec => []YoungerBlocksFound
<1>1. TypeOK /\ IndexesWindow => YoungerBlocksFound
  BY YoungerFound DEF YoungerBlocksFound, Younger
<1> QED
  BY <1>1, TypeCorrect, WindowIndexed, PTL

\* Pruning forgets a block entirely, also one that is buffered twice.
THEOREM PruningIsComplete == Spec => []NothingOutlivesItsBlock
<1>1. TypeOK /\ IndexesWindow => NothingOutlivesItsBlock
  BY NothingBeyondWindow
<1> QED
  BY <1>1, TypeCorrect, WindowIndexed, PTL

\* This step keeps the receipt under `t`, or prunes the block it belongs to.
LEMMA ReceiptKept ==
  ASSUME TypeOK, IndexesWindow, NEW b \in Blocks, Push(b), NEW t \in DOMAIN receipts_by_hash
  PROVE  \/ t \in DOMAIN receipts_by_hash' /\ receipts_by_hash'[t] = receipts_by_hash[t]
         \/ Len(buffer) = N /\ receipts_by_hash[t].block_hash = Head(buffer)
<1>1. PICK R \in {Buffered, Younger} :
        /\ IndexesReceipts(R, receipts_by_hash)
        /\ IndexesPositions(R, receipt_hashes_by_block_and_index)
  BY DEF IndexesWindow
<1>2. R \in SUBSET Blocks
  BY DEF TypeOK, Buffered, Younger
<1>3. PICK a \in R : t \in TxsOf(a)
  BY <1>1 DEF IndexesReceipts
<1>4. PICK i \in EvmPositions(a) : t = Extrinsics[a][i].hash
  BY <1>3 DEF TxsOf
<1>5. receipts_by_hash[t] = Receipt(a, i) /\ receipts_by_hash[t].block_hash = a
  BY <1>1, <1>4 DEF IndexesReceipts, Receipt
<1>6. /\ IndexesReceipts(R \cup {b}, ExtendedReceipts(b))
      /\ IndexesPositions(R \cup {b}, ExtendedHashes(b))
  BY <1>1, <1>2, AddReceipts, AddPositions DEF ExtendedReceipts, ExtendedHashes
<1>7. t \in DOMAIN ExtendedReceipts(b) /\ ExtendedReceipts(b)[t] = Receipt(a, i)
  BY <1>3, <1>4, <1>6 DEF IndexesReceipts
<1>8. CASE InsertIntoSpace(b)
  BY <1>5, <1>7, <1>8 DEF InsertIntoSpace
<1>9. CASE PruneAndInsert(b)
  <2> DEFINE c == Head(buffer)
             P == PrunedTxs(ExtendedHashes(b), c)
  <2>1. receipts_by_hash' = Without(ExtendedReceipts(b), P) /\ Len(buffer) = N /\ c \in Blocks
    BY <1>9, NAssumption DEF PruneAndInsert, TypeOK
  <2>2. t \in P => a = c
    <3>1. CASE c \in R \cup {b}
      <4>1. P = TxsOf(c)
        BY <1>2, <1>6, <3>1, PrunedAreItsOwn
      <4> QED
        BY <1>2, <1>4, <2>1, <4>1, HashNamesPosition DEF TxsOf
    <3>2. CASE c \notin R \cup {b}
      BY <1>6, <3>2 DEF IndexesPositions, PrunedTxs
    <3> QED
      BY <3>1, <3>2
  <2> HIDE DEF P, c
  <2>3. CASE t \in P
    BY <1>5, <2>1, <2>2, <2>3 DEF c
  <2>4. CASE t \notin P
    BY <1>5, <1>7, <2>1, <2>4 DEF Without
  <2> QED
    BY <2>3, <2>4
<1> QED
  BY <1>8, <1>9 DEF Push

\* A receipt that was served stays served until its block is pruned.
THEOREM ReceiptsKept == Spec => ReceiptKeptWhileWindowed
<1>1. TypeOK /\ IndexesWindow /\ [Next]_vars =>
        [\A t \in DOMAIN receipts_by_hash :
           \/ t \in DOMAIN receipts_by_hash' /\ receipts_by_hash'[t] = receipts_by_hash[t]
           \/ Len(buffer) = N /\ receipts_by_hash[t].block_hash = Head(buffer)]_vars
  BY ReceiptKept DEF Next
<1> QED
  BY <1>1, TypeCorrect, WindowIndexed, PTL DEF Spec, ReceiptKeptWhileWindowed
=============================================================================
