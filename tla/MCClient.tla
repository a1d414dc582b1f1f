------------------------------ MODULE MCClient ------------------------------
(***************************************************************************)
(* A chain of four blocks b0..b3 and the queries of each run of Client.    *)
(* b0 and b2 have no EVM transaction, b1 has one after its inherent, b3    *)
(* has two.                                                                *)
(***************************************************************************)
EXTENDS Client

CONSTANTS b0, b1, b2, b3, inherent, t1, t2, t3

MCBlocks == {b0, b1, b2, b3}
MCNumberOf ==
    [b \in MCBlocks |-> CASE b = b0 -> 0 [] b = b1 -> 1 [] b = b2 -> 2 [] b = b3 -> 3]
MCTxHashes == {inherent, t1, t2, t3} \X (0..3)

Xt(t, n, kind, feePaid) ==
    [hash |-> <<t, n>>, kind |-> kind, source |-> kind # "other", address |-> "Id",
     feePaid |-> feePaid, success |-> TRUE]

Inherent(n) == Xt(inherent, n, "other", FALSE)

MCExtrinsics ==
    [b \in MCBlocks |->
       CASE b = b0 -> <<Inherent(0)>>
         [] b = b1 -> <<Inherent(1), Xt(t1, 1, "eth_call", TRUE)>>
         [] b = b2 -> <<Inherent(2)>>
         [] b = b3 -> <<Inherent(3), Xt(t2, 3, "eth_instantiate", TRUE), Xt(t3, 3, "eth_call", TRUE)>>]

Ask(method, at, index) == [method |-> method, at |-> at, index |-> index]

\* Every kind of request, at blocks that are in the window, evicted, not
\* finalized yet, or named by a tag.
MCAllQueries ==
    {Ask("block_number", None, None), Ask("transaction", <<t1, 1>>, None),
     Ask("transaction_at_hash", b1, 1),
     Ask("count_by_hash", Latest, None), Ask("count_by_hash", b3, None),
     Ask("block_by_hash", b1, None), Ask("block_by_hash", b3, None),
     Ask("block_by_number", 1, None), Ask("block_by_number", 3, None),
     Ask("count_by_number", 1, None), Ask("count_by_number", Latest, None),
     Ask("transaction_at_number", 1, 1), Ask("transaction_at_number", 3, 2),
     Ask("transaction_at_number", Latest, 1),
     Ask("state_at", Latest, None), Ask("state_at", b3, None), Ask("state_at", 1, None)}

\* Every kind of request except the nested ones, those of ByNumberMethods at a
\* number.
MCFlatQueries ==
    {Ask("count_by_hash", Latest, None), Ask("block_by_hash", b0, None), Ask("state_at", 0, None)}

MCNestedQueries == {Ask("block_by_number", 0, None)}
MCNumbers == 0..3
MCIndices == 0..2
=============================================================================
