---------------------------- MODULE MCBlockCache ----------------------------
(***************************************************************************)
(* Small chains for BlockCache: block n has number n; the transactions are *)
(* spread so that a block has none, one or two EVM transactions.           *)
(***************************************************************************)
EXTENDS BlockCache

CONSTANTS MaxNumber

MCBlocks == {<<"block", n>> : n \in 0..MaxNumber}
MCNumberOf == [b \in MCBlocks |-> b[2]]
MCTxHashes == {<<"tx", n, i>> : n \in 0..MaxNumber, i \in 1..4}

Xt(n, i, kind, source, address, success) ==
    [hash |-> <<"tx", n, i>>, kind |-> kind, source |-> source,
     address |-> address, feePaid |-> address # "absent", success |-> success]

\* The timestamp inherent, which starts every block.
Inherent(n) == Xt(n, 1, "other", FALSE, "absent", TRUE)

\* No EVM transaction; one; one of three extrinsics; two of four, one failed.
MCExtrinsics ==
    [b \in MCBlocks |->
       LET n == b[2] IN
       CASE n % 4 = 0 -> <<Inherent(n)>>
         [] n % 4 = 1 -> <<Inherent(n), Xt(n, 2, "eth_call", TRUE, "Id", TRUE)>>
         [] n % 4 = 2 -> <<Inherent(n), Xt(n, 2, "eth_instantiate", TRUE, "otherVariant", TRUE),
                           Xt(n, 3, "eth_call", TRUE, "Id", TRUE)>>
         [] n % 4 = 3 -> <<Inherent(n), Xt(n, 2, "eth_instantiate", TRUE, "Id", FALSE),
                           Xt(n, 3, "eth_call", FALSE, "Id", TRUE),
                           Xt(n, 4, "eth_call", TRUE, "Id", TRUE)>>]

\* Every receipt of these chains has its fee event except in block 6, which the
\* subscription can therefore never push.
MCExtrinsicsFee ==
    [b \in MCBlocks |->
       IF b[2] = 6
       THEN [MCExtrinsics[b] EXCEPT ![3].feePaid = FALSE]
       ELSE MCExtrinsics[b]]

MCNumbers == 0..MaxNumber
MCIndices == 0..3
=============================================================================
