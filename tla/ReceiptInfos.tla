---------------------------- MODULE ReceiptInfos ----------------------------
(***************************************************************************)
(* The EVM transaction receipts of a Substrate block: what                 *)
(* `ClientInner::receipt_infos` (rpc/src/client.rs) computes from the      *)
(* extrinsics of a block and from the events each of them deposited.       *)
(*                                                                         *)
(* A block is identified with its hash.  Of an extrinsic the module keeps  *)
(* what decides whether it yields a receipt and what the cache and the     *)
(* JSON-RPC answers distinguish; amounts and addresses are left out.       *)
(***************************************************************************)
EXTENDS Integers, Sequences, FiniteSets

CONSTANTS
    Blocks,       \* blocks the node may finalize (a block is its own hash)
    NumberOf,     \* the number in a block's header
    TxHashes,     \* hashes of extrinsics
    Extrinsics    \* the extrinsics of each block, in block order

(***************************************************************************)
(* `kind`    which typed call `as_extrinsic` recognises, "other" when none *)
(*           or when the extrinsic does not decode                         *)
(* `source`  the call carries its optional source address                  *)
(* `address` the sender field of the extrinsic: an account id, another     *)
(*           MultiAddress variant, or absent (an unsigned extrinsic)       *)
(* `feePaid` its events hold a TransactionFeePaid                          *)
(* `success` its events hold an ExtrinsicSuccess (else ExtrinsicFailed)    *)
(***************************************************************************)
Kinds == {"eth_instantiate", "eth_call", "other"}

Extrinsic ==
    [hash : TxHashes, kind : Kinds, source : BOOLEAN,
     address : {"Id", "otherVariant", "absent"},
     feePaid : BOOLEAN, success : BOOLEAN]

\* A header number names one block of the finalized chain.
ASSUME NumberOfAssumption ==
    /\ NumberOf \in [Blocks -> Nat]
    /\ \A b, c \in Blocks : NumberOf[b] = NumberOf[c] => b = c

\* An extrinsic is included once (its nonce is spent by its inclusion), so its
\* hash occurs at one position of one block.
ASSUME ExtrinsicsAssumption ==
    /\ Extrinsics \in [Blocks -> Seq(Extrinsic)]
    /\ \A b, c \in Blocks :
         \A i \in 1..Len(Extrinsics[b]), j \in 1..Len(Extrinsics[c]) :
            Extrinsics[b][i].hash = Extrinsics[c][j].hash => b = c /\ i = j

-----------------------------------------------------------------------------

\* `EvmExtrinsic::into_receipt_info` returns Some, for the calls that the
\* filter in `receipt_infos` lets through.
IntoReceiptInfo(x) ==
    /\ x.kind # "other"
    /\ x.kind = "eth_instantiate" => x.address = "Id"
    /\ x.source

\* Positions of the extrinsics of `b` that get a receipt.
EvmPositions(b) ==
    {i \in 1..Len(Extrinsics[b]) : IntoReceiptInfo(Extrinsics[b][i])}

\* `events.find_first::<ExtrinsicSuccess>()`: Ok(Some(event)) or Ok(None).
FindFirstSuccess(x) == [ok |-> TRUE, some |-> x.success]

\* The receipt built for the extrinsic at position `i`: `ext.index()` counts
\* every extrinsic of the block from zero, and the status is one exactly when
\* `find_first` returned Ok.
Receipt(b, i) ==
    [transaction_hash  |-> Extrinsics[b][i].hash,
     block_hash        |-> b,
     block_number      |-> NumberOf[b],
     transaction_index |-> i - 1,
     status            |-> IF FindFirstSuccess(Extrinsics[b][i]).ok THEN 1 ELSE 0]

Receipts ==
    [transaction_hash : TxHashes, block_hash : Blocks, block_number : Nat,
     transaction_index : Nat, status : {0, 1}]

\* `receipt_infos` fails with TxFeeNotFound when one EVM extrinsic has no fee
\* event; then no receipt of the block is returned.
FeesFound(b) == \A i \in EvmPositions(b) : Extrinsics[b][i].feePaid

\* Hashes and indices of the EVM transactions of `b`.
TxsOf(b) == {Extrinsics[b][i].hash : i \in EvmPositions(b)}
IndicesOf(b) == {i - 1 : i \in EvmPositions(b)}

PositionOf(b, h) == CHOOSE i \in EvmPositions(b) : Extrinsics[b][i].hash = h

\* The map by transaction hash that `receipt_infos` returns.
ReceiptsOf(b) == [h \in TxsOf(b) |-> Receipt(b, PositionOf(b, h))]

\* Variant with a bug: indices counted from one.
HashesByPosition(b) == [k \in EvmPositions(b) |-> Extrinsics[b][k].hash]

\* The map from transaction index to hash that `subscribe_blocks` derives.
HashesByIndex(b) == [k \in IndicesOf(b) |-> Extrinsics[b][k + 1].hash]
=============================================================================
