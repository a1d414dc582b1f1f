------------------------------- MODULE OpenRpc -------------------------------
(***************************************************************************)
(* The OpenRPC document the types of the RPC are generated from            *)
(* (rpc/codegen/openrpc.json), as rpc/codegen/src/open_rpc.rs reads it,    *)
(* and which JSON documents its schemas admit.                             *)
(*                                                                         *)
(* A hexadecimal string is what the schemas tell apart: its number of      *)
(* digits, how many of them are leading zeros, and the rest.               *)
(***************************************************************************)
EXTENDS Integers, Sequences, TLC

\* A schema.  An "untyped" object is one without `type: object`; a "string" has
\* a pattern, or "" for none, an "enum" its values.  An object that is closed has
\* `additionalProperties: false`, which open_rpc.rs does not look at.
Blank == [kind |-> "null", name |-> "", items |-> <<>>, values |-> <<>>,
          properties |-> <<>>, required |-> {}, aliases |-> <<>>, closed |-> FALSE]

Ref(n) == [Blank EXCEPT !.kind = "ref", !.name = n]
Pattern(p) == [Blank EXCEPT !.kind = "string", !.name = p]
Enum(vs) == [Blank EXCEPT !.kind = "enum", !.values = vs]
Array(s) == [Blank EXCEPT !.kind = "array", !.items = <<s>>]
AllOf(ss) == [Blank EXCEPT !.kind = "allOf", !.items = ss]
AnyOf(ss) == [Blank EXCEPT !.kind = "anyOf", !.items = ss]
OneOf(ss) == [Blank EXCEPT !.kind = "oneOf", !.items = ss]
NullLiteral == Blank
Boolean == [Blank EXCEPT !.kind = "boolean"]
Float == [Blank EXCEPT !.kind = "number"]

\* `RefOr::Reference` as a method's result: the name of a Rust type.
RustType(t) == [Blank EXCEPT !.kind = "rust", !.name = t]

\* An object by its properties and the names of those that are optional.
Object(ps, optional) ==
    [Blank EXCEPT !.kind = "object", !.properties = ps, !.required = DOMAIN ps \ optional]
Untyped(ps, optional) == [Object(ps, optional) EXCEPT !.kind = "untyped"]
Closed(ps, optional) == [Object(ps, optional) EXCEPT !.closed = TRUE]

Each(names, s) == [n \in names |-> s]

Uint == Ref("uint")
Hash32 == Ref("hash32")
AddressRef == Ref("address")
NullOr(s) == OneOf(<<NullLiteral, s>>)
OrNotFound(s) == OneOf(<<Ref("notFound"), s>>)

-----------------------------------------------------------------------------
\* `components.schemas`

Primitives ==
    [n \in {"address", "byte", "bytes", "bytes256", "hash32", "bytes32", "bytes48", "bytes65",
            "bytes8", "bytes96", "bytesMax32", "uint", "uint256", "uint64"} |-> Pattern(n)]

BlockSchema ==
    Closed(Each({"hash", "parentHash", "sha3Uncles", "stateRoot", "transactionsRoot", "receiptsRoot",
                 "mixHash", "withdrawalsRoot", "parentBeaconBlockRoot"}, Hash32)
        @@ Each({"difficulty", "number", "gasLimit", "gasUsed", "timestamp", "totalDifficulty",
                 "baseFeePerGas", "blobGasUsed", "excessBlobGas", "size"}, Uint)
        @@ [miner |-> AddressRef, logsBloom |-> Ref("bytes256"), extraData |-> Ref("bytes"),
            nonce |-> Ref("bytes8"), uncles |-> Array(Hash32), withdrawals |-> Array(Ref("Withdrawal")),
            transactions |-> AnyOf(<<Array(Hash32), Array(Ref("TransactionInfo"))>>)],
        {"difficulty", "totalDifficulty", "baseFeePerGas", "withdrawalsRoot", "blobGasUsed",
         "excessBlobGas", "parentBeaconBlockRoot", "withdrawals"})

ReceiptInfoSchema ==
    Closed(Each({"transactionHash", "blockHash", "root"}, Hash32)
        @@ Each({"transactionIndex", "blockNumber", "cumulativeGasUsed", "gasUsed", "blobGasUsed",
                 "status", "effectiveGasPrice", "blobGasPrice"}, Uint)
        @@ [type |-> Ref("byte"), from |-> AddressRef, to |-> NullOr(AddressRef),
            contractAddress |-> OneOf(<<AddressRef, NullLiteral>>),
            logs |-> Array(Ref("Log")), logsBloom |-> Ref("bytes256")],
        {"type", "to", "blobGasUsed", "contractAddress", "root", "status", "blobGasPrice"})

LogProperties ==
    Each({"transactionHash", "blockHash"}, Hash32)
    @@ Each({"logIndex", "transactionIndex", "blockNumber"}, Uint)
    @@ [removed |-> Boolean, address |-> AddressRef, data |-> Ref("bytes"),
        topics |-> Array(Ref("bytes32"))]

\* What the four unsigned transactions share.
Unsigned(type) ==
    [type |-> type, input |-> Ref("bytes")]
    @@ Each({"nonce", "gas", "value", "chainId"}, Uint)
Fees == Each({"maxPriorityFeePerGas", "maxFeePerGas"}, Uint)
Blobs == [maxFeePerBlobGas |-> Uint, blobVersionedHashes |-> Array(Hash32)]
WithAccessList == [accessList |-> Ref("AccessList")]
ToMaybe == [to |-> NullOr(AddressRef)]
WithGasPrice == [gasPrice |-> Uint]

GenericTransactionProperties ==
    Unsigned(Ref("byte")) @@ Fees @@ Blobs @@ WithAccessList @@ ToMaybe @@ WithGasPrice
    @@ [from |-> AddressRef, blobs |-> Array(Ref("bytes"))]

Signature(names, optional) == Untyped(Each(names, Uint), optional)

FilterSchema ==
    LET ps == Each({"fromBlock", "toBlock"}, Uint)
              @@ [address |-> OneOf(<<NullLiteral, AddressRef, Ref("addresses")>>),
                  topics |-> Ref("FilterTopics")]
    IN  Closed(ps, DOMAIN ps)

Schemas ==
    Primitives @@
    [notFound |-> NullLiteral, ratio |-> Float,
     addresses |-> Array(AddressRef),
     Block |-> BlockSchema,
     BadBlock |-> Closed([block |-> Ref("Block"), hash |-> Hash32, rlp |-> Ref("bytes")], {}),
     BlockTag |-> Enum(<<"earliest", "finalized", "safe", "latest", "pending">>),
     BlockNumberOrTag |-> OneOf(<<Uint, Ref("BlockTag")>>),
     BlockNumberOrTagOrHash |-> AnyOf(<<Uint, Ref("BlockTag"), Hash32>>),
     ReceiptInfo |-> ReceiptInfoSchema,
     Log |-> Closed(LogProperties, DOMAIN LogProperties \ {"transactionHash"}),
     AccessList |-> Array(Ref("AccessListEntry")),
     AccessListEntry |-> Closed([address |-> AddressRef, storageKeys |-> Array(Hash32)], {}),
     Withdrawal |-> Closed(Each({"index", "validatorIndex"}, Ref("uint64"))
                           @@ [address |-> AddressRef, amount |-> Ref("uint256")], {}),
     GenericTransaction |->
        Closed(GenericTransactionProperties, DOMAIN GenericTransactionProperties),
     Transaction4844Unsigned |->
        Object(Unsigned(Ref("byte")) @@ Fees @@ Blobs @@ WithAccessList @@ [to |-> AddressRef], {}),
     Transaction1559Unsigned |->
        Object(Unsigned(Pattern("0x2")) @@ Fees @@ WithAccessList @@ ToMaybe @@ WithGasPrice, {"to"}),
     Transaction2930Unsigned |->
        Object(Unsigned(Pattern("0x1")) @@ WithAccessList @@ ToMaybe @@ WithGasPrice, {"to"}),
     TransactionLegacyUnsigned |->
        Object(Unsigned(Pattern("0x0")) @@ ToMaybe @@ WithGasPrice, {"to", "chainId"}),
     TransactionUnsigned |->
        OneOf(<<Ref("Transaction4844Unsigned"), Ref("Transaction1559Unsigned"),
                Ref("Transaction2930Unsigned"), Ref("TransactionLegacyUnsigned")>>),
     Transaction4844Signed |->
        AllOf(<<Ref("Transaction4844Unsigned"), Signature({"yParity", "r", "s"}, {"yParity"})>>),
     Transaction1559Signed |->
        AllOf(<<Ref("Transaction1559Unsigned"), Signature({"yParity", "v", "r", "s"}, {"yParity", "v"})>>),
     Transaction2930Signed |->
        AllOf(<<Ref("Transaction2930Unsigned"), Signature({"yParity", "v", "r", "s"}, {"v"})>>),
     TransactionLegacySigned |->
        AllOf(<<Ref("TransactionLegacyUnsigned"), Signature({"v", "r", "s"}, {})>>),
     TransactionSigned |->
        OneOf(<<Ref("Transaction4844Signed"), Ref("Transaction1559Signed"),
                Ref("Transaction2930Signed"), Ref("TransactionLegacySigned")>>),
     TransactionInfo |->
        AllOf(<<Untyped(Each({"blockHash", "hash"}, Hash32)
                        @@ Each({"blockNumber", "transactionIndex"}, Uint) @@ [from |-> AddressRef], {}),
                Ref("TransactionSigned")>>),
     FilterResults |-> OneOf(<<Array(Hash32), Array(Ref("Log"))>>),
     Filter |-> FilterSchema,
     FilterTopics |-> NullOr(Array(Ref("FilterTopic"))),
     FilterTopic |-> OneOf(<<Ref("bytes32"), Array(Ref("bytes32"))>>),
     AccountProof |-> Closed(Each({"codeHash", "storageHash"}, Hash32)
                             @@ [address |-> AddressRef, accountProof |-> Array(Ref("bytes")),
                                 balance |-> Ref("uint256"), nonce |-> Ref("uint64"),
                                 storageProof |-> Array(Ref("StorageProof"))], {}),
     StorageProof |-> Closed([key |-> Ref("bytesMax32"), value |-> Ref("uint256"),
                              proof |-> Array(Ref("bytes"))], {}),
     SyncingStatus |->
        LET blocks == {"startingBlock", "currentBlock", "highestBlock"}
        IN  OneOf(<<Closed(Each(blocks, Uint), blocks), Boolean>>)]

\* `inject_legacy_aliases`
InjectLegacyAliases(n, s) ==
    IF n = "GenericTransaction" THEN [s EXCEPT !.aliases = "input" :> "data"] ELSE s

GetSchema(n) == InjectLegacyAliases(n, Schemas[n])

-----------------------------------------------------------------------------
\* `methods`

Param(required, s) == [required |-> required, schema |-> s]
Must(s) == Param(TRUE, s)
May(s) == Param(FALSE, s)
MethodOf(params, result) == [params |-> params, result |-> result]

FeeHistoryResults ==
    LET ps == Each({"baseFeePerGas", "baseFeePerBlobGas"}, Array(Uint))
              @@ Each({"gasUsedRatio", "blobGasUsedRatio"}, Array(Ref("ratio")))
              @@ [oldestBlock |-> Uint, reward |-> Array(Array(Uint))]
    IN  Closed(ps, {"baseFeePerBlobGas", "blobGasUsedRatio", "reward"})

AccessListResult ==
    LET ps == [accessList |-> Ref("AccessList"), error |-> Pattern(""), gasUsed |-> Uint]
    IN  Closed(ps, DOMAIN ps)

Tx == Ref("GenericTransaction")
NumberOrTag == Ref("BlockNumberOrTag")
AnyBlock == Ref("BlockNumberOrTagOrHash")

\* `net_version` is injected by `read_specs`.  The proxy serves about half of them.
MethodDocs ==
    Each({"eth_blobBaseFee", "eth_blockNumber", "eth_chainId", "eth_gasPrice",
          "eth_maxPriorityFeePerGas", "eth_newBlockFilter", "eth_newPendingTransactionFilter"},
         MethodOf(<<>>, Uint))
    @@ Each({"eth_getFilterChanges", "eth_getFilterLogs"}, MethodOf(<<May(Uint)>>, Ref("FilterResults")))
    @@ Each({"eth_getBlockTransactionCountByHash", "eth_getUncleCountByBlockHash"},
            MethodOf(<<May(Hash32)>>, OrNotFound(Uint)))
    @@ Each({"eth_getBlockTransactionCountByNumber", "eth_getUncleCountByBlockNumber"},
            MethodOf(<<May(NumberOrTag)>>, OrNotFound(Uint)))
    @@ Each({"eth_getBalance", "eth_getTransactionCount"}, MethodOf(<<Must(AddressRef), Must(AnyBlock)>>, Uint))
    @@ [net_version |-> MethodOf(<<>>, RustType("String")),
     eth_accounts |-> MethodOf(<<>>, Array(AddressRef)),
     eth_call |-> MethodOf(<<Must(Tx), May(AnyBlock)>>, Ref("bytes")),
     eth_coinbase |-> MethodOf(<<>>, AddressRef),
     eth_createAccessList |-> MethodOf(<<Must(Tx), May(NumberOrTag)>>, AccessListResult),
     eth_estimateGas |-> MethodOf(<<Must(Tx), May(NumberOrTag)>>, Uint),
     eth_feeHistory |->
        MethodOf(<<Must(Uint), Must(NumberOrTag), Must(Array(Float))>>, FeeHistoryResults),
     eth_getBlockByHash |-> MethodOf(<<Must(Hash32), Must(Boolean)>>, OrNotFound(Ref("Block"))),
     eth_getBlockByNumber |-> MethodOf(<<Must(NumberOrTag), Must(Boolean)>>, OrNotFound(Ref("Block"))),
     eth_getBlockReceipts |-> MethodOf(<<Must(AnyBlock)>>, OrNotFound(Array(Ref("ReceiptInfo")))),
     eth_getCode |-> MethodOf(<<Must(AddressRef), Must(AnyBlock)>>, Ref("bytes")),
     eth_getLogs |-> MethodOf(<<May(Ref("Filter"))>>, Ref("FilterResults")),
     eth_getProof |->
        MethodOf(<<Must(AddressRef), Must(Array(Ref("bytesMax32"))), Must(AnyBlock)>>,
                 Ref("AccountProof")),
     eth_getStorageAt |->
        MethodOf(<<Must(AddressRef), Must(Ref("uint256")), Must(AnyBlock)>>, Ref("bytes")),
     eth_getTransactionByBlockHashAndIndex |->
        MethodOf(<<Must(Hash32), Must(Uint)>>, OrNotFound(Ref("TransactionInfo"))),
     eth_getTransactionByBlockNumberAndIndex |->
        MethodOf(<<Must(NumberOrTag), Must(Uint)>>, OrNotFound(Ref("TransactionInfo"))),
     eth_getTransactionByHash |-> MethodOf(<<Must(Hash32)>>, OrNotFound(Ref("TransactionInfo"))),
     eth_getTransactionReceipt |-> MethodOf(<<Must(Hash32)>>, OrNotFound(Ref("ReceiptInfo"))),
     eth_newFilter |-> MethodOf(<<May(Ref("Filter"))>>, Uint),
     eth_sendRawTransaction |-> MethodOf(<<Must(Ref("bytes"))>>, Hash32),
     eth_sendTransaction |-> MethodOf(<<Must(Tx)>>, Hash32),
     eth_sign |-> MethodOf(<<Must(AddressRef), Must(Ref("bytes"))>>, Ref("bytes65")),
     eth_signTransaction |-> MethodOf(<<Must(Tx)>>, Ref("bytes")),
     eth_syncing |-> MethodOf(<<>>, Ref("SyncingStatus")),
     eth_uninstallFilter |-> MethodOf(<<May(Uint)>>, Boolean)]

\* The order of the document.
MethodOrder ==
    <<"eth_accounts", "eth_blobBaseFee", "eth_blockNumber", "eth_call", "eth_chainId", "eth_coinbase",
      "eth_createAccessList", "eth_estimateGas", "eth_feeHistory", "eth_gasPrice", "eth_getBalance",
      "eth_getBlockByHash", "eth_getBlockByNumber", "eth_getBlockReceipts",
      "eth_getBlockTransactionCountByHash", "eth_getBlockTransactionCountByNumber", "eth_getCode",
      "eth_getFilterChanges", "eth_getFilterLogs", "eth_getLogs", "eth_getProof", "eth_getStorageAt",
      "eth_getTransactionByBlockHashAndIndex", "eth_getTransactionByBlockNumberAndIndex",
      "eth_getTransactionByHash", "eth_getTransactionCount", "eth_getTransactionReceipt",
      "eth_getUncleCountByBlockHash", "eth_getUncleCountByBlockNumber", "eth_maxPriorityFeePerGas",
      "eth_newBlockFilter", "eth_newFilter", "eth_newPendingTransactionFilter",
      "eth_sendRawTransaction", "eth_sendTransaction", "eth_sign", "eth_signTransaction", "eth_syncing",
      "eth_uninstallFilter", "net_version">>
=============================================================================
