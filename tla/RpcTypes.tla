------------------------------ MODULE RpcTypes ------------------------------
(***************************************************************************)
(* The generated files as they are checked in: the types of                *)
(* rpc/api/src/rpc_types.rs and the methods of rpc/src/rpc_methods.rs.     *)
(* A field is named as in the documents, an Option that is skipped when it *)
(* is None is a "skip", one that is written as null a "null".              *)
(***************************************************************************)
EXTENDS SchemaTypes

U256 == TypeNamed("U256")
H256 == TypeNamed("H256")
Address == TypeNamed("Address")
Bytes == TypeNamed("Bytes")
Vec(type) == [type EXCEPT !.array = TRUE]
Option(type) == [type EXCEPT !.required = "skip"]
OptionOrNull(type) == [type EXCEPT !.required = "null"]

\* Fields of one type; one that is renamed; one that is flattened.
Fields(names, type) == {Field(n, type, "", FALSE) : n \in names}
Flatten(type) == {Field(type, TypeNamed(type), "", TRUE)}

Block ==
    Fields({"gasLimit", "gasUsed", "number", "size", "timestamp"}, U256)
    \cup Fields({"baseFeePerGas", "blobGasUsed", "difficulty", "excessBlobGas", "totalDifficulty"},
                Option(U256))
    \cup Fields({"hash", "mixHash", "parentHash", "receiptsRoot", "sha3Uncles", "stateRoot",
                 "transactionsRoot"}, H256)
    \cup Fields({"parentBeaconBlockRoot", "withdrawalsRoot"}, Option(H256))
    \cup Fields({"extraData"}, Bytes) \cup Fields({"logsBloom"}, TypeNamed("Bytes256"))
    \cup Fields({"miner"}, Address) \cup Fields({"nonce"}, TypeNamed("String"))
    \cup Fields({"uncles"}, Vec(H256))
    \cup Fields({"withdrawals"}, Option(Vec(TypeNamed("Withdrawal"))))
    \cup Fields({"transactions"}, TypeNamed("H256OrTransactionInfo"))

GenericTransaction ==
    Fields({"chainId", "gas", "gasPrice", "maxFeePerBlobGas", "maxFeePerGas", "maxPriorityFeePerGas",
            "nonce", "value"}, Option(U256))
    \cup {Field("input", Option(Bytes), "data", FALSE)}
    \cup Fields({"accessList"}, Option(TypeNamed("AccessList")))
    \cup Fields({"blobVersionedHashes"}, Option(Vec(H256)))
    \cup Fields({"blobs"}, Option(Vec(Bytes)))
    \cup Fields({"from"}, Option(Address)) \cup Fields({"type"}, Option(TypeNamed("Byte")))
    \cup Fields({"to"}, OptionOrNull(Address))

ReceiptInfo ==
    Fields({"blockNumber", "cumulativeGasUsed", "effectiveGasPrice", "gasUsed", "transactionIndex"}, U256)
    \cup Fields({"blobGasPrice", "blobGasUsed", "status"}, Option(U256))
    \cup Fields({"blockHash", "transactionHash"}, H256) \cup Fields({"root"}, Option(H256))
    \cup Fields({"contractAddress", "to"}, OptionOrNull(Address)) \cup Fields({"from"}, Address)
    \cup Fields({"logs"}, Vec(TypeNamed("Log"))) \cup Fields({"logsBloom"}, TypeNamed("Bytes256"))
    \cup Fields({"type"}, Option(TypeNamed("Byte")))

Log ==
    Fields({"address"}, Option(Address)) \cup Fields({"blockHash"}, Option(H256))
    \cup Fields({"blockNumber", "logIndex", "transactionIndex"}, Option(U256))
    \cup Fields({"data"}, Option(Bytes)) \cup Fields({"removed"}, Option(TypeNamed("bool")))
    \cup Fields({"topics"}, Option(Vec(H256))) \cup Fields({"transactionHash"}, H256)

TransactionInfo ==
    Fields({"blockHash", "hash"}, H256) \cup Fields({"blockNumber", "transactionIndex"}, U256)
    \cup Fields({"from"}, Address) \cup Flatten("TransactionSigned")

\* The fields most transactions have.
Common(type) ==
    Fields({"gas", "nonce", "value"}, U256) \cup Fields({"input"}, Bytes)
    \cup Fields({"type"}, TypeNamed(type))
To == Fields({"to"}, OptionOrNull(Address))
ChainId == Fields({"chainId"}, U256)
GasPrice == Fields({"gasPrice"}, U256)
AccessListField == Fields({"accessList"}, TypeNamed("AccessList"))

Transaction1559Unsigned ==
    Common("Type2") \cup AccessListField \cup ChainId \cup GasPrice \cup To
    \cup Fields({"maxFeePerGas", "maxPriorityFeePerGas"}, U256)
Transaction2930Unsigned == Common("Type1") \cup AccessListField \cup ChainId \cup GasPrice \cup To
Transaction4844Unsigned ==
    Common("Byte") \cup AccessListField \cup ChainId \cup Fields({"to"}, Address)
    \cup Fields({"blobVersionedHashes"}, Vec(H256))
    \cup Fields({"maxFeePerBlobGas", "maxFeePerGas", "maxPriorityFeePerGas"}, U256)
TransactionLegacyUnsigned ==
    Common("Type0") \cup GasPrice \cup To \cup Fields({"chainId"}, Option(U256))

\* A signed transaction: the unsigned one, and the signature.
SignedOf(unsigned, names, optional) ==
    Flatten(unsigned) \cup Fields({"r", "s"} \cup names, U256) \cup Fields(optional, Option(U256))

Withdrawal == Fields({"address"}, Address) \cup Fields({"amount", "index", "validatorIndex"}, U256)
AccessListEntry == Fields({"address"}, Address) \cup Fields({"storageKeys"}, Vec(H256))

Named(names) == [i \in DOMAIN names |-> TypeNamed(names[i])]

Types ==
    [Block |-> Struct(Block),
     BlockNumberOrTag |-> UntaggedUnion(Named(<<"U256", "BlockTag">>)),
     BlockNumberOrTagOrHash |-> UntaggedUnion(Named(<<"U256", "BlockTag", "H256">>)),
     GenericTransaction |-> Struct(GenericTransaction),
     ReceiptInfo |-> Struct(ReceiptInfo),
     TransactionInfo |-> Struct(TransactionInfo),
     TransactionUnsigned |->
        UntaggedUnion(Named(<<"Transaction4844Unsigned", "Transaction1559Unsigned",
                              "Transaction2930Unsigned", "TransactionLegacyUnsigned">>)),
     AccessList |-> TypeAlias(Vec(TypeNamed("AccessListEntry"))),
     BlockTag |-> Strings(<<"earliest", "finalized", "safe", "latest", "pending">>),
     H256OrTransactionInfo |-> UntaggedUnion(<<Vec(H256), Vec(TypeNamed("TransactionInfo"))>>),
     Log |-> Struct(Log),
     Transaction1559Unsigned |-> Struct(Transaction1559Unsigned),
     Transaction2930Unsigned |-> Struct(Transaction2930Unsigned),
     Transaction4844Unsigned |-> Struct(Transaction4844Unsigned),
     TransactionLegacyUnsigned |-> Struct(TransactionLegacyUnsigned),
     TransactionSigned |->
        UntaggedUnion(Named(<<"Transaction4844Signed", "Transaction1559Signed",
                              "Transaction2930Signed", "TransactionLegacySigned">>)),
     Withdrawal |-> Struct(Withdrawal),
     AccessListEntry |-> Struct(AccessListEntry),
     Transaction1559Signed |-> Struct(SignedOf("Transaction1559Unsigned", {}, {"v", "yParity"})),
     Transaction2930Signed |-> Struct(SignedOf("Transaction2930Unsigned", {"yParity"}, {"v"})),
     Transaction4844Signed |-> Struct(SignedOf("Transaction4844Unsigned", {}, {"yParity"})),
     TransactionLegacySigned |-> Struct(SignedOf("TransactionLegacyUnsigned", {"v"}, {}))]

-----------------------------------------------------------------------------
Fn(params, result) == [params |-> params, result |-> result]
BlockId == TypeNamed("BlockNumberOrTagOrHash")
BlockNumber == TypeNamed("BlockNumberOrTag")
Hydrated == TypeNamed("bool")
Call == TypeNamed("GenericTransaction")
Maybe(name) == OptionOrNull(TypeNamed(name))

EthRpc ==
    [eth_accounts |-> Fn(<<>>, Vec(Address)),
     eth_blockNumber |-> Fn(<<>>, U256),
     eth_call |-> Fn(<<Call, Option(BlockId)>>, Bytes),
     eth_chainId |-> Fn(<<>>, U256),
     eth_estimateGas |-> Fn(<<Call, Option(BlockNumber)>>, U256),
     eth_gasPrice |-> Fn(<<>>, U256),
     eth_getBalance |-> Fn(<<Address, BlockId>>, U256),
     eth_getBlockByHash |-> Fn(<<H256, Hydrated>>, Maybe("Block")),
     eth_getBlockByNumber |-> Fn(<<BlockNumber, Hydrated>>, Maybe("Block")),
     eth_getBlockTransactionCountByHash |-> Fn(<<Option(H256)>>, Maybe("U256")),
     eth_getBlockTransactionCountByNumber |-> Fn(<<Option(BlockNumber)>>, Maybe("U256")),
     eth_getCode |-> Fn(<<Address, BlockId>>, Bytes),
     eth_getStorageAt |-> Fn(<<Address, U256, BlockId>>, Bytes),
     eth_getTransactionByBlockHashAndIndex |-> Fn(<<H256, U256>>, Maybe("TransactionInfo")),
     eth_getTransactionByBlockNumberAndIndex |-> Fn(<<BlockNumber, U256>>, Maybe("TransactionInfo")),
     eth_getTransactionByHash |-> Fn(<<H256>>, Maybe("TransactionInfo")),
     eth_getTransactionCount |-> Fn(<<Address, BlockId>>, U256),
     eth_getTransactionReceipt |-> Fn(<<H256>>, Maybe("ReceiptInfo")),
     eth_sendRawTransaction |-> Fn(<<Bytes>>, H256),
     net_version |-> Fn(<<>>, TypeNamed("String"))]
=============================================================================
