--------------------------- MODULE MCRpcMessages ---------------------------
(***************************************************************************)
(* The methods and schemas of the OpenRPC document, and lists of methods:  *)
(* the supported ones, these and one more, these without one, each method  *)
(* alone, and a list with a method that is not in the document.  Of those  *)
(* that are not supported, the generator panics on eth_createAccessList,   *)
(* eth_feeHistory, eth_getProof, eth_sign and eth_syncing, for a part of   *)
(* which it has no type.                                                   *)
(***************************************************************************)
EXTENDS RpcMessages

MCDocument == MethodOrder

SchemaNames == DOMAIN Schemas
Uses == (UNION {TypeMentions(Ref(n)) : n \in SchemaNames}) \cup (UNION {MethodMentions(m) : m \in Methods})
MCSources == {p[2] : p \in Uses} \cup {Ref(n) : n \in SchemaNames}
MCAlphabet ==
    <<"AccessList", "AccessListEntry", "AccountProof", "Address", "AddressOrAddresses",
      "Addresses", "BadBlock", "Block", "BlockNumberOrTag", "BlockNumberOrTagOrHash", "BlockTag", "Byte",
      "Bytes", "Bytes256", "Bytes32", "Bytes48", "Bytes65", "Bytes8", "Bytes96", "BytesMax32", "Filter", "FilterResults",
      "FilterTopic", "FilterTopics", "GenericTransaction", "H256", "H256OrTransactionInfo",
      "Hash32", "Log", "NotFound", "Ratio", "ReceiptInfo", "StorageProof", "String",
      "SyncingStatus", "Transaction1559Signed", "Transaction1559Unsigned", "Transaction2930Signed",
      "Transaction2930Unsigned", "Transaction4844Signed", "Transaction4844Unsigned",
      "TransactionInfo", "TransactionLegacySigned", "TransactionLegacyUnsigned",
      "TransactionSigned", "TransactionUnsigned", "U256", "Uint", "Uint256", "Uint64",
      "Withdrawal">>

\* Lists whose types are compiled.  The others that are generated are not: the
\* schema of the result of eth_getLogs does not admit an empty list, which is a
\* list of hashes and one of logs.
MCServed == {SupportedEthMethods, SupportedEthMethods \cup {"eth_newFilter"}}

MCMethodLists ==
    MCServed
    \cup {{m} : m \in Methods} \cup {SupportedEthMethods \ {m} : m \in SupportedEthMethods}
    \cup {SupportedEthMethods \cup {m} : m \in Methods \cup {"eth_mining"}}

MCExtraType == <<"TransactionUnsigned", Ref("TransactionUnsigned")>>
=============================================================================
