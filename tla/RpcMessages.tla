---------------------------- MODULE RpcMessages ----------------------------
(***************************************************************************)
(* The generated types at work: the generator prints them, they are        *)
(* compiled, and values of them are read from JSON documents and written.  *)
(***************************************************************************)
EXTENDS TypeGenerator, JsonCodec, RpcTypes

CONSTANT Served     \* lists of methods whose types are compiled

VARIABLES
    types,       \* the compiled types, by name
    name,        \* type that is read
    doc, value, reply

messageVars == <<types, name, doc, value, reply>>
allVars == <<vars, messageVars>>

\* generator.rs: SUPPORTED_ETH_METHODS
SupportedEthMethods ==
    {"net_version", "eth_accounts", "eth_blockNumber", "eth_call", "eth_chainId", "eth_estimateGas",
     "eth_gasPrice", "eth_getBalance", "eth_getBlockByHash", "eth_getBlockByNumber",
     "eth_getBlockTransactionCountByHash", "eth_getBlockTransactionCountByNumber", "eth_getCode",
     "eth_getStorageAt", "eth_getTransactionByBlockHashAndIndex",
     "eth_getTransactionByBlockNumberAndIndex", "eth_getTransactionByHash", "eth_getTransactionCount",
     "eth_getTransactionReceipt", "eth_sendRawTransaction"}

NoDoc == Json("no document")
NoValue == Value("no value")

MessagesInit ==
    /\ Init
    /\ types = <<>> /\ name = "" /\ doc = NoDoc /\ value = NoValue /\ reply = NoDoc

Generate == Next /\ UNCHANGED messageVars

Compile ==
    /\ pc = "done" /\ types = <<>> /\ filtered \in Served
    /\ types' = [n \in DOMAIN code |-> TypeOf(code[n])]
    /\ UNCHANGED <<vars, name, doc, value, reply>>

\* Printed types that are a parameter or the result of a method.
MessageTypes ==
    {info.name : info \in UNION {{SignatureOf(m).result} \cup Range(SignatureOf(m).params) : m \in methods}}
    \cap DOMAIN types

\* A document arrives where a value of a type is expected.
Receive ==
    /\ doc = NoDoc
    /\ name' \in MessageTypes
    /\ doc' \in Samples(SchemaOf(code[name']))
    /\ value' = Read(types, TypeNamed(name'), doc')
    /\ UNCHANGED <<vars, types, reply>>

\* The value is sent.
Send ==
    /\ value \notin {NoValue, Failed} /\ reply = NoDoc
    /\ reply' = Write(types, TypeNamed(name), value)
    /\ UNCHANGED <<vars, types, name, doc, value>>

MessagesNext ==
    \/ Generate
    \/ Compile
    \/ Receive
    \/ Send

MessagesSpec == MessagesInit /\ [][MessagesNext]_allVars
FairMessagesSpec == MessagesSpec /\ WF_allVars(Generate)

-----------------------------------------------------------------------------
HasRead == name # ""
Sent == reply # NoDoc
TheSchema == SchemaOf(code[name])

\* Names of types in what is printed for a type or a method.
NamesIn(t) ==
    {f.type.name : f \in t.fields}
    \cup (IF t.kind \in {"enum", "alias"} THEN {v.name : v \in Range(t.variants)} ELSE {})
NamesOfMethod(m) == {info.name : info \in {SignatureOf(m).result} \cup Range(SignatureOf(m).params)}
NotPrinted == Range(PrimitiveMappings) \cup Range(DigitTypes) \cup {"bool", "String"}

\* The generated files compile: every name of a type in what `get_type` prints is
\* one of the types that are printed, or imported from byte.rs, type_id.rs and
\* ethereum_types; `type_info` makes the names up and hands the sources to
\* `collect` in two different places.
Compiles ==
    pc = "done" =>
        \A n \in UNION ({NamesIn(TypeOf(code[x])) : x \in DOMAIN code} \cup {NamesOfMethod(m) : m \in methods}) :
            n \in NotPrinted \cup DOMAIN code

\* The supported methods are generated without a panic, and the result is what
\* is checked in: rpc_types.rs and rpc_methods.rs are not edited by hand and not
\* left behind by a change of the generator.
MatchesCheckedIn ==
    filtered = SupportedEthMethods =>
        /\ pc # "panicked"
        /\ types # <<>> => types = Types
        /\ pc = "done" => \A m \in methods : SignatureOf(m) = EthRpc[m]

\* What arrived conforms to the schema, its legacy names aside.
Conforming == HasRead /\ Valid(TheSchema, Renamed(TheSchema, doc))

\* A document that the OpenRPC schema admits is read, whatever of the optional
\* members it has, under a legacy name or not, and by whichever variant of an
\* untagged union takes it first; except for what no type can hold.
AcceptsValid == Conforming /\ Representable(TheSchema, doc) => value # Failed

\* What is written conforms to the schema, also when what was read was sloppier
\* than that: leading zeros, null for nothing, a legacy name, or a member the
\* schema does not list, which where it is closed must not be written on.
AnswersAreValid == Sent => Valid(TheSchema, reply)

\* Reading a document and writing it again loses nothing of what it says: no
\* member disappears because an earlier variant of an untagged union takes the
\* document without it, none is read as a different type.  Block numbers, tags
\* or hashes are left to PicksTheSchema.
NothingLost ==
    Sent /\ Conforming /\ name # "BlockNumberOrTagOrHash" => SameMeaning(TheSchema, doc, reply)

\* "Block number, tag, or block hash" (rpc_types.rs): a document that only one
\* alternative of the schema admits is read as that one.
PicksTheSchema ==
    HasRead /\ Union(TheSchema) /\ Len(VariantsFromOneOf(TheSchema.items)) = Len(TheSchema.items) =>
        \A i \in DOMAIN TheSchema.items :
            {k \in DOMAIN TheSchema.items : Valid(TheSchema.items[k], doc)} = {i} =>
                value = Failed \/ value.index = i
=============================================================================
