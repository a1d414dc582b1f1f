--------------------------- MODULE EthTransactions ---------------------------
(***************************************************************************)
(* An Ethereum transaction on its way from the wallet to the runtime: the  *)
(* signed message and its RLP form (rpc/api), the extrinsic the proxy      *)
(* makes of it (rpc/src/lib.rs), and the message the runtime makes of the  *)
(* extrinsic again to verify the signature (chain/runtime,                 *)
(* chain/primitives).                                                      *)
(*                                                                         *)
(* Hashing and ECDSA are ideal: `r` and `s` stand for who signed what, and *)
(* recovery with another message gives an address nobody has the key of.   *)
(* An account id is identified with the address it is derived from.        *)
(***************************************************************************)
EXTENDS Integers

CONSTANTS
    Addresses,
    Stranger,         \* what recovery gives for a signature of another message
    None,             \* an Option that is None
    Inputs,           \* contents of the input field
    CallInputs,       \* [code, data, salt] of an instantiation
    DecodeCallInput,  \* `CallInput::decode`; None when it fails
    EncodeCallInput,  \* `CallInput::encode`
    ChainId,          \* 596
    GasPrice,         \* GAS_PRICE, 1
    Ratio,            \* 10^(EVM_DECIMALS - NATIVE_DECIMALS)
    MaxU64,
    MaxU128

ASSUME AddressAssumption == Stranger \notin Addresses /\ None \notin Addresses

\* Decoding undoes encoding.  It ignores bytes after the last field, so several
\* inputs may decode to one value.
ASSUME CallInputAssumption ==
    /\ DecodeCallInput \in [Inputs -> CallInputs \cup {None}]
    /\ EncodeCallInput \in [CallInputs -> Inputs]
    /\ \A i \in CallInputs : DecodeCallInput[EncodeCallInput[i]] = i
    /\ None \notin CallInputs /\ None \notin Nat

ASSUME NumbersAssumption ==
    /\ ChainId \in Nat /\ Ratio \in Nat \ {0} /\ GasPrice \in Nat \ {0}
    /\ MaxU64 \in Nat /\ MaxU128 \in Nat /\ MaxU64 <= MaxU128

\* `TransactionLegacyUnsigned`.  Without `to` it creates a contract; without
\* `chain_id` it is a transaction from before EIP-155.
Message ==
    [nonce : Nat, gas_price : Nat, gas : Nat, to : Addresses \cup {None},
     value : Nat, input : Inputs, chain_id : Nat \cup {None}]

\* u128 arithmetic of the runtime, which is built without overflow checks.
U128(n) == n % (MaxU128 + 1)

-----------------------------------------------------------------------------
\* The wallet: `TransactionLegacySigned::from`.  Of `r` and `s` and the
\* recovery id a signature is made of, `rs` keeps what recovery depends on.

Parities == {0, 1}

Sign(a, m, parity) ==
    [tx |-> m,
     v  |-> IF m.chain_id = None THEN 27 + parity ELSE m.chain_id * 2 + 35 + parity,
     rs |-> [signer |-> a, msg |-> m, parity |-> parity]]

-----------------------------------------------------------------------------
\* The proxy.

\* `extract_chain_id`: the chain id is not transmitted but derived from `v`.
ExtractChainId(v) == IF v >= 35 THEN (v - 35) \div 2 ELSE None

\* `rlp::decode::<TransactionLegacySigned>`
Decode(raw) == [raw.tx EXCEPT !.chain_id = ExtractChainId(raw.v)]

\* `extract_recovery_id`, of which `RecoveryId::from_i32` accepts 0 to 3; `v` is
\* below the bound of an i32.
ExtractRecoveryId(raw) ==
    LET chain_id == ExtractChainId(raw.v) IN
    IF chain_id # None THEN raw.v - chain_id * 2 - 35 ELSE raw.v

HasRecoveryId(raw) == ExtractRecoveryId(raw) \in 0..3

\* The 65 bytes of `raw_signature`.
RawSignature(raw) == [rs |-> raw.rs, id |-> ExtractRecoveryId(raw)]

\* Recovery of the signer's address, in `recover_eth_address` and in the
\* runtime's `recover_signer`.
RecoverSigner(m, sig) ==
    IF sig.rs.msg = m /\ sig.rs.parity = sig.id THEN sig.rs.signer ELSE Stranger

RecoverEthAddress(raw) == RecoverSigner(Decode(raw), RawSignature(raw))

\* `try_into` of the three amounts, and `CallInput::decode` of a creation.
Convertible(m) ==
    /\ m.value <= MaxU128 /\ m.gas_price <= MaxU64 /\ m.gas <= MaxU128
    /\ m.to = None => DecodeCallInput[m.input] # None

\* The extrinsic: `eth_call` or `eth_instantiate` with EthSigner's address and
\* signature.  The fields from `gas_limit` on are not part of the message;
\* `nonce` is the one subxt reads from the node.
Extrinsic(raw, limits, nonce) ==
    LET m == Decode(raw) IN
    [source |-> RecoverEthAddress(raw), to |-> m.to,
     input  |-> IF m.to = None THEN DecodeCallInput[m.input] ELSE m.input,
     eth_value |-> m.value, eth_gas_price |-> m.gas_price, eth_gas_limit |-> m.gas,
     gas_limit |-> limits.gas_limit, storage_deposit_limit |-> limits.storage_deposit_limit,
     nonce |-> nonce, address |-> RecoverEthAddress(raw), signature |-> RawSignature(raw)]

-----------------------------------------------------------------------------
\* The runtime.

\* Variant with a bug: the nonce that was signed is taken for granted.
ConvertAnyNonce(x) ==
    [nonce |-> x.signature.rs.msg.nonce, gas_price |-> x.eth_gas_price, gas |-> x.eth_gas_limit,
     to |-> x.to, value |-> x.eth_value,
     input |-> IF x.to = None THEN EncodeCallInput[x.input] ELSE x.input,
     chain_id |-> ChainId]

\* Variant with a bug: two amounts in the wrong order.
ConvertSwapped(x) ==
    [nonce |-> x.nonce, gas_price |-> x.eth_gas_limit, gas |-> x.eth_gas_price,
     to |-> x.to, value |-> x.eth_value,
     input |-> IF x.to = None THEN EncodeCallInput[x.input] ELSE x.input,
     chain_id |-> ChainId]

\* `ConvertEthTx::convert`: the message that the call and the nonce amount to.
Convert(x) ==
    [nonce |-> x.nonce, gas_price |-> x.eth_gas_price, gas |-> x.eth_gas_limit,
     to |-> x.to, value |-> x.eth_value,
     input |-> IF x.to = None THEN EncodeCallInput[x.input] ELSE x.input,
     chain_id |-> ChainId]

\* `weight_to_fee` is IdentityFee.
WeightToFee(weight) == weight

\* `unwrap_or_default` of a storage deposit limit.
OrZero(limit) == IF limit = None THEN 0 ELSE limit

\* `validate_fee`, in u128 arithmetic.
ValidateFee(x) ==
    U128(x.eth_gas_limit * x.eth_gas_price)
      >= U128(WeightToFee(x.gas_limit) + OrZero(x.storage_deposit_limit))

\* `UncheckedExtrinsic::check` of an extrinsic with an Ethereum signature, by
\* the error it returns.
Check(x) ==
    IF ~ValidateFee(x) THEN "FeeMismatch"
    ELSE IF RecoverSigner(Convert(x), x.signature) # x.source \/ x.source # x.address
         THEN "BadProof"
         ELSE "Valid"

\* `native_to_evm_decimals` and `convert_decimals_to_evm`, short of saturation;
\* `convert_decimals_from_evm`.
ToEvm(native) == native * Ratio
FromEvm(value) == IF value % Ratio = 0 THEN value \div Ratio ELSE None
=============================================================================
