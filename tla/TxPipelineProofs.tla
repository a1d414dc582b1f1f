-------------------------- MODULE TxPipelineProofs --------------------------
(***************************************************************************)
(* Proofs about TxPipeline, for any accounts, callers, messages and fees:  *)
(* what reaches a block does what its sender signed, no signed message is  *)
(* executed twice, and the proxy and the runtime agree on the message.     *)
(*                                                                         *)
(* The invariant follows an extrinsic from the handler to the chain: it    *)
(* was made of a raw transaction that was sent and of a nonce that was the *)
(* account's at the head, so not above it ever since.                      *)
(***************************************************************************)
EXTENDS TxPipeline, TLAPS

NatLimits == [gas_limit : Nat, storage_deposit_limit : Nat \cup {None}]

Raws == {Sign(a, m, p) : a \in Addresses, m \in Message, p \in Parities}

State == [nonce : [Addresses -> Nat], free : [Addresses -> Int],
          contracts : SUBSET Addresses]

\* `x` was made of the raw transaction `r`.
MadeOf(x, r) ==
    /\ r \in sent /\ HasRecoveryId(r) /\ Convertible(Decode(r))
    /\ \E l \in NatLimits, n \in Nat :
         x = Extrinsic(r, l, n) /\ n <= Best.nonce[RecoverEthAddress(r)]

Made(x) == \E r \in sent : MadeOf(x, r)

\* What a request keeps at each step.
RequestInv(c) ==
    /\ pc[c] = "estimate" => order[c] \in Orders[c]
    /\ pc[c] \in {"decode", "dry_run", "account_nonce", "submit"} => raw[c] \in sent
    /\ pc[c] \in {"dry_run", "account_nonce"} => HasRecoveryId(raw[c])
    /\ pc[c] = "account_nonce" => limits[c] \in NatLimits /\ Convertible(Decode(raw[c]))
    /\ pc[c] = "submit" => MadeOf(built[c], raw[c])

Extrinsics == {Extrinsic(r, l, n) : r \in Raws, l \in NatLimits, n \in Nat}

Types ==
    /\ ledger \in Seq(State) /\ ledger # <<>> /\ seen \in 1..Len(ledger)
    /\ chain \in Seq(Extrinsics)
    /\ pc \in [Callers -> Pcs] /\ nonce \in [Callers -> Nat]
    /\ DOMAIN order = Callers /\ DOMAIN raw = Callers
    /\ DOMAIN limits = Callers /\ DOMAIN built = Callers /\ DOMAIN outcome = Callers
    /\ sent \subseteq Raws

PoolInv == \A x \in pool : Made(x)

ChainInv == \A i \in 1..Len(chain) : Made(chain[i]) /\ Check(chain[i]) = "Valid"

Inv ==
    /\ Types
    /\ \A c \in Callers : RequestInv(c)
    /\ PoolInv
    /\ ChainInv
    /\ NoncesGrow

-----------------------------------------------------------------------------
\* Lemmas about EthTransactions.

\* What the proxy decodes is what was signed, chain id included, and recovery
\* gives the signer (rlp_codec.rs:90-128, signature.rs:14-70).
LEMMA DecodeSigned ==
    ASSUME NEW a \in Addresses, NEW m \in Message, NEW p \in Parities,
           HasRecoveryId(Sign(a, m, p))
    PROVE  /\ Decode(Sign(a, m, p)) = m
           /\ RawSignature(Sign(a, m, p)) = [rs |-> Sign(a, m, p).rs, id |-> p]
           /\ RecoverEthAddress(Sign(a, m, p)) = a
           /\ m.chain_id \in Nat
<1> DEFINE r == Sign(a, m, p)
<1>1. p \in 0..1 /\ None \notin Nat
  BY CallInputAssumption DEF Parities
<1>2. m.chain_id \in Nat
  <2>1. CASE m.chain_id = None
    <3>1. r.v = 27 + p
      BY <2>1 DEF Sign
    <3>2. ExtractChainId(r.v) = None
      BY <3>1, <1>1 DEF ExtractChainId
    <3>3. ExtractRecoveryId(r) = 27 + p
      BY <3>1, <3>2 DEF ExtractRecoveryId
    <3> QED BY <3>3, <1>1 DEF HasRecoveryId
  <2> QED BY <2>1 DEF Message
<1>3. r.v = m.chain_id * 2 + 35 + p
  BY <1>1, <1>2 DEF Sign
<1>4. ExtractChainId(r.v) = m.chain_id
  BY <1>1, <1>2, <1>3 DEF ExtractChainId
<1>5. ExtractRecoveryId(r) = p
  BY <1>1, <1>2, <1>3, <1>4 DEF ExtractRecoveryId
<1>6. Decode(r) = m
  BY <1>4 DEF Decode, Sign, Message
<1>7. RawSignature(r) = [rs |-> r.rs, id |-> p]
  BY <1>5 DEF RawSignature
<1>8. RecoverEthAddress(r) = a
  BY <1>6, <1>7 DEF RecoverEthAddress, RecoverSigner, Sign
<1> QED BY <1>2, <1>6, <1>7, <1>8

\* The fields of the extrinsic, by those of the message.
LEMMA ExtrinsicFields ==
    ASSUME NEW a \in Addresses, NEW m \in Message, NEW p \in Parities,
           HasRecoveryId(Sign(a, m, p)), NEW l, NEW n
    PROVE  LET x == Extrinsic(Sign(a, m, p), l, n) IN
           /\ x.source = a /\ x.address = a /\ x.nonce = n /\ x.to = m.to
           /\ x.eth_value = m.value /\ x.eth_gas_price = m.gas_price
           /\ x.eth_gas_limit = m.gas
           /\ x.input = IF m.to = None THEN DecodeCallInput[m.input] ELSE m.input
           /\ x.gas_limit = l.gas_limit /\ x.storage_deposit_limit = l.storage_deposit_limit
           /\ x.signature.rs.signer = a /\ x.signature.rs.msg = m
           /\ x.signature.rs.parity = p /\ x.signature.id = p
<1>1. /\ Decode(Sign(a, m, p)) = m
      /\ RawSignature(Sign(a, m, p)) = [rs |-> Sign(a, m, p).rs, id |-> p]
      /\ RecoverEthAddress(Sign(a, m, p)) = a
  BY DecodeSigned
<1>2. Sign(a, m, p).rs = [signer |-> a, msg |-> m, parity |-> p]
  BY DEF Sign
<1> QED BY <1>1, <1>2 DEF Extrinsic

\* The runtime puts together the message that was signed exactly when the nonce
\* and the chain agree and nothing followed the fields of the input.
LEMMA RoundTrip ==
    ASSUME NEW a \in Addresses, NEW m \in Message, NEW p \in Parities,
           HasRecoveryId(Sign(a, m, p)), NEW l, NEW n
    PROVE  LET x == Extrinsic(Sign(a, m, p), l, n) IN
           Convert(x) = m <=>
             /\ n = m.nonce /\ m.chain_id = ChainId
             /\ m.to = None => EncodeCallInput[DecodeCallInput[m.input]] = m.input
<1> DEFINE x == Extrinsic(Sign(a, m, p), l, n)
<1>1. /\ x.nonce = n /\ x.to = m.to /\ x.eth_value = m.value
      /\ x.eth_gas_price = m.gas_price /\ x.eth_gas_limit = m.gas
      /\ x.input = IF m.to = None THEN DecodeCallInput[m.input] ELSE m.input
  BY ExtrinsicFields
<1>2. Convert(x) =
        [nonce |-> n, gas_price |-> m.gas_price, gas |-> m.gas, to |-> m.to,
         value |-> m.value,
         input |-> IF m.to = None THEN EncodeCallInput[DecodeCallInput[m.input]]
                   ELSE m.input,
         chain_id |-> ChainId]
  BY <1>1 DEF Convert
<1> HIDE DEF x
<1>3. m = [nonce |-> m.nonce, gas_price |-> m.gas_price, gas |-> m.gas, to |-> m.to,
           value |-> m.value, input |-> m.input, chain_id |-> m.chain_id]
  BY DEF Message
<1>4. Convert(x) = m =>
        /\ n = m.nonce /\ m.chain_id = ChainId
        /\ m.to = None => EncodeCallInput[DecodeCallInput[m.input]] = m.input
  BY <1>2, <1>3
<1>5. (/\ n = m.nonce /\ m.chain_id = ChainId
       /\ m.to = None => EncodeCallInput[DecodeCallInput[m.input]] = m.input)
      => Convert(x) = m
  BY <1>2, <1>3
<1> QED BY <1>4, <1>5 DEF x

\* The signature is verified exactly when the message is the one that was signed.
LEMMA CheckSignature ==
    ASSUME NEW a \in Addresses, NEW m \in Message, NEW p \in Parities,
           HasRecoveryId(Sign(a, m, p)), NEW l, NEW n
    PROVE  LET x == Extrinsic(Sign(a, m, p), l, n) IN
           /\ Check(x) = "Valid" => Convert(x) = m
           /\ Check(x) = "BadProof" => Convert(x) # m
<1> DEFINE x == Extrinsic(Sign(a, m, p), l, n)
<1>1. /\ x.source = a /\ x.address = a /\ x.signature.rs.signer = a
      /\ x.signature.rs.msg = m /\ x.signature.rs.parity = p /\ x.signature.id = p
  BY ExtrinsicFields
<1> HIDE DEF x
<1>2. RecoverSigner(Convert(x), x.signature) = IF Convert(x) = m THEN a ELSE Stranger
  BY <1>1 DEF RecoverSigner
<1>3. a # Stranger
  BY AddressAssumption
<1>4. Check(x) = "Valid" => Convert(x) = m
  BY <1>1, <1>2, <1>3 DEF Check
<1>5. Check(x) = "BadProof" => Convert(x) # m
  BY <1>1, <1>2 DEF Check
<1> QED BY <1>4, <1>5 DEF x

-----------------------------------------------------------------------------
\* Lemmas about the ledger.

LEMMA BestIsState ==
    ASSUME Types
    PROVE  Best \in State /\ Latest \in State /\ Len(ledger) \in Nat \ {0}
<1>1. Len(ledger) \in Nat /\ Len(ledger) # 0
  BY DEF Types
<1>2. Len(ledger) \in 1..Len(ledger) /\ seen \in 1..Len(ledger)
  BY <1>1 DEF Types
<1> QED BY <1>1, <1>2 DEF Types, Best, Latest

\* What the dispatch relies on of an extrinsic.
LEMMA MadeFields ==
    ASSUME Types, NEW x, Made(x)
    PROVE  /\ x \in Extrinsics
           /\ x.address \in Addresses /\ x.source = x.address
           /\ x.nonce \in Nat /\ x.nonce <= Best.nonce[x.address]
           /\ x.eth_value \in Nat /\ x.gas_limit \in Nat
           /\ x.storage_deposit_limit \in Nat \cup {None}
           /\ Beneficiary(x) \in Addresses
<1>1. PICK r \in sent, l \in NatLimits, n \in Nat :
        /\ HasRecoveryId(r) /\ Convertible(Decode(r))
        /\ x = Extrinsic(r, l, n) /\ n <= Best.nonce[RecoverEthAddress(r)]
  BY DEF Made, MadeOf
<1>2. PICK a \in Addresses, m \in Message, p \in Parities : r = Sign(a, m, p)
  BY DEF Types, Raws
<1>3. /\ x.source = a /\ x.address = a /\ x.nonce = n /\ x.to = m.to
      /\ x.eth_value = m.value
      /\ x.input = IF m.to = None THEN DecodeCallInput[m.input] ELSE m.input
      /\ x.gas_limit = l.gas_limit /\ x.storage_deposit_limit = l.storage_deposit_limit
  BY <1>1, <1>2, ExtrinsicFields
<1>4. Decode(r) = m /\ RecoverEthAddress(r) = a
  BY <1>1, <1>2, DecodeSigned
<1>5. x \in Extrinsics
  BY <1>1 DEF Extrinsics, Types
<1>6. Beneficiary(x) \in Addresses
  <2>1. CASE m.to = None
    <3>1. DecodeCallInput[m.input] \in CallInputs
      BY <1>1, <1>4, <2>1, CallInputAssumption DEF Convertible, Message
    <3> QED BY <1>3, <2>1, <3>1, PipelineAssumption DEF Beneficiary
  <2>2. CASE m.to # None
    BY <1>3, <2>2 DEF Beneficiary, Message
  <2> QED BY <2>1, <2>2
<1>7. m.value \in Nat /\ l.gas_limit \in Nat /\ l.storage_deposit_limit \in Nat \cup {None}
  BY DEF Message, NatLimits
<1> QED BY <1>1, <1>3, <1>4, <1>5, <1>6, <1>7

\* A storage deposit is a natural number, whether there is a limit or not.
LEMMA AllowedIsNat ==
    ASSUME NEW s, NEW x
    PROVE  Allowed(s, x) \subseteq Nat
BY DEF Allowed

\* A transaction that is executed takes exactly one nonce of its sender, and
\* none of another account, whether it succeeds or not.
LEMMA OutcomesTakeOneNonce ==
    ASSUME Types, NEW x, Made(x), NEW s \in Outcomes(x)
    PROVE  s \in State /\ s.nonce = [Best.nonce EXCEPT ![x.address] = @ + 1]
<1>1. Best \in State
  BY BestIsState
<1>2. /\ x.address \in Addresses /\ x.eth_value \in Nat /\ x.gas_limit \in Nat
      /\ x.storage_deposit_limit \in Nat \cup {None} /\ Beneficiary(x) \in Addresses
  BY MadeFields
<1> DEFINE ch == Charged(Best, x)
           nn == [Best.nonce EXCEPT ![x.address] = @ + 1]
           WithNonce == {t \in State : t.nonce = nn}
<1>3. Fee(x) \in Nat
  BY <1>2, PipelineAssumption DEF Fee, WeightToFee
<1>4. ch \in WithNonce
  BY <1>1, <1>2, <1>3 DEF Charged, State
<1> HIDE DEF ch, nn
<1>5. ASSUME NEW t \in WithNonce, NEW r \in Nat
      PROVE  Refunded(t, x, r) \in WithNonce
  <2>1. t.free \in [Addresses -> Int]
    BY DEF State
  <2>2. [t.free EXCEPT ![x.address] = @ + r] \in [Addresses -> Int]
    BY <2>1, <1>2
  <2> QED BY <2>2 DEF Refunded, State
<1>6. Refunds(ch, x) \subseteq Nat
  BY <1>2, PipelineAssumption DEF Refunds, WeightToFee
<1>7. ASSUME NEW d \in Nat, CanDispatch(ch, x, d)
      PROVE  Dispatched(ch, x, d) \in WithNonce
  <2>1. Gain(x) \in Int
    <3>1. FromEvm(x.eth_value) \in Int
      BY <1>2, <1>7, NumbersAssumption DEF CanDispatch, FromEvm
    <3> QED BY <3>1, PipelineAssumption DEF Gain, Endowment
  <2>2. ch.free \in [Addresses -> Int]
    BY <1>4 DEF State
  <2>3. [a \in Addresses |->
           ch.free[a] - (IF a = x.address THEN Gain(x) + d ELSE 0)
                      + (IF a = Beneficiary(x) THEN Gain(x) ELSE 0)] \in [Addresses -> Int]
    BY <2>1, <2>2
  <2>4. (IF x.to = None THEN ch.contracts \cup {Beneficiary(x)} ELSE ch.contracts)
          \in SUBSET Addresses
    BY <1>2, <1>4 DEF State
  <2> QED BY <1>4, <2>3, <2>4 DEF Dispatched, After, State
<1>8. CASE \E d \in Allowed(ch, x), r \in Refunds(ch, x) :
             CanDispatch(ch, x, d) /\ s = Refunded(Dispatched(ch, x, d), x, r)
  <2>1. PICK d \in Allowed(ch, x), r \in Refunds(ch, x) :
          CanDispatch(ch, x, d) /\ s = Refunded(Dispatched(ch, x, d), x, r)
    BY <1>8
  <2>2. d \in Nat /\ r \in Nat
    BY <1>6, <2>1, AllowedIsNat
  <2>3. Dispatched(ch, x, d) \in WithNonce
    BY <1>7, <2>1, <2>2
  <2> QED BY <1>5, <2>1, <2>2, <2>3 DEF nn
<1>9. CASE \E r \in Nat : s = Refunded(ch, x, r)
  BY <1>4, <1>5, <1>9 DEF nn
<1>10. \/ \E d \in Allowed(ch, x), r \in Refunds(ch, x) :
            CanDispatch(ch, x, d) /\ s = Refunded(Dispatched(ch, x, d), x, r)
       \/ \E r \in Nat : s = Refunded(ch, x, r)
  BY <1>6 DEF Outcomes, ch
<1> QED BY <1>8, <1>9, <1>10

-----------------------------------------------------------------------------
\* The inductive invariant.

\* An extrinsic stays made of what was sent while nonces only grow.
LEMMA MadeStays ==
    ASSUME Types, Types', sent \subseteq sent',
           \A a \in Addresses : Best.nonce[a] <= Best'.nonce[a],
           NEW x, NEW r, MadeOf(x, r)
    PROVE  MadeOf(x, r)'
<1>1. PICK a \in Addresses, m \in Message, p \in Parities : r = Sign(a, m, p)
  BY DEF MadeOf, Types, Raws
<1>2. RecoverEthAddress(r) \in Addresses
  BY <1>1, DecodeSigned DEF MadeOf
<1>3. /\ Best.nonce[RecoverEthAddress(r)] \in Nat /\ Best'.nonce[RecoverEthAddress(r)] \in Nat
  <2>1. Best \in State
    BY BestIsState
  <2>2. Best' \in State
    <3>1. Len(ledger') \in Nat /\ Len(ledger') # 0
      BY DEF Types
    <3> QED BY <3>1 DEF Types, Best
  <2> QED BY <1>2, <2>1, <2>2 DEF State
<1>4. PICK l \in NatLimits, n \in Nat :
        x = Extrinsic(r, l, n) /\ n <= Best.nonce[RecoverEthAddress(r)]
  BY DEF MadeOf
<1>5. n <= Best'.nonce[RecoverEthAddress(r)]
  BY <1>2, <1>3, <1>4
<1> QED BY <1>4, <1>5 DEF MadeOf

\* A request that does not move keeps its invariant.
LEMMA RequestStays ==
    ASSUME Types, Types', sent \subseteq sent',
           \A a \in Addresses : Best.nonce[a] <= Best'.nonce[a],
           NEW d \in Callers, RequestInv(d),
           UNCHANGED <<pc[d], order[d], raw[d], limits[d], built[d]>>
    PROVE  RequestInv(d)'
<1>1. CASE pc[d] = "submit"
  <2> DEFINE x == built[d]
             r == raw[d]
  <2>1. /\ r \in sent' /\ HasRecoveryId(r) /\ Convertible(Decode(r))
        /\ \E l \in NatLimits, n \in Nat :
             x = Extrinsic(r, l, n) /\ n <= Best'.nonce[RecoverEthAddress(r)]
    <3>1. MadeOf(x, r)
      BY <1>1 DEF RequestInv
    <3> HIDE DEF x, r
    <3> QED BY <3>1, MadeStays DEF MadeOf
  <2> QED BY <1>1, <2>1 DEF RequestInv, MadeOf
<1>2. CASE pc[d] # "submit"
  BY <1>2 DEF RequestInv
<1> QED BY <1>1, <1>2

\* Nonces and what used them are a matter of the chain alone.
LEMMA NoncesStay ==
    ASSUME NoncesGrow, UNCHANGED <<ledger, chain>>
    PROVE  NoncesGrow'
<1>1. Best' = Best
  BY DEF Best
<1>2. ASSUME NEW a, NEW b PROVE Used(a, b)' = Used(a, b)
  BY DEF Used
<1>3. CountsAreExact'
  BY <1>2 DEF NoncesGrow, CountsAreExact
<1> QED BY <1>1, <1>3 DEF NoncesGrow

\* A step of one request keeps the invariant of the rest.
LEMMA RequestStep ==
    ASSUME Inv, Types', sent \subseteq sent', UNCHANGED <<ledger, chain, pool>>,
           NEW c \in Callers, RequestInv(c)',
           \A d \in Callers \ {c} :
             UNCHANGED <<pc[d], order[d], raw[d], limits[d], built[d]>>
    PROVE  Inv'
<1>1. Best' = Best
  BY DEF Best
<1>2. \A a \in Addresses : Best.nonce[a] <= Best'.nonce[a]
  BY <1>1, BestIsState DEF Inv, State
<1>3. \A d \in Callers : RequestInv(d)'
  <2>1. SUFFICES ASSUME NEW d \in Callers, d # c PROVE RequestInv(d)'
    OBVIOUS
  <2> QED BY <1>2, <2>1, RequestStays DEF Inv
<1>4. \A x : Made(x) => Made(x)'
  BY <1>2, MadeStays DEF Inv, Made
<1>5. PoolInv' /\ ChainInv' /\ NoncesGrow'
  BY <1>4, NoncesStay DEF Inv, PoolInv, ChainInv
<1> QED BY <1>3, <1>5 DEF Inv

\* A dry run gives a weight and a deposit (pallet lib.rs:285-385).
LEMMA DryRunsAreLimits ==
    ASSUME NEW s, NEW a, NEW m
    PROVE  DryRuns(s, a, m) \subseteq NatLimits
<1>1. [gas_limit |-> TransferWeight, storage_deposit_limit |-> None] \in NatLimits
  BY PipelineAssumption DEF NatLimits
<1>2. Limits \subseteq NatLimits
  BY PipelineAssumption DEF Limits, NatLimits
<1>3. CASE IsTransfer(s, m)
  BY <1>1, <1>3 DEF DryRuns
<1>4. CASE ~IsTransfer(s, m)
  BY <1>2, <1>4, ZenonT(30) DEF DryRuns
<1> QED BY <1>3, <1>4

\* At genesis nothing was sent or executed.
LEMMA InitInv == Init => Inv
<1> SUFFICES ASSUME Init PROVE Inv
  OBVIOUS
<1> DEFINE s0 == [nonce |-> [a \in Addresses |-> 0], free |-> Genesis,
                  contracts |-> GenesisContracts]
<1>1. s0 \in State
  BY PipelineAssumption DEF State
<1>2. ledger = <<s0>>
  BY DEF Init
<1> HIDE DEF s0
<1>3. ledger \in Seq(State) /\ ledger # <<>> /\ Len(ledger) = 1
  BY <1>1, <1>2
<1>4. chain = <<>> /\ chain \in Seq(Extrinsics) /\ Len(chain) = 0
  BY DEF Init
<1>5. Types
  BY <1>3, <1>4 DEF Init, Types, Pcs
<1>6. \A c \in Callers : RequestInv(c)
  BY DEF Init, RequestInv
<1>7. CountsAreExact
  <2>1. ASSUME NEW b \in 1..Len(ledger), NEW a \in Addresses
        PROVE  Used(a, b) = 0..(ledger[b].nonce[a] - 1)
    <3>1. b = 1 /\ 1..(b - 1) = {}
      BY <1>3
    <3>2. ledger[b].nonce[a] = 0
      BY <1>2, <3>1 DEF s0
    <3>3. Used(a, b) = {}
      BY <3>1 DEF Used
    <3> QED BY <3>2, <3>3
  <2> QED BY <1>3, <1>4, <2>1 DEF CountsAreExact
<1>8. PoolInv /\ ChainInv /\ NoncesGrow
  BY <1>4, <1>7 DEF Init, PoolInv, ChainInv, NoncesGrow
<1> QED BY <1>5, <1>6, <1>8 DEF Inv

\* Asking for the transaction count (example.rs:66-69).
LEMMA GetTransactionCountInv ==
    ASSUME Inv, NEW c \in Callers, GetTransactionCount(c), UNCHANGED <<nodeVars, seen>>
    PROVE  Inv'
<1>1. AccountOf[c] \in Addresses
  BY PipelineAssumption
<1>2. Latest.nonce[AccountOf[c]] \in Nat
  BY <1>1, BestIsState DEF Inv, State
<1>3. Types'
  BY <1>2 DEF GetTransactionCount, Inv, Types, nodeVars, Pcs
<1>4. RequestInv(c)'
  BY DEF GetTransactionCount, Inv, Types, RequestInv
<1>5. /\ sent \subseteq sent' /\ UNCHANGED <<ledger, chain, pool>>
      /\ \A d \in Callers \ {c} : UNCHANGED <<pc[d], order[d], raw[d], limits[d], built[d]>>
  BY DEF GetTransactionCount, nodeVars, Inv, Types
<1> QED BY <1>3, <1>4, <1>5, RequestStep

\* Sending again what was sent before.
LEMMA ResendInv ==
    ASSUME Inv, NEW c \in Callers, Resend(c), UNCHANGED <<nodeVars, seen>>
    PROVE  Inv'
<1>1. Types'
  BY DEF Resend, Inv, Types, nodeVars, Pcs
<1>2. RequestInv(c)'
  BY DEF Resend, Inv, Types, RequestInv
<1>3. /\ sent \subseteq sent' /\ UNCHANGED <<ledger, chain, pool>>
      /\ \A d \in Callers \ {c} : UNCHANGED <<pc[d], order[d], raw[d], limits[d], built[d]>>
  BY DEF Resend, nodeVars, Inv, Types
<1> QED BY <1>1, <1>2, <1>3, RequestStep

\* Signing with the estimate: the message that is sent is one a wallet can sign
\* (example.rs:71-101).
LEMMA EstimateGasInv ==
    ASSUME Inv, NEW c \in Callers, EstimateGas(c), UNCHANGED <<nodeVars, seen>>
    PROVE  Inv'
<1>1. PICK l \in DryRuns(Latest, AccountOf[c], Ordered(c, 0)), parity \in Parities :
        /\ raw' = [raw EXCEPT ![c] = Sign(AccountOf[c], Ordered(c, GasEstimate(l)), parity)]
        /\ sent' = sent \cup {Sign(AccountOf[c], Ordered(c, GasEstimate(l)), parity)}
  BY DEF EstimateGas
<1> DEFINE m == Ordered(c, GasEstimate(l))
           r == Sign(AccountOf[c], m, parity)
<1>2. GasEstimate(l) \in Nat
  <2>1. l.gas_limit \in Nat /\ OrZero(l.storage_deposit_limit) \in Nat
    BY DryRunsAreLimits DEF NatLimits, OrZero
  <2> QED BY <2>1, NumbersAssumption DEF GasEstimate, WeightToFee
<1>3. order[c] \in Orders[c] /\ nonce[c] \in Nat
  BY DEF EstimateGas, Inv, RequestInv, Types
<1>4. m \in Message
  BY <1>2, <1>3, PipelineAssumption DEF Ordered, Message
<1>5. r \in Raws
  BY <1>4, PipelineAssumption DEF Raws
<1> HIDE DEF m, r
<1>6. raw' = [raw EXCEPT ![c] = r] /\ sent' = sent \cup {r}
  BY <1>1 DEF m, r
<1>7. Types'
  BY <1>5, <1>6 DEF EstimateGas, Inv, Types, nodeVars, Pcs
<1>8. RequestInv(c)'
  BY <1>6 DEF EstimateGas, Inv, Types, RequestInv
<1>9. /\ sent \subseteq sent' /\ UNCHANGED <<ledger, chain, pool>>
      /\ \A d \in Callers \ {c} : UNCHANGED <<pc[d], order[d], raw[d], limits[d], built[d]>>
  BY <1>6 DEF EstimateGas, nodeVars, Inv, Types
<1> QED BY <1>7, <1>8, <1>9, RequestStep

\* A request that is answered keeps nothing.
LEMMA RespondInv ==
    ASSUME Inv, NEW c \in Callers, NEW what, Respond(c, what),
           UNCHANGED <<ledger, chain, seen, sent>>
    PROVE  /\ Types' /\ RequestInv(c)'
           /\ \A d \in Callers \ {c} :
                UNCHANGED <<pc[d], order[d], raw[d], limits[d], built[d]>>
<1>1. Types'
  BY DEF Respond, Inv, Types, Pcs
<1>2. RequestInv(c)'
  BY DEF Respond, Inv, Types, RequestInv
<1> QED BY <1>1, <1>2 DEF Respond, Inv, Types

\* A request that is answered before anything is submitted.
LEMMA AnsweredInv ==
    ASSUME Inv, NEW c \in Callers, NEW what, Respond(c, what), UNCHANGED sent,
           UNCHANGED <<nodeVars, seen>>
    PROVE  Inv'
<1>1. UNCHANGED <<ledger, chain, pool>>
  BY DEF nodeVars
<1> QED BY <1>1, RespondInv, RequestStep

\* Decoding and recovery of the sender (lib.rs:112-131).
LEMMA DecodeRawInv ==
    ASSUME Inv, NEW c \in Callers, DecodeRaw(c), UNCHANGED <<nodeVars, seen>>
    PROVE  Inv'
<1>1. CASE Respond(c, "InvalidSignature")
  BY <1>1, AnsweredInv DEF DecodeRaw
<1>2. CASE /\ HasRecoveryId(raw[c]) /\ pc' = [pc EXCEPT ![c] = "dry_run"]
           /\ UNCHANGED <<order, nonce, raw, limits, built, outcome>>
  <2>1. Types'
    BY <1>2 DEF DecodeRaw, Inv, Types, nodeVars, Pcs
  <2>2. RequestInv(c)'
    BY <1>2 DEF DecodeRaw, Inv, Types, RequestInv
  <2>3. /\ sent \subseteq sent' /\ UNCHANGED <<ledger, chain, pool>>
        /\ \A d \in Callers \ {c} : UNCHANGED <<pc[d], order[d], raw[d], limits[d], built[d]>>
    BY <1>2 DEF DecodeRaw, nodeVars, Inv, Types
  <2> QED BY <2>1, <2>2, <2>3, RequestStep
<1> QED BY <1>1, <1>2 DEF DecodeRaw

\* The dry run and the conversion of the amounts (lib.rs:143-188).
LEMMA DryRunInv ==
    ASSUME Inv, NEW c \in Callers, DryRun(c), UNCHANGED <<nodeVars, seen>>
    PROVE  Inv'
<1>1. CASE Respond(c, "ConversionError") \/ Respond(c, "DryRunFailed")
  BY <1>1, AnsweredInv DEF DryRun
<1>2. CASE \E l \in NatLimits :
             /\ Convertible(Decode(raw[c]))
             /\ limits' = [limits EXCEPT ![c] = l]
             /\ pc' = [pc EXCEPT ![c] = "account_nonce"]
             /\ UNCHANGED <<order, nonce, raw, built, outcome>>
  <2>1. Types'
    BY <1>2 DEF DryRun, Inv, Types, nodeVars, Pcs
  <2>2. RequestInv(c)'
    BY <1>2 DEF DryRun, Inv, Types, RequestInv
  <2>3. /\ sent \subseteq sent' /\ UNCHANGED <<ledger, chain, pool>>
        /\ \A d \in Callers \ {c} : UNCHANGED <<pc[d], order[d], raw[d], limits[d], built[d]>>
    BY <1>2 DEF DryRun, nodeVars, Inv, Types
  <2> QED BY <2>1, <2>2, <2>3, RequestStep
<1> QED BY <1>1, <1>2, DryRunsAreLimits DEF DryRun

\* The nonce that subxt reads is not above the account's nonce at the head.
LEMMA AccountNonceInv ==
    ASSUME Inv, NEW c \in Callers, AccountNonce(c), UNCHANGED <<nodeVars, seen>>
    PROVE  Inv'
<1> DEFINE r == raw[c]
           n == Best.nonce[RecoverEthAddress(r)]
<1>1. /\ r \in sent /\ HasRecoveryId(r) /\ Convertible(Decode(r))
      /\ limits[c] \in NatLimits
  BY DEF AccountNonce, Inv, RequestInv
<1>2. PICK a \in Addresses, m \in Message, p \in Parities : r = Sign(a, m, p)
  BY <1>1 DEF Inv, Types, Raws
<1>3. RecoverEthAddress(r) \in Addresses
  BY <1>1, <1>2, DecodeSigned
<1>4. n \in Nat
  BY <1>3, BestIsState DEF Inv, State
<1>5. MadeOf(Extrinsic(r, limits[c], n), r)
  BY <1>1, <1>4 DEF MadeOf
<1>6. /\ UNCHANGED <<sent, ledger, raw, order, limits>>
      /\ pc' = [pc EXCEPT ![c] = "submit"]
      /\ built' = [built EXCEPT ![c] = Extrinsic(r, limits[c], n)]
  BY DEF AccountNonce, nodeVars
<1>7. Types'
  BY <1>6 DEF AccountNonce, Inv, Types, nodeVars, Pcs
<1>8. RequestInv(c)'
  <2>1. built'[c] = Extrinsic(r, limits[c], n) /\ pc'[c] = "submit" /\ raw'[c] = r
    BY <1>6 DEF Inv, Types
  <2>2. Best' = Best
    BY <1>6 DEF Best
  <2> QED BY <1>1, <1>5, <1>6, <2>1, <2>2 DEF RequestInv, MadeOf
<1>9. /\ sent \subseteq sent' /\ UNCHANGED <<ledger, chain, pool>>
      /\ \A d \in Callers \ {c} : UNCHANGED <<pc[d], order[d], raw[d], limits[d], built[d]>>
  BY <1>6 DEF nodeVars, Inv, Types
<1> QED BY <1>7, <1>8, <1>9, RequestStep

\* What enters the pool was made of what was sent.
LEMMA SubmitInv ==
    ASSUME Inv, NEW c \in Callers, Submit(c), UNCHANGED seen
    PROVE  Inv'
<1> DEFINE x == built[c]
<1>1. PICK what : Respond(c, what)
  BY DEF Submit
<1>2. UNCHANGED <<ledger, chain, sent>> /\ pc[c] = "submit"
  BY DEF Submit
<1>3. pool' \subseteq pool \cup {x}
  BY DEF Submit, SameTag
<1>4. /\ Types' /\ RequestInv(c)'
      /\ \A d \in Callers \ {c} : UNCHANGED <<pc[d], order[d], raw[d], limits[d], built[d]>>
  BY <1>1, <1>2, RespondInv
<1>5. Made(x)
  BY <1>2 DEF Inv, RequestInv, Made, MadeOf
<1>6. Best' = Best
  BY <1>2 DEF Best
<1>7. \A a \in Addresses : Best.nonce[a] <= Best'.nonce[a]
  BY <1>6, BestIsState DEF Inv, State
<1> HIDE DEF x
<1>8. \A y : Made(y) => Made(y)'
  BY <1>2, <1>6 DEF Made, MadeOf
<1>9. PoolInv' /\ ChainInv' /\ NoncesGrow'
  BY <1>2, <1>3, <1>5, <1>8, NoncesStay DEF Inv, PoolInv, ChainInv
<1>10. \A d \in Callers : RequestInv(d)'
  <2>1. SUFFICES ASSUME NEW d \in Callers, d # c PROVE RequestInv(d)'
    BY <1>4
  <2> QED BY <1>2, <1>4, <1>7, <2>1, RequestStays DEF Inv
<1> QED BY <1>4, <1>9, <1>10 DEF Inv

\* Executing an extrinsic keeps the invariant: it was made with a nonce that is
\* not above its account's, and is executed only if it is not below it either.
LEMMA SealInv ==
    ASSUME Inv, NEW x \in pool, Seal(x), UNCHANGED <<seen, requestVars>>
    PROVE  Inv'
<1>1. PICK s \in Outcomes(x) : ledger' = Append(ledger, s)
  BY DEF Seal
<1>2. Made(x) /\ chain' = Append(chain, x) /\ pool' \subseteq pool /\ Check(x) = "Valid"
  BY DEF Seal, Inv, PoolInv, Validity
<1>3. s \in State /\ s.nonce = [Best.nonce EXCEPT ![x.address] = @ + 1]
  BY <1>1, <1>2, OutcomesTakeOneNonce DEF Inv
<1>4. /\ x \in Extrinsics /\ x.address \in Addresses /\ x.source = x.address
      /\ x.nonce \in Nat /\ x.nonce <= Best.nonce[x.address]
  BY <1>2, MadeFields DEF Inv
<1>5. x.nonce >= Best.nonce[x.address]
  <2>1. ~(x.nonce < Best.nonce[x.address])
    BY <1>2 DEF Seal, Validity
  <2> QED BY <1>4, <2>1, BestIsState DEF Inv, State
<1>6. ledger \in Seq(State) /\ Len(ledger) \in Nat \ {0} /\ chain \in Seq(Extrinsics)
  BY BestIsState DEF Inv, Types
<1>7. /\ ledger' \in Seq(State) /\ ledger' # <<>> /\ Len(ledger') = Len(ledger) + 1
      /\ Best' = s
  BY <1>1, <1>3, <1>6 DEF Best
<1>8. /\ chain' \in Seq(Extrinsics) /\ Len(chain') = Len(chain) + 1
      /\ chain'[Len(chain) + 1] = x
      /\ \A i \in 1..Len(chain) : chain'[i] = chain[i]
  BY <1>2, <1>4, <1>6
<1>9. UNCHANGED <<pc, order, nonce, raw, limits, built, outcome, sent, seen>>
  BY DEF requestVars
<1>10. Types'
  BY <1>6, <1>7, <1>8, <1>9 DEF Inv, Types
<1>11. Best.nonce \in [Addresses -> Nat]
  BY BestIsState DEF Inv, State
<1>12. \A a \in Addresses : Best.nonce[a] <= Best'.nonce[a]
  BY <1>3, <1>4, <1>7, <1>11
<1>13. \A c \in Callers : RequestInv(c)'
  BY <1>9, <1>10, <1>12, RequestStays DEF Inv
<1>14. \A y : Made(y) => Made(y)'
  BY <1>9, <1>10, <1>12, MadeStays DEF Inv, Made
<1>15. PoolInv'
  BY <1>2, <1>14 DEF Inv, PoolInv
<1>16. ChainInv'
  <2> DEFINE MadeAfter(y) ==
               \E r \in sent' :
                 /\ HasRecoveryId(r) /\ Convertible(Decode(r))
                 /\ \E l \in NatLimits, n \in Nat :
                      y = Extrinsic(r, l, n) /\ n <= Best'.nonce[RecoverEthAddress(r)]
  <2>1. \A y : Made(y) => MadeAfter(y)
    BY <1>14 DEF Made, MadeOf
  <2>2. ASSUME NEW i \in 1..Len(chain')
        PROVE  MadeAfter(chain'[i]) /\ Check(chain'[i]) = "Valid"
    <3>1. i \in 1..Len(chain) \/ i = Len(chain) + 1
      BY <1>6, <1>8
    <3>2. Made(chain'[i]) /\ Check(chain'[i]) = "Valid"
      BY <1>2, <1>8, <3>1 DEF Inv, ChainInv
    <3> HIDE DEF MadeAfter
    <3> QED BY <2>1, <3>2
  <2> QED BY <2>2 DEF ChainInv, Made, MadeOf
<1>17. NoncesGrow'
  <2>1. ASSUME NEW i \in 1..Len(chain)
        PROVE  /\ chain[i].nonce \in Nat /\ chain[i].source \in Addresses
               /\ chain[i].nonce < Best.nonce[chain[i].source]
    <3>1. Made(chain[i])
      BY DEF Inv, ChainInv
    <3>2. chain[i].nonce \in Nat /\ chain[i].source \in Addresses
      BY <3>1, MadeFields DEF Inv
    <3> QED BY <3>2 DEF Inv, NoncesGrow
  <2>2. ASSUME NEW i \in 1..Len(chain') PROVE chain'[i].nonce < Best'.nonce[chain'[i].source]
    <3>1. CASE i \in 1..Len(chain)
      <4> DEFINE a == chain[i].source
      <4>1. chain[i].nonce < Best.nonce[a] /\ chain[i].nonce \in Nat /\ a \in Addresses
        BY <2>1, <3>1
      <4>2. chain'[i] = chain[i]
        BY <1>8, <3>1
      <4> HIDE DEF a
      <4>3. Best'.nonce \in [Addresses -> Nat]
        BY <1>3, <1>4, <1>7, <1>11
      <4>4. Best.nonce[a] <= Best'.nonce[a] /\ Best.nonce[a] \in Nat /\ Best'.nonce[a] \in Nat
        BY <1>11, <1>12, <4>1, <4>3
      <4>5. chain[i].nonce < Best'.nonce[a]
        BY <4>1, <4>4
      <4> QED BY <4>2, <4>5 DEF a
    <3>2. CASE i = Len(chain) + 1
      <4>1. Best'.nonce[x.address] = Best.nonce[x.address] + 1
        BY <1>3, <1>4, <1>7, <1>11
      <4> QED BY <1>4, <1>8, <1>11, <3>2, <4>1
    <3> QED BY <1>6, <1>8, <3>1, <3>2
  <2>3. ASSUME NEW i \in 1..Len(chain'), NEW j \in 1..Len(chain'),
               i < j, chain'[i].source = chain'[j].source
        PROVE  chain'[i].nonce < chain'[j].nonce
    <3>1. i \in 1..Len(chain)
      BY <1>6, <1>8, <2>3
    <3>2. CASE j \in 1..Len(chain)
      BY <1>8, <2>3, <3>1, <3>2 DEF Inv, NoncesGrow
    <3>3. CASE j = Len(chain) + 1
      <4>1. chain[i].nonce < Best.nonce[x.address] /\ chain[i].nonce \in Nat
        BY <1>4, <1>8, <2>1, <2>3, <3>1, <3>3
      <4> QED BY <1>4, <1>5, <1>8, <1>11, <3>1, <3>3, <4>1
    <3> QED BY <1>6, <1>8, <3>2, <3>3
  <2>4. CountsAreExact'
    <3>1. /\ Len(ledger) = Len(chain) + 1 /\ Len(chain) \in Nat
          /\ \A b \in 1..Len(ledger), a \in Addresses :
               Used(a, b) = 0..(ledger[b].nonce[a] - 1)
      BY <1>6 DEF Inv, NoncesGrow, CountsAreExact
    <3>2. ASSUME NEW b \in 1..Len(ledger), NEW a \in Addresses
          PROVE  Used(a, b)' = 0..(ledger'[b].nonce[a] - 1)
      <4>1. \A j \in 1..(b - 1) : chain'[j] = chain[j]
        BY <1>8, <3>1
      <4>2. Used(a, b)' = Used(a, b)
        BY <4>1 DEF Used
      <4>3. ledger'[b] = ledger[b]
        BY <1>1, <1>3, <1>6
      <4> QED BY <3>1, <4>2, <4>3
    <3>3. ASSUME NEW a \in Addresses, NEW b, b = Len(ledger) + 1
          PROVE  Used(a, b)' = 0..(Best'.nonce[a] - 1)
      <4> DEFINE J  == {j \in 1..Len(chain) : chain[j].source = a}
                 J2 == {j \in 1..(Len(chain) + 1) : chain'[j].source = a}
      <4>1. {chain[j].nonce : j \in J} = 0..(Best.nonce[a] - 1)
        <5>1. Used(a, Len(ledger)) = 0..(Best.nonce[a] - 1)
          BY <3>1 DEF Best
        <5>2. Len(ledger) - 1 = Len(chain)
          BY <3>1
        <5> QED BY <5>1, <5>2 DEF Used
      <4>2. Used(a, b)' = {chain'[j].nonce : j \in J2}
        <5>1. b - 1 = Len(chain) + 1
          BY <3>1, <3>3
        <5> QED BY <5>1 DEF Used
      <4>3. \A j \in J : chain'[j] = chain[j]
        BY <1>8
      <4>4. CASE a = x.address
        <5>1. J2 = J \cup {Len(chain) + 1}
          BY <1>4, <1>8, <3>1, <4>4
        <5>2. {chain'[j].nonce : j \in J2} = {chain[j].nonce : j \in J} \cup {x.nonce}
          BY <1>8, <4>3, <5>1
        <5>3. x.nonce = Best.nonce[a] /\ Best'.nonce[a] = Best.nonce[a] + 1
          BY <1>3, <1>4, <1>5, <1>7, <1>11, <4>4
        <5> DEFINE n == Best.nonce[a]
        <5>4. n \in Nat
          BY <1>11
        <5>5. Best'.nonce[a] = n + 1 /\ x.nonce = n
          BY <5>3
        <5>6. {chain'[j].nonce : j \in J2} = 0..(n - 1) \cup {n}
          BY <4>1, <5>2, <5>5
        <5> HIDE DEF n, J, J2
        <5>7. 0..(n - 1) \cup {n} = 0..(n + 1 - 1)
          BY <5>4
        <5> QED BY <4>2, <5>5, <5>6, <5>7
      <4>5. CASE a # x.address
        <5>1. J2 = J
          BY <1>4, <1>8, <3>1, <4>5
        <5>2. {chain'[j].nonce : j \in J2} = {chain[j].nonce : j \in J}
          BY <4>3, <5>1
        <5>3. Best'.nonce[a] = Best.nonce[a]
          BY <1>3, <1>7, <1>11, <4>5
        <5> HIDE DEF J, J2
        <5> QED BY <4>1, <4>2, <5>2, <5>3
      <4> QED BY <4>4, <4>5
    <3>4. ASSUME NEW b \in 1..Len(ledger'), NEW a \in Addresses
          PROVE  Used(a, b)' = 0..(ledger'[b].nonce[a] - 1)
      <4>1. b \in 1..Len(ledger) \/ (b = Len(ledger) + 1 /\ ledger'[b] = Best')
        BY <1>6, <1>7 DEF Best
      <4> QED BY <3>2, <3>3, <4>1
    <3>5. Len(ledger') = Len(chain') + 1
      BY <1>7, <1>8, <3>1
    <3> QED BY <3>4, <3>5 DEF CountsAreExact
  <2> QED BY <2>2, <2>3, <2>4 DEF NoncesGrow
<1> QED BY <1>10, <1>13, <1>15, <1>16, <1>17 DEF Inv

\* The cache's progress changes nothing of the chain.
LEMMA CacheBlockInv ==
    ASSUME Inv, CacheBlock, UNCHANGED <<nodeVars, requestVars>>
    PROVE  Inv'
<1>1. UNCHANGED <<ledger, chain, pool, pc, order, nonce, raw, limits, built, outcome, sent>>
  BY DEF nodeVars, requestVars
<1>2. Len(ledger) \in Nat
  BY BestIsState DEF Inv
<1>3. Types'
  BY <1>1, <1>2 DEF CacheBlock, Inv, Types
<1>4. Best' = Best
  BY <1>1 DEF Best
<1>5. \A c \in Callers : RequestInv(c)'
  BY <1>1, <1>4 DEF Inv, RequestInv, MadeOf
<1>6. PoolInv' /\ ChainInv' /\ NoncesGrow'
  BY <1>1, <1>4, NoncesStay DEF Inv, PoolInv, ChainInv, Made, MadeOf
<1> QED BY <1>3, <1>5, <1>6 DEF Inv

\* Every step keeps the invariant.
LEMMA StepInv ==
    ASSUME Inv, [Next]_vars
    PROVE  Inv'
<1>1. CASE \E c \in Callers :
             (GetTransactionCount(c) \/ Resend(c)) /\ UNCHANGED <<nodeVars, seen>>
  BY <1>1, GetTransactionCountInv, ResendInv
<1>2. CASE \E c \in Callers : Handle(c)
  <2>1. PICK c \in Callers : Handle(c)
    BY <1>2
  <2>2. UNCHANGED <<nodeVars, seen>>
    BY <2>1 DEF Handle
  <2>3. CASE EstimateGas(c) \/ DecodeRaw(c) \/ DryRun(c) \/ AccountNonce(c)
    BY <2>2, <2>3, EstimateGasInv, DecodeRawInv, DryRunInv, AccountNonceInv
  <2>4. CASE EstimateFails(c)
    BY <2>2, <2>4, AnsweredInv DEF EstimateFails
  <2> QED BY <2>1, <2>3, <2>4 DEF Handle
<1>3. CASE \E c \in Callers : Submit(c) /\ UNCHANGED seen
  BY <1>3, SubmitInv
<1>4. CASE \E x \in pool : Seal(x) /\ UNCHANGED <<seen, requestVars>>
  BY <1>4, SealInv
<1>5. CASE CacheBlock /\ UNCHANGED <<nodeVars, requestVars>>
  BY <1>5, CacheBlockInv
<1>6. CASE UNCHANGED vars
  <2>1. UNCHANGED <<ledger, chain, pool, pc, order, nonce, raw, limits, built, outcome, sent,
                    seen>>
    BY <1>6 DEF vars, nodeVars, requestVars
  <2>2. Best' = Best
    BY <2>1 DEF Best
  <2>3. Types'
    BY <2>1 DEF Inv, Types
  <2>4. \A c \in Callers : RequestInv(c)'
    BY <2>1, <2>2 DEF Inv, RequestInv, MadeOf
  <2>5. PoolInv' /\ ChainInv' /\ NoncesGrow'
    BY <2>1, <2>2, NoncesStay DEF Inv, PoolInv, ChainInv, Made, MadeOf
  <2> QED BY <2>3, <2>4, <2>5 DEF Inv
<1> QED BY <1>1, <1>2, <1>3, <1>4, <1>5, <1>6 DEF Next

\* What is in a handler, in the pool or in a block was made of a raw transaction
\* that was sent and a nonce that its account had (lib.rs:112-235).
THEOREM InvHolds == Spec => []Inv
<1>1. Init => Inv
  BY InitInv
<1>2. Inv /\ [Next]_vars => Inv'
  BY StepInv
<1> QED BY <1>1, <1>2, PTL DEF Spec

-----------------------------------------------------------------------------
\* The theorems.

\* The extrinsics of an account are executed with growing nonces, below its nonce
\* at the head (AccountNonce, CheckNonce of the node).
THEOREM NoncesGrowHolds == Spec => []NoncesGrow
<1>1. Inv => NoncesGrow
  BY DEF Inv
<1> QED BY <1>1, InvHolds, PTL

\* What reaches a block does what its sender signed, whatever nonce subxt chose
\* (lib.rs:112-235, unchecked_extrinsic.rs:89-131).
THEOREM ExecutedAsSignedHolds == Spec => []ExecutedAsSigned
<1>1. ASSUME Inv PROVE ExecutedAsSigned
  <2>1. SUFFICES ASSUME NEW i \in 1..Len(chain)
                 PROVE  \E s \in Signed : CarriesOut(chain[i], s[1], s[2])
    BY DEF ExecutedAsSigned
  <2> DEFINE x == chain[i]
  <2>2. Made(x) /\ Check(x) = "Valid"
    BY <1>1 DEF Inv, ChainInv
  <2> HIDE DEF x
  <2>3. PICK r \in sent, l \in NatLimits, n \in Nat : HasRecoveryId(r) /\ x = Extrinsic(r, l, n)
    BY <2>2 DEF Made, MadeOf
  <2>4. PICK a \in Addresses, m \in Message, p \in Parities : r = Sign(a, m, p)
    BY <1>1 DEF Inv, Types, Raws
  <2>5. Convert(x) = m
    BY <2>2, <2>3, <2>4, CheckSignature
  <2>6. /\ n = m.nonce /\ m.chain_id = ChainId
        /\ m.to = None => EncodeCallInput[DecodeCallInput[m.input]] = m.input
    BY <2>3, <2>4, <2>5, RoundTrip
  <2>7. CarriesOut(x, a, m)
    BY <2>3, <2>4, <2>6, ExtrinsicFields DEF CarriesOut
  <2>8. r.rs.signer = a /\ r.rs.msg = m
    BY <2>4 DEF Sign
  <2>9. <<a, m>> \in Signed
    BY <2>8 DEF Signed
  <2> QED BY <2>7, <2>9 DEF x
<1> QED BY <1>1, InvHolds, PTL

\* No signed message takes effect twice, however many handlers submit it: the
\* runtime puts the nonce of the extrinsic into the message, and nonces grow.
THEOREM ExecutedOnceHolds == Spec => []ExecutedOnce
<1>1. ASSUME Inv PROVE ExecutedOnce
  <2>1. ASSUME NEW i \in 1..Len(chain)
        PROVE  chain[i].nonce = chain[i].signature.rs.msg.nonce /\ chain[i].nonce \in Nat
    <3> DEFINE x == chain[i]
    <3>1. Made(x) /\ Check(x) = "Valid"
      BY <1>1 DEF Inv, ChainInv
    <3> HIDE DEF x
    <3>2. PICK r \in sent, l \in NatLimits, n \in Nat : HasRecoveryId(r) /\ x = Extrinsic(r, l, n)
      BY <3>1 DEF Made, MadeOf
    <3>3. PICK a \in Addresses, m \in Message, p \in Parities : r = Sign(a, m, p)
      BY <1>1 DEF Inv, Types, Raws
    <3>4. n = m.nonce
      BY <3>1, <3>2, <3>3, CheckSignature, RoundTrip
    <3>5. x.nonce = n /\ x.signature.rs.msg = m
      BY <3>2, <3>3, ExtrinsicFields
    <3> QED BY <3>4, <3>5 DEF x
  <2>2. SUFFICES ASSUME NEW i \in 1..Len(chain), NEW j \in 1..Len(chain), i # j,
                        chain[i].signature.rs.msg = chain[j].signature.rs.msg,
                        chain[i].source = chain[j].source
                 PROVE  FALSE
    BY DEF ExecutedOnce
  <2>3. chain[i].nonce = chain[j].nonce /\ chain[i].nonce \in Nat
    BY <2>1, <2>2
  <2>4. i < j \/ j < i
    BY <2>2
  <2>5. chain[i].nonce < chain[j].nonce \/ chain[j].nonce < chain[i].nonce
    BY <1>1, <2>2, <2>4 DEF Inv, NoncesGrow
  <2> QED BY <2>3, <2>5
<1> QED BY <1>1, InvHolds, PTL

\* Nothing but the submission itself ends the request.
LEMMA OnlySubmitAnswers ==
    ASSUME Inv, Next, NEW c \in Callers, pc[c] = "submit", pc'[c] = "idle"
    PROVE  Submit(c)
<1>1. DOMAIN pc = Callers
  BY DEF Inv, Types
<1>2. ASSUME NEW d \in Callers, GetTransactionCount(d) \/ Resend(d) \/ Handle(d) \/ Submit(d)
      PROVE  d = c
  <2>1. \E where : pc' = [pc EXCEPT ![d] = where]
    BY <1>2 DEF GetTransactionCount, Resend, Handle, EstimateGas, EstimateFails, DecodeRaw,
                DryRun, AccountNonce, Submit, Respond
  <2> QED BY <1>1, <2>1
<1>3. ~(GetTransactionCount(c) \/ Resend(c) \/ Handle(c))
  BY DEF GetTransactionCount, Resend, Handle, EstimateGas, EstimateFails, DecodeRaw,
         DryRun, AccountNonce
<1>4. UNCHANGED pc => FALSE
  OBVIOUS
<1> QED BY <1>2, <1>3, <1>4 DEF Next, nodeVars, requestVars

\* "BadProof" is the answer only to a nonce that was not the account's next one,
\* another chain, or an input with bytes after its last field.
THEOREM BadProofIsTheCallersHolds == Spec => BadProofIsTheCallers
<1> DEFINE Blame(c) ==
             LET m == raw[c].rs.msg IN
             \/ m.nonce # built[c].nonce
             \/ m.chain_id # ChainId
             \/ m.to = None /\ EncodeCallInput[DecodeCallInput[m.input]] # m.input
<1>1. ASSUME Inv, Next, NEW c \in Callers, Refused(c, "BadProof") PROVE Blame(c)
  <2> DEFINE x == built[c]
  <2>1. Submit(c)
    BY <1>1, OnlySubmitAnswers DEF Refused
  <2>2. Check(x) = "BadProof"
    <3>1. pc' = [pc EXCEPT ![c] = "idle"]
      BY <2>1 DEF Submit, Respond
    <3>2. DOMAIN outcome = Callers
      BY <1>1 DEF Inv, Types
    <3>3. Validity(x) = "BadProof"
      BY <1>1, <2>1, <3>2 DEF Submit, Respond, Refused
    <3> QED BY <3>3 DEF Validity, Check
  <2>3. MadeOf(x, raw[c])
    BY <1>1 DEF Inv, RequestInv, Refused
  <2> HIDE DEF x
  <2>4. PICK l \in NatLimits, n \in Nat :
          raw[c] \in sent /\ HasRecoveryId(raw[c]) /\ x = Extrinsic(raw[c], l, n)
    BY <2>3 DEF MadeOf
  <2>5. PICK a \in Addresses, m \in Message, p \in Parities : raw[c] = Sign(a, m, p)
    BY <1>1, <2>4 DEF Inv, Types, Raws
  <2>6. Convert(x) # m
    BY <2>2, <2>4, <2>5, CheckSignature
  <2>7. \/ n # m.nonce \/ m.chain_id # ChainId
        \/ m.to = None /\ EncodeCallInput[DecodeCallInput[m.input]] # m.input
    BY <2>4, <2>5, <2>6, RoundTrip
  <2>8. x.nonce = n /\ raw[c].rs.msg = m
    BY <2>4, <2>5, ExtrinsicFields DEF Sign
  <2> QED BY <2>7, <2>8 DEF x
<1>2. ASSUME Inv, [Next]_vars
      PROVE  [\A c \in Callers : Refused(c, "BadProof") => Blame(c)]_vars
  BY <1>1, <1>2
<1> QED BY <1>2, InvHolds, PTL DEF Spec, BadProofIsTheCallers

-----------------------------------------------------------------------------
\* The progress of a request.

\* A request under way has no answer yet.
NoAnswerYet == \A c \in Callers : pc[c] # "idle" => outcome[c] = "none"

\* A step of the request of `c`.
RequestSteps(c) == GetTransactionCount(c) \/ Resend(c) \/ Handle(c) \/ Submit(c)

\* What a request may do that is under way: go on, or answer.
Advances(c) ==
    /\ StepsLeft[pc'[c]] < StepsLeft[pc[c]]
    /\ pc'[c] = "idle" <=> outcome'[c] # "none"

\* A request works on what is its own.
LEMMA OthersWork ==
    ASSUME Inv, NEW c \in Callers, RequestSteps(c), NEW d \in Callers, d # c
    PROVE  UNCHANGED Work(d)
<1>1. /\ DOMAIN pc = Callers /\ DOMAIN order = Callers /\ DOMAIN nonce = Callers
      /\ DOMAIN raw = Callers /\ DOMAIN limits = Callers /\ DOMAIN built = Callers
      /\ DOMAIN outcome = Callers
  BY DEF Inv, Types
<1>2. CASE GetTransactionCount(c) \/ Resend(c)
  BY <1>1, <1>2 DEF GetTransactionCount, Resend, Work
<1>3. CASE Handle(c)
  BY <1>1, <1>3 DEF Handle, EstimateGas, EstimateFails, DecodeRaw, DryRun, AccountNonce,
                    Respond, Work
<1>4. CASE Submit(c)
  <2>1. PICK what : Respond(c, what)
    BY <1>4 DEF Submit
  <2> QED BY <1>1, <2>1 DEF Respond, Work
<1> QED BY <1>2, <1>3, <1>4 DEF RequestSteps

\* An answer ends the request.
LEMMA RespondAdvances ==
    ASSUME Inv, NEW c \in Callers, NEW what, Respond(c, what), what # "none",
           pc[c] \in Pcs \ {"idle"}
    PROVE  Advances(c)
<1>1. pc'[c] = "idle" /\ outcome'[c] = what
  BY DEF Respond, Inv, Types
<1> QED BY <1>1 DEF Advances, StepsLeft, Pcs

\* Each step of a request under way brings it closer to its answer.
LEMMA StepAdvances ==
    ASSUME Inv, NoAnswerYet, NEW c \in Callers, RequestSteps(c), pc[c] # "idle"
    PROVE  Advances(c)
<1>1. /\ DOMAIN pc = Callers /\ DOMAIN outcome = Callers /\ pc[c] \in Pcs \ {"idle"}
      /\ outcome[c] = "none"
  BY DEF Inv, Types, NoAnswerYet
<1>2. ASSUME NEW where \in Pcs \ {"idle"}, pc' = [pc EXCEPT ![c] = where],
             outcome' = outcome, StepsLeft[where] < StepsLeft[pc[c]]
      PROVE  Advances(c)
  <2>1. pc'[c] = where /\ outcome'[c] = "none"
    BY <1>1, <1>2
  <2> QED BY <1>2, <2>1 DEF Advances
<1>3. ~(GetTransactionCount(c) \/ Resend(c))
  BY <1>1 DEF GetTransactionCount, Resend
<1>4. CASE EstimateGas(c)
  <2>1. StepsLeft["decode"] < StepsLeft["estimate"]
    BY DEF StepsLeft
  <2> QED BY <1>2, <1>4, <2>1 DEF EstimateGas, Pcs
<1>5. CASE EstimateFails(c)
  BY <1>1, <1>5, RespondAdvances DEF EstimateFails
<1>6. CASE DecodeRaw(c)
  <2>1. StepsLeft["dry_run"] < StepsLeft["decode"]
    BY DEF StepsLeft
  <2> QED BY <1>1, <1>2, <1>6, <2>1, RespondAdvances DEF DecodeRaw, Pcs
<1>7. CASE DryRun(c)
  <2>1. StepsLeft["account_nonce"] < StepsLeft["dry_run"]
    BY DEF StepsLeft
  <2>2. pc[c] = "dry_run"
    BY <1>7 DEF DryRun
  <2>3. \/ pc' = [pc EXCEPT ![c] = "account_nonce"] /\ outcome' = outcome
        \/ Respond(c, "ConversionError") \/ Respond(c, "DryRunFailed")
    BY <1>7 DEF DryRun
  <2> QED BY <1>1, <1>2, <2>1, <2>2, <2>3, RespondAdvances DEF Pcs
<1>8. CASE AccountNonce(c)
  <2>1. StepsLeft["submit"] < StepsLeft["account_nonce"]
    BY DEF StepsLeft
  <2> QED BY <1>2, <1>8, <2>1 DEF AccountNonce, Pcs
<1>9. CASE Submit(c)
  <2>1. \/ Respond(c, "ok") \/ Respond(c, "NotReplaced") \/ Respond(c, Validity(built[c]))
    BY <1>9 DEF Submit
  <2>2. Validity(built[c]) # "none"
    BY DEF Validity, Check
  <2> QED BY <1>1, <2>1, <2>2, RespondAdvances
<1> QED BY <1>3, <1>4, <1>5, <1>6, <1>7, <1>8, <1>9 DEF RequestSteps, Handle

\* Which requests a step moves.
LEMMA StepsOfRequests ==
    ASSUME Inv, [Next]_vars, NEW c \in Callers
    PROVE  RequestSteps(c) \/ UNCHANGED Work(c)
<1>1. CASE \E d \in Callers : RequestSteps(d)
  BY <1>1, OthersWork
<1>2. CASE UNCHANGED requestVars
  BY <1>2 DEF requestVars, Work
<1> QED BY <1>1, <1>2 DEF Next, RequestSteps, vars

\* A request begins without an answer.
LEMMA NoAnswerYetStep ==
    ASSUME Inv, NoAnswerYet, [Next]_vars
    PROVE  NoAnswerYet'
<1> SUFFICES ASSUME NEW c \in Callers, pc'[c] # "idle" PROVE outcome'[c] = "none"
  BY DEF NoAnswerYet
<1>1. CASE UNCHANGED Work(c)
  BY <1>1 DEF Work, NoAnswerYet
<1>2. CASE RequestSteps(c) /\ pc[c] = "idle"
  <2>1. GetTransactionCount(c) \/ Resend(c)
    BY <1>2 DEF RequestSteps, Handle, EstimateGas, EstimateFails, DecodeRaw, DryRun,
                AccountNonce, Submit
  <2>2. outcome' = [outcome EXCEPT ![c] = "none"]
    BY <2>1 DEF GetTransactionCount, Resend
  <2> QED BY <2>2 DEF Inv, Types
<1>3. CASE RequestSteps(c) /\ pc[c] # "idle"
  BY <1>3, StepAdvances DEF Advances
<1> QED BY <1>1, <1>2, <1>3, StepsOfRequests

\* Whatever the others do, a request goes on from what it has, and has an answer
\* when it ends and not before: the safety half of SendsAreAnswered.
THEOREM RequestsAdvanceHolds == Spec => RequestsAdvance
<1>1. Init => NoAnswerYet
  BY DEF Init, NoAnswerYet
<1>2. Inv /\ NoAnswerYet /\ [Next]_vars => NoAnswerYet'
  BY NoAnswerYetStep
<1>3. ASSUME Inv, NoAnswerYet, [Next]_vars
      PROVE  [\A c \in Callers : pc[c] # "idle" =>
                \/ UNCHANGED Work(c)
                \/ /\ StepsLeft[pc'[c]] < StepsLeft[pc[c]]
                   /\ pc'[c] = "idle" <=> outcome'[c] # "none"]_vars
  BY <1>3, StepsOfRequests, StepAdvances DEF Advances
<1> QED BY <1>1, <1>2, <1>3, InvHolds, PTL DEF Spec, RequestsAdvance
=============================================================================
