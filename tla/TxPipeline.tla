----------------------------- MODULE TxPipeline -----------------------------
(***************************************************************************)
(* Transactions from the callers of the RPC to the chain: the sequence of  *)
(* requests a caller makes to send one (rpc/src/example.rs), the handler   *)
(* of `eth_sendRawTransaction` (rpc/src/lib.rs), the transaction pool and  *)
(* the sealed blocks of the node, and the dispatch of eth_call and         *)
(* eth_instantiate (chain/pallet-contracts-evm).                           *)
(*                                                                         *)
(* A caller reads the state at the newest block of the proxy's cache,      *)
(* which follows the chain with a delay; subxt reads the nonce at the      *)
(* node's finalized head; the pool validates against the head.             *)
(***************************************************************************)
EXTENDS EthTransactions, Sequences, FiniteSets

CONSTANTS
    Callers,          \* bound: processes that send, several may share an account
    AccountOf,        \* the account each caller signs with
    Orders,           \* what each caller sends: messages without nonce and gas
    MaxSends,         \* bound: how many requests to send each caller makes
    Weights,          \* weights a dry run may find
    Deposits,         \* storage deposits a dry run may find
    TransferWeight,   \* `WeightInfo::eth_transfer`
    CallWeight,       \* weight of a call besides its `gas_limit`
    BaseFee,          \* fee besides that of the weight: base and length
    ED,               \* existential deposit
    Genesis,          \* native balances at genesis
    GenesisContracts, \* addresses with code at genesis
    ContractAddress   \* `evm_contract_address`

ASSUME PipelineAssumption ==
    /\ AccountOf \in [Callers -> Addresses] /\ MaxSends \in [Callers -> Nat]
    /\ Weights \subseteq Nat /\ Deposits \subseteq Nat /\ TransferWeight \in Nat
    /\ CallWeight \in Nat
    /\ BaseFee \in Nat \ {0} /\ ED \in Nat \ {0}
    /\ Genesis \in [Addresses -> Nat] /\ GenesisContracts \subseteq Addresses
    /\ ContractAddress \in [Addresses \X CallInputs -> Addresses]
    /\ Orders \in [Callers -> SUBSET [to : Addresses \cup {None}, value : Nat, input : Inputs,
                                      gas_price : Nat, chain_id : Nat \cup {None}]]

VARIABLES
    ledger,    \* states of the chain, block by block, genesis first
    chain,     \* the Ethereum extrinsics executed, one per block
    seen,      \* position in `ledger` of the newest block in the proxy's cache
    pool,      \* the node's transaction pool
    pc,        \* where each caller is
    order,     \* what it sends
    nonce,     \* the transaction count it was told
    raw,       \* the raw transaction it sends, once signed
    limits,    \* what the handler's dry run found
    built,     \* the extrinsic that the handler submits
    outcome,   \* the response to its last request
    sends,     \* requests to send it made
    sent       \* every raw transaction that was ever sent

requestVars == <<pc, order, nonce, raw, limits, built, outcome, sends, sent>>
nodeVars == <<ledger, chain, pool>>
vars == <<nodeVars, seen, requestVars>>

Best == ledger[Len(ledger)]
Latest == ledger[seen]

Limits == [gas_limit : Weights, storage_deposit_limit : Deposits]

Init ==
    /\ ledger = <<[nonce     |-> [a \in Addresses |-> 0],
                   free      |-> Genesis,
                   contracts |-> GenesisContracts]>>
    /\ chain = <<>> /\ seen = 1 /\ pool = {}
    /\ pc = [c \in Callers |-> "idle"]
    /\ order = [c \in Callers |-> None]
    /\ nonce = [c \in Callers |-> 0]
    /\ raw = [c \in Callers |-> None]
    /\ limits = [c \in Callers |-> None]
    /\ built = [c \in Callers |-> None]
    /\ outcome = [c \in Callers |-> "none"]
    /\ sends = [c \in Callers |-> 0]
    /\ sent = {}

-----------------------------------------------------------------------------
\* `Pallet::gas_estimate`, the dry run.

IsTransfer(s, m) == m.to # None /\ m.to \notin s.contracts

\* A transfer keeps its sender alive (Preservation::Preserve).
CanSend(free, amount) == amount = 0 \/ free - amount >= ED

\* A contract is created with the existential deposit from its creator.
Endowment(x) == IF x.to = None THEN ED ELSE 0

\* Decoding the input and the instantiation at an address that has no contract.
CanCreate(s, a, m) ==
    m.to = None => LET i == DecodeCallInput[m.input] IN
                   i # None /\ ContractAddress[a, i] \notin s.contracts

\* What the dry run of `m` from `a` can find in state `s`.  A plain transfer is
\* not run, and sets no limit to the storage deposit.  A contract runs with the value as it is in the message, and may
\* fail or revert.
DryRuns(s, a, m) ==
    IF IsTransfer(s, m)
    THEN {[gas_limit |-> TransferWeight, storage_deposit_limit |-> None]}
    ELSE {l \in Limits : /\ m.value <= MaxU128 /\ CanCreate(s, a, m)
                         /\ CanSend(s.free[a], m.value + Endowment(m) + l.storage_deposit_limit)}

DryRunMayFail(s, a, m) == ~IsTransfer(s, m)

\* Variant with a bug: the deposit is left out.
GasEstimateOfWeight(l) == WeightToFee(l.gas_limit) \div GasPrice + 1

\* `gas_estimate` of Client: what the fee of the dry run buys at GAS_PRICE.
GasEstimate(l) == (WeightToFee(l.gas_limit) + OrZero(l.storage_deposit_limit)) \div GasPrice + 1

-----------------------------------------------------------------------------
\* The caller: `Account::send_transaction`.

\* The last request is answered, and what it kept is dropped.
Respond(c, what) ==
    /\ pc' = [pc EXCEPT ![c] = "idle"]
    /\ outcome' = [outcome EXCEPT ![c] = what]
    /\ order' = [order EXCEPT ![c] = None]
    /\ nonce' = [nonce EXCEPT ![c] = 0]
    /\ raw' = [raw EXCEPT ![c] = None]
    /\ limits' = [limits EXCEPT ![c] = None]
    /\ built' = [built EXCEPT ![c] = None]

\* `eth_getTransactionCount` at the tag "latest".
GetTransactionCount(c) ==
    /\ pc[c] = "idle" /\ sends[c] < MaxSends[c]
    /\ \E o \in Orders[c] : order' = [order EXCEPT ![c] = o]
    /\ nonce' = [nonce EXCEPT ![c] = Latest.nonce[AccountOf[c]]]
    /\ sends' = [sends EXCEPT ![c] = @ + 1]
    /\ pc' = [pc EXCEPT ![c] = "estimate"]
    /\ outcome' = [outcome EXCEPT ![c] = "none"]
    /\ UNCHANGED <<raw, limits, built, sent>>

Ordered(c, gas) ==
    LET o == order[c] IN
    [nonce |-> nonce[c], gas_price |-> o.gas_price, gas |-> gas, to |-> o.to,
     value |-> o.value, input |-> o.input, chain_id |-> o.chain_id]

\* `eth_estimateGas`, then the message is signed and sent.
EstimateGas(c) ==
    /\ pc[c] = "estimate"
    /\ \E l \in DryRuns(Latest, AccountOf[c], Ordered(c, 0)), parity \in Parities :
         LET r == Sign(AccountOf[c], Ordered(c, GasEstimate(l)), parity) IN
         /\ raw' = [raw EXCEPT ![c] = r]
         /\ sent' = sent \cup {r}
    /\ order' = [order EXCEPT ![c] = None]
    /\ nonce' = [nonce EXCEPT ![c] = 0]
    /\ pc' = [pc EXCEPT ![c] = "decode"]
    /\ UNCHANGED <<limits, built, outcome, sends>>

EstimateFails(c) ==
    /\ pc[c] = "estimate"
    /\ DryRunMayFail(Latest, AccountOf[c], Ordered(c, 0))
    /\ Respond(c, "DryRunFailed")
    /\ UNCHANGED <<sends, sent>>

\* A caller sends again what was sent before from its account: it was told an
\* error, or the answer was lost.
Resend(c) ==
    /\ pc[c] = "idle" /\ sends[c] < MaxSends[c]
    /\ \E r \in sent : r.rs.signer = AccountOf[c] /\ raw' = [raw EXCEPT ![c] = r]
    /\ sends' = [sends EXCEPT ![c] = @ + 1]
    /\ pc' = [pc EXCEPT ![c] = "decode"]
    /\ outcome' = [outcome EXCEPT ![c] = "none"]
    /\ UNCHANGED <<order, nonce, limits, built, sent>>

-----------------------------------------------------------------------------
\* The handler: `send_raw_transaction`.

\* Decoding and the recovery of the sender, before the first await.
DecodeRaw(c) ==
    /\ pc[c] = "decode"
    /\ \/ HasRecoveryId(raw[c]) /\ pc' = [pc EXCEPT ![c] = "dry_run"]
                                /\ UNCHANGED <<order, nonce, raw, limits, built, outcome>>
       \/ ~HasRecoveryId(raw[c]) /\ Respond(c, "InvalidSignature")
    /\ UNCHANGED <<sends, sent>>

\* The dry run at the newest cached block gives the limits, and the amounts are
\* converted.
DryRun(c) ==
    LET m == Decode(raw[c])
        a == RecoverEthAddress(raw[c]) IN
    /\ pc[c] = "dry_run"
    /\ \/ \E l \in DryRuns(Latest, a, m) :
            IF Convertible(m)
            THEN /\ limits' = [limits EXCEPT ![c] = l]
                 /\ pc' = [pc EXCEPT ![c] = "account_nonce"]
                 /\ UNCHANGED <<order, nonce, raw, built, outcome>>
            ELSE Respond(c, "ConversionError")
       \/ DryRunMayFail(Latest, a, m) /\ Respond(c, "DryRunFailed")
    /\ UNCHANGED <<sends, sent>>

\* `sign_and_submit` reads the account's nonce at the node's finalized head.
AccountNonce(c) ==
    /\ pc[c] = "account_nonce"
    /\ built' = [built EXCEPT ![c] =
                   Extrinsic(raw[c], limits[c], Best.nonce[RecoverEthAddress(raw[c])])]
    /\ pc' = [pc EXCEPT ![c] = "submit"]
    /\ UNCHANGED <<order, nonce, raw, limits, outcome, sends, sent>>

-----------------------------------------------------------------------------
\* The node.

\* Fee withdrawn before the dispatch.
Fee(x) == BaseFee + WeightToFee(CallWeight + x.gas_limit)

\* `validate_transaction` against the head: `check`, CheckNonce and
\* ChargeTransactionPayment.
Validity(x) ==
    CASE Check(x) # "Valid" -> Check(x)
      [] x.nonce < Best.nonce[x.address] -> "Stale"
      [] Best.free[x.address] - Fee(x) < ED -> "Payment"
      [] OTHER -> "Valid"

\* Extrinsics in the pool with the tag of `x`.
SameTag(x) == {y \in pool : y.address = x.address /\ y.nonce = x.nonce}

\* Variant with a bug: a refusal is not passed on.
SubmitUnanswered(c) ==
    LET x == built[c] IN
    /\ pc[c] = "submit" /\ Validity(x) = "Valid" /\ x \notin pool
    /\ pool' = (pool \ SameTag(x)) \cup {x} /\ Respond(c, "ok")
    /\ UNCHANGED <<sends, sent, ledger, chain>>

\* The pool takes a valid extrinsic that it does not have.  It keeps one per
\* account and nonce; which one depends on their priorities.
Submit(c) ==
    LET x == built[c] IN
    /\ pc[c] = "submit"
    /\ \/ /\ Validity(x) = "Valid" /\ x \notin pool
          /\ pool' = (pool \ SameTag(x)) \cup {x} /\ Respond(c, "ok")
       \/ /\ Validity(x) = "Valid" /\ SameTag(x) # {}
          /\ pool' = pool /\ Respond(c, "NotReplaced")
       \/ Validity(x) # "Valid" /\ pool' = pool /\ Respond(c, Validity(x))
    /\ UNCHANGED <<sends, sent, ledger, chain>>

\* Who gets the value of `x`: the recipient, or the contract created.
Beneficiary(x) == IF x.to = None THEN ContractAddress[x.address, x.input] ELSE x.to

\* What the beneficiary gains: the value in native tokens, and an endowment.
Gain(x) == FromEvm(x.eth_value) + Endowment(x)

\* The dispatch of `x` can succeed in state `s`, the fee being withdrawn, and
\* hold `deposit` in reserve.
CanDispatch(s, x, deposit) ==
    /\ FromEvm(x.eth_value) # None
    /\ CanSend(s.free[x.address], Gain(x) + deposit)
    /\ IsTransfer(s, x) => deposit = 0 /\ (x.eth_value # 0 => s.free[x.to] + Gain(x) >= ED)
    /\ x.to = None => Beneficiary(x) \notin s.contracts

\* The state after `gain` and the contract went to the beneficiary.
After(s, x, gain, deposit) ==
    [nonce |-> s.nonce,
     free  |-> [a \in Addresses |->
                  s.free[a] - (IF a = x.address THEN gain + deposit ELSE 0)
                            + (IF a = Beneficiary(x) THEN gain ELSE 0)],
     contracts |-> IF x.to = None THEN s.contracts \cup {Beneficiary(x)} ELSE s.contracts]

\* Variant with a bug: the value is taken for an amount of native tokens.
DispatchedUnconverted(s, x, deposit) == After(s, x, x.eth_value + Endowment(x), deposit)

\* Variant with a bug: the value goes from the beneficiary to the sender.
DispatchedBackwards(s, x, deposit) ==
    LET t == After(s, x, Gain(x), deposit) IN
    [t EXCEPT !.free = [@ EXCEPT ![x.address] = @ + 2 * Gain(x), ![Beneficiary(x)] = @ - 2 * Gain(x)]]

\* `eth_call` and `eth_instantiate` that succeed.
Dispatched(s, x, deposit) == After(s, x, Gain(x), deposit)

\* Variant with a bug: the nonce stays.
ChargedKeepsNonce(s, x) == [s EXCEPT !.free = [s.free EXCEPT ![x.address] = @ - Fee(x)]]

\* The fee comes off and the nonce goes up, whatever the dispatch does.
Charged(s, x) ==
    [nonce |-> [s.nonce EXCEPT ![x.address] = @ + 1],
     free  |-> [s.free EXCEPT ![x.address] = @ - Fee(x)],
     contracts |-> s.contracts]

\* A dispatch that returns Ok reports the weight it used; the rest is refunded.
Refunds(s, x) ==
    IF IsTransfer(s, x)
    THEN {WeightToFee(w) : w \in {CallWeight + x.gas_limit - TransferWeight} \cap Nat}
         \cup {0 : w \in {TransferWeight - CallWeight - x.gas_limit} \cap Nat}
    ELSE {WeightToFee(w) : w \in 0..x.gas_limit}

Refunded(s, x, refund) ==
    [s EXCEPT !.free = [s.free EXCEPT ![x.address] = @ + refund]]

\* Storage deposits that `x` allows.  Where it sets no limit, for it was a plain
\* transfer when the proxy looked, the default of pallet_contracts holds, which is
\* left open.
Allowed(s, x) ==
    0..(IF x.storage_deposit_limit = None THEN s.free[x.address] ELSE x.storage_deposit_limit)

\* States that executing `x` may lead to.  A contract may fail, which is not
\* refunded, or revert, which is Ok to the dispatch.
Outcomes(x) ==
    LET s == Charged(Best, x)
        deposits == {d \in Allowed(s, x) : CanDispatch(s, x, d)}
        unchanged == IF deposits = {} THEN {0}
                     ELSE IF IsTransfer(s, x) THEN {} ELSE Refunds(s, x)
    IN  {Refunded(Dispatched(s, x, d), x, r) : d \in deposits, r \in Refunds(s, x)}
        \cup {Refunded(s, x, r) : r \in unchanged}

\* A block with `x` is sealed and finalized.
Seal(x) ==
    /\ x \in pool /\ Validity(x) = "Valid"
    /\ pool' = pool \ {x}
    /\ chain' = Append(chain, x)
    /\ \E s \in Outcomes(x) : ledger' = Append(ledger, s)

\* The proxy's subscription takes the next block into the cache.
CacheBlock ==
    /\ seen < Len(ledger)
    /\ seen' = seen + 1

-----------------------------------------------------------------------------
Handle(c) ==
    /\ EstimateGas(c) \/ EstimateFails(c) \/ DecodeRaw(c) \/ DryRun(c) \/ AccountNonce(c)
    /\ UNCHANGED <<nodeVars, seen>>

Next ==
    \/ \E c \in Callers :
         \/ (GetTransactionCount(c) \/ Resend(c)) /\ UNCHANGED <<nodeVars, seen>>
         \/ Handle(c)
         \/ Submit(c) /\ UNCHANGED seen
    \/ \E x \in pool : Seal(x) /\ UNCHANGED <<seen, requestVars>>
    \/ CacheBlock /\ UNCHANGED <<nodeVars, requestVars>>

Spec == Init /\ [][Next]_vars

\* Instant sealing answers every import into the pool with a block; a handler
\* is polled until it responds.
FairSpec ==
    /\ Spec
    /\ WF_vars(\E x \in pool : Seal(x) /\ UNCHANGED <<seen, requestVars>>)
    /\ \A c \in Callers : WF_vars(Handle(c)) /\ WF_vars(Submit(c) /\ UNCHANGED seen)

-----------------------------------------------------------------------------
\* What the RPC shows of the chain: transaction counts, and balances in EVM
\* decimals.
Signed == {<<r.rs.signer, r.rs.msg>> : r \in sent}
ContractAddressByInput ==
    [p \in {q \in Addresses \X Inputs : DecodeCallInput[q[2]] # None} |->
        ContractAddress[p[1], DecodeCallInput[p[2]]]]

Abstract == INSTANCE EthLedger WITH
    nonces <- Best.nonce,
    balances <- [a \in Addresses |-> ToEvm(Best.free[a])],
    signed <- Signed,
    ContractAddress <- ContractAddressByInput

\* Through the RPC the chain is an Ethereum ledger: what executes was signed for
\* this chain with the next nonce, and moves exactly the value that was signed
\* (lib.rs:112-235, unchecked_extrinsic.rs:89-131, pallet lib.rs:152-251).
ImplementsEthLedger == Abstract!Spec

Pcs == {"idle", "estimate", "decode", "dry_run", "account_nonce", "submit"}

\* What `x` does is what `a` asked for with `m`.
CarriesOut(x, a, m) ==
    /\ x.address = a /\ x.nonce = m.nonce /\ x.to = m.to
    /\ x.eth_value = m.value /\ x.eth_gas_price = m.gas_price /\ x.eth_gas_limit = m.gas
    /\ m.input = IF x.to = None THEN EncodeCallInput[x.input] ELSE x.input
    /\ m.chain_id = ChainId

\* An extrinsic that reached a block does what its sender signed, to the nonce,
\* although the proxy took the message apart and subxt chose the nonce
\* (lib.rs:131-228, runtime lib.rs:285-352).
ExecutedAsSigned ==
    \A i \in 1..Len(chain) : \E s \in Signed : CarriesOut(chain[i], s[1], s[2])

\* No signed transaction takes effect twice, however often it is sent and by
\* however many handlers at once.
ExecutedOnce ==
    \A i, j \in 1..Len(chain) :
        i # j => chain[i].signature.rs.msg # chain[j].signature.rs.msg
                 \/ chain[i].source # chain[j].source

\* The nonces of `a` that extrinsics executed before block `b` have used.
Used(a, b) == {chain[i].nonce : i \in {j \in 1..(b - 1) : chain[j].source = a}}

\* At every block, so also at those the proxy still serves from its cache, the
\* transaction count of an account leaves out no nonce and counts none that was
\* not executed: the nonce a caller is told there is the next one.
CountsAreExact ==
    /\ Len(ledger) = Len(chain) + 1
    /\ \A b \in 1..Len(ledger), a \in Addresses : Used(a, b) = 0..(ledger[b].nonce[a] - 1)

\* The inductive part of ExecutedOnce: the extrinsics of an account are executed
\* with growing nonces, below its nonce at the head, and without a gap
\* (client.rs:712-725, lib.rs:187-192).
NoncesGrow ==
    /\ \A i \in 1..Len(chain) : chain[i].nonce < Best.nonce[chain[i].source]
    /\ \A i, j \in 1..Len(chain) :
         i < j /\ chain[i].source = chain[j].source => chain[i].nonce < chain[j].nonce
    /\ CountsAreExact

\* The pool holds one extrinsic of an account: subxt signs with the nonce at the
\* head, so two that are valid have the same tag.
OnePerAccount == \A x, y \in pool : x.address = y.address => x = y

\* What the pool accepted stays valid until it is executed or replaced, whatever
\* else is executed before it, and a block with it can be made at any time: a
\* caller who was given a hash was not misled.
AcceptedStaysValid ==
    /\ OnePerAccount
    /\ \A x \in pool : Validity(x) = "Valid" /\ Outcomes(x) # {}

\* This step answers the submission of `c` with `what`.
Refused(c, what) == pc[c] = "submit" /\ pc'[c] = "idle" /\ outcome'[c] = what

\* The proxy and the runtime agree on the message: "BadProof" is the answer only
\* to a nonce that was not the account's next one, another chain, or an input
\* with bytes after its last field.
BadProofIsTheCallers ==
    [][\A c \in Callers : Refused(c, "BadProof") =>
         LET m == raw[c].rs.msg IN
         \/ m.nonce # built[c].nonce
         \/ m.chain_id # ChainId
         \/ m.to = None /\ EncodeCallInput[DecodeCallInput[m.input]] # m.input]_vars

\* A transaction that pays at least GAS_PRICE, with a fee that fits in u128, is
\* refused for its fee only if it brings less gas than an estimate of what the
\* handler's own dry run found: `gas_estimate` rounds up enough for
\* `validate_fee`.
EstimateSuffices ==
    [][\A c \in Callers : Refused(c, "FeeMismatch") =>
         LET m == Decode(raw[c]) IN
         m.gas_price >= GasPrice /\ m.gas * m.gas_price <= MaxU128 =>
             GasEstimate(limits[c]) > m.gas]_vars

\* Nothing leaves the pool but by a block that uses its nonce, or for another
\* extrinsic of its account with its nonce.
NeverDropped ==
    [][\A x \in pool :
         \/ x \in pool' \/ Best'.nonce[x.address] > x.nonce
         \/ \E y \in pool' : y.address = x.address /\ y.nonce = x.nonce]_vars

\* Nonces that the requests to send with the key of `a` may use.
NoncesOf(a) ==
    LET requests == UNION {{<<c, i>> : i \in 1..MaxSends[c]} : c \in {d \in Callers : AccountOf[d] = a}}
    IN  0..(Cardinality(requests) - 1)

\* A transaction the pool accepted is executed in the end, or replaced by
\* another with its nonce, and never dropped (service.rs:217-242).
AcceptedIsExecuted ==
    /\ NeverDropped
    /\ \A a \in Addresses : \A n \in NoncesOf(a) :
         (\E x \in pool : x.address = a /\ x.nonce = n) ~> Best.nonce[a] > n

\* Steps of a request before its answer, at most.
StepsLeft ==
    [idle |-> 0, submit |-> 1, account_nonce |-> 2, dry_run |-> 3, decode |-> 4, estimate |-> 5]

\* What the request of `c` works on.
Work(c) == <<pc[c], order[c], nonce[c], raw[c], limits[c], built[c], outcome[c]>>

\* A request goes on to a later place or keeps all it works on, whatever the
\* others do, and has an answer exactly when it is at its end.
RequestsAdvance ==
    [][\A c \in Callers : pc[c] # "idle" =>
         \/ UNCHANGED Work(c)
         \/ /\ StepsLeft[pc'[c]] < StepsLeft[pc[c]]
            /\ pc'[c] = "idle" <=> outcome'[c] # "none"]_vars

\* Every raw transaction sent gets a response, after a bounded number of steps of
\* its own (lib.rs:112-235).
SendsAreAnswered ==
    /\ RequestsAdvance
    /\ \A c \in Callers : pc[c] = "decode" ~> pc[c] = "idle"

-----------------------------------------------------------------------------
\* "Generates and returns an estimate of how much gas is necessary to allow the
\* transaction to complete." (rpc/src/rpc_methods.rs:30)  There is an estimate
\* for a call that would complete with any of the limits.
EstimateExists ==
    \A c \in Callers : pc[c] = "estimate" =>
        LET m == Ordered(c, 0)
            a == AccountOf[c]
            rich(l) == Latest.free[a] - (BaseFee + WeightToFee(CallWeight + l.gas_limit))
        IN  /\ m.to \in Latest.contracts
            /\ FromEvm(m.value) # None
            /\ \A l \in Limits : rich(l) - FromEvm(m.value) - l.storage_deposit_limit >= ED
            => DryRuns(Latest, a, m) # {}
=============================================================================
