----------------------------- MODULE TxLedgerProofs -----------------------------
(***************************************************************************)
(* More proofs about TxPipeline, where balances and fees matter: what the  *)
(* pool accepted stays valid, an estimate of gas is enough for the fee,    *)
(* and through the RPC the chain is an Ethereum ledger.                    *)
(*                                                                         *)
(* The pool holds at most one extrinsic per account, for it is valid only  *)
(* with the nonce that the account has and was made with one that the      *)
(* account had; so no execution spends what another extrinsic counts on.   *)
(***************************************************************************)
EXTENDS TxPipelineProofs

\* The inductive part of AcceptedStaysValid, with OnePerAccount.
PoolValid == \A x \in pool : Validity(x) = "Valid"

\* What is submitted carries the limits that the handler's dry run found.
LimitsKept ==
    \A c \in Callers : pc[c] = "submit" =>
        limits[c] \in NatLimits /\ \E n : built[c] = Extrinsic(raw[c], limits[c], n)

-----------------------------------------------------------------------------
\* Lemmas about the execution of an extrinsic.

\* The parts of a state that the fee and the dispatch compute with.
LEMMA ChargedFields ==
    ASSUME Types, NEW x, Made(x)
    PROVE  /\ Best.free \in [Addresses -> Int] /\ Best.nonce \in [Addresses -> Nat]
           /\ x.address \in Addresses /\ Beneficiary(x) \in Addresses
           /\ Fee(x) \in Nat /\ Fee(x) = BaseFee + (CallWeight + x.gas_limit)
           /\ Charged(Best, x).free = [Best.free EXCEPT ![x.address] = @ - Fee(x)]
           /\ x.eth_value \in Nat /\ x.gas_limit \in Nat
<1>1. Best \in State
  BY BestIsState
<1>2. /\ x.address \in Addresses /\ x.eth_value \in Nat /\ x.gas_limit \in Nat
      /\ Beneficiary(x) \in Addresses
  BY MadeFields
<1>3. Fee(x) \in Nat /\ Fee(x) = BaseFee + (CallWeight + x.gas_limit)
  BY <1>2, PipelineAssumption DEF Fee, WeightToFee
<1> QED
  BY <1>1, <1>2, <1>3 DEF State, Charged

\* Less is refunded than was charged: a transaction is never free.
LEMMA RefundBelowFee ==
    ASSUME Types, NEW x, Made(x), NEW s, NEW r \in Refunds(s, x)
    PROVE  r \in Nat /\ r < Fee(x)
<1>1. x.gas_limit \in Nat /\ Fee(x) = BaseFee + (CallWeight + x.gas_limit)
  BY ChargedFields
<1>2. BaseFee \in Nat \ {0} /\ CallWeight \in Nat /\ TransferWeight \in Nat
  BY PipelineAssumption
<1>3. CASE IsTransfer(s, x)
  <2>1. \/ r \in {CallWeight + x.gas_limit - TransferWeight} \cap Nat
        \/ r = 0
    BY <1>3 DEF Refunds, WeightToFee
  <2> QED
    BY <1>1, <1>2, <2>1
<1>4. CASE ~IsTransfer(s, x)
  <2>1. r \in 0..x.gas_limit
    BY <1>4 DEF Refunds, WeightToFee
  <2> QED
    BY <1>1, <1>2, <2>1
<1> QED
  BY <1>3, <1>4

\* An outcome, by what it costs the sender and what the beneficiary gains.
Balances(x, gain, cost) ==
    [a \in Addresses |->
        Best.free[a] - (IF a = x.address THEN gain + cost ELSE 0)
                     + (IF a = Beneficiary(x) THEN gain ELSE 0)]

\* Executing an extrinsic costs its sender something.  It moves nothing else, or
\* all that the beneficiary is to gain, which the sender can pay for.
LEMMA OutcomeBalances ==
    ASSUME Types, NEW x, Made(x), Validity(x) = "Valid", NEW s \in Outcomes(x)
    PROVE  \E cost \in 1..Best.free[x.address] :
             \/ s.free = Balances(x, 0, cost)
             \/ /\ FromEvm(x.eth_value) # None
                /\ Gain(x) \in Nat /\ Gain(x) + cost <= Best.free[x.address]
                /\ s.free = Balances(x, Gain(x), cost)
<1> DEFINE ch == Charged(Best, x)
           f == Best.free[x.address]
<1>1. /\ Best.free \in [Addresses -> Int] /\ Best.nonce \in [Addresses -> Nat]
      /\ x.address \in Addresses /\ Beneficiary(x) \in Addresses
      /\ Fee(x) \in Nat /\ Fee(x) = BaseFee + (CallWeight + x.gas_limit)
      /\ ch.free = [Best.free EXCEPT ![x.address] = @ - Fee(x)]
      /\ x.eth_value \in Nat /\ x.gas_limit \in Nat
  BY ChargedFields
<1>2. /\ BaseFee \in Nat \ {0} /\ CallWeight \in Nat /\ TransferWeight \in Nat
      /\ ED \in Nat \ {0}
  BY PipelineAssumption
<1>3. f \in Int /\ f - Fee(x) >= ED
  <2>1. ~(f - Fee(x) < ED)
    BY DEF Validity
  <2> QED
    BY <1>1, <1>2, <2>1
<1> HIDE DEF ch, f
<1>4. CASE \E d \in Allowed(ch, x), r \in Refunds(ch, x) :
             CanDispatch(ch, x, d) /\ s = Refunded(Dispatched(ch, x, d), x, r)
  <2>1. PICK d \in Allowed(ch, x), r \in Refunds(ch, x) :
          CanDispatch(ch, x, d) /\ s = Refunded(Dispatched(ch, x, d), x, r)
    BY <1>4
  <2>2. r \in Nat /\ r < Fee(x) /\ d \in Nat
    BY <1>1, <2>1, RefundBelowFee, AllowedIsNat
  <2> DEFINE cost == Fee(x) - r + d
             g == Gain(x)
  <2>3. FromEvm(x.eth_value) # None /\ g \in Nat
    <3>1. FromEvm(x.eth_value) # None
      BY <2>1 DEF CanDispatch
    <3>2. FromEvm(x.eth_value) \in Nat
      BY <1>1, <3>1, NumbersAssumption DEF FromEvm
    <3> QED
      BY <1>2, <3>1, <3>2 DEF Gain, Endowment
  <2>4. ch.free[x.address] = f - Fee(x) /\ ch.free \in [Addresses -> Int]
    BY <1>1 DEF f
  <2>5. g + d = 0 \/ f - Fee(x) - (g + d) >= ED
    BY <2>1, <2>4 DEF CanDispatch, CanSend
  <2>6. cost \in 1..f /\ g + cost <= f
    <3> HIDE DEF g
    <3>1. Fee(x) \in Nat /\ ED > 0 /\ ED \in Nat
      BY <1>1, <1>2
    <3>2. cost \in Nat /\ cost > 0
      BY <3>1, <2>2
    <3>3. g + cost <= f
      <4>1. CASE g + d = 0
        <5>1. g = 0 /\ d = 0
          BY <2>2, <2>3, <4>1
        <5> QED
          BY <1>3, <2>2, <3>1, <5>1
      <4>2. CASE f - Fee(x) - (g + d) >= ED
        BY <1>3, <2>2, <2>3, <3>1, <4>2
      <4> QED
        BY <2>5, <4>1, <4>2
    <3> QED
      BY <1>3, <2>3, <3>2, <3>3
  <2>7. s.free = Balances(x, g, cost)
    <3> DEFINE F == Dispatched(ch, x, d).free
    <3>1. F = [a \in Addresses |->
                 ch.free[a] - (IF a = x.address THEN g + d ELSE 0)
                            + (IF a = Beneficiary(x) THEN g ELSE 0)]
      BY DEF Dispatched, After
    <3>2. s.free = [F EXCEPT ![x.address] = @ + r]
      BY <2>1 DEF Refunded
    <3> HIDE DEF F, g
    <3>3. s.free = [a \in Addresses |-> IF a = x.address THEN F[a] + r ELSE F[a]]
      BY <3>1, <3>2
    <3>4. ASSUME NEW a \in Addresses
          PROVE  (IF a = x.address THEN F[a] + r ELSE F[a])
                   = Best.free[a] - (IF a = x.address THEN g + cost ELSE 0)
                                  + (IF a = Beneficiary(x) THEN g ELSE 0)
      <4>1. CASE a = x.address
        <5>1. F[a] = f - Fee(x) - (g + d) + (IF a = Beneficiary(x) THEN g ELSE 0)
          BY <2>4, <3>1, <4>1
        <5>2. Best.free[a] = f
          BY <4>1 DEF f
        <5> QED
          BY <1>1, <1>3, <2>2, <2>3, <4>1, <5>1, <5>2
      <4>2. CASE a # x.address
        <5>1. ch.free[a] = Best.free[a] /\ Best.free[a] \in Int
          BY <1>1, <4>2
        <5> QED
          BY <2>3, <3>1, <4>2, <5>1
      <4> QED
        BY <4>1, <4>2
    <3> QED
      BY <3>3, <3>4 DEF Balances
  <2> QED
    BY <2>3, <2>6, <2>7 DEF f
<1>5. CASE \E r \in Nat : r < Fee(x) /\ s = Refunded(ch, x, r)
  <2>1. PICK r \in Nat : r < Fee(x) /\ s = Refunded(ch, x, r)
    BY <1>5
  <2> DEFINE cost == Fee(x) - r
  <2>2. cost \in 1..f
    BY <1>1, <1>2, <1>3, <2>1
  <2>3. s.free = [Best.free EXCEPT ![x.address] = (@ - Fee(x)) + r]
    BY <1>1, <2>1 DEF Refunded
  <2>4. ASSUME NEW a \in Addresses
        PROVE  s.free[a] = Best.free[a] - (IF a = x.address THEN 0 + cost ELSE 0)
                                        + (IF a = Beneficiary(x) THEN 0 ELSE 0)
    <3>1. Best.free[a] \in Int
      BY <1>1
    <3>2. CASE a = x.address
      BY <1>1, <2>1, <2>3, <3>1, <3>2
    <3>3. CASE a # x.address
      BY <1>1, <2>3, <3>1, <3>3
    <3> QED
      BY <3>2, <3>3
  <2>5. s.free = Balances(x, 0, cost)
    BY <1>1, <2>3, <2>4 DEF Balances
  <2> QED
    BY <2>2, <2>5 DEF f
<1>6. \/ \E d \in Allowed(ch, x), r \in Refunds(ch, x) :
            CanDispatch(ch, x, d) /\ s = Refunded(Dispatched(ch, x, d), x, r)
      \/ \E r \in Nat : r < Fee(x) /\ s = Refunded(ch, x, r)
  <2>1. 0 \in Nat /\ 0 < Fee(x)
    BY <1>1, <1>2
  <2>2. \A r \in Refunds(ch, x) : r \in Nat /\ r < Fee(x)
    BY RefundBelowFee
  <2> QED
    BY <2>1, <2>2 DEF Outcomes, ch
<1> QED
  BY <1>4, <1>5, <1>6

-----------------------------------------------------------------------------
\* The pool.

\* An extrinsic in the pool has the nonce of its account at the head: it was made
\* with one that is not above it, and one below it would be stale.
LEMMA PoolNonces ==
    ASSUME Inv, NEW x, Made(x), Validity(x) = "Valid"
    PROVE  x.nonce = Best.nonce[x.address]
<1>1. ~(x.nonce < Best.nonce[x.address])
  BY DEF Validity
<1>2. x.nonce \in Nat /\ x.nonce <= Best.nonce[x.address] /\ x.address \in Addresses
  BY MadeFields DEF Inv
<1>3. Best.nonce[x.address] \in Nat
  BY <1>2, BestIsState DEF Inv, State
<1> QED
  BY <1>1, <1>2, <1>3

\* The execution of an extrinsic takes nothing from other accounts.
LEMMA OthersKeepBalance ==
    ASSUME Types, NEW x, Made(x), Validity(x) = "Valid", NEW s \in Outcomes(x),
           NEW a \in Addresses, a # x.address
    PROVE  /\ s.nonce[a] = Best.nonce[a] /\ s.free[a] \in Int /\ Best.free[a] \in Int
           /\ s.free[a] >= Best.free[a]
<1>1. /\ Best.free[a] \in Int /\ Best.nonce \in [Addresses -> Nat] /\ x.address \in Addresses
  BY ChargedFields
<1>2. s.nonce[a] = Best.nonce[a]
  BY <1>1, OutcomesTakeOneNonce
<1>3. \E gain \in Nat, cost \in Int : s.free = Balances(x, gain, cost)
  <2>1. 0 \in Nat
    OBVIOUS
  <2>2. PICK cost \in 1..Best.free[x.address] :
          s.free = Balances(x, 0, cost) \/ (Gain(x) \in Nat /\ s.free = Balances(x, Gain(x), cost))
    BY OutcomeBalances
  <2>3. cost \in Int
    OBVIOUS
  <2> QED
    BY <2>1, <2>2, <2>3
<1>4. PICK gain \in Nat, cost \in Int : s.free = Balances(x, gain, cost)
  BY <1>3
<1>5. s.free[a] = Best.free[a] + (IF a = Beneficiary(x) THEN gain ELSE 0)
  BY <1>1, <1>4 DEF Balances
<1> QED
  BY <1>1, <1>2, <1>4, <1>5

\* Steps that change neither the chain nor the pool.
LEMMA PoolStays ==
    ASSUME PoolValid, OnePerAccount, UNCHANGED <<ledger, pool>>
    PROVE  PoolValid' /\ OnePerAccount'
<1>1. Best' = Best
  BY DEF Best
<1> QED
  BY <1>1 DEF PoolValid, OnePerAccount, Validity

\* A submission replaces what the pool has of the account, and nothing else.
LEMMA SubmitPool ==
    ASSUME Inv, PoolValid, OnePerAccount, NEW c \in Callers, Submit(c)
    PROVE  PoolValid' /\ OnePerAccount'
<1> DEFINE x == built[c]
<1>1. ledger' = ledger /\ pc[c] = "submit"
  BY DEF Submit
<1>2. CASE pool' = pool
  BY <1>1, <1>2, PoolStays
<1>3. CASE Validity(x) = "Valid" /\ pool' = (pool \ SameTag(x)) \cup {x}
  <2>1. Made(x)
    BY <1>1 DEF Inv, RequestInv, Made, MadeOf
  <2> HIDE DEF x
  <2>2. \A y \in pool : y.nonce = Best.nonce[y.address]
    BY PoolNonces DEF Inv, PoolInv, PoolValid
  <2>3. x.nonce = Best.nonce[x.address]
    BY <1>3, <2>1, PoolNonces
  <2>4. \A y \in pool \ SameTag(x) : y.address # x.address
    BY <2>2, <2>3 DEF SameTag
  <2>5. OnePerAccount'
    BY <1>3, <2>4 DEF OnePerAccount
  <2>6. Best' = Best
    BY <1>1 DEF Best
  <2>7. \A y \in pool' : Validity(y) = "Valid"
    BY <1>3 DEF PoolValid
  <2> QED
    BY <2>5, <2>6, <2>7 DEF PoolValid, Validity
<1> QED
  BY <1>2, <1>3 DEF Submit

\* A block executes the one extrinsic that its account has in the pool; it takes
\* nothing from other accounts and leaves their nonces.
LEMMA SealPool ==
    ASSUME Inv, PoolValid, OnePerAccount, NEW x \in pool, Seal(x)
    PROVE  PoolValid' /\ OnePerAccount'
<1>1. PICK s \in Outcomes(x) : ledger' = Append(ledger, s)
  BY DEF Seal
<1>2. Made(x) /\ Validity(x) = "Valid" /\ pool' = pool \ {x}
  BY DEF Seal, Inv, PoolInv
<1>3. Best' = s
  <2>1. ledger \in Seq(State) /\ s \in State
    BY <1>1, <1>2, OutcomesTakeOneNonce DEF Inv, Types
  <2> QED
    BY <1>1, <2>1 DEF Best
<1>4. ASSUME NEW y \in pool' PROVE Validity(y)' = "Valid"
  <2>1. y \in pool /\ y.address # x.address
    BY <1>2, <1>4 DEF OnePerAccount
  <2>2. Made(y) /\ Validity(y) = "Valid"
    BY <2>1 DEF Inv, PoolInv, PoolValid
  <2>3. y.address \in Addresses /\ Fee(y) \in Nat
    BY <2>2, ChargedFields DEF Inv
  <2> DEFINE a == y.address
  <2>4. /\ s.nonce[a] = Best.nonce[a] /\ s.free[a] \in Int /\ Best.free[a] \in Int
        /\ s.free[a] >= Best.free[a]
    BY <1>2, <2>1, <2>3, OthersKeepBalance DEF Inv
  <2>5. /\ Check(y) = "Valid" /\ ~(y.nonce < Best.nonce[a])
        /\ ~(Best.free[a] - Fee(y) < ED)
    BY <2>2 DEF Validity
  <2>6. ED \in Nat
    BY PipelineAssumption
  <2>7. ~(y.nonce < s.nonce[a]) /\ ~(s.free[a] - Fee(y) < ED)
    BY <2>3, <2>4, <2>5, <2>6
  <2> QED
    BY <1>3, <2>5, <2>7 DEF Validity
<1>5. OnePerAccount'
  BY <1>2 DEF OnePerAccount
<1> QED
  BY <1>4, <1>5 DEF PoolValid

\* The pool's part of the invariant.
LEMMA PoolStep ==
    ASSUME Inv, PoolValid, OnePerAccount, [Next]_vars
    PROVE  PoolValid' /\ OnePerAccount'
<1>1. CASE \E c \in Callers : Submit(c)
  BY <1>1, SubmitPool
<1>2. CASE \E x \in pool : Seal(x)
  BY <1>2, SealPool
<1>3. CASE UNCHANGED <<ledger, pool>>
  BY <1>3, PoolStays
<1> QED
  BY <1>1, <1>2, <1>3 DEF Next, Handle, nodeVars, vars

\* A transaction can always be executed: when its dispatch cannot succeed, it
\* fails, and pays its fee.
LEMMA OutcomesExist ==
    ASSUME Types, NEW x, Made(x)
    PROVE  Outcomes(x) # {}
<1> DEFINE s == Charged(Best, x)
           deposits == {d \in Allowed(s, x) : CanDispatch(s, x, d)}
<1>1. x.gas_limit \in Nat /\ CallWeight \in Nat /\ TransferWeight \in Nat
  BY ChargedFields, PipelineAssumption
<1>2. Refunds(s, x) # {}
  <2>1. CASE IsTransfer(s, x)
    <3> DEFINE w == CallWeight + x.gas_limit - TransferWeight
               v == TransferWeight - CallWeight - x.gas_limit
    <3>1. w \in Nat \/ v \in Nat
      BY <1>1
    <3>2. Refunds(s, x) = {WeightToFee(u) : u \in {w} \cap Nat} \cup {0 : u \in {v} \cap Nat}
      BY <2>1 DEF Refunds
    <3> HIDE DEF w, v
    <3>3. CASE w \in Nat
      <4>1. WeightToFee(w) \in Refunds(s, x)
        BY <3>2, <3>3
      <4> QED
        BY <4>1
    <3>4. CASE v \in Nat
      <4>1. 0 \in Refunds(s, x)
        BY <3>2, <3>4
      <4> QED
        BY <4>1
    <3> QED
      BY <3>1, <3>3, <3>4
  <2>2. CASE ~IsTransfer(s, x)
    <3>1. 0 \in 0..x.gas_limit
      BY <1>1
    <3>2. WeightToFee(0) \in Refunds(s, x)
      BY <2>2, <3>1 DEF Refunds
    <3> QED
      BY <3>2
  <2> QED
    BY <2>1, <2>2
<1>3. PICK r \in Refunds(s, x) : TRUE
  BY <1>2
<1>4. CASE deposits = {}
  <2>1. Refunded(s, x, 0) \in Outcomes(x)
    BY <1>4 DEF Outcomes
  <2> QED
    BY <2>1
<1>5. CASE deposits # {}
  <2>1. PICK d \in deposits : TRUE
    BY <1>5
  <2>2. Refunded(Dispatched(s, x, d), x, r) \in Outcomes(x)
    BY <1>3, <2>1 DEF Outcomes
  <2> QED
    BY <2>2
<1> QED
  BY <1>4, <1>5

\* What is in the pool is valid, one per account.
LEMMA PoolInvariant == Spec => [](Inv /\ PoolValid /\ OnePerAccount)
<1>1. Init => PoolValid /\ OnePerAccount
  BY DEF Init, PoolValid, OnePerAccount
<1>2. Inv /\ (PoolValid /\ OnePerAccount) /\ [Next]_vars => (PoolValid /\ OnePerAccount)'
  BY PoolStep
<1> QED
  BY <1>1, <1>2, InvHolds, PTL DEF Spec

\* The hash that `eth_sendRawTransaction` returns is not an empty promise: what
\* the pool accepted is not made invalid by what is executed before it
\* (`validate_transaction`, CheckNonce and ChargeTransactionPayment).
THEOREM AcceptedStaysValidHolds == Spec => []AcceptedStaysValid
<1>1. Inv /\ PoolValid /\ OnePerAccount => AcceptedStaysValid
  BY OutcomesExist DEF AcceptedStaysValid, PoolValid, Inv, PoolInv
<1> QED
  BY <1>1, PoolInvariant, PTL

\* What leaves the pool has used its nonce in a block, or another extrinsic of
\* its account has its place: the safety half of AcceptedIsExecuted.
THEOREM NeverDroppedHolds == Spec => NeverDropped
<1> DEFINE Accounted(x) ==
             \/ x \in pool' \/ Best'.nonce[x.address] > x.nonce
             \/ \E y \in pool' : y.address = x.address /\ y.nonce = x.nonce
<1>1. ASSUME Inv, NEW c \in Callers, Submit(c), NEW x \in pool PROVE Accounted(x)
  BY <1>1 DEF Submit, SameTag
<1>2. ASSUME Inv, PoolValid, NEW y \in pool, Seal(y), NEW x \in pool PROVE Accounted(x)
  <2>1. CASE x # y
    BY <1>2, <2>1 DEF Seal
  <2>2. CASE x = y
    <3>1. PICK s \in Outcomes(x) : ledger' = Append(ledger, s)
      BY <1>2, <2>2 DEF Seal
    <3>2. Made(x)
      BY <1>2 DEF Inv, PoolInv
    <3>3. s \in State /\ s.nonce = [Best.nonce EXCEPT ![x.address] = @ + 1]
      BY <1>2, <3>1, <3>2, OutcomesTakeOneNonce DEF Inv
    <3>4. x.nonce = Best.nonce[x.address] /\ x.address \in Addresses /\ x.nonce \in Nat
      BY <1>2, <3>2, PoolNonces, MadeFields DEF Inv, PoolValid
    <3>5. Best' = s
      BY <1>2, <3>1, <3>3 DEF Best, Inv, Types
    <3>6. Best.nonce \in [Addresses -> Nat]
      BY <1>2, BestIsState DEF Inv, State
    <3>7. s.nonce[x.address] = x.nonce + 1
      BY <3>3, <3>4, <3>6
    <3>8. s.nonce[x.address] > x.nonce
      BY <3>4, <3>7
    <3> QED
      BY <3>5, <3>8
  <2> QED
    BY <2>1, <2>2
<1>3. ASSUME Inv, PoolValid, [Next]_vars PROVE [\A x \in pool : Accounted(x)]_vars
  <2>1. CASE \E c \in Callers : Submit(c)
    BY <1>1, <1>3, <2>1
  <2>2. CASE \E y \in pool : Seal(y)
    BY <1>2, <1>3, <2>2
  <2>3. CASE UNCHANGED pool
    BY <2>3
  <2> QED
    BY <1>3, <2>1, <2>2, <2>3 DEF Next, Handle, nodeVars, vars
<1> QED
  BY <1>3, PoolInvariant, PTL DEF Spec, NeverDropped

-----------------------------------------------------------------------------
\* The fee.

\* Products of natural numbers are monotone.
LEMMA TimesMonotone ==
    ASSUME NEW a \in Nat, NEW b \in Nat, NEW k \in Nat, a <= b
    PROVE  a * k <= b * k
<1>1. PICK d \in Nat : b = a + d
  <2>1. b - a \in Nat
    OBVIOUS
  <2> QED
    BY <2>1
<1>2. b * k = a * k + d * k /\ d * k \in Nat /\ a * k \in Nat
  BY <1>1
<1> QED
  BY <1>2

\* What `gas_estimate` computes for a fee of `k` pays `k` at GAS_PRICE and above.
\* The comparison of `validate_fee` is of u128 numbers: the product must fit, the
\* fee need not.
LEMMA EstimateCoversFee ==
    ASSUME NEW k \in Nat, NEW gas \in Nat, NEW price \in Nat,
           gas >= k \div GasPrice + 1, price >= GasPrice, gas * price <= MaxU128
    PROVE  U128(gas * price) >= U128(k)
<1>1. GasPrice \in Nat \ {0} /\ MaxU128 \in Nat
  BY NumbersAssumption
<1> DEFINE e == k \div GasPrice + 1
<1>2. e \in Nat /\ k < e * GasPrice
  BY <1>1
<1>3. e <= gas
  OBVIOUS
<1> HIDE DEF e
<1>4. e * GasPrice <= gas * GasPrice
  BY <1>1, <1>2, <1>3, TimesMonotone
<1>5. gas * GasPrice <= gas * price
  <2>1. GasPrice * gas <= price * gas
    BY <1>1, TimesMonotone
  <2> QED
    BY <1>1, <2>1
<1> DEFINE total == gas * price
<1>6. total \in Nat /\ k < total /\ total <= MaxU128
  <2>1. total \in Nat /\ total <= MaxU128
    OBVIOUS
  <2>2. e * GasPrice \in Nat /\ gas * GasPrice \in Nat
    BY <1>1, <1>2
  <2> QED
    BY <1>2, <1>4, <1>5, <2>1, <2>2
<1> HIDE DEF total
<1>7. U128(total) = total
  BY <1>1, <1>6 DEF U128
<1>8. U128(k) \in Nat /\ U128(k) <= k
  BY <1>1 DEF U128
<1> QED
  BY <1>6, <1>7, <1>8 DEF total

\* A request that is submitted was in `account_nonce` before, and keeps what it
\* has built until it is answered.
LEMMA LimitsStep ==
    ASSUME Inv, LimitsKept, [Next]_vars
    PROVE  LimitsKept'
<1> SUFFICES ASSUME NEW c \in Callers, pc'[c] = "submit"
             PROVE  limits'[c] \in NatLimits /\ \E n : built'[c] = Extrinsic(raw'[c], limits'[c], n)
  BY DEF LimitsKept
<1>1. /\ DOMAIN pc = Callers /\ DOMAIN raw = Callers
      /\ DOMAIN limits = Callers /\ DOMAIN built = Callers
  BY DEF Inv, Types
<1>2. CASE pc[c] = "submit" /\ UNCHANGED <<limits[c], built[c], raw[c]>>
  BY <1>2 DEF LimitsKept
<1>3. CASE AccountNonce(c)
  <2>1. /\ pc[c] = "account_nonce" /\ limits' = limits /\ raw' = raw
        /\ built'[c] = Extrinsic(raw[c], limits[c], Best.nonce[RecoverEthAddress(raw[c])])
    BY <1>1, <1>3 DEF AccountNonce
  <2>2. limits[c] \in NatLimits
    BY <2>1 DEF Inv, RequestInv
  <2> QED
    BY <2>1, <2>2
<1>4. ASSUME NEW d \in Callers, d # c,
             GetTransactionCount(d) \/ Resend(d) \/ Handle(d) \/ Submit(d)
      PROVE  pc[c] = "submit" /\ UNCHANGED <<limits[c], built[c], raw[c]>>
  BY <1>1, <1>4 DEF GetTransactionCount, Resend, Handle, EstimateGas, EstimateFails, DecodeRaw,
                    DryRun, AccountNonce, Submit, Respond
<1>5. ASSUME GetTransactionCount(c) \/ Resend(c) \/ Handle(c) \/ Submit(c)
      PROVE  AccountNonce(c)
  BY <1>1, <1>5 DEF GetTransactionCount, Resend, Handle, EstimateGas, EstimateFails, DecodeRaw,
                    DryRun, Submit, Respond
<1>6. CASE UNCHANGED <<pc, limits, built, raw>>
  BY <1>2, <1>6
<1> QED
  BY <1>2, <1>3, <1>4, <1>5, <1>6 DEF Next, nodeVars, requestVars, vars

\* `validate_fee` refuses no transaction that brings as much gas as
\* `eth_estimateGas` computes from what the handler's own dry run finds.
THEOREM EstimateSufficesHolds == Spec => EstimateSuffices
<1> DEFINE Enough(c) ==
             LET m == Decode(raw[c]) IN
             m.gas_price >= GasPrice /\ m.gas * m.gas_price <= MaxU128 =>
                 GasEstimate(limits[c]) > m.gas
<1>1. ASSUME Inv, LimitsKept, Next, NEW c \in Callers, Refused(c, "FeeMismatch") PROVE Enough(c)
  <2> DEFINE x == built[c]
  <2>1. Submit(c)
    BY <1>1, OnlySubmitAnswers DEF Refused
  <2>2. ~ValidateFee(x)
    <3>1. DOMAIN outcome = Callers
      BY <1>1 DEF Inv, Types
    <3>2. Validity(x) = "FeeMismatch"
      BY <1>1, <2>1, <3>1 DEF Submit, Respond, Refused
    <3> QED
      BY <3>2 DEF Validity, Check
  <2>3. raw[c] \in sent /\ HasRecoveryId(raw[c])
    BY <1>1 DEF Inv, RequestInv, MadeOf, Refused
  <2>4. PICK a \in Addresses, m \in Message, p \in Parities : raw[c] = Sign(a, m, p)
    BY <1>1, <2>3 DEF Inv, Types, Raws
  <2>5. limits[c] \in NatLimits /\ \E n : x = Extrinsic(raw[c], limits[c], n)
    BY <1>1 DEF LimitsKept, Refused
  <2> DEFINE l == limits[c]
  <2>6. PICK n : x = Extrinsic(raw[c], l, n)
    BY <2>5
  <2>7. l.gas_limit \in Nat /\ OrZero(l.storage_deposit_limit) \in Nat
    BY <2>5 DEF NatLimits, OrZero
  <2> HIDE DEF x, l
  <2>8. /\ x.eth_gas_price = m.gas_price /\ x.eth_gas_limit = m.gas
        /\ x.gas_limit = l.gas_limit /\ x.storage_deposit_limit = l.storage_deposit_limit
    BY <2>3, <2>4, <2>6, ExtrinsicFields
  <2>9. Decode(raw[c]) = m
    BY <2>3, <2>4, DecodeSigned
  <2>10. m.gas \in Nat /\ m.gas_price \in Nat
    BY DEF Message
  <2> DEFINE k == l.gas_limit + OrZero(l.storage_deposit_limit)
  <2>11. k \in Nat
    BY <2>7
  <2>12. ~(U128(m.gas * m.gas_price) >= U128(k))
    BY <2>2, <2>8 DEF ValidateFee, WeightToFee
  <2>13. GasEstimate(l) = k \div GasPrice + 1
    BY DEF GasEstimate, WeightToFee
  <2> HIDE DEF k
  <2>14. SUFFICES ASSUME m.gas_price >= GasPrice, m.gas * m.gas_price <= MaxU128,
                         ~(GasEstimate(l) > m.gas)
                  PROVE  FALSE
    BY <2>9 DEF l
  <2>15. m.gas >= k \div GasPrice + 1
    <3>1. k \div GasPrice \in Nat
      BY <2>11, NumbersAssumption
    <3> QED
      BY <2>10, <2>13, <2>14, <3>1
  <2> QED
    BY <2>10, <2>11, <2>12, <2>14, <2>15, EstimateCoversFee
<1>2. Inv /\ LimitsKept /\ [Next]_vars
        => [\A c \in Callers : Refused(c, "FeeMismatch") => Enough(c)]_vars
  BY <1>1
<1>3. Init => LimitsKept
  BY DEF Init, LimitsKept
<1>4. Inv /\ LimitsKept /\ [Next]_vars => LimitsKept'
  BY LimitsStep
<1> QED
  BY <1>2, <1>3, <1>4, InvHolds, PTL DEF Spec, EstimateSuffices

-----------------------------------------------------------------------------
\* The ledger that the RPC shows.

\* The conversion of amounts is linear, so what is moved in native tokens is what
\* is moved in EVM decimals.
LEMMA ToEvmLinear ==
    ASSUME NEW f \in Int, NEW g \in Int, NEW c \in Int, NEW h \in Int
    PROVE  /\ ToEvm(f - (g + c) + h) = ToEvm(f) - (ToEvm(g) + ToEvm(c)) + ToEvm(h)
           /\ ToEvm(f) \in Int
<1>1. Ratio \in Int
  BY NumbersAssumption
<1> QED
  BY <1>1 DEF ToEvm

LEMMA ToEvmMonotone ==
    ASSUME NEW a \in Nat, NEW b \in Nat, a <= b
    PROVE  ToEvm(a) \in Nat /\ ToEvm(b) \in Nat /\ ToEvm(a) <= ToEvm(b)
<1>1. Ratio \in Nat
  BY NumbersAssumption
<1> QED
  BY <1>1, TimesMonotone DEF ToEvm

\* An amount that the runtime converts comes back unchanged.
LEMMA ToEvmOfFromEvm ==
    ASSUME NEW value \in Nat, FromEvm(value) # None
    PROVE  FromEvm(value) \in Nat /\ ToEvm(FromEvm(value)) = value
<1>1. Ratio \in Nat \ {0}
  BY NumbersAssumption
<1>2. value % Ratio = 0 /\ FromEvm(value) = value \div Ratio
  BY DEF FromEvm
<1>3. value \div Ratio \in Nat /\ (value \div Ratio) * Ratio = value
  BY <1>1, <1>2
<1> QED
  BY <1>2, <1>3 DEF ToEvm

\* What moves `gain` from the sender to the beneficiary moves it in EVM decimals.
LEMMA MovedInEvm ==
    ASSUME Inv, NEW x, Made(x), NEW gain \in Nat, NEW cost \in Nat,
           NEW s, s.free = Balances(x, gain, cost)
    PROVE  [a \in Addresses |-> ToEvm(s.free[a])]
             = Abstract!Moved(x.address, Beneficiary(x), ToEvm(gain), ToEvm(cost))
<1>1. Best.free \in [Addresses -> Int]
  BY ChargedFields DEF Inv
<1>2. ToEvm(0) = 0
  BY NumbersAssumption DEF ToEvm
<1>3. ASSUME NEW a \in Addresses
      PROVE  ToEvm(s.free[a])
               = ToEvm(Best.free[a])
                 - (IF a = x.address THEN ToEvm(gain) + ToEvm(cost) ELSE 0)
                 + (IF a = Beneficiary(x) THEN ToEvm(gain) ELSE 0)
  <2>1. s.free[a] = Best.free[a] - (IF a = x.address THEN gain + cost ELSE 0)
                                 + (IF a = Beneficiary(x) THEN gain ELSE 0)
    BY DEF Balances
  <2>2. Best.free[a] \in Int /\ gain \in Int /\ cost \in Int
    BY <1>1
  <2>3. ToEvm(Best.free[a]) \in Int /\ ToEvm(gain) \in Int /\ ToEvm(cost) \in Int
    BY <2>2, ToEvmLinear
  <2> DEFINE g == IF a = x.address THEN gain ELSE 0
             c == IF a = x.address THEN cost ELSE 0
             h == IF a = Beneficiary(x) THEN gain ELSE 0
  <2>4. /\ g \in Int /\ c \in Int /\ h \in Int
        /\ s.free[a] = Best.free[a] - (g + c) + h
    BY <2>1, <2>2
  <2>5. /\ ToEvm(g) = IF a = x.address THEN ToEvm(gain) ELSE 0
        /\ ToEvm(c) = IF a = x.address THEN ToEvm(cost) ELSE 0
        /\ ToEvm(h) = IF a = Beneficiary(x) THEN ToEvm(gain) ELSE 0
    BY <1>2
  <2> HIDE DEF g, c, h
  <2>6. ToEvm(Best.free[a] - (g + c) + h) = ToEvm(Best.free[a]) - (ToEvm(g) + ToEvm(c)) + ToEvm(h)
    <3> DEFINE F == Best.free[a]
    <3>1. F \in Int /\ g \in Int /\ c \in Int /\ h \in Int
      BY <2>2, <2>4
    <3> HIDE DEF F
    <3>2. ToEvm(F - (g + c) + h) = ToEvm(F) - (ToEvm(g) + ToEvm(c)) + ToEvm(h)
      BY <3>1, ToEvmLinear
    <3> QED
      BY <3>2 DEF F
  <2> QED
    BY <2>3, <2>4, <2>5, <2>6
<1> QED
  BY <1>3 DEF Abstract!Moved

\* The block that executes `x` executes the message that its sender signed.
LEMMA SealExecutes ==
    ASSUME Inv, NEW x \in pool, Seal(x), UNCHANGED <<seen, requestVars>>
    PROVE  \E s \in Signed : Abstract!Execute(s[1], s[2])
<1>1. PICK s \in Outcomes(x) : ledger' = Append(ledger, s)
  BY DEF Seal
<1>2. Made(x) /\ Validity(x) = "Valid" /\ Check(x) = "Valid"
  BY DEF Seal, Inv, PoolInv, Validity
<1>3. s \in State /\ s.nonce = [Best.nonce EXCEPT ![x.address] = @ + 1]
  BY <1>1, <1>2, OutcomesTakeOneNonce DEF Inv
<1>4. Best' = s
  BY <1>1, <1>3 DEF Best, Inv, Types
<1>5. PICK r \in sent, l \in NatLimits, n \in Nat :
        HasRecoveryId(r) /\ Convertible(Decode(r)) /\ x = Extrinsic(r, l, n)
  BY <1>2 DEF Made, MadeOf
<1>6. PICK a \in Addresses, m \in Message, p \in Parities : r = Sign(a, m, p)
  BY DEF Inv, Types, Raws
<1>7. /\ x.address = a /\ x.nonce = n /\ x.to = m.to /\ x.eth_value = m.value
      /\ x.input = IF m.to = None THEN DecodeCallInput[m.input] ELSE m.input
  BY <1>5, <1>6, ExtrinsicFields
<1>8. n = m.nonce /\ m.chain_id = ChainId
  BY <1>2, <1>5, <1>6, CheckSignature, RoundTrip
<1>9. x.nonce = Best.nonce[x.address]
  BY <1>2, PoolNonces
<1>10. <<a, m>> \in Signed
  BY <1>6 DEF Signed, Sign
<1>11. Signed' = Signed
  BY DEF Signed, requestVars
<1>12. Abstract!Receiver(a, m) = Beneficiary(x)
  <2>1. CASE m.to = None
    <3>1. DecodeCallInput[m.input] # None /\ m.input \in Inputs
      BY <1>5, <1>6, <2>1, DecodeSigned DEF Convertible, Message
    <3>2. <<a, m.input>> \in {q \in Addresses \X Inputs : DecodeCallInput[q[2]] # None}
      BY <3>1
    <3>3. ContractAddressByInput[<<a, m.input>>] = ContractAddress[<<a, DecodeCallInput[m.input]>>]
      BY <3>2 DEF ContractAddressByInput
    <3> QED
      BY <1>7, <2>1, <3>3 DEF Abstract!Receiver, Beneficiary
  <2>2. CASE m.to # None
    BY <1>7, <2>2 DEF Abstract!Receiver, Beneficiary
  <2> QED
    BY <2>1, <2>2
<1> DEFINE f == Best.free[a]
           paid == [y \in Addresses |-> ToEvm(s.free[y])]
<1>13. \E cost \in 1..ToEvm(f), gift \in 0..ToEvm(f) :
         \/ paid = Abstract!Moved(a, a, 0, cost)
         \/ /\ m.to # None => gift = 0
            /\ m.value + gift + cost <= ToEvm(f)
            /\ paid = Abstract!Moved(a, Abstract!Receiver(a, m), m.value + gift, cost)
  <2>1. PICK cost \in 1..f :
          \/ s.free = Balances(x, 0, cost)
          \/ /\ FromEvm(x.eth_value) # None
             /\ Gain(x) \in Nat /\ Gain(x) + cost <= f
             /\ s.free = Balances(x, Gain(x), cost)
    BY <1>1, <1>2, <1>7, OutcomeBalances DEF Inv
  <2>2. f \in Int /\ Best.free \in [Addresses -> Int]
    BY <1>2, ChargedFields DEF Inv
  <2> HIDE DEF f
  <2>3. f \in Nat /\ cost \in Nat /\ 1 <= cost /\ cost <= f
    BY <2>2
  <2>4. ToEvm(0) = 0 /\ ToEvm(1) >= 1
    BY NumbersAssumption DEF ToEvm
  <2>5. ToEvm(cost) \in 1..ToEvm(f) /\ ToEvm(f) \in Nat /\ 0 \in 0..ToEvm(f)
    <3>1. ToEvm(1) <= ToEvm(cost) /\ ToEvm(1) \in Nat
      BY <2>3, ToEvmMonotone
    <3>2. ToEvm(cost) <= ToEvm(f) /\ ToEvm(cost) \in Nat /\ ToEvm(f) \in Nat
      BY <2>3, ToEvmMonotone
    <3> QED
      BY <2>4, <3>1, <3>2
  <2>6. CASE s.free = Balances(x, 0, cost)
    <3>1. paid = Abstract!Moved(a, Beneficiary(x), ToEvm(0), ToEvm(cost))
      <4>1. 0 \in Nat
        OBVIOUS
      <4>2. paid = Abstract!Moved(x.address, Beneficiary(x), ToEvm(0), ToEvm(cost))
        BY <1>2, <2>3, <2>6, <4>1, MovedInEvm
      <4> QED
        BY <1>7, <4>2
    <3>2. paid = Abstract!Moved(a, a, 0, ToEvm(cost))
      BY <2>4, <3>1 DEF Abstract!Moved
    <3> QED
      BY <2>5, <3>2
  <2>7. CASE /\ FromEvm(x.eth_value) # None
             /\ Gain(x) \in Nat /\ Gain(x) + cost <= f
             /\ s.free = Balances(x, Gain(x), cost)
    <3> DEFINE value == FromEvm(m.value)
               gift == Endowment(x)
    <3>1. value \in Nat /\ ToEvm(value) = m.value
      BY <1>7, <2>7, ToEvmOfFromEvm DEF Message
    <3>2. gift \in Nat /\ (m.to # None => gift = 0)
      BY <1>7, PipelineAssumption DEF Endowment
    <3>3. Gain(x) = value + gift
      BY <1>7 DEF Gain
    <3> HIDE DEF value, gift
    <3>4. ToEvm(gift) \in 0..ToEvm(f)
      BY <2>3, <2>7, <3>1, <3>2, <3>3, ToEvmMonotone
    <3>5. /\ ToEvm(Gain(x)) = m.value + ToEvm(gift)
          /\ ToEvm(Gain(x) + cost) = m.value + ToEvm(gift) + ToEvm(cost)
      BY <2>3, <3>1, <3>2, <3>3, NumbersAssumption DEF ToEvm
    <3>6. m.value + ToEvm(gift) + ToEvm(cost) <= ToEvm(f)
      BY <2>3, <2>7, <3>5, ToEvmMonotone
    <3>7. paid = Abstract!Moved(a, Beneficiary(x), m.value + ToEvm(gift), ToEvm(cost))
      BY <1>2, <1>7, <2>3, <2>7, <3>5, MovedInEvm
    <3>8. m.to # None => ToEvm(gift) = 0
      BY <2>4, <3>2
    <3> QED
      BY <1>12, <2>5, <3>4, <3>6, <3>7, <3>8
  <2> QED
    BY <2>1, <2>6, <2>7
<1>14. Abstract!Execute(a, m)
  <2>1. /\ m.nonce = Best.nonce[a]
        /\ Best'.nonce = [Best.nonce EXCEPT ![a] = @ + 1]
    BY <1>3, <1>4, <1>7, <1>8, <1>9
  <2>2. [y \in Addresses |-> ToEvm(Best'.free[y])] = paid
    BY <1>4
  <2>3. [y \in Addresses |-> ToEvm(Best.free[y])][a] = ToEvm(f)
    OBVIOUS
  <2> HIDE DEF paid, f
  <2> QED
    BY <1>8, <1>11, <1>13, <2>1, <2>2, <2>3 DEF Abstract!Execute
<1> QED
  BY <1>10, <1>14

\* Whatever else happens is at most the signing of a message.
LEMMA OthersSign ==
    ASSUME Inv, [Next]_vars, UNCHANGED ledger
    PROVE  Abstract!Sign
<1>1. sent \subseteq sent'
  BY DEF Next, GetTransactionCount, Resend, Handle, EstimateGas, EstimateFails, DecodeRaw,
         DryRun, AccountNonce, Submit, Seal, CacheBlock, vars, nodeVars, requestVars
<1>2. Best' = Best
  BY DEF Best
<1>3. Signed \subseteq Signed'
  BY <1>1 DEF Signed
<1> QED
  BY <1>2, <1>3 DEF Abstract!Sign

\* Through the RPC the chain is an Ethereum ledger: every block executes one
\* message that its sender signed for this chain with its next nonce, for exactly
\* the value that was signed and at the sender's expense (lib.rs:112-235,
\* unchecked_extrinsic.rs:89-131, pallet lib.rs:152-251).
THEOREM LedgerRefined == Spec => ImplementsEthLedger
<1>1. Init => Abstract!Init
  <2> SUFFICES ASSUME Init PROVE Abstract!Init
    OBVIOUS
  <2>1. Best = [nonce |-> [a \in Addresses |-> 0], free |-> Genesis, contracts |-> GenesisContracts]
    BY DEF Init, Best
  <2>2. \A a \in Addresses : ToEvm(Genesis[a]) \in Nat
    BY PipelineAssumption, ToEvmMonotone
  <2>3. Signed = {}
    BY DEF Init, Signed
  <2> QED
    BY <2>1, <2>2, <2>3 DEF Abstract!Init
<1>2. Inv /\ [Next]_vars => [Abstract!Next]_Abstract!vars
  <2> SUFFICES ASSUME Inv, [Next]_vars PROVE Abstract!Next
    OBVIOUS
  <2>1. CASE \E x \in pool : Seal(x) /\ UNCHANGED <<seen, requestVars>>
    BY <2>1, SealExecutes DEF Abstract!Next
  <2>2. CASE UNCHANGED ledger
    BY <2>2, OthersSign DEF Abstract!Next
  <2> QED
    BY <2>1, <2>2 DEF Next, Handle, Submit, nodeVars, vars
<1> QED
  BY <1>1, <1>2, InvHolds, PTL DEF Spec, ImplementsEthLedger, Abstract!Spec
=============================================================================
