---------------------------- MODULE MCTxPipeline ----------------------------
(***************************************************************************)
(* Two accounts that sign, one contract that exists and one that can be    *)
(* created, and the callers and messages of each run of TxPipeline: one    *)
(* caller with every kind of message, or two callers of one account and a  *)
(* third of another, whose transactions change the balances and the code   *)
(* the others rely on.                                                     *)
(***************************************************************************)
EXTENDS TxPipeline

CONSTANTS alice, bob, old, new, c1, c2, c3, plain, code, codeAndMore, callInput

MCAddresses == {alice, bob, old, new}
MCInputs == {plain, code, codeAndMore}
MCCallInputs == {callInput}
MCDecode == [i \in MCInputs |-> IF i = plain THEN None ELSE callInput]
MCEncode == [i \in MCCallInputs |-> code]
MCContractAddress == [p \in MCAddresses \X MCCallInputs |-> new]
MCGenesis == [a \in MCAddresses |-> CASE a = alice -> 9 [] a = bob -> 6 [] a = old -> 1 [] a = new -> 0]
MCGenesisContracts == {old}
MCWeights == {1, 2}
MCDeposits == {0, 2}
MCOneWeight == {1}
MCNoDeposit == {0}

Order(to, value, input, price, id) ==
    [to |-> to, value |-> value, input |-> input, gas_price |-> price, chain_id |-> id]

Transfer == Order(bob, 6, plain, 1, ChainId)
Call == Order(old, 2, plain, 1, ChainId)
BigCall == Order(old, 10, plain, 1, ChainId)
Create == Order(None, 0, code, 1, ChainId)
CreateTail == Order(None, 0, codeAndMore, 1, ChainId)
OtherChain == Order(bob, 2, plain, 1, ChainId + 1)
NoChain == Order(bob, 2, plain, 1, None)
OddValue == Order(bob, 3, plain, 1, ChainId)
HugeValue == Order(bob, MaxU128 + 1, plain, 1, ChainId)

ToNew == Order(new, 2, plain, 1, ChainId)

MCOneCaller == [c \in {c1} |-> alice]
MCTwoAccounts == [c \in {c1, c2, c3} |-> IF c = c3 THEN bob ELSE alice]

MCOneSend == [c \in Callers |-> 1]
MCTwoSends == [c \in Callers |-> 2]

MCAllOrders ==
    [c \in {c1} |-> {Transfer, Call, Create, CreateTail, OtherChain, NoChain, OddValue, HugeValue}]
MCBigCall == [c \in {c1} |-> {BigCall}]
MCTransfers ==
    [c \in {c1, c2, c3} |-> CASE c = c1 -> {Transfer} [] c = c2 -> {Create} [] c = c3 -> {ToNew}]
=============================================================================
