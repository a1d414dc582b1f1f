------------------------------ MODULE EthLedger ------------------------------
(***************************************************************************)
(* What an Ethereum wallet expects of the chain behind the RPC: accounts   *)
(* with a nonce and a balance in EVM decimals, and messages that take      *)
(* effect only when their sender signed them for this chain with its next  *)
(* nonce.  A message moves exactly its value, or nothing when it fails, and *)
(* costs its sender something either way; a sender may endow a contract    *)
(* that it creates.                                                        *)
(***************************************************************************)
EXTENDS Integers

CONSTANTS
    Addresses,
    None,
    ChainId,
    ContractAddress   \* address a sender creates a contract at, by input

VARIABLES
    nonces,
    balances,
    signed     \* pairs of an address and a message it signed

vars == <<nonces, balances, signed>>

Receiver(a, m) == IF m.to = None THEN ContractAddress[a, m.input] ELSE m.to

\* Balances after `a` sent `value` to `b` and paid `cost`.
Moved(a, b, value, cost) ==
    [x \in Addresses |->
        balances[x] - (IF x = a THEN value + cost ELSE 0) + (IF x = b THEN value ELSE 0)]

Init ==
    /\ nonces = [a \in Addresses |-> 0]
    /\ balances \in [Addresses -> Nat]
    /\ signed = {}

Sign ==
    /\ signed \subseteq signed'
    /\ UNCHANGED <<nonces, balances>>

Execute(a, m) ==
    /\ m.chain_id = ChainId
    /\ m.nonce = nonces[a]
    /\ nonces' = [nonces EXCEPT ![a] = @ + 1]
    /\ \E cost \in 1..balances[a], gift \in 0..balances[a] :
         \/ balances' = Moved(a, a, 0, cost)
         \/ /\ m.to # None => gift = 0
            /\ m.value + gift + cost <= balances[a]
            /\ balances' = Moved(a, Receiver(a, m), m.value + gift, cost)
    /\ UNCHANGED signed

Next == Sign \/ \E s \in signed : Execute(s[1], s[2])

Spec == Init /\ [][Next]_vars
=============================================================================
