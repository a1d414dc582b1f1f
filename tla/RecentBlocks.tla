---------------------------- MODULE RecentBlocks ----------------------------
(***************************************************************************)
(* What the block cache promises, without maps and without pruning: every  *)
(* lookup is answered from the last N blocks received, as a scan of that   *)
(* window would answer it, and from nothing else.                          *)
(***************************************************************************)
EXTENDS ReceiptInfos

CONSTANTS
    N,          \* blocks remembered
    None,       \* no answer
    Numbers,    \* block numbers a request may name
    Indices,    \* transaction indices a request may name
    Counted     \* blocks whose transactions a request may count

VARIABLES
    window,    \* the last N blocks received, oldest first
    answers    \* the answer to every lookup

InWindow(w) == {w[i] : i \in 1..Len(w)}

\* The element of `S` or None; a block number, a hash or a transaction names at
\* most one.
TheOne(S) == IF S = {} THEN None ELSE CHOOSE x \in S : TRUE

ReceiptsIn(w) ==
    UNION {{Receipt(b, i) : i \in EvmPositions(b)} : b \in InWindow(w)}

ByNumber(w, n) == TheOne({b \in InWindow(w) : NumberOf[b] = n})

ByHash(w, h) == TheOne({b \in InWindow(w) : b = h})

Transaction(w, t) == TheOne({r \in ReceiptsIn(w) : r.transaction_hash = t})

TransactionAt(w, h, k) ==
    TheOne({r \in ReceiptsIn(w) : r.block_hash = h /\ r.transaction_index = k})

\* "Returns the number of transactions in a block" (rpc/src/rpc_methods.rs:63): a
\* number, zero included, for a block in the window.
TransactionCount(w, h) ==
    IF h \in InWindow(w)
    THEN Cardinality({r.transaction_index : r \in {q \in ReceiptsIn(w) : q.block_hash = h}})
    ELSE None

Answers(w) ==
    [byNumber |-> [n \in Numbers |-> ByNumber(w, n)],
     byHash   |-> [h \in Blocks |-> ByHash(w, h)],
     receipt  |-> [t \in TxHashes |-> Transaction(w, t)],
     receiptAt |-> [h \in Blocks |-> [k \in Indices |-> TransactionAt(w, h, k)]],
     count    |-> [h \in Counted |-> TransactionCount(w, h)]]

vars == <<window, answers>>

Init == window = <<>> /\ answers = Answers(<<>>)

\* Block `b` arrives: it follows the newest block known, and the oldest one is
\* forgotten when N are known already.
Receive(b) ==
    /\ window # <<>> => NumberOf[b] > NumberOf[window[Len(window)]]
    /\ window' = Append(IF Len(window) < N THEN window ELSE Tail(window), b)
    /\ answers' = Answers(window')

Next == \E b \in Blocks : Receive(b)

Spec == Init /\ [][Next]_vars
=============================================================================
