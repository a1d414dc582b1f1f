SPECIFICATION Spec
CONSTANTS
    MaxNumber = 4
    Blocks <- MCBlocks
    NumberOf <- MCNumberOf
    TxHashes <- MCTxHashes
    Extrinsics <- MCExtrinsicsFee
    N = 3
    Redelivery = FALSE
    None = None
    Numbers <- MCNumbers
    Indices <- MCIndices
INVARIANT
    TransactionsCounted
CHECK_DEADLOCK FALSE
