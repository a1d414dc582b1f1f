SPECIFICATION Spec
CONSTANTS
    MaxNumber = 7
    Blocks <- MCBlocks
    NumberOf <- MCNumberOf
    TxHashes <- MCTxHashes
    Extrinsics <- MCExtrinsicsFee
    N = 3
    Redelivery = TRUE
    None = None
    Numbers <- MCNumbers
    Indices <- MCIndices
INVARIANTS
    YoungerBlocksFound
    NothingOutlivesItsBlock
PROPERTIES
    ReceiptKeptWhileWindowed
CHECK_DEADLOCK FALSE
