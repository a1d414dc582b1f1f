SPECIFICATION Spec
CONSTANTS
    MaxNumber = 10
    Blocks <- MCBlocks
    NumberOf <- MCNumberOf
    TxHashes <- MCTxHashes
    Extrinsics <- MCExtrinsicsFee
    N = 3
    Redelivery = FALSE
    None = None
    Numbers <- MCNumbers
    Indices <- MCIndices
INVARIANTS
    TypeOK
    IndexesBuffer
    BufferedFound
PROPERTIES
    ImplementsRecentBlocks
CHECK_DEADLOCK FALSE
