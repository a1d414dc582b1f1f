SPECIFICATION FairSpec
CONSTANTS
    b0 = b0
    b1 = b1
    b2 = b2
    b3 = b3
    inherent = inherent
    t1 = t1
    t2 = t2
    t3 = t3
    Main = Main
    None = None
    Latest = Latest
    Blocks <- MCBlocks
    NumberOf <- MCNumberOf
    TxHashes <- MCTxHashes
    Extrinsics <- MCExtrinsics
    Numbers <- MCNumbers
    Indices <- MCIndices
    Queries <- MCNestedQueries
    Requests = {q1}
    N = 2
    MaxHead = 3
    MaxDisconnects = 0
    Failures = FALSE
PROPERTY
    CacheFollowsChain
