SPECIFICATION Spec
CONSTANTS
    alice = alice
    bob = bob
    old = old
    new = new
    c1 = c1
    c2 = c2
    c3 = c3
    plain = plain
    code = code
    codeAndMore = codeAndMore
    callInput = callInput
    Stranger = Stranger
    None = None
    Addresses <- MCAddresses
    Inputs <- MCInputs
    CallInputs <- MCCallInputs
    DecodeCallInput <- MCDecode
    EncodeCallInput <- MCEncode
    ContractAddress <- MCContractAddress
    Genesis <- MCGenesis
    GenesisContracts <- MCGenesisContracts
    Weights <- MCWeights
    Deposits <- MCDeposits
    ChainId = 5
    GasPrice = 1
    Ratio = 2
    MaxU64 = 7
    MaxU128 = 63
    TransferWeight = 1
    CallWeight = 1
    BaseFee = 1
    ED = 1
    Callers = {c1}
    AccountOf <- MCOneCaller
    Orders <- MCAllOrders
    MaxSends <- MCTwoSends
INVARIANTS
    ExecutedAsSigned
PROPERTIES
    BadProofIsTheCallers
    EstimateSuffices
    ImplementsEthLedger
CHECK_DEADLOCK FALSE
