SPECIFICATION FairSpec
CONSTANTS
    alice = alice
    bob = bob
    old = old
    new = new
    c1 = c1
    c2 = c2
    c3 = c3
    plain = plain
    code = code
    codeAndMore = codeAndMore
    callInput = callInput
    Stranger = Stranger
    None = None
    Addresses <- MCAddresses
    Inputs <- MCInputs
    CallInputs <- MCCallInputs
    DecodeCallInput <- MCDecode
    EncodeCallInput <- MCEncode
    ContractAddress <- MCContractAddress
    Genesis <- MCGenesis
    GenesisContracts <- MCGenesisContracts
    Weights <- MCOneWeight
    Deposits <- MCNoDeposit
    ChainId = 5
    GasPrice = 1
    Ratio = 2
    MaxU64 = 7
    MaxU128 = 63
    TransferWeight = 1
    CallWeight = 1
    BaseFee = 1
    ED = 1
    Callers = {c1, c2, c3}
    AccountOf <- MCTwoAccounts
    Orders <- MCTransfers
    MaxSends <- MCOneSend
INVARIANTS
    NoncesGrow
    ExecutedOnce
    AcceptedStaysValid
PROPERTIES
    AcceptedIsExecuted
    SendsAreAnswered
CHECK_DEADLOCK FALSE
