SPECIFICATION FairMessagesSpec
CONSTANTS
    Document <- MCDocument
    Alphabet <- MCAlphabet
    Sources <- MCSources
    MethodLists <- MCMethodLists
    Predefined <- Builtin
    ExtraType <- MCExtraType
    MethodUses <- MethodMentions
    TypeUses <- TypeMentions
    CanPrintMethod <- MethodNameable
    CanPrintType <- TypePrintable
    Served <- MCServed
INVARIANTS
    DefinedOnce
    NothingUndefined
    OneNameOneSchema
    Compiles
    MatchesCheckedIn
    AcceptsValid
    AnswersAreValid
    NothingLost
PROPERTIES
    Terminates
CHECK_DEADLOCK FALSE
