SPECIFICATION MessagesSpec
CONSTANTS
    Document <- MCDocument
    Alphabet <- MCAlphabet
    Sources <- MCSources
    MethodLists <- MCMethodLists
    Predefined <- Builtin
    ExtraType <- MCExtraType
    MethodUses <- MethodMentions
    TypeUses <- TypeMentions
    CanPrintMethod <- MethodNameable
    CanPrintType <- TypePrintable
    Served <- MCServed
INVARIANT PicksTheSchema
CHECK_DEADLOCK FALSE
