\* Postgres; lists of two rows, pickers of three names, forms of two options.
CONSTANTS
    milk = milk
    Milk = Milk
    seven = seven
    toiletPaper = toiletPaper
    longName = longName
    endless = endless
    milkName = milkName
    sevenName = sevenName
    paperName = paperName
    longKey = longKey
    endlessKey = endlessKey
    Blank = Blank
    NoOne = NoOne
    Phones = {}
    Texts <- MCTexts
    Keys <- MCKeys
    Lower <- MCLower
    DbLower <- MCLower
    Chars <- MCChars
    Scalars <- MCScalars
    MaxRows = 2
    MaxCallback = 200
    MaxRowTitle = 24
    MaxOptionTitle = 30
    MaxName = 200
    MaxPastListed = 3
    MaxPastItems = 2
    History <- MCHistory
    Batches <- MCBatches
    MaxTurns = 4
    MaxFailures = 1
SPECIFICATION Spec
INVARIANTS
    TypeOK
    MessagesAreAccepted
    EveryActionIsAnswered
    FormIsHonoured
    PickerNamesOnce
PROPERTIES
    PickerComesBackWithTheRest
