\* One worker, jobs of two people one after the other, failures anywhere.
CONSTANTS
    milk = milk
    Milk = Milk
    bread = bread
    blanks = blanks
    milkName = milkName
    breadName = breadName
    anna = anna
    ben = ben
    Texts <- MCTexts
    Keys <- MCKeys
    Lower <- MCLower
    Blank = Blank
    NoOne = NoOne
    Phones = {anna, ben}
    Batches <- MCBatches
    Workers = {w1}
    Backend = "postgres"
    MaxJobs = 4
SPECIFICATION Spec
CHECK_DEADLOCK FALSE
INVARIANTS
    TypeOK
    SingleFamily
    NoDuplicateNeeded
PROPERTIES
    BoughtItemsAreKept
    PurchaseIsFinal
    AnswerIsTrue
    PickerOffersNothingNeeded
    TurnEndsInteractive
    RowBuysItsTitle
    RefinesFamilyList
