\* One worker on SQLite: taps on list messages of any age.
CONSTANTS
    milk = milk
    Milk = Milk
    bread = bread
    blanks = blanks
    milkName = milkName
    breadName = breadName
    anna = anna
    ben = ben
    Texts <- MCTexts
    Keys <- MCKeys
    Lower <- MCLower
    Blank = Blank
    NoOne = NoOne
    Phones = {anna, ben}
    Batches <- MCBatches
    Workers = {w1}
    Backend = "sqlite"
    MaxJobs = 4
SPECIFICATION Spec
CHECK_DEADLOCK FALSE
PROPERTIES
    RowBuysItsTitle
