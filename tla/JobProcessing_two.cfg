\* Two workers on Postgres, whose jobs overlap statement by statement.
CONSTANTS
    milk = milk
    Milk = Milk
    bread = bread
    blanks = blanks
    milkName = milkName
    breadName = breadName
    anna = anna
    ben = ben
    Texts <- MCTexts
    Keys <- MCKeys
    Lower <- MCLower
    Blank = Blank
    NoOne = NoOne
    Phones = {anna}
    Batches <- MCOneBatch
    Workers = {w1, w2}
    Backend = "postgres"
    MaxJobs = 4
SPECIFICATION Spec
SYMMETRY Symmetry
CHECK_DEADLOCK FALSE
INVARIANTS
    FamilyHasOneList
    OnlyBoughtIsCleared
PROPERTIES
    NothingReturnsToTheList
