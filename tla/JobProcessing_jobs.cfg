\* Two workers on Postgres, whose jobs wait for each other.
CONSTANTS
    milk = milk
    Milk = Milk
    bread = bread
    blanks = blanks
    milkName = milkName
    breadName = breadName
    anna = anna
    ben = ben
    Texts <- MCTexts
    Keys <- MCKeys
    Lower <- MCLower
    Blank = Blank
    NoOne = NoOne
    Phones = {anna}
    Batches <- MCOneBatch
    Workers = {w1, w2}
    Backend = "postgres"
    MaxJobs = 3
SPECIFICATION FairSpec
CHECK_DEADLOCK FALSE
PROPERTIES
    JobsEnd
