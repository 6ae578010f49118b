\* Two workers: what models.py says of bought items.
CONSTANTS
    milk = milk
    Milk = Milk
    bread = bread
    blanks = blanks
    milkName = milkName
    breadName = breadName
    anna = anna
    ben = ben
    Texts <- MCTexts
    Keys <- MCKeys
    Lower <- MCLower
    Blank = Blank
    NoOne = NoOne
    Phones = {anna, ben}
    Batches <- MCOneBatch
    Workers = {w1, w2}
    Backend = "postgres"
    MaxJobs = 3
SPECIFICATION Spec
CHECK_DEADLOCK FALSE
PROPERTIES
    BoughtItemsAreKept
