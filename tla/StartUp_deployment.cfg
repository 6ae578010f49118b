\* Web and two workers on an empty database, two deaths, under fairness.
CONSTANTS
    Web = Web
    Workers = {w1, w2}
    Settings <- MCSettings
    LowerCase <- MCLowerCase
    NumTables = 3
    MaxJobs = 2
    MaxKills = 2
SPECIFICATION FairSpec
CHECK_DEADLOCK FALSE
INVARIANTS
    TypeOK
    SchemaBeforeWork
PROPERTIES
    AllComeUp
    AcceptedJobsAreTaken
