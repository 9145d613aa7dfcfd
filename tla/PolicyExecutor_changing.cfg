\* The resources change, a policy is dropped, and a query may fail.
CONSTANTS
    reader = reader
    owner = owner
    r1 = r1
    r2 = r2
    Keys = {reader, owner}
    Asks <- AskReader
    Defined <- DropsReader
    Verdict <- Verdicts2
    Requests = {r1, r2}
    MaxVersion = 2
    MaxFailures = 1
SPECIFICATION FairSpec
INVARIANTS
    ExecutedOnce
    SameAnswer
    Justified
PROPERTIES
    WaitingEnds
