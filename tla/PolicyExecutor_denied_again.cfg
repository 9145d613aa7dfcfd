\* The base policy denies.
CONSTANTS
    reader = reader
    owner = owner
    r1 = r1
    r2 = r2
    Keys = {reader, owner}
    Asks <- AskReader
    Defined <- FirstDefined
    Verdict <- FirstVerdict
    Requests = {r1, r2}
    MaxVersion = 1
    MaxFailures = 0
SPECIFICATION Spec
INVARIANT SyncExecutedOnce
