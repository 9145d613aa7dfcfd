\* A query fails once.
CONSTANTS
    reader = reader
    owner = owner
    r1 = r1
    r2 = r2
    Keys = {reader, owner}
    Asks <- AskReader
    Defined <- FirstDefined
    Verdict <- FirstVerdict
    Requests = {r1, r2}
    MaxVersion = 1
    MaxFailures = 1
SPECIFICATION Spec
INVARIANT OwnError
