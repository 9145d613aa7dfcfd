\* The refreshes of the poll and of POST /updateSchema may overlap; stamps may be those of
\* the event before, or earlier.
CONSTANTS
    f1 = f1
    f2 = f2
    poll = poll
    http = http
    Files = {f1, f2}
    Callers = {poll, http}
    OldFiles = {f1, f2}
    Elapsed = {0, 1}
    Lag = {0, 1}
    MaxWrites = 2
    MaxFailures = 1
SPECIFICATION FairSpec
INVARIANTS
    NoMissedUpdate
PROPERTIES
    Converges
