\* One poll at a time, no POST /updateSchema, either repository.
CONSTANTS
    poll = poll
    http = http
    load = load
    TimerCalls = {poll}
    HttpCalls = {}
    Loader = load
    Stores = {"fs", "s3"}
    Elapsed = {1}
    BadVersions = {}
    MaxPublish = 3
    MaxFailures = 2
SPECIFICATION FairSpec
INVARIANTS
    ServedMatchesSchema
PROPERTIES
    Converges
    ImplementsPublication
