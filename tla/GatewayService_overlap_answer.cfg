\* A poll and a POST /updateSchema overlap.
CONSTANTS
    poll = poll
    http = http
    load = load
    TimerCalls = {poll}
    HttpCalls = {http}
    Loader = load
    Stores = {"fs"}
    Elapsed = {1}
    BadVersions = {}
    MaxPublish = 3
    MaxFailures = 0
SPECIFICATION Spec
INVARIANT UpdateSchemaAnswered

