\* POST /updateSchema meets an invalid version, and is called again.
CONSTANTS
    poll = poll
    http = http
    load = load
    TimerCalls = {}
    HttpCalls = {http}
    Loader = load
    Stores = {"fs"}
    Elapsed = {1}
    BadVersions = {2}
    MaxPublish = 3
    MaxFailures = 0
SPECIFICATION Spec
INVARIANT UpdateSchemaAnswered

