\* Only POST /updateSchema updates the gateway; the second version is invalid.
CONSTANTS
    poll = poll
    http = http
    load = load
    TimerCalls = {}
    HttpCalls = {http}
    Loader = load
    Stores = {"fs"}
    Elapsed = {1}
    BadVersions = {2}
    MaxPublish = 4
    MaxFailures = 0
SPECIFICATION Spec
INVARIANT ServedHasAttachments
PROPERTY KeepsServing
