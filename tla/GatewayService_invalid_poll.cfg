\* The second version is invalid and either trigger may meet it first.
CONSTANTS
    poll = poll
    http = http
    load = load
    TimerCalls = {poll}
    HttpCalls = {http}
    Loader = load
    Stores = {"fs"}
    Elapsed = {1}
    BadVersions = {2}
    MaxPublish = 3
    MaxFailures = 0
SPECIFICATION Spec

PROPERTY KeepsServing
