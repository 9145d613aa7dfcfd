\* One client, every kind of request, nothing fails.
CONSTANTS
    p1 = p1
    p2 = p2
    s1 = s1
    s2 = s2
    u1 = u1
    u2 = u2
    alice = alice
    bob = bob
    Policies = {p1, p2}
    Schemas = {s1, s2}
    Urls = {u1, u2}
    NoUrl = NoUrl
    NoPolicy = NoPolicy
    Marked = {p2}
    Clients = {alice}
    Operations <- AllOperations
    UnlinkMissingFails = TRUE
    MaxVersion = 2
    MaxFailures = 0
SPECIFICATION FairSpec
INVARIANTS
    GatewayKnowsUrls
    InSync
    FailsOnlyOnFault
    OkMeansDeployed
PROPERTIES
    ImplementsStore
    Answered
