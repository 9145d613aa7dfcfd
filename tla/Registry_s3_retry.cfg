\* One client, S3, errors and crashes: a request that is repeated succeeds.
CONSTANTS
    p1 = p1
    p2 = p2
    s1 = s1
    s2 = s2
    u1 = u1
    u2 = u2
    alice = alice
    bob = bob
    Policies = {p1, p2}
    Schemas = {s1}
    Urls = {u1, u2}
    NoUrl = NoUrl
    NoPolicy = NoPolicy
    Marked = {}
    Clients = {alice}
    Operations <- MixedOperations
    UnlinkMissingFails = FALSE
    MaxVersion = 1
    MaxFailures = 2
SPECIFICATION FairSpec
INVARIANTS
    FailsOnlyOnFault
PROPERTY Answered
