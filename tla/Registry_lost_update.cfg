\* Two clients of different resolvers.
CONSTANTS
    p1 = p1
    p2 = p2
    s1 = s1
    s2 = s2
    u1 = u1
    u2 = u2
    alice = alice
    bob = bob
    Policies = {p1, p2}
    Schemas = {s1}
    Urls = {u1, u2}
    NoUrl = NoUrl
    NoPolicy = NoPolicy
    Marked = {}
    Clients = {alice, bob}
    Operations <- MixedOperations
    UnlinkMissingFails = TRUE
    MaxVersion = 1
    MaxFailures = 0
SPECIFICATION Spec
PROPERTY ImplementsStore
