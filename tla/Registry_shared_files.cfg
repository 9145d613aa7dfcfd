\* Two clients of different resolvers compile policies.
CONSTANTS
    p1 = p1
    p2 = p2
    s1 = s1
    s2 = s2
    u1 = u1
    u2 = u2
    alice = alice
    bob = bob
    Policies = {p1, p2}
    Schemas = {s1}
    Urls = {u1, u2}
    NoUrl = NoUrl
    NoPolicy = NoPolicy
    Marked = {p1}
    Clients = {alice, bob}
    Operations <- CompilingOperations
    UnlinkMissingFails = TRUE
    MaxVersion = 1
    MaxFailures = 0
SPECIFICATION Spec
INVARIANT OwnCode
