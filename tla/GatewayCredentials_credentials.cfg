SPECIFICATION Spec
CONSTANTS
    r1 = r1
    r2 = r2
    c1 = c1
    c2 = c2
    c3 = c3
    None = None
    Absent = Absent
    Requests = {r1, r2}
    Calls = {c1, c2, c3}
    requestOf <- MCRequestOf
    viaGql <- MCViaGql
    hostOf <- MCHostOf
    directiveSets <- MCDirectiveSets
    Inputs <- MCInputs
    Urls <- MCUrls
    suffixes <- MCSuffixes
    queryKey <- MCQueryKey
    anonymous <- MCAnonymous
    apiKey <- MCApiKey
    Issuers <- MCIssuers
    authority <- MCAuthority
    configuredUri <- MCConfiguredUri
    audience <- MCAudience
    authenticatedPaths <- MCAuthenticatedPaths
    Authorities = {"people", "machines"}
    Uris = {"people-keys", "machine-keys", "no-keys"}
    discovered <- MCDiscovered
    keysAt <- MCKeysAt
    Groups <- MCGroups
    Lifetimes = {0, 1, 2, 3}
    Margin = 2
    MaxDelay = 1
    MaxClock = 5
INVARIANTS VerifiedByAuthority RefusedOnlyOnFailure TokenAlive TokenOfUpstream
