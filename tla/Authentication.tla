--------------------------- MODULE Authentication ---------------------------
(***************************************************************************)
(* Who may send a request: the onRequest hook of the gateway and of the    *)
(* registry (gateway.ts, registry.ts) tries the strategies of              *)
(* authentication/strategies in order and takes the first that accepts.    *)
(* The first two are synchronous.  The third verifies a JSON web token     *)
(* with a key that get-secret.ts looks up: it may first have to discover   *)
(* where an authority publishes its keys, and while it waits for that      *)
(* other requests look for the same client.                                *)
(***************************************************************************)
CONSTANTS
    Requests,
    Inputs,              \* what they may be: [url, authorization, headerKey]
    None,
    Urls, suffixes,      \* suffixes[u]: the paths that the url ends with
    queryKey,            \* queryKey[u]: the API key that the query part of the url holds, or None
    anonymous, apiKey,   \* configuration of these strategies, or None
    Issuers,             \* the issuers with a configuration, and what it says:
    authority, configuredUri, audience, authenticatedPaths,
    Authorities, Uris,
    discovered,          \* the uri that the discovery document of an authority names, or None
    keysAt               \* keysAt[u]: ids of the keys that are published there

ASSUME IssuersAssumption ==
    /\ authority \in [Issuers -> Authorities]
    /\ configuredUri \in [Issuers -> Uris \cup {None}]
    /\ discovered \in [Authorities -> Uris \cup {None}]
    /\ None \notin Uris

VARIABLES
    request,      \* request[r]: where it stands, what it is, and the client that gives its key
    jwkClients,   \* jwkClients[a]: the uri that the client of the authority reads, or None
    disturbed     \* ghost: the requests that met a failure of the authority

authVars == <<request, jwkClients, disturbed>>

At(at, input, client) == [at |-> at, input |-> input, client |-> client]

InitAuthentication ==
    /\ \E input \in [Requests -> Inputs] :
          request = [r \in Requests |-> At("received", input[r], None)]
    /\ jwkClients = [a \in Authorities |-> None]
    /\ disturbed = {}

----------------------------------------------------------------------------
(* The strategies. *)

AllowsAnonymous(i) ==
    /\ anonymous # None
    /\ ~(anonymous.rejectAuthorizationHeader /\ i.authorization.scheme # "none")
    /\ suffixes[i.url] \cap anonymous.publicPaths # {}

\* The header comes before the query; the url is compared with its query.
KeyOf(i) == IF i.headerKey # None THEN i.headerKey ELSE queryKey[i.url]
AllowsApiKey(i) ==
    /\ apiKey # None
    /\ KeyOf(i) \in apiKey.keys
    /\ i.url \in apiKey.authenticatedPaths

\* The part of the strategy before the signature; the token is only decoded so far.
MayVerify(i) ==
    /\ i.authorization.scheme = "Bearer"
    /\ i.authorization.iss \in Issuers
    /\ LET iss == i.authorization.iss
       IN  /\ audience[iss] # {} => audience[iss] \cap i.authorization.aud # {}
           /\ i.url \in authenticatedPaths[iss]

----------------------------------------------------------------------------
(* The hook, and getSecret. *)

Move(r, at, client) == request' = [request EXCEPT ![r] = At(at, request[r].input, client)]

AuthorityOf(r) == authority[request[r].input.authorization.iss]
ClientOf_First(r) == IF \E a \in Authorities : jwkClients[a] # None
                     THEN jwkClients[CHOOSE a \in Authorities : jwkClients[a] # None] ELSE None
ClientOf(r) == jwkClients[AuthorityOf(r)]

Accept(r) ==
    /\ request[r].at = "received"
    /\ AllowsAnonymous(request[r].input) \/ AllowsApiKey(request[r].input)
    /\ Move(r, "accepted", None)
    /\ UNCHANGED <<jwkClients, disturbed>>

Refuse(r) ==
    /\ request[r].at = "received"
    /\ ~AllowsAnonymous(request[r].input) /\ ~AllowsApiKey(request[r].input)
    /\ ~MayVerify(request[r].input)
    /\ Move(r, "refused", None)
    /\ UNCHANGED <<jwkClients, disturbed>>

GetJwkClient(r) ==
    /\ request[r].at = "received"
    /\ ~AllowsAnonymous(request[r].input) /\ ~AllowsApiKey(request[r].input)
    /\ MayVerify(request[r].input)
    /\ LET uri == configuredUri[request[r].input.authorization.iss]
       IN \/ /\ ClientOf(r) # None
             /\ Move(r, "verifying", ClientOf(r))
             /\ UNCHANGED jwkClients
          \/ /\ ClientOf(r) = None /\ uri = None
             /\ Move(r, "discovering", None)
             /\ UNCHANGED jwkClients
          \/ /\ ClientOf(r) = None /\ uri # None
             /\ Move(r, "verifying", uri)
             /\ jwkClients' = [jwkClients EXCEPT ![AuthorityOf(r)] = uri]
    /\ UNCHANGED disturbed

\* getJwksUri answered; the client is replaced even when another request made one
\* meanwhile.
Discover(r) ==
    /\ request[r].at = "discovering" /\ discovered[AuthorityOf(r)] # None
    /\ Move(r, "verifying", discovered[AuthorityOf(r)])
    /\ jwkClients' = [jwkClients EXCEPT ![AuthorityOf(r)] = discovered[AuthorityOf(r)]]
    /\ UNCHANGED disturbed

DiscoveryFails_KeepsClient(r) ==
    /\ request[r].at = "discovering"
    /\ Move(r, "refused", None)
    /\ jwkClients' = [jwkClients EXCEPT ![AuthorityOf(r)] = CHOOSE u \in Uris : keysAt[u] = {}]
    /\ disturbed' = disturbed \cup {r}

\* Without a uri there is no client: the next request tries again.
DiscoveryFails(r) ==
    /\ request[r].at = "discovering"
    /\ Move(r, "refused", None)
    /\ disturbed' = disturbed \cup {r}
    /\ UNCHANGED jwkClients

\* getSigningKey and the verification of fastify-jwt.
PublishedAt(uri) == IF uri = None THEN {} ELSE keysAt[uri]
Verifies(i, uri) ==
    /\ i.authorization.kid \in PublishedAt(uri)
    /\ i.authorization.genuine /\ ~i.authorization.expired
Verify(r) ==
    /\ request[r].at = "verifying"
    /\ \/ /\ Move(r, IF Verifies(request[r].input, request[r].client) THEN "accepted" ELSE "refused", request[r].client)
          /\ UNCHANGED disturbed
       \/ /\ Move(r, "refused", None)
          /\ disturbed' = disturbed \cup {r}
    /\ UNCHANGED jwkClients

AuthenticationStep(r) ==
    \/ Accept(r) \/ Refuse(r) \/ GetJwkClient(r)
    \/ Discover(r) \/ DiscoveryFails(r) \/ Verify(r)

----------------------------------------------------------------------------
(* Properties. *)

\* Types; with those of Upstreams part of TypeOK of GatewayCredentials.
AuthTypeOK ==
    /\ request \in [Requests -> [at : {"received", "discovering", "verifying", "accepted", "refused"},
                                 input : Inputs, client : Uris \cup {None}]]
    /\ jwkClients \in [Authorities -> Uris \cup {None}]
    /\ disturbed \subseteq Requests

UriOf(j) == IF configuredUri[j] # None THEN configuredUri[j] ELSE discovered[authority[j]]
SameAuthority(j) == {k \in Issuers : authority[k] = authority[j]}

\* A request that no synchronous strategy lets in is accepted only with a token that was
\* verified with a key that the authority of its issuer publishes, whatever client an
\* earlier request of another issuer has left (jwt.ts, get-secret.ts).
VerifiedByAuthority ==
    \A r \in Requests :
        LET i == request[r].input
        IN  request[r].at = "accepted" /\ ~AllowsAnonymous(i) /\ ~AllowsApiKey(i) =>
                /\ MayVerify(i) /\ i.authorization.genuine /\ ~i.authorization.expired
                /\ \E j \in SameAuthority(i.authorization.iss) : i.authorization.kid \in PublishedAt(UriOf(j))

\* A request with a valid token is refused only when its own lookup of the key failed: a
\* failure met by another request leaves nothing behind.  (Issuers of one authority share
\* a client: their configurations have to agree on its uri.)
RefusedOnlyOnFailure ==
    \A r \in Requests :
        LET i == request[r].input
        IN  /\ request[r].at = "refused" /\ MayVerify(i)
            /\ Verifies(i, UriOf(i.authorization.iss))
            /\ \A j \in SameAuthority(i.authorization.iss) : UriOf(j) = UriOf(i.authorization.iss)
            => r \in disturbed
=============================================================================
