------------------------ MODULE MCGatewayCredentials ------------------------
(* Instances of GatewayCredentials for TLC. *)
EXTENDS GatewayCredentials, TLC

CONSTANTS r1, r2, c1, c2, c3

\* Two issuers of one authority, one of which says where the keys are, and another one whose
\* authority has to be discovered and cannot always be.
MCIssuers == {"employees", "partners", "robots"}
MCAuthority == [j \in MCIssuers |-> IF j = "robots" THEN "machines" ELSE "people"]
MCConfiguredUri == [j \in MCIssuers |-> IF j = "partners" THEN "people-keys" ELSE None]
MCAudience == [j \in MCIssuers |-> IF j = "partners" THEN {"stitch"} ELSE {}]
MCDiscovered == [a \in {"people", "machines"} |-> IF a = "people" THEN "people-keys" ELSE "machine-keys"]
MCKeysAt == [u \in {"people-keys", "machine-keys", "no-keys"} |->
                CASE u = "people-keys" -> {"p1"} [] u = "machine-keys" -> {"m1"} [] OTHER -> {}]
MCAuthenticatedPaths == [j \in MCIssuers |-> {"/graphql"}]

MCUrls == {"/graphql", "/graphql?apiKey=k1", "/metrics", "/v1/metrics", "/updateSchema"}
MCSuffixes == [u \in MCUrls |-> IF u = "/v1/metrics" THEN {"/metrics", "/v1/metrics"} ELSE {u}]
MCQueryKey == [u \in MCUrls |-> IF u = "/graphql?apiKey=k1" THEN "k1" ELSE None]
MCAnonymous == [publicPaths |-> {"/metrics"}, rejectAuthorizationHeader |-> TRUE]
MCApiKey == [keys |-> {"k1"}, disabled |-> {"k0"}, authenticatedPaths |-> {"/graphql", "/updateSchema"}]

NoHeader == [scheme |-> "none"]
Bearer(iss, aud, kid, genuine, expired) ==
    [scheme |-> "Bearer", iss |-> iss, aud |-> aud, kid |-> kid, genuine |-> genuine, expired |-> expired]
Input(url, authorization, headerKey) == [url |-> url, authorization |-> authorization, headerKey |-> headerKey]
MCInputs ==
    {Input("/graphql", token, None) :
        token \in {Bearer("employees", {"any"}, "p1", TRUE, FALSE), Bearer("employees", {"any"}, "p1", TRUE, TRUE),
                   Bearer("partners", {"stitch"}, "p1", TRUE, FALSE), Bearer("partners", {"any"}, "p1", TRUE, FALSE),
                   Bearer("robots", {"any"}, "m1", TRUE, FALSE), Bearer("robots", {"any"}, "p1", TRUE, FALSE),
                   Bearer("robots", {"any"}, "m1", FALSE, FALSE), Bearer("nobody", {"any"}, "p1", TRUE, FALSE),
                   [scheme |-> "Basic"]}}
    \cup {Input("/graphql", NoHeader, "k1"), Input("/graphql", NoHeader, "k0"),
          Input("/graphql?apiKey=k1", NoHeader, None), Input("/v1/metrics", NoHeader, None),
          Input("/metrics", [scheme |-> "Basic"], None)}

\* The credentials of the first version are replaced in the second.
MCUpstreams ==
    <<[hosts |-> {"billing"}, header |-> [name |-> "authorization", value |-> "incoming"],
       auth |-> [authority |-> "ad", resource |-> "bills"]],
      [hosts |-> {"users", "billing"}, header |-> Absent, auth |-> [authority |-> "ad", resource |-> "users"]],
      [hosts |-> {"legacy"}, header |-> [name |-> "Authorization", value |-> "incoming"],
       auth |-> [authority |-> "ad2", resource |-> "legacy"]]>>
MCGroups ==
    <<[upstreams |-> MCUpstreams, defaultUpstream |-> Absent,
       credentials |-> <<[authority |-> "ad", client |-> "old"]>>],
      [upstreams |-> MCUpstreams, defaultUpstream |-> [hosts |-> {}, header |-> Absent, auth |-> Absent],
       credentials |-> <<[authority |-> "other", client |-> "x"], [authority |-> "ad", client |-> "new"],
                         [authority |-> "ad", client |-> "second"]>>]>>

MCRequestOf == c1 :> r1 @@ c2 :> r2 @@ c3 :> r2
MCHostOf == c1 :> "billing" @@ c2 :> "billing" @@ c3 :> "legacy"
MCViaGql == c1 :> FALSE @@ c2 :> TRUE @@ c3 :> FALSE
MCDirectiveSets == c1 :> TRUE @@ c2 :> FALSE @@ c3 :> FALSE
=============================================================================
