------------------------- MODULE GatewayCredentials -------------------------
(***************************************************************************)
(* A gateway's credentials, both ways: requests authenticate               *)
(* (Authentication), are executed with the resource group of that moment,  *)
(* and their fields call upstreams (Upstreams) with the request's own      *)
(* Authorization header or a token of the gateway.  Calls of the same and  *)
(* of different requests overlap, and updateSchema may install the next    *)
(* resource group under them.                                              *)
(***************************************************************************)
EXTENDS Authentication, Upstreams

CONSTANTS
    requestOf,   \* requestOf[c]: the request whose field makes the call
    viaGql       \* viaGql[c]: by @gql, with the resource group that the schema was built of
ASSUME RequestOfAssumption == requestOf \in [Calls -> Requests]

VARIABLES
    version, schema,   \* the resource group that is installed, and that of the schema
    building,          \* those whose schema is not ready yet, or failed
    resourceGroup,     \* resourceGroup[r]: the one in the context of the request, or 0
    schemaGroup        \* schemaGroup[r]: that of the schema which executes the request

groupVars == <<version, schema, building, resourceGroup, schemaGroup>>
vars == <<authVars, upstreamVars, groupVars>>

Init ==
    /\ InitAuthentication /\ InitUpstreams
    /\ version = 1 /\ schema = 1 /\ building = {}
    /\ resourceGroup = [r \in Requests |-> 0] /\ schemaGroup = resourceGroup

\* The server prepares the context of the request (create-graphql-service.ts, executor).
Execute(r) ==
    /\ request[r].at = "accepted" /\ resourceGroup[r] = 0
    /\ resourceGroup' = [resourceGroup EXCEPT ![r] = version]
    /\ schemaGroup' = [schemaGroup EXCEPT ![r] = schema]
    /\ UNCHANGED <<authVars, upstreamVars, version, schema, building>>

GroupOfCall(c) == IF viaGql[c] THEN schemaGroup[requestOf[c]] ELSE resourceGroup[requestOf[c]]

CallUpstream(c) ==
    /\ resourceGroup[requestOf[c]] # 0
    /\ ApplyUpstream(c, GroupOfCall(c), request[requestOf[c]].input.authorization.scheme # "none")
    /\ UNCHANGED <<authVars, groupVars>>

\* The next resource group is installed before its schema is built, which may fail; the
\* timer's and a client's updates do not wait for each other's.
UpdateSchema ==
    /\ version < Len(Groups)
    /\ version' = version + 1 /\ building' = building \cup {version + 1}
    /\ UNCHANGED <<authVars, upstreamVars, schema, resourceGroup, schemaGroup>>
CreateGatewaySchema ==
    /\ schema' \in building /\ building' = building \ {schema'}
    /\ UNCHANGED <<authVars, upstreamVars, version, resourceGroup, schemaGroup>>

Step ==
    \/ \E r \in Requests : \/ AuthenticationStep(r) /\ UNCHANGED <<upstreamVars, groupVars>>
                           \/ Execute(r)
    \/ \E c \in Calls : \/ CallUpstream(c)
                        \/ TokenStep(c) /\ UNCHANGED <<authVars, groupVars>>
    \/ UpdateSchema \/ CreateGatewaySchema
    \/ Tick /\ UNCHANGED <<authVars, groupVars>>

\* Every request is answered, and every call of those that were accepted.
Ended ==
    /\ \A r \in Requests : request[r].at \in {"accepted", "refused"}
    /\ \A c \in Calls : \/ call[c].at \in {"sent", "failed"}
                        \/ request[requestOf[c]].at = "refused"

Next == Step \/ (Ended /\ UNCHANGED vars)

Spec == Init /\ [][Next]_vars

\* Types; a request's resource group was installed, and its schema is of that group or of
\* an earlier one; a key has one token.
TypeOK ==
    /\ AuthTypeOK /\ UpstreamTypeOK
    /\ version \in DOMAIN Groups /\ schema \in 1..version /\ building \subseteq 1..version
    /\ resourceGroup \in [Requests -> 0..version] /\ schemaGroup \in [Requests -> 0..version]
    /\ \A r \in Requests : /\ schemaGroup[r] <= resourceGroup[r]
                          /\ resourceGroup[r] # 0 => schemaGroup[r] # 0
=============================================================================
