---------------------------- MODULE GatewayQuery ----------------------------
(***************************************************************************)
(* A request on a schema that the gateway composed from several services:  *)
(* FederatedSchema gives each field its resolver, FieldResolution runs     *)
(* them, and the tracking extension (exports.ts) remembers which object is *)
(* the parent of which, so that {exports.key} finds the nearest ancestor   *)
(* with a field marked @export.                                            *)
(***************************************************************************)
EXTENDS FieldResolution, FederatedSchema, FiniteSets

CONSTANTS
    Registered,     \* Registered: sequences of schemas, as the resource group may hold them
    DefaultSchema,  \* the schema of an empty resource group
    BuiltIn,        \* the services of policies and plugins
    MemberOrder,    \* the fields of a type, in order
    Key             \* the key of @export

ASSUME FieldsAssumption ==
    /\ Fields \subseteq Types \X (Members \cup {NoMember}) /\ NoMember \notin Members
    /\ \A f \in Fields : KindOf[f[1]] = "object"
    /\ \A t \in Types : /\ MemberOrder[t] \in Seq(Members)
                         /\ \A i, j \in DOMAIN MemberOrder[t] : MemberOrder[t][i] = MemberOrder[t][j] => i = j

\* The call and those that returned the objects it is below, up to the root.
Closed(S) == \A c \in S : parentOf[c] # None => parentOf[c] \in S
Lineage == [c \in Calls |-> {d \in Calls : \A S \in SUBSET Calls : c \in S /\ Closed(S) => d \in S}]
ASSUME ParentsAssumption ==
    /\ IsFiniteSet(Calls)
    /\ \A c \in Calls : parentOf[c] # None => parentOf[c] \notin Objects /\ c \notin Lineage[parentOf[c]]

\* The parts of a schema that the gateway reads are lists.
IsSchema(s) ==
    /\ s.nodes \in Seq(Range(s.nodes))
    /\ \A node \in Range(s.nodes) : node.directives \in Seq(Range(node.directives))
ASSUME SchemasAssumption ==
    /\ \A schemas \in Registered : schemas \in Seq(Range(schemas)) /\ \A s \in Range(schemas) : IsSchema(s)
    /\ IsSchema(DefaultSchema)
    /\ BuiltIn \in Seq(Range(BuiltIn)) /\ \A s \in Range(BuiltIn) : IsSchema(s)

VARIABLES
    schema,             \* the schema, and the services it was built from
    objectToParentMap   \* the call that returned an object last

Identity_ByField(c) == <<IF Main(c).out.object = "own" THEN "stub" ELSE Main(c).out.object, fieldOf[c]>>

\* An object of its own, or the constant of a directive, which all calls share.
Identity(c) == IF Main(c).out.object = "own" THEN <<"own", c>> ELSE <<Main(c).out.object, fieldOf[c]>>
Identities == {<<"own", c>> : c \in Calls} \cup ({"stub", "handler"} \X Fields)

\* The schema that the gateway builds from the services: the resolvers, the field that
\* each type exports, the values of the enums.
Built(s) ==
    [services |-> s,
     impl |-> [f \in Fields |-> ResolverOfMember(s, f[1], f[2])],
     exportMap |-> [t \in Types |-> ExportedField(s, t, Key, MemberOrder[t])],
     enumValues |-> [t \in {u \in Types : IsResolvedEnum(s, u)} |-> EnumValues(s, t, MembersOf(s, t, MemberOrder[t]))]]
Schemas ==
    {Built(s) : s \in {x \in {ServicesOf(schemas, DefaultSchema, BuiltIn) : schemas \in Registered} : Builds(x)}}

\* The fields that FieldResolution is about are those of these schemas.
ASSUME BuiltAssumption == \A s \in Schemas, f \in Fields : s.impl[f] \in Impls

InitQuery ==
    /\ schema \in Schemas
    /\ impl = schema.impl
    /\ InitCalls
    /\ objectToParentMap = [i \in Identities |-> None]

\* willResolveField: when a field is resolved to an object, before its fields start.
Track ==
    LET resolved == {c \in Calls \ Objects :
                        /\ thread'[c] # thread[c] /\ Main(c)'.at = "done"
                        /\ IsValue(Main(c)'.out) /\ Main(c)'.out.object # "none"}
    IN  objectToParentMap' =
            [i \in Identities |-> IF \E c \in resolved : Identity(c)' = i
                                  THEN CHOOSE c \in resolved : Identity(c)' = i
                                  ELSE objectToParentMap[i]]

queryVars == <<vars, schema, objectToParentMap>>
Query == \/ Step /\ Track /\ UNCHANGED schema
         \/ Ended /\ UNCHANGED queryVars

SpecQuery == InitQuery /\ [][Query]_queryVars

\* The object a field resolver gets as its source: what its parent returned, unless
\* resolveObject returned another one.
SourceOf(c) ==
    IF parentOf[c] = None THEN <<"root", c>>
    ELSE IF objectOf[c] # None /\ Main(objectOf[c]).out.object # "source" THEN <<"own", objectOf[c]>>
    ELSE Identity(parentOf[c])

\* ExportTrackingExtension.resolve: the call whose source the exported value is read from.
\* It calls itself for the parent of the source, until a type exports the key or nothing is
\* known of the source.  (A constant may be its own parent: then the answer is a call that
\* does not export the key, where the code recurs until its stack is full.)
Exports(c) == schema.exportMap[fieldOf[c][1]] # NoMember
ParentDetails(c) == IF SourceOf(c) \in Identities THEN objectToParentMap[SourceOf(c)] ELSE None
Recur(next, c) == IF c = None THEN None ELSE next[c]
ResolveExport(c) ==
    LET next == [d \in Calls |-> IF Exports(d) THEN d ELSE ParentDetails(d)]
    IN  FoldLeft(LAMBDA d, n : Recur(next, d), c, [n \in 1..Cardinality(Calls) |-> n])

----------------------------------------------------------------------------
(* Properties. *)

ResolverDirectives == {"stub", "rest", "gql"}
Replaces(directives) == \E i \in DOMAIN directives : directives[i].name \in ResolverDirectives

\* Every policy that some service declares for a field or an object type, and that no
\* resolver directive follows, in that declaration or in a later one, has allowed what the
\* call answers from its resolver: composition loses, reorders and weakens none
\* (build-federated-schema.ts, the directives' visitors).
DeclaredPolicyGuards ==
    \A c \in Calls, i \in DOMAIN schema.services : \A n \in DOMAIN schema.services[i] :
        LET node == schema.services[i][n]
            later == {j \in DOMAIN schema.services : j > i}
        IN  /\ <<node.type, node.member>> = fieldOf[c] /\ ~ignorePolicies
            /\ Main(c).at = "done" /\ IsValue(Main(c).out) /\ Main(c).out.from \cap BaseData # {}
            => \A k \in DOMAIN node.directives :
                  /\ IsPolicy(node.directives[k])
                  /\ ~Replaces(SubSeq(node.directives, k + 1, Len(node.directives)))
                  /\ \A j \in DOMAIN schema.services[i] :
                        j > n /\ <<schema.services[i][j].type, schema.services[i][j].member>> = fieldOf[c]
                        => ~Replaces(schema.services[i][j].directives)
                  /\ \A j \in later : ~Replaces(Collected(schema.services[j], node.type, node.member))
                  => \E p \in 1..Len(WrappersOf(c)) :
                        WrappersOf(c)[p] = node.directives[k] /\ Guarded(c, p)

\* {exports.key} is read from the nearest ancestor that exports the key, for objects that
\* are not constants of the schema, and as long as resolveObject keeps the object.
Nearest(c) ==
    LET exporting == {d \in Lineage[c] : Exports(d)}
    IN  IF exporting = {} THEN None ELSE CHOOSE d \in exporting : exporting \subseteq Lineage[d]
OwnObjects(c) ==
    \A d \in Lineage[c] : parentOf[d] # None =>
        /\ Main(parentOf[d]).out.object = "own"
        /\ objectOf[d] # None => Main(objectOf[d]).out.object = "source"
ExportsOfAncestors ==
    \A c \in Calls \ Objects :
        Main(c).at \in {"down", "sent", "up"} /\ OwnObjects(c) => ResolveExport(c) = Nearest(c)

\* An enum with @enumResolver serializes each internal value to the enum value it was
\* parsed from, when each service that annotates a value annotates all of them, and
\* differently: the merge never mixes two services (enum-resolver.ts).
EnumsRoundTrip ==
    \A t \in DOMAIN schema.enumValues :
        LET values == schema.enumValues[t]
            annotating == {s \in Range(schema.services) : \E v \in Members : Collected(s, t, v) # <<>>}
            annotatesAll(s) ==
                /\ \A v \in DeclaredBy(s, t) : Has(Collected(s, t, v), "enumValue")
                /\ \A v, w \in DeclaredBy(s, t) :
                      v # w => EnumValueOf(Collected(s, t, v)) # EnumValueOf(Collected(s, t, w))
        IN  (\A s \in annotating : annotatesAll(s)) =>
                \A i \in DOMAIN values : Serialize(values, ParseValue(values, values[i].key)) = values[i].key
=============================================================================
