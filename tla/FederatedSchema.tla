-------------------------- MODULE FederatedSchema --------------------------
(***************************************************************************)
(* How the gateway builds its schema from the schemas of the resource      *)
(* group (apollo-server/create-gateway-schema.ts,                          *)
(* build-federated-schema.ts), and what the directives make of the fields  *)
(* (directives/*.ts).                                                      *)
(*                                                                         *)
(* Apollo federation drops directives it does not know, so they are taken  *)
(* out of every service's AST, kept by type and member, merged over the    *)
(* services, and added to the AST of the composed schema.  Then graphql    *)
(* tools visit each field's directives in order, and each changes the      *)
(* resolver that the ones before it left.                                  *)
(*                                                                         *)
(* A service is the sequence of its AST nodes that may carry directives:   *)
(* a type (member = NoMember), or a field or enum value of one.            *)
(***************************************************************************)
EXTENDS Naturals, Sequences, SequencesExt, Sublists

CONSTANTS Types, Members, NoMember,
          KindOf,             \* KindOf[t]: what kind of type t is
          RemoteSchemas       \* the urls whose schema the resource group has

ASSUME KindAssumption == KindOf \in [Types -> {"object", "interface", "enum", "other"}]

knownApolloDirectives == {"key", "extends", "external", "requires", "provides"}

----------------------------------------------------------------------------
(* collectAndRemoveCustomDirectives: one service. *)

Custom(directives) == Within(directives, {d \in Range(directives) : d.name \notin knownApolloDirectives})
Collected(service, t, m) ==
    Joined([i \in DOMAIN service |->
        IF service[i].type = t /\ service[i].member = m THEN Custom(service[i].directives) ELSE <<>>])

\* Directives of an enum and of its values are kept by name, the first of each name.
FirstOfName(directives) ==
    FoldLeft(LAMBDA kept, d : IF \E i \in DOMAIN kept : kept[i].name = d.name THEN kept ELSE Append(kept, d),
             <<>>, directives)

\* Directives of arguments, inputs, unions and scalars have no place.
CollectThrows(service) ==
    \E i \in DOMAIN service : KindOf[service[i].type] = "other" /\ Custom(service[i].directives) # <<>>

----------------------------------------------------------------------------
(* The four merges over the services, and addDirectivesToTypeDefs. *)

MergeInOrder_LastService(services, t, m) ==
    FoldLeft(LAMBDA kept, service : IF Collected(service, t, m) = <<>> THEN kept ELSE Collected(service, t, m),
             <<>>, services)

\* Objects, interfaces and fields: one service after the other.
MergeInOrder(services, t, m) ==
    Joined([i \in DOMAIN services |-> Collected(services[i], t, m)])

\* Enums and their values: the last service that has any replaces the others.
MergeLast(services, t, m) ==
    FoldLeft(LAMBDA kept, service : IF Collected(service, t, m) = <<>> THEN kept
                                    ELSE FirstOfName(Collected(service, t, m)),
             <<>>, services)

\* Interfaces get the directives of their fields back, not their own.
DirectivesOf(services, t, m) ==
    CASE KindOf[t] = "enum" -> MergeLast(services, t, m)
      [] KindOf[t] = "object" \/ (KindOf[t] = "interface" /\ m # NoMember) -> MergeInOrder(services, t, m)
      [] OTHER -> <<>>

----------------------------------------------------------------------------
(* What visiting the directives leaves. *)

\* @stub, @rest and @gql forget the resolver before them; the wrappers wrap it; @export
\* and the enum directives do not touch it.
VisitFieldDefinition(field, d) ==
    CASE d.name \in {"stub", "rest", "gql"} ->
            [field EXCEPT !.resolver = d.name, !.wrappers = <<>>]
      [] d.name \in {"select", "policy", "policies", "localResolver", "errorHandler"} ->
            [field EXCEPT !.wrappers = Append(@, d)]
      [] OTHER -> field

Visited(directives) ==
    FoldLeft(VisitFieldDefinition,
             [resolver |-> "default", wrappers |-> <<>>, declared |-> directives],
             directives)

\* visitObject exists for policies, local resolvers and error handlers only.
OnObject == {"policy", "policies", "localResolver", "errorHandler"}
ResolverOfMember(services, t, m) ==
    Visited(IF m # NoMember THEN DirectivesOf(services, t, m)
            ELSE LET directives == DirectivesOf(services, t, m)
                 IN  Within(directives, {d \in Range(directives) : d.name \in OnObject}))

\* markExport: the field of a type that a key stands for, the last one marked.
ExportedField(services, t, key, fields) ==
    FoldLeft(LAMBDA found, m : IF \E i \in DOMAIN DirectivesOf(services, t, m) :
                                     /\ DirectivesOf(services, t, m)[i].name = "export"
                                     /\ DirectivesOf(services, t, m)[i].key = key
                               THEN m ELSE found,
             NoMember, fields)

\* Array.find: the first that matches.
FirstWith(values, Matches(_)) == values[CHOOSE i \in DOMAIN values :
    Matches(values[i]) /\ \A j \in 1..(i - 1) : ~Matches(values[j])]

\* EnumResolverDirective: the internal values of an enum, in order, from @enumValue.
Has(directives, name) == \E i \in DOMAIN directives : directives[i].name = name
IsResolvedEnum(services, t) == KindOf[t] = "enum" /\ Has(DirectivesOf(services, t, NoMember), "enumResolver")
EnumValueOf(directives) == FirstWith(directives, LAMBDA d : d.name = "enumValue").value
EnumValues_OfFirst(services, t, keys) ==
    [i \in DOMAIN keys |-> [key |-> keys[i], value |-> EnumValueOf(DirectivesOf(services, t, keys[1]))]]
EnumValues(services, t, keys) ==
    [i \in DOMAIN keys |-> [key |-> keys[i], value |-> EnumValueOf(DirectivesOf(services, t, keys[i]))]]

\* parseValue and serialize.
ParseValue(values, key) == FirstWith(values, LAMBDA v : v.key = key).value
Serialize(values, value) == FirstWith(values, LAMBDA v : v.value = value).key

----------------------------------------------------------------------------
(* createGatewaySchema *)

DeclaredBy(service, t) ==
    {service[i].member : i \in {j \in DOMAIN service : service[j].type = t}} \ {NoMember}
MembersOf(services, t, order) == Within(order, UNION {DeclaredBy(service, t) : service \in Range(services)})

\* composeAndValidate: a field belongs to one service, unless the type is a value type,
\* which all its services declare alike; all services that have an enum have all its values.
Composes(services) ==
    \A i, j \in DOMAIN services, t \in Types :
        LET mine == DeclaredBy(services[i], t)
            theirs == DeclaredBy(services[j], t)
        IN  \/ i = j \/ mine = theirs
            \/ KindOf[t] # "enum" /\ mine \cap theirs = {}
            \/ mine = {} \/ theirs = {}

\* The services are the entries of an object: of two with one key the later stays, in
\* the place of the earlier.
FromEntries(entries) ==
    FoldLeft(LAMBDA kept, e :
                 IF \E i \in DOMAIN kept : kept[i].key = e.key
                 THEN [i \in DOMAIN kept |-> IF kept[i].key = e.key THEN e ELSE kept[i]]
                 ELSE Append(kept, e),
             <<>>, entries)

ServicesOf(schemas, defaultSchema, builtIn) ==
    LET entries == FromEntries((IF schemas = <<>> THEN <<defaultSchema>> ELSE schemas) \o builtIn)
    IN  [i \in DOMAIN entries |-> entries[i].nodes]

\* The build succeeds: otherwise the gateway keeps its schema, or does not start.
Builds(services) ==
    /\ \A i \in DOMAIN services : ~CollectThrows(services[i])
    /\ Composes(services)
    /\ \A t \in Types, m \in Members :
          \A i \in DOMAIN DirectivesOf(services, t, m) :
              DirectivesOf(services, t, m)[i].name = "gql" => DirectivesOf(services, t, m)[i].url \in RemoteSchemas
    /\ \A t \in Types : IsResolvedEnum(services, t) =>
          \A i \in DOMAIN services : \A v \in DeclaredBy(services[i], t) :
              Has(DirectivesOf(services, t, v), "enumValue")
=============================================================================
