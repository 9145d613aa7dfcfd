--------------------------- MODULE ResourceGroups ---------------------------
(***************************************************************************)
(* Resource groups as values: how the CLI reads one from files             *)
(* (cli/src/commands/apply, cli/src/utils), how the registry applies       *)
(* updates and deletions to one (resource-repository/actions), validates   *)
(* it (registry-schema/validation) and lets plugins transform it           *)
(* (plugins/apply-plugins.ts), and how a gateway combines the groups of    *)
(* two repositories (resource-repository/composite.ts).                    *)
(*                                                                         *)
(* A group has a list of resources for each kind, each with a namespace    *)
(* and a name, and a base policy.  What the rest of a resource says        *)
(* matters for schemas (their object types, each with its directives and   *)
(* fields) and for upstreams (hosts and authentication).                   *)
(***************************************************************************)
EXTENDS Naturals, Sequences, FiniteSets, SequencesExt, Sublists

CONSTANTS
    underscored,   \* underscored[n]: the name n with underscores for dashes
    IllFormed,     \* names with other characters
    None,
    \* what transformResourceGroup of plugin p deletes (removals[p]) and then updates
    removals, additions

Kinds == {"Schema", "Upstream", "UpstreamClientCredentials", "Policy"}
RootTypes == {"Query", "Mutation", "Subscription"}

EmptyGroup == [resources |-> [k \in Kinds |-> <<>>], basePolicy |-> None]
IsGroup(group) ==
    \A k \in Kinds : /\ group.resources[k] \in Seq(Range(group.resources[k]))
                     /\ \A r \in Range(group.resources[k]) : r.kind = k

----------------------------------------------------------------------------
(* Reading files (resources.ts, read-resource-file.ts, schema-resource-loader.ts). *)

\* The definitions of the schema and of its files become one document: definitions of a
\* root type are merged, another type may be defined once.  Merging keeps the fields of
\* all, and everything else (the directives, as the interfaces) of the first only.
FirstOfType(definitions, t) ==
    definitions[CHOOSE i \in DOMAIN definitions :
                    /\ definitions[i].type = t
                    /\ \A j \in DOMAIN definitions : definitions[j].type = t => i <= j]
MergedDefinitions(definitions) ==
    {definitions[i] : i \in {j \in DOMAIN definitions : definitions[j].type \notin RootTypes}}
    \cup {[type |-> t, directives |-> FirstOfType(definitions, t).directives,
           fields |-> UNION {definitions[i].fields : i \in {j \in DOMAIN definitions : definitions[j].type = t}}] :
            t \in {definitions[i].type : i \in DOMAIN definitions} \cap RootTypes}
DuplicateType(definitions) ==
    \E i, j \in DOMAIN definitions :
        i # j /\ definitions[i].type = definitions[j].type /\ definitions[i].type \notin RootTypes

\* A document is a resource, something of another kind, or cannot be read at all: it is
\* empty, no YAML, or a schema with a missing or faulty file.
Unreadable(document) ==
    \/ document.kind = "unreadable"
    \/ document.kind = "Schema" /\ DuplicateType(document.body)
LoadedResource(document) ==
    IF document.kind = "Schema" THEN [document EXCEPT !.body = MergedDefinitions(document.body)] ELSE document

\* Documents of skipped types are not loaded; those of unknown kinds are loaded and left out.
Wanted(documents, skip) == {d \in Range(documents) : d.kind \notin skip}
Loads(documents, skip) == \A d \in Wanted(documents, skip) : ~Unreadable(d)
ResourcesIn(documents, skip, kind) ==
    LET found == Within(documents, {d \in Wanted(documents, skip) : d.kind = kind})
    IN  [i \in DOMAIN found |-> LoadedResource(found[i])]
PathToResourceGroup(documents, skip) ==
    [EmptyGroup EXCEPT !.resources = [k \in Kinds |-> ResourcesIn(documents, skip, k)]]

----------------------------------------------------------------------------
(* Updates and deletions (actions/update.ts, actions/delete.ts). *)

SameName(r, s) == r.namespace = s.namespace /\ r.name = s.name

\* An update takes the place of the first resource of its name, or goes to the end.
Upsert_Push(resources, update) == Append(resources, update)
Upsert_ToFront(resources, update) ==
    IF \E i \in DOMAIN resources : SameName(resources[i], update)
    THEN <<update>> \o SelectSeq(resources, LAMBDA r : ~SameName(r, update))
    ELSE Append(resources, update)
Upsert(resources, update) ==
    LET places == {i \in DOMAIN resources : SameName(resources[i], update)}
    IN  IF places = {} THEN Append(resources, update)
        ELSE [resources EXCEPT ![CHOOSE i \in places : \A j \in places : i <= j] = update]

ApplyResourceUpdates(resources, updates) == FoldLeft(Upsert, resources, updates)
ApplyResourceGroupUpdates(group, update) ==
    [resources |-> [k \in Kinds |-> ApplyResourceUpdates(group.resources[k], update.resources[k])],
     basePolicy |-> IF update.basePolicy # None THEN update.basePolicy ELSE group.basePolicy]

\* A deletion names resources; base policy: drop it.
ApplyResourceGroupDeletions(group, deletion) ==
    [resources |-> [k \in Kinds |->
        LET list == group.resources[k]
        IN  Within(list, {r \in Range(list) : ~\E d \in deletion.resources : d.kind = k /\ SameName(d, r)})],
     basePolicy |-> IF deletion.basePolicy THEN None ELSE group.basePolicy]

----------------------------------------------------------------------------
(* Validation (validation/index.ts). *)

Places(group) == UNION {{<<k, i>> : i \in DOMAIN group.resources[k]} : k \in Kinds}
ResourceAt(group, p) == group.resources[p[1]][p[2]]

\* An upstream has one of host and sourceHosts.  A host that is listed twice is refused
\* within one upstream too, and so is a pair of authority and resource.
ValidUpstreams(group) ==
    LET upstreams == group.resources["Upstream"]
        Claims(u) == {<<u, i>> : i \in DOMAIN upstreams[u].body.hosts}
        Host(c) == upstreams[c[1]].body.hosts[c[2]]
        claims == UNION {Claims(u) : u \in DOMAIN upstreams}
    IN  /\ \A u \in DOMAIN upstreams : upstreams[u].body.selector \in {"host", "sourceHosts"}
        /\ \A c, d \in claims : Host(c) = Host(d) => c = d
        /\ \A u, v \in DOMAIN upstreams :
              upstreams[u].body.auth # None /\ upstreams[u].body.auth = upstreams[v].body.auth => u = v

ValidMetadataCharacters(group) ==
    \A r \in {ResourceAt(group, p) : p \in Places(group)} : {r.namespace, r.name} \cap IllFormed = {}

\* Namespaces are compared over all kinds, names within a kind and a namespace.
NoNameConflicts(group) ==
    LET all == {ResourceAt(group, p) : p \in Places(group)}
    IN  \A r, s \in all :
            /\ underscored[r.namespace] = underscored[s.namespace] => r.namespace = s.namespace
            /\ r.kind = s.kind /\ r.namespace = s.namespace /\ underscored[r.name] = underscored[s.name]
                  => r.name = s.name

ValidResourceGroup(group) ==
    ValidUpstreams(group) /\ ValidMetadataCharacters(group) /\ NoNameConflicts(group)

----------------------------------------------------------------------------
(* Plugins, and several repositories. *)

\* transformResourceGroup: the plugins one after the other, in the order of their loading.
TransformBy(group, p) ==
    ApplyResourceGroupUpdates(ApplyResourceGroupDeletions(group, removals[p]), additions[p])
TransformResourceGroup(plugins, group) == FoldLeft(TransformBy, group, plugins)

\* CompositeResourceRepository.fetchLatest: the groups of the later repositories are
\* updates of the first, and only the compiled policies of the first are kept.
CombinedGroups_FirstWins(groups) ==
    FoldLeft(LAMBDA g, h : ApplyResourceGroupUpdates(h, g), groups[1], Tail(groups))
CombinedGroups(groups) == FoldLeft(ApplyResourceGroupUpdates, groups[1], Tail(groups))

----------------------------------------------------------------------------
(* A group as a set of declarations, for properties. *)

Flat(body, kind) ==
    IF kind = "Schema" THEN UNION {{<<d.type, f>> : f \in d.fields} : d \in body} ELSE body
Declaration(r) == [kind |-> r.kind, namespace |-> r.namespace, name |-> r.name, body |-> Flat(r.body, r.kind)]
Declarations(group) == {Declaration(ResourceAt(group, p)) : p \in Places(group)}
NoTwins(group) ==
    \A p, q \in Places(group) :
        p[1] = q[1] /\ SameName(ResourceAt(group, p), ResourceAt(group, q)) => p = q
\* What files declare: of two documents with one name the last one counts.
DeclaredIn(documents, skip) ==
    {[kind |-> documents[i].kind, namespace |-> documents[i].namespace, name |-> documents[i].name,
      body |-> Flat(IF documents[i].kind = "Schema" THEN Range(documents[i].body) ELSE documents[i].body,
                    documents[i].kind)] :
        i \in {j \in DOMAIN documents :
               /\ documents[j].kind \in Kinds \ skip
               /\ \A k \in DOMAIN documents :
                     k > j => ~(documents[k].kind = documents[j].kind /\ SameName(documents[k], documents[j]))}}
=============================================================================
