----------------------------- MODULE Deployment -----------------------------
(***************************************************************************)
(* Deploying resources: the CLI (src/cli) reads files and sends them to    *)
(* the registry, the registry applies them to its resource file, lets its  *)
(* plugins transform the result, validates it and writes the gateways'     *)
(* file; a gateway combines that file with a repository of its own.        *)
(*                                                                         *)
(* A command gives up after a timeout and does not retry: the user runs it *)
(* again, with files that may have changed, while the first request is     *)
(* still on its way or waits in the registry.  A request that is lost is   *)
(* one that stays on its way, a lost answer is one that comes too late.    *)
(* Plugins load concurrently when the registry boots.  Here a request is   *)
(* applied in one step; Registry has its inside.                           *)
(***************************************************************************)
EXTENDS ResourceGroups

CONSTANTS
    Commands,        \* users of the CLI
    text,            \* text[c][n]: what c runs the n-th time: documents, types to skip, dry run
    Deletions,       \* what clients of the API delete
    Plugins,
    FileSystemGroup, \* the resource group in the gateway's second repository
    MaxRestarts      \* bound on restarts of the registry

ASSUME TextAssumption ==
    \A c \in Commands :
        /\ text[c] \in Seq(Range(text[c]))
        /\ \A t \in Range(text[c]) :
              /\ t.documents \in Seq(Range(t.documents))
              /\ \A d \in Range(t.documents) :
                    d = [kind |-> d.kind, namespace |-> d.namespace, name |-> d.name, body |-> d.body]
ASSUME GroupsAssumption ==
    /\ \A p \in Plugins : IsGroup(additions[p])
    /\ IsGroup(FileSystemGroup) /\ NoTwins(FileSystemGroup)
ASSUME BoundAssumption == MaxRestarts \in Nat

VARIABLES
    registryFile, gatewayFile,
    plugins,        \* the plugins that the registry has loaded, in that order
    loading,        \* the plugins that it has still to load before it serves
    restarts,
    command,        \* command[c]: where the command of a user stands, and its number
    requests,       \* requests under way to the registry or in the queue of the resolver
    answers,        \* answers under way to the CLI
    applied, last   \* ghosts: the requests that were applied, and the last of them

files == <<registryFile, gatewayFile>>
registry == <<plugins, loading, restarts>>
network == <<command, requests, answers>>
ghosts == <<applied, last>>
vars == <<files, registry, network, ghosts>>

Init ==
    /\ registryFile = EmptyGroup /\ gatewayFile = EmptyGroup
    /\ plugins = <<>> /\ loading = Plugins /\ restarts = 0
    /\ command = [c \in Commands |-> [at |-> "idle", number |-> 0]]
    /\ requests = {} /\ answers = {}
    /\ applied = {} /\ last = None

----------------------------------------------------------------------------
(* The CLI. *)

Messages == UNION {{[command |-> c, number |-> n] : n \in DOMAIN text[c]} : c \in Commands}
ASSUME NoneAssumption == None \notin Messages
TextOf(m) == text[m.command][m.number]
Loadable == {m \in Messages : Loads(TextOf(m).documents, TextOf(m).skip)}
payload == [m \in Loadable |->
    [PathToResourceGroup(TextOf(m).documents, TextOf(m).skip) EXCEPT !.basePolicy = TextOf(m).basePolicy]]
declaredBy == [m \in Loadable |-> DeclaredIn(TextOf(m).documents, TextOf(m).skip)]
Current(c) == [command |-> c, number |-> command[c].number]
Exit(c, at) == command' = [command EXCEPT ![c].at = at]

\* run: all files are read before anything is sent; an error ends the command.
RunCommand(c) ==
    /\ command[c].at \in {"idle", "ok", "failed"} /\ command[c].number < Len(text[c])
    /\ LET m == [command |-> c, number |-> command[c].number + 1]
       IN  /\ command' = [command EXCEPT ![c] = [at |-> IF m \in Loadable THEN "waiting" ELSE "failed", number |-> m.number]]
           /\ requests' = IF m \in Loadable THEN requests \cup {m} ELSE requests
    /\ UNCHANGED <<files, registry, answers, ghosts>>

\* An answer with errors, or without success, fails the command.
ReceiveAnswer_Any(c) ==
    /\ command[c].at = "waiting"
    /\ \E a \in answers : a.to = Current(c) /\ answers' = answers \ {a}
    /\ Exit(c, "ok")
    /\ UNCHANGED <<files, registry, requests, ghosts>>

ReceiveAnswer(c) ==
    /\ command[c].at = "waiting"
    /\ \E a \in answers :
          /\ a.to = Current(c)
          /\ answers' = answers \ {a}
          /\ Exit(c, IF a.success THEN "ok" ELSE "failed")
    /\ UNCHANGED <<files, registry, requests, ghosts>>

\* The CLI stops waiting and closes the connection; the request goes on.
TimeOut(c) ==
    /\ command[c].at = "waiting"
    /\ Exit(c, "failed")
    /\ answers' = {a \in answers : a.to # Current(c)}
    /\ UNCHANGED <<files, registry, requests, ghosts>>

----------------------------------------------------------------------------
(* The registry. *)

\* Plugins are imported, configured and kept as each gets ready; one that fails ends the
\* boot, and the process is started again.
LoadPlugin(p) ==
    /\ p \in loading
    /\ plugins' = Append(plugins, p)
    /\ loading' = loading \ {p}
    /\ UNCHANGED <<files, restarts, network, ghosts>>

\* Also after LoadPlugin failed.
Restart ==
    /\ restarts < MaxRestarts
    /\ plugins' = <<>> /\ loading' = Plugins /\ restarts' = restarts + 1
    /\ UNCHANGED <<files, network, ghosts>>

Validated_BeforePlugins(group, transformed) == ValidResourceGroup(group)
Validated(group, transformed) == ValidResourceGroup(transformed)

\* The registry's file is a copy taken before the plugins transform the group.
SavedForRegistry_Shared(group, transformed) == transformed
SavedForRegistry(group, transformed) == group

Save_RegistryOnly(group) ==
    /\ Validated(group, TransformResourceGroup(plugins, group))
    /\ registryFile' = group /\ UNCHANGED gatewayFile
Save(group) ==
    LET transformed == TransformResourceGroup(plugins, group)
    IN  /\ Validated(group, transformed)
        /\ registryFile' = SavedForRegistry(group, transformed)
        /\ gatewayFile' = transformed
Rejects(group) == ~Validated(group, TransformResourceGroup(plugins, group))

\* Nobody reads the answer to a command that has given up.
Answer(m, success) ==
    answers' = answers \cup {a \in {[to |-> m, success |-> success]} :
                               m = Current(m.command) /\ command[m.command].at = "waiting"}

\* updateResourceGroup, updateBasePolicy and their validating twins.
UpdateResources(m) ==
    /\ loading = {} /\ m \in requests
    /\ requests' = requests \ {m}
    /\ LET group == ApplyResourceGroupUpdates(registryFile, payload[m])
       IN \/ /\ ~TextOf(m).dryRun /\ Save(group)
             /\ Answer(m, TRUE)
             /\ applied' = applied \cup {m} /\ last' = m
          \/ /\ TextOf(m).dryRun /\ ~Rejects(group)
             /\ Answer(m, TRUE)
             /\ UNCHANGED <<files, ghosts>>
          \/ /\ Rejects(group)
             /\ Answer(m, FALSE)
             /\ UNCHANGED <<files, ghosts>>
    /\ UNCHANGED <<registry, command>>

DeleteResources ==
    /\ loading = {}
    /\ \E d \in Deletions : Save(ApplyResourceGroupDeletions(registryFile, d))
    /\ last' = None
    /\ UNCHANGED <<registry, network, applied>>

\* With the plugins of now, which may have loaded in another order than those that the
\* file was written with.
RebuildResourceGroup ==
    /\ loading = {} /\ Save(registryFile)
    /\ UNCHANGED <<registry, network, ghosts>>

----------------------------------------------------------------------------
(* The gateway. *)

Repositories == {"s3", "fileSystem"}

\* getResourceRepository: S3 comes first; a gateway without any repository does not boot.
\* What it fetches now; GatewayService has the way there.
RepositoryGroups(repositories) ==
    (IF "s3" \in repositories THEN <<gatewayFile>> ELSE <<>>)
    \o (IF "fileSystem" \in repositories THEN <<FileSystemGroup>> ELSE <<>>)
FetchLatest(repositories) == CombinedGroups(RepositoryGroups(repositories))

----------------------------------------------------------------------------
\* Nobody runs another command.  (What the registry holds may then be refused by plugins
\* that have loaded in another order, and not even be rebuilt.)
Ended == \A c \in Commands : command[c].at # "waiting" /\ command[c].number = Len(text[c])

Next ==
    \/ \E c \in Commands : RunCommand(c) \/ ReceiveAnswer(c) \/ TimeOut(c)
    \/ (\E p \in Plugins : LoadPlugin(p)) \/ Restart
    \/ (\E m \in requests : UpdateResources(m)) \/ DeleteResources \/ RebuildResourceGroup
    \/ (Ended /\ UNCHANGED vars)

Spec == Init /\ [][Next]_vars

----------------------------------------------------------------------------
(* Properties. *)

\* Types; every plugin is loaded once, and an answer belongs to a run that has begun.
TypeOK ==
    /\ IsGroup(registryFile) /\ IsGroup(gatewayFile)
    /\ Range(plugins) \subseteq Plugins /\ Len(plugins) = Cardinality(Range(plugins))
    /\ loading \subseteq Plugins /\ restarts \in 0..MaxRestarts
    /\ \A c \in Commands : /\ command[c].at \in {"idle", "waiting", "ok", "failed"}
                           /\ command[c].number \in 0..Len(text[c])
    /\ \A m \in requests \cup {a.to : a \in answers} \cup applied : m.number <= command[m.command].number

\* The resource groups that are written and served never hold two resources of one kind and
\* name, whatever files, plugins and repositories declare twice (actions/update.ts).
OneOfEachName ==
    /\ NoTwins(registryFile) /\ NoTwins(gatewayFile)
    /\ \A repositories \in (SUBSET Repositories) \ {{}} : NoTwins(FetchLatest(repositories))

\* Whatever is combined by updates and plugins, the gateways' file sends the requests to a
\* host to one upstream, and has no names that are told apart only by dashes.
Unambiguous ==
    LET upstreams == {gatewayFile.resources["Upstream"][i] : i \in DOMAIN gatewayFile.resources["Upstream"]}
        all == {ResourceAt(gatewayFile, p) : p \in Places(gatewayFile)}
    IN  /\ \A u, v \in upstreams : Range(u.body.hosts) \cap Range(v.body.hosts) # {} => u = v
        /\ \A r, s \in all :
              r.kind = s.kind /\ underscored[r.namespace] = underscored[s.namespace]
              /\ underscored[r.name] = underscored[s.name] => r = s

\* When the CLI says that resources were uploaded, the registry has applied all of them, and
\* unless something was applied after them its file declares them.
OkMeansApplied ==
    \A c \in Commands :
        LET m == Current(c)
        IN  command[c].at = "ok" /\ ~TextOf(m).dryRun =>
                /\ m \in applied
                /\ last = m => declaredBy[m] \subseteq Declarations(registryFile)

\* The gateways' file is the registry's with what the plugins change: each resource that no
\* plugin touches is there as it was declared.  The registry keeps no addition of a plugin:
\* all that its file declares was in the files of a command that was applied.
DeclaredIsPublished ==
    LET Touches(p) == {ResourceAt(additions[p], q) : q \in Places(additions[p])} \cup removals[p].resources
        touched == UNION {Touches(p) : p \in Plugins}
        Untouched(d) == ~\E r \in touched : r.kind = d.kind /\ SameName(r, d)
    IN  /\ {d \in Declarations(gatewayFile) : Untouched(d)} = {d \in Declarations(registryFile) : Untouched(d)}
        /\ Declarations(registryFile) \subseteq UNION {declaredBy[m] : m \in applied}

\* A gateway with two repositories serves what its own declares, and all that the registry
\* publishes under other names: neither hides the other's (composite.ts).
ServesBoth ==
    LET own == Declarations(FileSystemGroup)
        served == Declarations(FetchLatest(Repositories))
    IN  /\ own \subseteq served
        /\ \A d \in Declarations(gatewayFile) :
              d \in served \/ \E e \in own : e.kind = d.kind /\ SameName(e, d)

\* A request that is applied again, because its answer was lost or came too late, changes
\* nothing when nothing else was applied between.
RepeatChangesNothing ==
    [][\A m \in requests :
         last # None /\ payload[m] = payload[last] /\ UpdateResources(m) => UNCHANGED registryFile]_vars

DeclaredByCommands == {declaredBy[m] : m \in {n \in Loadable : ~TextOf(n).dryRun}}
NamesDeleted == {d.resources : d \in Deletions}
Declared == INSTANCE DeclaredResources
    WITH declared <- Declarations(registryFile), Commands <- DeclaredByCommands, Deletions <- NamesDeleted
\* The registry's file changes by whole commands: never by a dry run, by files that could
\* not all be read, or by a part of what they declare (DeclaredResources).
ImplementsDeclared == Declared!Spec
=============================================================================
