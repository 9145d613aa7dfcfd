------------------------------ MODULE Registry ------------------------------
(***************************************************************************)
(* The registry: the resolvers that update, validate, rebuild, delete and  *)
(* refresh resources (services/src/modules/registry-schema/resolvers), the *)
(* compilation of policies to wasm files (PolicyAttachmentsHelper and      *)
(* opa-helper) and the files the registry writes for the gateways.         *)
(*                                                                         *)
(* Each resolver module has a pLimit(1) of its own, so requests of one     *)
(* kind queue up and requests of different kinds overlap at every await.   *)
(* A request reads the registry file, computes, compiles what changed in a *)
(* temporary folder all requests share, writes and deletes wasm files one  *)
(* after the other, and saves two resource files at once.                  *)
(*                                                                         *)
(* A resource group is reduced to its policies (the code of each, 0 when   *)
(* there is none), the remote server each schema refers to with @gql, and  *)
(* the introspected schemas of remote servers (a version; 0: unknown).     *)
(* A wasm file is the code it was compiled from.  Plugins are the identity.*)
(***************************************************************************)
EXTENDS Integers, Sequences

CONSTANTS
    Policies,            \* policies, each with a file name of its own
    Schemas,             \* schemas
    Urls,                \* remote GraphQL servers
    NoUrl,               \* the reference of a schema that is absent or has none
    NoPolicy,            \* no policy
    Marked,              \* policies with arguments: never equal to their stored form
    Clients,             \* each has one request in flight at a time
    Operations,          \* the requests they send
    UnlinkMissingFails,  \* deleting a file that is not there: error (fs) or not (S3)
    MaxVersion,          \* bound on the versions of the remote schemas
    MaxFailures          \* bound on storage errors, compiler errors and crashes

Kinds == {"update", "rebuild", "delete", "refresh"}
Absent == 0
Code == Nat

ASSUME MarkedAssumption == Marked \subseteq Policies
ASSUME NoneAssumption == NoUrl \notin Urls /\ NoPolicy \notin Policies
ASSUME OperationsAssumption ==
    /\ Operations # {}
    /\ \A op \in Operations :
           /\ op.kind \in Kinds /\ op.dryRun \in BOOLEAN
           /\ DOMAIN op.policies \subseteq Policies /\ DOMAIN op.uses \subseteq Schemas
           /\ \A p \in DOMAIN op.policies : op.policies[p] \in Code
           /\ \A s \in DOMAIN op.uses : op.uses[s] \in Urls \cup {NoUrl}
           /\ op.url \in Urls \cup {NoUrl}
           /\ op.kind = "delete" => /\ ~op.dryRun
                                    /\ \A p \in DOMAIN op.policies : op.policies[p] = Absent
                                    /\ \A s \in DOMAIN op.uses : op.uses[s] = NoUrl
           /\ op.kind \in {"rebuild", "refresh"} => DOMAIN op.policies = {} /\ DOMAIN op.uses = {}
           /\ op.kind = "refresh" => ~op.dryRun /\ op.url \in Urls

VARIABLES
    registryFile,  \* the resource group of the registry
    gatewayFile,   \* ... and the one the gateways read
    folder,        \* the wasm files in the attachments folder
    tmp,           \* the wasm files in the temporary folder of the registry
    bundle,        \* ./bundle.tar.gz, the output of "opa build"
    queue,         \* the pLimit(1) of each resolver module; its head runs
    request,       \* the local state of each client's request
    late,          \* writes still under way for a request that was answered
    version,       \* the remote servers' current schema, for introspection
    failures       \* failures so far

files == <<registryFile, gatewayFile>>
local == <<tmp, bundle>>
vars == <<registryFile, gatewayFile, folder, tmp, bundle, queue, request, late,
          version, failures>>

ResourceGroup == [policies : [Policies -> Code],
                  uses : [Schemas -> Urls \cup {NoUrl}],
                  remote : [Urls -> Nat]]

EmptyGroup == [policies |-> [p \in Policies |-> Absent],
               uses |-> [s \in Schemas |-> NoUrl],
               remote |-> [u \in Urls |-> 0]]

Answers == {"ok", "unknown_url", "failed", "faulted"}
Running == {"introspect", "compile", "unpack", "attach", "detach", "overlay", "save",
            "cleanup"}

NoRequest == [pc |-> "none", op |-> CHOOSE op \in Operations : TRUE,
              registryRg |-> EmptyGroup, gatewayRg |-> EmptyGroup,
              toCompile |-> {}, toSave |-> {}, toDelete |-> {}, compiled |-> {},
              current |-> NoPolicy, unsaved |-> {"registry", "gateway"}, answer |-> "ok"]

Init ==
    /\ registryFile = EmptyGroup
    /\ gatewayFile = EmptyGroup
    /\ folder = [p \in Policies |-> Absent]
    /\ tmp = [p \in Policies |-> Absent]
    /\ bundle = Absent
    /\ queue = [k \in Kinds |-> <<>>]
    /\ request = [c \in Clients |-> NoRequest]
    /\ late = {}
    /\ version = 1
    /\ failures = 0

----------------------------------------------------------------------------
(* Resource groups. *)

Store == INSTANCE ResourceStore WITH store <- registryFile

Used(rg) == {u \in Urls : \E s \in Schemas : rg.uses[s] = u}
Known(rg) == {u \in Urls : rg.remote[u] # 0}

\* updateRemoteGqlSchemas: introspect the servers that are used and unknown; the
\* unused ones are forgotten, but only when there was something to introspect.
Introspected(rg) ==
    IF Used(rg) \subseteq Known(rg)
    THEN rg
    ELSE [rg EXCEPT !.remote = [u \in Urls |->
            CASE u \notin Used(rg) -> 0
              [] u \in Used(rg) /\ u \in Known(rg) -> rg.remote[u]
              [] u \in Used(rg) /\ u \notin Known(rg) -> version]]

\* PolicyAttachmentsHelper.sync: added or updated policies, and removed ones.
ToGenerate_AddedOnly(old, new) ==
    {p \in Policies : new.policies[p] # Absent
                      /\ (old.policies[p] = Absent \/ p \in Marked)}

ToGenerate(old, new) ==
    {p \in Policies : new.policies[p] # Absent
                      /\ (new.policies[p] # old.policies[p] \/ p \in Marked)}
ToRemove_Requested(old, new) == {p \in Policies : new.policies[p] = Absent}

ToRemove_Nothing(old, new) == {}

ToRemove(old, new) ==
    {p \in Policies : old.policies[p] # Absent /\ new.policies[p] = Absent}

----------------------------------------------------------------------------
(* The life of a request. *)

Set(c, changed) == request' = [request EXCEPT ![c] = changed]

\* The phases that have nothing left to do are passed over at once.
Phase(r) ==
    CASE r.toCompile # {} -> "compile"
      [] r.toCompile = {} /\ r.op.dryRun -> "cleanup"
      [] r.toCompile = {} /\ ~r.op.dryRun /\ r.toSave # {} -> "attach"
      [] r.toCompile = {} /\ ~r.op.dryRun /\ r.toSave = {} /\ r.toDelete # {} -> "detach"
      [] r.toCompile = {} /\ ~r.op.dryRun /\ r.toSave = {} /\ r.toDelete = {} -> "save"

Advance(r) == [r EXCEPT !.pc = Phase(r)]

\* An error on the way: cleanup of what was compiled, then the answer.
Abort(r, answer) == [r EXCEPT !.pc = "cleanup", !.answer = answer]

\* The client calls the resolver, which waits for its turn.
Submit(c, op) ==
    /\ request[c].pc \in Answers \cup {"none"}
    /\ Set(c, [NoRequest EXCEPT !.pc = "queued", !.op = op])
    /\ queue' = [queue EXCEPT ![op.kind] = Append(@, c)]
    /\ UNCHANGED <<files, folder, local, late, version, failures>>

MyTurn_Always(c) == TRUE

MyTurn(c) == Head(queue[request[c].op.kind]) = c

\* fetchLatest, and the request applied to what it returns.
Fetch(c) ==
    /\ request[c].pc = "queued"
    /\ MyTurn(c)
    /\ LET op == request[c].op
           rg == Store!Apply(registryFile, op)
       IN IF op.kind = "refresh" /\ op.url \notin Known(registryFile)
          THEN Set(c, Abort(request[c], "unknown_url"))
          ELSE Set(c, [request[c] EXCEPT
                        !.pc = "introspect",
                        !.registryRg = rg,
                        !.toCompile = ToGenerate(registryFile, rg),
                        !.toSave = ToGenerate(registryFile, rg),
                        !.toDelete = ToRemove(registryFile, rg)])
    /\ UNCHANGED <<files, folder, local, queue, late, version, failures>>

\* With the remote schemas in place: plugins, validation and the trial build of the
\* schema, which throws when a remote schema is missing.
Prepare_ClonesFirst(c, rg) ==
    /\ IF Used(rg) \subseteq Known(rg)
       THEN Set(c, Advance([request[c] EXCEPT !.gatewayRg = rg]))
       ELSE Set(c, Abort(request[c], "failed"))
    /\ UNCHANGED <<files, folder, local, queue, late, version, failures>>

Prepare(c, rg) ==
    /\ IF Used(rg) \subseteq Known(rg)
       THEN Set(c, Advance([request[c] EXCEPT !.registryRg = rg, !.gatewayRg = rg]))
       ELSE Set(c, Abort(request[c], "failed"))
    /\ UNCHANGED <<files, folder, local, queue, late, version, failures>>

Introspecting(c, kind) == request[c].pc = "introspect" /\ request[c].op.kind = kind

UpdateResources(c) ==
    /\ Introspecting(c, "update")
    /\ Prepare(c, Introspected(request[c].registryRg))

RebuildResources(c) ==
    /\ Introspecting(c, "rebuild")
    /\ Prepare(c, Introspected(request[c].registryRg))

\* deleteResources starts the introspection but does not wait for it: the resource
\* group stays as it is.
DeleteResources(c) ==
    /\ Introspecting(c, "delete")
    /\ Prepare(c, request[c].registryRg)

\* refreshRemoteSchema introspects one server (fetchRemoteGqlSchema) ...
RefreshRemoteSchema(c) ==
    /\ Introspecting(c, "refresh")
    /\ Set(c, [request[c] EXCEPT !.pc = "overlay",
                                 !.registryRg.remote[request[c].op.url] = version])
    /\ UNCHANGED <<files, folder, local, queue, late, version, failures>>

\* ... and the gateway's file with the registry's remote schemas.
Overlay_OnlyUrl(c) ==
    /\ request[c].pc = "overlay"
    /\ Set(c, [request[c] EXCEPT
                !.pc = "save",
                !.gatewayRg = [gatewayFile EXCEPT !.remote =
                    [u \in Urls |-> IF u = request[c].op.url THEN version ELSE 0]]])
    /\ UNCHANGED <<files, folder, local, queue, late, version, failures>>

Overlay(c) ==
    /\ request[c].pc = "overlay"
    /\ Set(c, [request[c] EXCEPT
                !.pc = "save",
                !.gatewayRg = [gatewayFile EXCEPT !.remote = request[c].registryRg.remote]])
    /\ UNCHANGED <<files, folder, local, queue, late, version, failures>>

\* prepareCompiledRegoFile of the next policy: "opa build" leaves its output in the
\* working directory of the process ...
Compile(c) ==
    /\ request[c].pc = "compile"
    /\ \E p \in request[c].toCompile :
        /\ bundle' = request[c].registryRg.policies[p]
        /\ Set(c, [request[c] EXCEPT !.pc = "unpack", !.current = p])
    /\ UNCHANGED <<files, folder, tmp, queue, late, version, failures>>

\* ... and "tar", "mv" and "rm" take it from there to the temporary folder.
Unpack(c) ==
    /\ request[c].pc = "unpack"
    /\ LET r == request[c]
       IN \/ /\ bundle = Absent
             /\ Set(c, Abort(r, "failed"))
             /\ UNCHANGED local
          \/ /\ bundle # Absent
             /\ tmp' = [tmp EXCEPT ![r.current] = bundle]
             /\ bundle' = Absent
             /\ Set(c, Advance([r EXCEPT !.toCompile = r.toCompile \ {r.current},
                                         !.compiled = r.compiled \cup {r.current},
                                         !.current = NoPolicy]))
    /\ UNCHANGED <<files, folder, queue, late, version, failures>>

\* writeToRepo: the compiled files one by one ...
Attach(c) ==
    /\ request[c].pc = "attach"
    /\ \E p \in request[c].toSave :
        \/ /\ tmp[p] = Absent
           /\ Set(c, Abort(request[c], "failed"))
           /\ UNCHANGED folder
        \/ /\ tmp[p] # Absent
           /\ folder' = [folder EXCEPT ![p] = tmp[p]]
           /\ Set(c, Advance([request[c] EXCEPT !.toSave = request[c].toSave \ {p}]))
    /\ UNCHANGED <<files, local, queue, late, version, failures>>

\* ... then the deletions.
Detach(c) ==
    /\ request[c].pc = "detach"
    /\ \E p \in request[c].toDelete :
        \/ /\ folder[p] = Absent /\ UnlinkMissingFails
           /\ Set(c, Abort(request[c], "failed"))
           /\ UNCHANGED folder
        \/ /\ folder[p] # Absent \/ ~UnlinkMissingFails
           /\ folder' = [folder EXCEPT ![p] = Absent]
           /\ Set(c, Advance([request[c] EXCEPT !.toDelete = request[c].toDelete \ {p}]))
    /\ UNCHANGED <<files, local, queue, late, version, failures>>

\* ResourceRepository.update, for one of the two files.
WriteResources(file, r) ==
    IF file = "registry"
    THEN registryFile' = r.registryRg /\ UNCHANGED gatewayFile
    ELSE gatewayFile' = r.gatewayRg /\ UNCHANGED registryFile

\* Promise.all: both files at once, in either order.
Save(c) ==
    /\ request[c].pc = "save"
    /\ \E file \in request[c].unsaved :
        LET unsaved == request[c].unsaved \ {file}
        IN /\ WriteResources(file, request[c])
           /\ Set(c, [request[c] EXCEPT !.unsaved = unsaved,
                                        !.pc = IF unsaved = {} THEN "cleanup" ELSE "save"])
    /\ UNCHANGED <<folder, local, queue, late, version, failures>>

\* finally: the temporary files are removed, the promise settles, and the next
\* request of that kind takes its turn.
Finish_NotOnError(c) ==
    /\ request[c].pc = "cleanup"
    /\ request[c].answer = "ok"
    /\ tmp' = [p \in Policies |-> IF p \in request[c].compiled THEN Absent ELSE tmp[p]]
    /\ queue' = [queue EXCEPT ![request[c].op.kind] = Tail(@)]
    /\ Set(c, [NoRequest EXCEPT !.pc = request[c].answer, !.op = request[c].op])
    /\ UNCHANGED <<files, folder, bundle, late, version, failures>>

Finish(c) ==
    /\ request[c].pc = "cleanup"
    /\ tmp' = [p \in Policies |-> IF p \in request[c].compiled THEN Absent ELSE tmp[p]]
    /\ queue' = [queue EXCEPT ![request[c].op.kind] = Tail(@)]
    /\ Set(c, [NoRequest EXCEPT !.pc = request[c].answer, !.op = request[c].op])
    /\ UNCHANGED <<files, folder, bundle, late, version, failures>>

----------------------------------------------------------------------------
(* Failures, and the remote servers. *)

\* Some await rejects: storage, compiler, remote server, plugin.  When it is one
\* of the two saves, or only its metadata file, the other one goes on.
Fail(c) ==
    /\ failures < MaxFailures
    /\ failures' = failures + 1
    /\ \/ /\ request[c].pc = "queued" /\ MyTurn(c)
          /\ UNCHANGED late
       \/ /\ request[c].pc \in Running \ {"save", "cleanup"}
          /\ UNCHANGED late
       \/ /\ request[c].pc = "save"
          /\ \E file \in {"registry", "gateway"} :
               late' = late \cup {[file |-> other, request |-> request[c]] :
                                    other \in request[c].unsaved \ {file}}
    /\ Set(c, Abort(request[c], "faulted"))
    /\ UNCHANGED <<files, folder, local, queue, version>>

\* A save that nobody waits for any more.
LateWrite ==
    \E w \in late :
        /\ WriteResources(w.file, w.request)
        /\ late' = late \ {w}
        /\ UNCHANGED <<folder, local, queue, request, version, failures>>

\* The registry process exits; files stay, requests are lost.
Crash ==
    /\ failures < MaxFailures
    /\ failures' = failures + 1
    /\ queue' = [k \in Kinds |-> <<>>]
    /\ request' = [c \in Clients |->
                    IF request[c].pc \in Answers \cup {"none"} THEN request[c]
                    ELSE [NoRequest EXCEPT !.pc = "faulted", !.op = request[c].op]]
    /\ late' = {}
    /\ UNCHANGED <<files, folder, local, version>>

\* A remote server changes its schema.
Evolve ==
    /\ version < MaxVersion
    /\ version' = version + 1
    /\ UNCHANGED <<files, folder, local, queue, request, late, failures>>

----------------------------------------------------------------------------

Step(c) ==
    \/ Fetch(c) \/ UpdateResources(c) \/ RebuildResources(c) \/ DeleteResources(c)
    \/ RefreshRemoteSchema(c) \/ Overlay(c)
    \/ Compile(c) \/ Unpack(c) \/ Attach(c) \/ Detach(c) \/ Save(c) \/ Finish(c)

Next ==
    \/ \E c \in Clients : Step(c) \/ Fail(c) \/ \E op \in Operations : Submit(c, op)
    \/ LateWrite
    \/ Crash
    \/ Evolve

Spec == Init /\ [][Next]_vars

\* Every promise settles.
FairSpec == Spec /\ WF_vars(LateWrite) /\ \A c \in Clients : WF_vars(Step(c))

----------------------------------------------------------------------------

Request == [pc : Running \cup Answers \cup {"none", "queued"},
            op : Operations,
            registryRg : ResourceGroup, gatewayRg : ResourceGroup,
            toCompile : SUBSET Policies, toSave : SUBSET Policies,
            toDelete : SUBSET Policies, compiled : SUBSET Policies,
            current : Policies \cup {NoPolicy},
            unsaved : SUBSET {"registry", "gateway"},
            answer : Answers]

\* Types, and what is left of a request that does not run.
TypeOK ==
    /\ registryFile \in ResourceGroup
    /\ gatewayFile \in ResourceGroup
    /\ folder \in [Policies -> Code]
    /\ tmp \in [Policies -> Code]
    /\ bundle \in Code
    /\ queue \in [Kinds -> Seq(Clients)]
    /\ request \in [Clients -> Request]
    /\ \A c \in Clients : /\ request[c].pc = "unpack" => request[c].current \in request[c].toCompile
                          /\ request[c].pc \notin Running => request[c].compiled = {}
    /\ late \subseteq [file : {"registry", "gateway"}, request : Request]
    /\ version \in Nat \ {0}
    /\ failures \in Nat

\* Only the head of a queue runs, and whoever waits is in its queue once: what
\* pLimit(1) gives each resolver.
Exclusive ==
    \A c \in Clients :
        LET q == queue[request[c].op.kind]
            places == {i \in 1..Len(q) : q[i] = c}
        IN /\ request[c].pc \in Running => places = {1}
           /\ request[c].pc = "queued" => \E i \in 1..Len(q) : places = {i}

\* The registry never keeps a schema whose remote server it has not introspected,
\* whatever overlaps and whatever fails.  deleteResources relies on it: it does
\* not wait for the introspection of what is missing.
RegistryKnowsUrls == Used(registryFile) \subseteq Known(registryFile)

\* The gateways can build their schema: GqlDirective throws on a url without a
\* remote schema, and that ends a gateway (GatewayService, BadVersions).
GatewayKnowsUrls == Used(gatewayFile) \subseteq Known(gatewayFile)

Quiet == late = {} /\ \A c \in Clients : request[c].pc \in Answers \cup {"none"}

\* When no request is in flight, the gateways' file is the registry's, and the
\* attachments folder holds the compiled form of its policies and nothing else.
InSync ==
    Quiet => /\ gatewayFile = registryFile
             /\ folder = registryFile.policies

\* A wasm file is the compiled form of a code its own policy was given.
OwnCode ==
    \A p \in Policies :
        folder[p] \in {Absent} \cup
            {op.policies[p] : op \in {o \in Operations : p \in DOMAIN o.policies}}

\* A request answered with success has been carried out: the gateways find its
\* policies, compiled.
OkMeansDeployed ==
    \A c \in Clients :
        LET op == request[c].op
        IN Quiet /\ request[c].pc = "ok" /\ op.kind # "refresh" /\ ~op.dryRun =>
            \A p \in DOMAIN op.policies : /\ gatewayFile.policies[p] = op.policies[p]
                                          /\ folder[p] = op.policies[p]

\* A request fails only because something failed while it ran.
FailsOnlyOnFault == \A c \in Clients : request[c].pc # "failed"

\* Requests change the registry's resource group one after the other.
ImplementsStore == Store!Spec

\* Every request is answered.
Answered ==
    \A c \in Clients : (request[c].pc = "queued") ~> (request[c].pc \in Answers)

=============================================================================
