--------------------------- MODULE GatewayService ---------------------------
(***************************************************************************)
(* The gateway's view of the resource group: createGraphQLService (load,   *)
(* updateSchema, executor) over ResourceRepository.fetchLatest, for the    *)
(* file-system repository (compare lastModified, then read) and for the S3 *)
(* one (conditional GET with the etag).                                    *)
(*                                                                         *)
(* updateSchema is called by the timer of setInterval and by               *)
(* POST /updateSchema; neither waits for the other, and the timer does not *)
(* wait for its own previous call.  Each piece of code between two awaits  *)
(* is one action.  A rejection is answered with status 500 when the call   *)
(* came over HTTP; on the timer, and while loading, it ends the process.   *)
(*                                                                         *)
(* fetchLatest returns a ResourceGroup object that the repository keeps    *)
(* and changes later (it sets policyAttachments in place), so objects have *)
(* an identity here: their position in "heap".                             *)
(*                                                                         *)
(* refreshPolicyAttachments is one step here; PolicyAttachments has its    *)
(* inside.                                                                 *)
(***************************************************************************)
EXTENDS Naturals, Sequences

CONSTANTS
    TimerCalls,   \* calls of updateSchema from setInterval in flight at once
    HttpCalls,    \* calls of updateSchema from POST /updateSchema
    Loader,       \* the call of load
    Stores,       \* the resource repositories a gateway may be configured with
    Elapsed,      \* how far lastModified may move from one write of the file to the next
    BadVersions,  \* versions of the resource group that createGatewaySchema rejects
    MaxPublish,   \* bound on the writes of the resource file, and of the attachments
    MaxFailures   \* bound on storage and build failures and on restarts

Calls == TimerCalls \cup HttpCalls \cup {Loader}

ASSUME CallsAssumption == Loader \notin TimerCalls \cup HttpCalls
                          /\ TimerCalls \cap HttpCalls = {}
ASSUME StoreAssumption == Stores \subseteq {"fs", "s3"} /\ Elapsed \subseteq Nat
ASSUME BoundsAssumption == /\ MaxPublish \in Nat \ {0} /\ MaxFailures \in Nat
                           /\ BadVersions \subseteq Nat

VARIABLES
    store,       \* the repository it is configured with
    file,        \* the gateway's resource file in storage: its version and its stamp
    attached,    \* how often the attachments folder was written
    failures,
    up,          \* the state of the gateway process
    heap,        \* the ResourceGroup objects of the process
    cached,      \* this.resourceGroup of the repository
    served,      \* _resourceGroup
    schema,      \* the version "schema" was built from
    call         \* the local state of every call

storage == <<store, file, attached>>
process == <<up, heap, cached, served, schema>>
vars == <<store, file, attached, failures, up, heap, cached, served, schema, call>>

Undefined == 0

Call == [pc : {"idle", "stat", "read", "get", "refresh", "build", "ok", "error"},
         stamp : Nat,     \* the stamp a call compares, or stores
         obj : Nat,       \* the object fetchLatest will return
         since : Nat]     \* ghost: the version published when the call began

NoCall == [pc |-> "idle", stamp |-> Undefined, obj |-> Undefined, since |-> 0]
Nothing == [stamp |-> Undefined, obj |-> Undefined]

Init ==
    /\ store \in Stores
    /\ file = [version |-> 1, stamp |-> 1]
    /\ attached = 1
    /\ failures = 0
    /\ up = "down"
    /\ heap = <<>>
    /\ cached = Nothing
    /\ served = Undefined
    /\ schema = Undefined
    /\ call = [c \in Calls |-> NoCall]

----------------------------------------------------------------------------
(* The registry publishes. *)

PublishResources ==
    /\ file.version < MaxPublish
    /\ \E e \in Elapsed : file' = [version |-> file.version + 1, stamp |-> file.stamp + e]
    /\ UNCHANGED <<store, attached, failures, process, call>>

PublishAttachments ==
    /\ attached < MaxPublish
    /\ attached' = attached + 1
    /\ UNCHANGED <<store, file, failures, process, call>>

----------------------------------------------------------------------------
(* fetchLatest. *)

InFlight(c) == call[c].pc \in {"stat", "read", "get", "refresh", "build"}

\* The etag of an S3 object is a digest of its content.
StampOfFile == IF store = "s3" THEN file.version ELSE file.stamp

\* A call starts.  S3 evaluates this.resourceGroup?.etag now, to send it along.
StartFetch(c) ==
    /\ ~InFlight(c)
    /\ call' = [call EXCEPT ![c] = [pc |-> IF store = "s3" THEN "get" ELSE "stat",
                                    stamp |-> IF store = "s3" THEN cached.stamp ELSE Undefined,
                                    obj |-> Undefined,
                                    since |-> file.version]]

\* fileStats answered: unchanged since the last read, or to be read.
Stat(c) ==
    /\ call[c].pc = "stat"
    /\ call' = [call EXCEPT ![c].stamp = StampOfFile,
                            ![c].pc = IF cached.obj # Undefined /\ cached.stamp = StampOfFile
                                      THEN "refresh" ELSE "read"]
    /\ UNCHANGED <<storage, failures, process>>

\* The content arrived: a new object, kept by the repository at once, still
\* without attachments.
KeepContent(c, stamp) ==
    /\ heap' = Append(heap, [version |-> file.version, attachments |-> Undefined])
    /\ cached' = [stamp |-> stamp, obj |-> Len(heap')]
    /\ call' = [call EXCEPT ![c].pc = "refresh", ![c].obj = Len(heap')]

Read(c) ==
    /\ call[c].pc = "read"
    /\ KeepContent(c, call[c].stamp)
    /\ UNCHANGED <<storage, failures, up, served, schema>>

\* S3: the file has the etag that was sent (NotModified), or comes with its own.
NotModified(c) ==
    /\ call[c].pc = "get"
    /\ call[c].stamp = StampOfFile
    /\ call' = [call EXCEPT ![c].pc = "refresh"]
    /\ UNCHANGED <<storage, failures, process>>

Get(c) ==
    /\ call[c].pc = "get"
    /\ call[c].stamp # StampOfFile
    /\ KeepContent(c, StampOfFile)
    /\ UNCHANGED <<storage, failures, up, served, schema>>

\* refreshPolicyAttachments is over: the attachments go to the object that
\* this.resourceGroup refers to by now.
AttachPolicies_ToNone == UNCHANGED heap

AttachPolicies == heap' = [heap EXCEPT ![cached.obj].attachments = attached]

\* fetchLatest returns isNew = false: nothing to install.
Refresh(c) ==
    /\ call[c].pc = "refresh"
    /\ call[c].obj = Undefined
    /\ AttachPolicies
    /\ call' = [call EXCEPT ![c].pc = "ok"]
    /\ UNCHANGED <<storage, failures, up, cached, served, schema>>

----------------------------------------------------------------------------
(* load and updateSchema. *)

\* The process boots.
Load ==
    /\ up = "down"
    /\ up' = "loading"
    /\ StartFetch(Loader)
    /\ UNCHANGED <<storage, failures, heap, cached, served, schema>>

\* The timer fires, or a client asks for an update.
UpdateSchema(c) ==
    /\ up = "running"
    /\ c # Loader
    /\ StartFetch(c)
    /\ UNCHANGED <<storage, failures, process>>

\* fetchLatest returns a new object: it is served from now on, and the build of
\* its schema starts.
Adopt_SchemaOnly(c) ==
    /\ call[c].pc = "refresh"
    /\ call[c].obj # Undefined
    /\ AttachPolicies
    /\ served' = IF served = Undefined THEN call[c].obj ELSE served
    /\ call' = [call EXCEPT ![c].pc = "build"]
    /\ UNCHANGED <<storage, failures, up, cached, schema>>

Adopt(c) ==
    /\ call[c].pc = "refresh"
    /\ call[c].obj # Undefined
    /\ AttachPolicies
    /\ served' = call[c].obj
    /\ call' = [call EXCEPT ![c].pc = "build"]
    /\ UNCHANGED <<storage, failures, up, cached, schema>>

\* createGatewaySchema returns the schema.
Build_KeepsOld(c) ==
    /\ call[c].pc = "build"
    /\ heap[call[c].obj].version \notin BadVersions
    /\ schema' = IF schema = Undefined THEN heap[call[c].obj].version ELSE schema
    /\ up' = "running"
    /\ call' = [call EXCEPT ![c].pc = "ok"]
    /\ UNCHANGED <<storage, failures, heap, cached, served>>

Build(c) ==
    /\ call[c].pc = "build"
    /\ heap[call[c].obj].version \notin BadVersions
    /\ schema' = heap[call[c].obj].version
    /\ up' = "running"
    /\ call' = [call EXCEPT ![c].pc = "ok"]
    /\ UNCHANGED <<storage, failures, heap, cached, served>>

\* The process ends, and everything in memory with it.
Exit ==
    /\ up' = "down"
    /\ heap' = <<>>
    /\ cached' = Nothing
    /\ served' = Undefined
    /\ schema' = Undefined
    /\ call' = [d \in Calls |-> NoCall]

\* The promise of the call rejects.
Reject_KeepsRunning(c) ==
    /\ call' = [call EXCEPT ![c] = [NoCall EXCEPT !.pc = "error"]]
    /\ UNCHANGED process

Reject_Exits(c) == Exit

Reject(c) ==
    \/ /\ c \in HttpCalls
       /\ call' = [call EXCEPT ![c] = [NoCall EXCEPT !.pc = "error"]]
       /\ UNCHANGED process
    \/ /\ c \notin HttpCalls
       /\ Exit

\* createGatewaySchema throws on an invalid resource group ...
BuildRejects(c) ==
    /\ call[c].pc = "build"
    /\ heap[call[c].obj].version \in BadVersions
    /\ Reject(c)
    /\ UNCHANGED <<storage, failures>>

\* ... and any await may fail: the storage, the compilation of a policy, a plugin.
Fail(c) ==
    /\ InFlight(c)
    /\ failures < MaxFailures
    /\ failures' = failures + 1
    /\ Reject(c)
    /\ UNCHANGED storage

\* The process is killed, or stopped by a signal.
Crash ==
    /\ up # "down"
    /\ failures < MaxFailures
    /\ failures' = failures + 1
    /\ Exit
    /\ UNCHANGED storage

----------------------------------------------------------------------------

Progress(c) ==
    \/ Stat(c) \/ Read(c) \/ NotModified(c) \/ Get(c) \/ Refresh(c)
    \/ Adopt(c) \/ Build(c) \/ BuildRejects(c)

Next ==
    \/ PublishResources \/ PublishAttachments
    \/ Load \/ Crash
    \/ \E c \in Calls : UpdateSchema(c) \/ Progress(c) \/ Fail(c)

Spec == Init /\ [][Next]_vars

\* The process is restarted when it ends, the timer keeps firing, and every
\* promise settles; nobody promises to POST /updateSchema.
Fairness ==
    /\ WF_vars(Load)
    /\ \A c \in TimerCalls : WF_vars(UpdateSchema(c))
    /\ \A c \in Calls : WF_vars(Progress(c))

FairSpec == Spec /\ Fairness

----------------------------------------------------------------------------

Object == [version : Nat \ {0}, attachments : Nat]
ObjectIds == 1..Len(heap)

TypeOK ==
    /\ store \in Stores
    /\ file \in [version : 1..MaxPublish, stamp : Nat]
    /\ attached \in 1..MaxPublish
    /\ failures \in 0..MaxFailures
    /\ up \in {"down", "loading", "running"}
    /\ heap \in Seq(Object)
    /\ cached.obj \in ObjectIds \cup {Undefined} /\ cached.stamp \in Nat
    /\ served \in ObjectIds \cup {Undefined}
    /\ schema \in 0..MaxPublish
    /\ call \in [Calls -> Call]
    /\ \A c \in Calls :
        /\ call[c].obj \in ObjectIds \cup {Undefined}
        /\ call[c].pc = "refresh" => cached.obj # Undefined
        /\ InFlight(c) => up # "down"
    /\ up = "running" => served # Undefined /\ schema # Undefined

\* A request reads _resourceGroup (policies, upstreams) and schema when it starts
\* to execute: unless a schema is being built, the two are of the same version.
ServedMatchesSchema ==
    up = "running" /\ (\A c \in Calls : call[c].pc # "build")
        => heap[served].version = schema

\* The resource group that requests are executed with always carries the compiled
\* policies: evaluate reads requestContext.resourceGroup.policyAttachments!.
ServedHasAttachments ==
    served # Undefined => heap[served].attachments # Undefined

\* POST /updateSchema answers 200 only when the gateway serves what was published
\* before the request.
UpdateSchemaAnswered ==
    \A c \in HttpCalls : call[c].pc = "ok" => schema >= call[c].since

\* A gateway that has loaded goes on serving: nothing that is published ends it.
KeepsServing == [][up = "running" => up' = "running"]_vars

\* What is published last ends up being served, with the latest policies.
Converges ==
    <>[](/\ schema = file.version
         /\ served # Undefined
         /\ heap[served].version = file.version
         /\ heap[served].attachments = attached)

\* The gateway implements SchemaPublication.
Publication == INSTANCE SchemaPublication
                 WITH published <- file.version, served <- schema
ImplementsPublication == Publication!Spec

=============================================================================
