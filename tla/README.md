# Verification of the Stitch GraphQL gateway

TLA+ models of [`services/`](../src/services) and of the commands in
[`cli/`](../src/cli) that deploy to it: the *registry*, which stores the
GraphQL schemas, policies and upstreams of many teams as one **resource group**,
and the *gateway*, which serves the GraphQL schema built from it. Both are
stateless Node processes that meet in a storage (a folder or an S3 bucket):
the registry writes two resource files and a folder of compiled policies, and
gateways poll them. A gateway resolves the fields of a request by directives
(policies, REST and GraphQL requests, local values) and calls upstreams with
tokens of its own.

Node runs one piece of JavaScript at a time, so the grain of every model is
the same: **one action is the code between two `await`s**, and everything else
(other requests, timers, the other process, a failure, a crash) may happen in
between. This is where the hard behaviour of the code is.

Paths below are relative to `src/services/src/modules` unless they start with
another top-level name.

## 1. Inventory

| Component | State | Operations | Talks to |
| --- | --- | --- | --- |
| **Resource repository** (`resource-repository/`) | `resourceGroup` (last one read, with its `lastModified` or `etag`), `policyAttachments` (compiled policies, `refreshedAt`) | `fetchLatest`, `refreshPolicyAttachments`, `update`, `write-`/`deletePolicyAttachment` | storage; called by the gateway's timer, by `POST /updateSchema`, by the resolvers |
| **Storage** (`storage/fs.ts`, `storage/s3.ts`) | files with a modification time or an etag | `readFile`, `writeFile`, `deleteFile`, `listFiles`, `fileStats` | file system, S3 |
| **Gateway schema service** (`apollo-server/create-graphql-service.ts`) | `_resourceGroup`, `schema`, the timer | `load`, `updateSchema`, `executor`, `stop` | repository, schema construction, every request |
| **Registry resolvers** (`registry-schema/resolvers/`) | one `pLimit(1)` queue per resolver module | update / validate, rebuild, delete, refreshRemoteSchema, queries | repository, plugins, validation, policy compilation, remote servers |
| **Policy compilation** (`registry-schema/helpers/policy-attachments-helper.ts`, `opa-helper.ts`) | temporary folder, `./bundle.tar.gz`, what to save and delete | `sync`, `writeToRepo`, `cleanup` | `opa` and `tar` processes, repository |
| **Policy execution** (`directives/policy/`) | two result caches for the life of the process | `validatePolicy`, `evaluatePolicy` and their sync forms, `@policyQuery` | wasm policies, the schema (policy queries), the request's resource group |
| **Schema construction** (`apollo-server/`) | none | `createGatewaySchema`, `buildFederatedSchema`: custom directives are collected from each service and merged over the services | called by the schema service and by the resolvers of the registry |
| **Policy directives** (`directives/policy/`, `apollo-server-plugins/base-policy.ts`) | what a policy allowed, per field | `@policy`, `@policies`, base policy, around the resolver of a field or an object | policy execution |
| **Data source directives** (`directives/`) | the objects of `@stub` in the schema; parents and exports of a request | `@rest`, `@gql`, `@stub`, `@select`, `@localResolver`, `@errorHandler`, `@export`, `@enumResolver` | upstreams |
| **Plugins** (`plugins/`) | list of plugins, in the order of loading | `loadPlugins`, the chain of `transformResourceGroup` | plugin modules |
| **Upstreams, AD tokens** (`upstreams/`) | issuers, token cache with a time to live | `applyUpstream`, `getAuthHeaders`, `getToken` | Active Directory |
| **Authentication** (`authentication/`) | one JWK client for an authority | three strategies, in order; discovery of an authority | request headers, authorities |
| **Validation** (`registry-schema/validation/`) | none | upstreams, characters and conflicts of names | called by the resolvers before every save |
| **Composite repository** (`resource-repository/composite.ts`) | none of its own | merges the `fetchLatest` of several repositories | repositories |
| **CLI** (`src/cli`) | none | `apply:resources`, `apply:base-policy`: read files, send, time out | registry |
| **Argument injection** (`arguments-injection/`) | none | templates evaluated as JavaScript | directives |

### What is hard in it, and what makes it correct

*Refresh of compiled policies.* Files are listed, dated, read and compiled in
separate awaits while the registry rewrites them, and whether a file is read at
all depends on comparing two clocks. **No rewrite may be missed for good; the
copy in memory must converge to the folder.**

*Gateway.* `updateSchema` has two callers that do not wait for each other; the
repository changes objects it has already handed out; a version of the resource
group can be invalid, and a rejected promise ends the process or not depending
on who called. **Requests must see one version, with its compiled policies; the
served version only moves forward and ends up being the last one; 200 means
installed; nothing that is published ends the process.**

*Registry.* Read, compute, compile, write n+2 files, without a transaction; one
queue per resolver but one set of files for all; errors and crashes anywhere;
requests that are repeated. **Requests apply one after the other; the two
resource files and the folder of compiled policies agree when nothing is in
flight; the files can be built into a schema; every request is answered, and
fails only if something failed.**

*Policy execution.* A cache of promises shared by all requests, policies whose
queries evaluate policies, resources that change under a running request.
**One evaluation serves all who need it at the same time; nobody waits for
ever; an answer is one that the policies gave.**

*Fields.* Every directive wraps the resolver that the ones before it left, or
forgets it; fields, objects and dropped promises run interleaved; services that
extend one type each bring directives of their own. **No order of directives or
services, no error handler and no merge lets a value past a policy that was
declared for it; refusals are reported; an export is the one of the nearest
ancestor.**

*Credentials.* Requests that miss a key, an issuer or a token each go and get
it, and overwrite each other's; tokens age on their way and in the cache.
**Nobody is let in without a valid token, or kept out because of what another
request met; an upstream gets a live token for itself, or none.**

*Deployment.* The CLI gives up while the registry goes on; a command is
repeated; names and hosts of teams and plugins collide; plugins load in any
order. **The registry's file changes by whole commands; what the gateways get is
unambiguous and complete; success means applied.**

The list of individual hazards, at the line where each bites, is in
`PROJECT.json`.

## 2. Plan

| Order | Module | Composes | State of the work |
| --- | --- | --- | --- |
| 1 | `PolicyAttachments` | | modelled, checked, safety proved |
| 2 | `GatewayService` implementing `SchemaPublication` | repository + schema service (+ the refresh as one step) | modelled, checked; safety and the safety part of the refinement proved |
| 3 | `Registry` implementing `ResourceStore` | resolvers + compilation + both resource files | modelled, checked; safety and the refinement proved |
| 4 | `PolicyExecutor` | caches + policy queries + resource changes | modelled, checked, safety proved |
| 5 | `FieldResolution` | base policy, policies, resolvers, local resolvers and error handlers around a field and its object | modelled, checked, safety proved |
| 6 | `FederatedSchema`, `GatewayQuery` | schema construction + `FieldResolution` + exports and enums | modelled, checked, safety proved |
| 7 | `Authentication`, `Upstreams`, `GatewayCredentials` | who gets in, and with what the gateway calls out | modelled, checked, safety proved |
| 8 | `ResourceGroups`, `Deployment` implementing `DeclaredResources` | CLI + updates and deletions + validation + plugins + composite repository | modelled, checked; safety and the refinement proved |
| 9 | registry's writes against the gateway's reads | what a gateway sees between the removal of a wasm file and the save of its resource file | left |
| 10 | `S3Listing` | paging of `listFiles` | left |

The last two are hazards in `PROJECT.json` without a property.

Abstract specifications: `SchemaPublication` (a gateway serves published
versions and moves forward), `ResourceStore` (the registry's resource group
changes by whole requests), `DeclaredResources` (it holds at most one declaration
of a name, and changes by whole commands). Each proof module is named after the
module it is about (`Registry_proofs` and so on; `GatewayQuery_proofs` is also about
`FieldResolution` and `FederatedSchema`); `Folding` has what several of them need of
`FoldLeft`.

Loops over lists are folds throughout, also where the code calls itself
(`ResolveExport`), because a module with a recursive operator is closed to the
provers; `Sublists` has the filters and concatenations that several modules use.
Theorems worth proving next are those of modules 9 and 10.

## 3. The modules

### PolicyAttachments

`ResourceRepository.refreshPolicyAttachments`, with `listFiles` of the file
system. A file's content is the number of the write that produced it.

| Model | Code |
| --- | --- |
| `attachments`, `refreshedAt` | `this.policyAttachments` |
| `call[c]` | local variables of one `refreshPolicyAttachments` and of the `listFiles` it awaits: `newRefreshedAt`, names, dates, `attachmentsToRefresh`, `newAttachments` |
| `Start`, `ReadDir`, `Stat` | `newRefreshedAt = new Date()`, `readdir`, one `stat` per file |
| `Select` | the filter with `shouldRefreshPolicyAttachment` (`ShouldRefresh`), after the last `stat` |
| `Read`, `Install` | `getPolicyAttachments`; the loop that compiles and assigns |
| `Conclude` | the synchronous end: drop deleted files, set `refreshedAt` (part of the `Select` or `Install` it follows without an await) |
| `FileGone`, `Fail`, `Restart` | a file deleted between two awaits; any other rejection; the process starts anew |
| `WriteFile`, `DeleteFile` | the registry's writes; `Elapsed` and `Lag` say how `lastModified` relates to the gateway's clock |

The code does miss a rewritten file in two situations, and `excused` (a ghost)
remembers which files are in one of them, until they are rewritten:

* `lastModified` of the rewritten file is not later than the beginning of a refresh
  before the write (S3 rounds to seconds; the comparison is a strict `>`);
* the file was written while a refresh was in flight, and another one began before
  that one ended: it may install what it read before the write, and the date of the
  later refresh then counts for it.

Everything that is said of missed updates is said of any clocks and any overlap, with
just these files left out. `NeverMissed` leaves none out, and the code does not
satisfy it.

### GatewayService, SchemaPublication

`load`, `updateSchema` and the state requests read (`_resourceGroup`, `schema`)
over `fetchLatest` of both repositories. `ResourceGroup` objects have an
identity (`heap`), because the repository keeps the object it returned and sets
`policyAttachments` on whatever `this.resourceGroup` is by then.

| Model | Code |
| --- | --- |
| `cached`, `served`, `schema` | `this.resourceGroup`, `_resourceGroup`, `schema` |
| `Stat`, `Read` | file system: `fileStats` and the comparison with `lastModified`; `readFile` |
| `NotModified`, `Get` | S3: conditional GET with the etag known when the call began |
| `Refresh`, `Adopt` | end of the refresh with and without something new; `Adopt` assigns `_resourceGroup` |
| `Build`, `BuildRejects` | `createGatewaySchema` returns, or throws on `BadVersions` |
| `Reject`, `Exit` | status 500 over HTTP; for the timer and for `load` an unhandled rejection, which `shutdown-handler.ts` turns into an exit |
| `Load`, `UpdateSchema`, `Crash` | boot; timer or `POST /updateSchema`; the process is killed |

`SchemaPublication` is the promise: serve nothing or a published version, move
forward only, and do not stay behind for ever.

### Registry, ResourceStore

All mutations of the registry. A resource group is reduced to its policies (a
code each), the remote server that each schema refers to, and the introspected
remote schemas; upstreams, their credentials and the base policy take the same
path through the code as schemas do.

| Model | Code |
| --- | --- |
| `registryFile`, `gatewayFile`, `folder` | the two resource files and the folder of wasm files |
| `tmp`, `bundle` | the temporary folder and `./bundle.tar.gz` in the registry's working directory |
| `queue`, `Submit`, `MyTurn` | the `pLimit(1)` of each resolver module |
| `Fetch` | `fetchLatest`, `applyResourceGroupUpdates` / `-Deletions`, what `sync` will find |
| `UpdateResources`, `RebuildResources`, `DeleteResources` | the three resolvers from `updateRemoteGqlSchemas` to the trial `createGatewaySchema`; the deletion does not await the introspection |
| `RefreshRemoteSchema`, `Overlay` | the fourth resolver |
| `Compile`, `Unpack` | `prepareCompiledRegoFile`: `opa build`, then `tar`, `mv`, `rm` |
| `Attach`, `Detach`, `Save` | `writeToRepo` file by file; the two `update`s under `Promise.all` |
| `Finish` | `finally`: `cleanup`, and the next request of the queue |
| `Fail`, `LateWrite`, `Crash` | a rejection at any await; the save that `Promise.all` no longer waits for; the process exits |

### PolicyExecutor

Both `CachedOperation`s, policy queries, resources that are replaced and
compiled policies that are refreshed in place.

| Model | Code |
| --- | --- |
| `asyncCache`, `syncCache` | `operationCache` of each, by policy and arguments |
| `version`, `compiled` | `_resourceGroup`; the `policyAttachments` on each of its versions |
| `Open`, `Close` | `executor`: the request keeps the resource group it starts with |
| `NotDefined`, `Validate`, `Receive` | `evaluatePolicy` up to the promise, and its result |
| `Ask`, `Settle` (`QueryErrs`, `KeptAnswers`, `Result`), `QueryFails` | `getQueryResult` and `@policyQuery`; the promise settles with what the policy says of these answers |
| `UpdateResources`, `RefreshPolicies` | `updateSchema` assigns a new resource group; `fetchLatest` refreshes the compiled policies of the one that is served, in place |
| `ValidateSync` | `evaluatePolicySync` (the base policy) |

### FieldResolution, FederatedSchema, GatewayQuery

`FieldResolution` runs the fields of one request through the resolvers that
directives built. A field is a resolver (`default`, `stub`, `rest`, `gql`) with
wrappers; a *call* is one execution of the field, or of `resolveObject` for an
object type that has directives; a *thread* of a call is where its chain of
awaits stands, and a second one starts where `@localResolver` drops a promise.

| Model | Code |
| --- | --- |
| `impl[f]` | the field's `resolve` after all visitors, as resolver and wrappers, and the directives of the declaration |
| `thread`, `Main` | the awaits of a chain of wrapped resolvers; the one the executor awaits |
| `CheckBasePolicy`, `OverridesBase` | `willResolveField` of `base-policy.ts` |
| `ResolveObject`, `Begin` | `resolveObject`, once for an object; the field's own resolver |
| `ValidateBefore`, `ValidateAfter` (`Validate`, `Approves`) | `@policy` and `@policies`, with `postResolve` and `relation` |
| `Await`, `Select`, `HandleError` | `@select`, `@errorHandler` |
| `Resolve`, `SendRequest`, `ReceiveResponse` | property or `@stub`; `@rest` and `@gql` with their status codes |
| `LocalResolver`, `PassLocal` | `@localResolver` with its three strategies, around a value and around a promise |
| `Finish`, `crashed` | the thread ends; a rejection nobody handles is an exit (`shutdown-handler.ts`) |

Values are sets of origins (`parent`, `remote`, `stub`, `local`, `handler`) with
the identity of their object; what a policy answers is a free choice, because
`PolicyExecutor` has the inside of it; `validated`, `granted` and `baseAllowed` remember
what was asked and allowed, for the properties.

`FederatedSchema` is the way from the services' ASTs to those resolvers
(`collectAndRemoveCustomDirectives`, the merges, `addDirectivesToTypeDefs`, the
visitors, and whether `createGatewaySchema` throws); `GatewayQuery` starts a
request on a schema so built and adds the tracking of parents (`Track`) and
`ResolveExport`. Federation itself is external: `Composes` is what
`composeAndValidate` asks of the services, as far as directives depend on it, among
it that all services that have an enum have all its values. `ResolveExport` searches
from parent to parent for as many steps as there are calls, where the code calls
itself: the two differ only for a constant of the schema that is returned below
itself, whose search the code does not end.

### Authentication, Upstreams, GatewayCredentials

| Model | Code |
| --- | --- |
| `Accept`, `Refuse` (`AllowsAnonymous`, `AllowsApiKey`, `MayVerify`) | the strategies in order, as far as they are synchronous |
| `GetJwkClient`, `Discover`, `DiscoveryFails`, `Verify`; `jwkClients` | `get-secret.ts`, one client for an authority; the verification of `fastify-jwt` |
| `ApplyUpstream` (`UpstreamOf`, `HeadersOf`, `KeyOfToken`) | `applyUpstream`: choice of the upstream, its headers, credentials, a token from the cache |
| `DiscoverIssuer`, `Grant`, `ReceiveToken`, `FailToken`; `issuers`, `tokens` | `getIssuer` and `getToken` up to each await; `Until` is the time to live of `node-cache` |
| `Tick` | time, in which an answer is not later than `MaxDelay` (the client's timeout) |
| `Execute`, `CallUpstream` (`GroupOfCall`) | a request keeps the resource group and the schema it started with; `@rest` calls with the former, `@gql` with the group that the schema was built of |
| `UpdateSchema`, `CreateGatewaySchema` | the next group is installed before its schema is built; builds may overlap and fail |

### ResourceGroups, Deployment, DeclaredResources

`ResourceGroups` has resource groups as values: `PathToResourceGroup` (files and
schema files; of several definitions of a root type the fields are merged and the
directives of the first are kept), `ApplyResourceGroupUpdates` and `-Deletions`, `ValidResourceGroup`,
`TransformResourceGroup` and `CombinedGroups`, and for properties the set of
`Declarations` of a group. `Deployment` moves them:

| Model | Code |
| --- | --- |
| `RunCommand`, `ReceiveAnswer`, `TimeOut` | `apply:resources` and `apply:base-policy`: everything is read, then sent once; the exit code |
| `LoadPlugin`, `Restart` | `loadPlugins`: a plugin is kept when its loading ends |
| `TransformBy` | `transformResourceGroup` of one plugin: it may delete, replace and add resources |
| `UpdateResources` | the update and its validating twin: fetch, apply, transform, validate, save; `Registry` has the inside |
| `DeleteResources`, `RebuildResourceGroup` | the other resolvers |
| `FetchLatest`, `RepositoryGroups` | `getResourceRepository` and `CompositeResourceRepository` |

`DeclaredResources` is what teams may rely on: a set of declarations, which
changes by whole commands.

## 4. The runs

| Run | Properties | Question | Bounds |
| --- | --- | --- | --- |
| `refresh` | `NoMissedUpdate`, `Converges` | Is a rewritten policy ever missed, but for the two exceptions? Does the copy in memory converge? | 2 files (one to be skipped while the other is read), both there before the gateway starts; 2 refreshes that may overlap; stamps of now or of the time before; 1 rewrite and any deletions, 1 failure or restart; 389,995 states |
| `gateway_timer` | `ServedMatchesSchema`, `Converges`, `ImplementsPublication` | Updated by its timer alone, does the gateway serve consistent, ever later versions, and the last one in the end? Either repository. | 3 versions of the file and 3 of the attachments (a version can be overtaken while it is read), 2 failures or crashes |
| `gateway_http` | `ServedHasAttachments`, `KeepsServing` | Updated by `POST /updateSchema` alone, does it survive an invalid version? | 4 versions, the second one invalid |
| `registry_one_client` | `GatewayKnowsUrls`, `InSync`, `FailsOnlyOnFault`, `OkMeansDeployed`, `ImplementsStore`, `Answered` | Does each kind of request, alone, do what it promises? | 2 policies (one with arguments, hence always recompiled), 2 schemas, 2 remote servers that change once, every kind of request |
| `registry_updates` | `OwnCode`, `ImplementsStore` | Does `pLimit(1)` keep two clients of the update resolver apart? | 2 clients, 4 requests over shared and different policies, dry run included |
| `registry_faults` | `RegistryKnowsUrls` | What survives overlapping resolvers, an error and a crash? | 2 clients, one request of each kind, 1 failure anywhere |
| `policies_changing` | `ExecutedOnce`, `SameAnswer`, `Justified`, `WaitingEnds` | Are results shared and settled under updates, refreshes and failing queries, and is each one what the policy says of the answers it was given? | 2 policies, one whose query evaluates the other and whose verdict depends on the answer; 2 versions of resources and policies, the second drops a policy and its wasm file; 2 requests; 368,080 states |
| `fields` | `TypeOK`, `GuardedAnswers`, `RequestAuthorized`, `RefusalReported`, `NoRefusalLost`, `BaseOrOverride`, `DeclaredPolicyGuards`, `ExportsOfAncestors`, `EnumsRoundTrip` | Does any order of directives, services, threads and errors let data past a policy, hide a refusal, read a wrong export? | every schema of `MCRegistered` (one or two services; `@rest`, `@stub`, `@gql` under policies, merges, handlers; directives on the object type; enums annotated twice); two users, their cards, the logo of one; with and without policies; 168,224 states |
| `credentials` | `VerifiedByAuthority`, `RefusedOnlyOnFailure`, `TokenAlive`, `TokenOfUpstream` | Do requests, discoveries and tokens that overlap disturb each other? | 2 requests of 14 kinds, 3 issuers of 2 authorities, 3 calls, two of them to one upstream; 2 versions of the resource group, a call by `@gql` and two by `@rest`; lifetimes below, at and above the margin, and none stated; 2,757,422 states |
| `deployment` | `OneOfEachName`, `Unambiguous`, `OkMeansApplied`, `DeclaredIsPublished`, `ServesBoth`, `RepeatChangesNothing`, `ImplementsDeclared` | What do repeated, late and conflicting commands make of the files? | 2 users with 3 and 4 commands, one deletion, 2 plugins that delete and add, among it one name, 1 restart; 103,480 states |
| `policies_stale` | `OwnVerdict` | *violation*: a request after an update of the policies | 2 versions |
| `local_merge` | `MergesOriginal` | *violation*: a merging `@localResolver` around an asynchronous resolver | the schemas of `fields` |

The bounds are small because the hazards are: each needs two actors or two
attempts, one file or policy that changes and one that does not, and one failure
between two steps. `MaxWrites`, `MaxPublish`, `MaxVersion` and `MaxFailures` only
stop counters, as `MaxClock` and `MaxRestarts` do; `MaxWrappers` bounds the length
of what directives leave on a field; no other state is cut off. Symmetry is used for clients
where only safety is checked.

### What the violations show

* **Stale results** (`policies_stale`): the specification says results are
  memoized "for a request context"; the cache belongs to the process.
* **A merge that loses a value** (`local_merge`): the documentation says that with
  `Merge` and `MergeDeep` the original result and the value are merged;
  `@localResolver` does not await the original (`local-resolver.ts`), so what is
  merged is a promise. `Merge` drops it, and if it rejects the gateway exits.

Configurations that are not in `PROJECT.json` show further traces of the same
code, each the counterpart of an assumption or a hazard; run them with
`tlc -config X.cfg M`:

| Configuration | Shows |
| --- | --- |
| `PolicyAttachments_missed` | without its two exceptions `NoMissedUpdate` does not hold (`NeverMissed`): with one caller TLC finds the coarse stamp, with `Lag = {0}` and `Elapsed = {1}` the refreshes that overlap |
| `GatewayQuery_uncovered` | without its exception `BaseOrOverride` does not hold (`AlwaysBaseOrOverride`): `base-policy.ts` skips the base policy for a `@policy` that a later resolver directive has removed. `docs/authorization.md:200` asks for `@policy` to come last; nothing enforces it |
| `GatewayService_overlap_answer` | 200 while the overlapped poll still builds the schema |
| `GatewayService_invalid_poll` | an invalid version met by the timer ends the process |
| `Registry_shared_files` | two resolvers compile at once and one policy gets the code of the other |
| `Registry_delete_again` | on the file system a half done deletion cannot be repeated: `unlink` fails |
| `Registry_late_save` | the save that `Promise.all` gave up lands on the next request's |
| `Registry_unbuildable` | a crash between the two saves and a refresh leave the gateways a file without a remote schema they need |
| `Registry_s3_retry` | on S3 nothing an error or a crash left behind makes the next request fail (holds) |
| `GatewayService_overlap_attachments` | `fetchLatest` sets `policyAttachments` on `this.resourceGroup` after an await (`resource-repository.ts:37`); when two updates overlap, a gateway serves a group that has none |
| `GatewayService_invalid_retry` | a group counts as read as soon as it was read (`resource-repository.ts:34`): a refused update that is repeated finds nothing new and answers 200 |
| `Registry_lost_update` | the queues are per resolver module (`rebuild-resource-group.ts:12` and its siblings), the files are not |
| `Registry_reapply` | what to compile is decided against the registry's file alone; after a deletion that failed half way, sending the policy again compiles nothing |
| `PolicyExecutor_kept_error`, `PolicyExecutor_denied_again` | a rejected promise is kept for ever; a denial in the sync cache is taken for a miss |

### Fairness

* `PolicyAttachments`, `GatewayService`: `setInterval` keeps calling, the
  process is restarted by its supervisor, and every promise settles (weak
  fairness of each call's steps). Nobody promises to call `POST /updateSchema`
  or to publish, and failures are bounded, so convergence is claimed after they
  end.
* `Registry`: every promise settles (`Step`, `LateWrite`). `pLimit` runs its
  queue in order, so weak fairness is enough for each request to be answered.
  No client has to send anything.
* `PolicyExecutor`: queries are executed, promises that can settle do. Nothing
  is claimed about queries that ask in a circle: they would wait for ever; `Asks` is acyclic in the runs.
* The other modules state safety only: a gateway promises nothing about an
  upstream or an authority that does not answer, and a user need not run a
  command again.

## 5. What is proved

`PolicyAttachments_proofs`, for any set of files, any number of writes, failures
and callers:

* `TypeCorrect`: `Spec => []TypeOK`, however many refreshes overlap. Besides the
  types, `TypeOK` says that what a refresh selected, and what it still has to do,
  lies within what it listed.
* `RefreshInvariant` and `NoUpdateMissed`: `Spec => []NoMissedUpdate`, for any clocks and
  stamps and however many refreshes overlap. What is exempt is in the property: the
  files of `excused` (section 3).

`NoMissedUpdate` is not inductive: when a refresh ends it sets `refreshedAt` and
forgets its listing, so one has to know, file by file, how far it got. `RefreshInv`
follows a file through each refresh: what is not listed was not there, and the date
that was read is still its date (`ListingKnown`), a file that was skipped is current
(`SkippedCurrent`), the content that was read is still in the folder (`ContentKnown`),
and so is what was installed (`InstalledCurrent`), **or** the file is gone or dated
after the refresh began (`Unsettled`), in which case the next refresh reads it again,
because `refreshedAt` is the date at which the refresh *began*. With several refreshes
one must not undo what another knows: `SameSide` says that a file that was written after
one of them began was written after all of them began. There is one lemma per
group of actions; `ConcludeStep` serves both ends of a refresh (`Select` and
`Install`).

`PolicyExecutor_proofs`, for any policies, verdicts, queries (circular ones
included), requests, versions and failures; the only assumptions are the types of
the constants:

* `TypeCorrect`: `Spec => []TypeOK`.
* `CacheInvariant`, and from it `ExecutedOnceHolds`, `SameAnswerHolds` and
  `JustifiedHolds`.

`ExecutedOnce` needs the link between a promise and the count of its policy's
runs, which `TypeOK` has: no promise, no run. `SameAnswer` compares two requests
that may have been answered long apart; `AnswerIsKept` compares each with the
cache instead, which never drops or replaces a promise that has settled
(`PromiseKeepsAnswers`). `Justified` traces an answer back: what is kept for a
policy was said by some version of it that the gateway has had (`NewestPolicies`),
given just the answers that are kept for the policies of its query, and so on down
(`KeptIsGiven`). That a promise settles only when those answers are there, and
that they never change afterwards (`GroundedStays`), is what keeps the trace; the
versions along it may differ, and the constants of the run have a policy that is
thereby allowed though no single version would allow it. `PromiseStep` says once what
`Validate`, `Ask`, `Settle` and `QueryFails` do to a promise, and the other lemmas use it
instead of the actions.

`GatewayQuery_proofs`, first on `FieldResolution`, for any calls, fields, directives in any order and any
number of them, policies and base policy. It rests on `CallsAssumption` (which
calls there are; the object of a call has itself no object), `PoliciesAssumption`
and `ImplsAssumption` (a field is a resolver with wrappers):

* `TypeCorrect`, `GuardedAnswersHolds`, `RequestAuthorizedHolds`,
  `RefusalReportedHolds`, `NoRefusalLostHolds`, `BaseOrOverrideHolds`.

None of them is inductive. A thread that carries a value on its way up no longer
says which policies it passed on its way down, and a second thread of the same
call, which a dropped promise started, could change the ghosts under it. The
invariant therefore has these parts: `TypeInv` (where a thread may stand),
`AloneInv` (the threads below one that descends, waits or carries data of the
resolver have not begun, so no two threads of a call work on the same wrappers),
`GuardInv` (what is checked before the resolver has allowed from the top down to
where the thread is; what is checked after it, from the resolver up to there; and
data of an object means its call ended with data) and `ReportInv` (from a wrapper
that refused upwards there is an error, or a wrapper that takes errors in
between). The actions are eleven and the directives many, but a step moves a thread
in few ways; `Shapes` reduces every step to one of them, and each part of the
invariant is proved over the shapes.

`NoRefusalLostHolds` adds `LostInv`. `Noticed`: if a policy has refused inside a
thread that carries a value back, with no other thread of the call begun between the
two, then a wrapper that takes errors stands between the policy and where the value
is. `Loud`: a dropped thread that ended with an error made the gateway exit. When a
call is over, the innermost thread that was begun outside the policy is the one to
look at: `Noticed` gives the wrapper that took the error, or `Loud` the exit.

`BaseOrOverrideHolds` adds `BaseInv`: a call that began, and has not ended with an
error, was let in (`LetIn`): the base policy allowed it, or a policy of the field
overrides the base policy, or policies are off. In the second case that policy has
to be around the resolver, which is so only where no resolver directive follows it
(`OverridesStay`, the exception of the property): the
visitor of a resolver replaces `field.resolve` with whatever was wrapped around it.
`ImplsAssumption` therefore says what the visitors leave (`KeepsPolicies`): a
declared policy wraps the resolver unless a resolver is declared after it.

`GatewayQuery_proofs` then goes on to the schemas that the gateway composes, for any
services, types, directives and any tree of calls:

* `QueryIsResolution`: `SpecQuery => Spec`; a request on a composed schema is one of
  `FieldResolution`, and so `QueryGuarded`: all of the above holds of it.
* `ComposedFieldsKeepPolicies`: what `ImplsAssumption` says of the visitors is so for
  every schema that the gateway builds. This needs no assumption about the fields of
  schemas, only that the parts of a schema are lists.
* `DeclaredPolicyGuardsHolds`: carries `GuardedAnswers` from the wrappers of a field
  to the directives that teams wrote. A directive keeps its place relative to the others
  through every list that the gateway makes of its list: it is not one of Apollo's, so
  the collection keeps it; the merge concatenates; the filter for objects keeps policies;
  the visitors append it, and drop it only where a resolver follows. The proof says this
  of each of the lists (`Filtered`, `JoinedLists`, `VisitedField`), then of the directive
  (`DeclaredWraps`), and ends with `GuardInv`, which has the policies around an answer.
* `ExportsOfAncestorsHolds`: from `ParentInv` (who has started has a parent that answered)
  and `TrackInv` (an object of its own that a call answered with is mapped to that call). The
  calls above a call are its `Lineage`, the least set with it that is closed under
  `parentOf`; as it is finite and no call is above itself, the search reaches, within as
  many steps as there are calls, the first that exports the key, or the root
  (`SearchEnds`).
* `EnumsRoundTripHolds`: values that the merge takes all from one service, the last
  that annotates the enum (`MergedLast`, `AnnotatedLast`), differ, and so `Array.find`
  in `serialize` finds the one that `parseValue` came from.

They rest on `FieldsAssumption` (fields belong to object types, the fields of a type are
in an order without repetition), `ParentsAssumption` (calls are finitely many and form a
tree), `SchemasAssumption` and `BuiltAssumption` (the resolvers that schemas give to the
fields are among `Impls`, the ones that `FieldResolution` is about). `EnumsRoundTrip`
does not hold where two services declare an enum with different values: each annotates
all of its own, and the merge mixes them. Federation refuses such services, which
`Composes` says for that reason.

`GatewayCredentials_proofs`, for any requests, issuers, authorities, resource
groups, calls and lifetimes:

* `TypeCorrect`.
* `VerifiedByAuthorityHolds`, `RefusedOnlyOnFailureHolds`: from `AuthInv`, which says
  that a client reads the uri of some issuer of its authority (`ClientsInv`) and
  what a request owes its outcome to (`Outcome`). It rests on `IssuersAssumption`.
* `TokenAliveHolds`: from `TokenInv`. The end of a kept token is reckoned when it
  arrives, so it depends on how late that is; the invariant keeps the end below
  the token's life because the margin makes up for the delay (`TimeAssumption`:
  `MaxDelay <= Margin`). The theorem's own premise, that no stated lifetime is shorter
  than an answer may take, is needed for a token that is used as it arrives. A lifetime
  of exactly the margin, and one that is not stated, are exempt (`Endless`): `node-cache`
  keeps their tokens for ever.

* `TokenOfUpstreamHolds`: from `KeyInv` and `GroupInv`. A call is followed through its
  awaits (`Follows`): the key it computed from its upstream and credentials is the one
  it looks up, the one it grants for and the one it keeps the answer under, while
  other calls fill the same cache and the resource group and the schema are replaced. What is kept
  under a key is for that key, one token for each (`Kept`). It rests on
  `GroupsAssumption`, `TimeAssumption` and `RequestOfAssumption`.

The steps that discover keys and those that fetch tokens change different
variables: each proof leaves the steps of the other half in one line.

`GatewayService_proofs`, for any timers and clients, versions and failures, on both
kinds of storage:

* `TypeCorrect`, however calls overlap.
* `PublishingEndsNothing`: without failures `KeepsServing`, if there is no timer or no
  invalid version. The premise is what `GatewayService_invalid_poll` breaks.
* `AttachmentsServed` and `PublicationImplemented` under `OneCaller` (the timer, or one
  client, and not both): a served group has its attachments, and every step is one of
  `SchemaPublication` or none. `GatewayService_overlap_attachments` has two callers.
* `SchemaMatchesServed` under `OneCaller`, where nothing is rejected or every rejection
  ends the process: `_resourceGroup` is assigned before the schema is built, so a
  rejection that is survived leaves the two apart.
* `AnswersAreCurrent`: an answer to `updateSchema` means that the gateway serves what was
  published before the call, under `OneCaller`, `NothingRejects` and file dates that
  move with every write (`0 \notin Elapsed`: a file is taken for unchanged when its
  date is). Overlap and rejections break it (`GatewayService_overlap_answer`,
  `GatewayService_invalid_retry`).

What a call has in hand is related to the repository rather than to the file:
`FlightInv` says that it carries the very object that is cached, no older than
the schema, `MatchInv` that the schema lags behind `served` only while it is being
built, `AnswerInv` that the version that is cached is the one whose date or etag
is remembered.

`Registry_proofs`, for any clients, policies, urls and requests, with one lemma for
the effect of each action. Besides `MarkedAssumption`, `NoneAssumption` and
`OperationsAssumption` (types of the constants) each theorem has the premises of its
line:

| Theorem | Property | Premises |
| --- | --- | --- |
| `TypeCorrect`, `RequestsTakeTurns` | `TypeOK`, `Exclusive` | none: any overlap, failure and crash |
| `RemoteSchemasKept` | `RegistryKnowsUrls` | none |
| `GatewaysBuildWithoutRefresh` | `GatewayKnowsUrls` | `NoRefresh` |
| `CompiledFromOwnCode` | `OwnCode` | `OneAtATime` |
| `StoreImplemented` | `ImplementsStore` | `OneAtATime`, and no late write is pending (`[](late = {})`) |
| `OnlyFaultsFail`, `FilesInSync`, `GatewaysBuild`, `WholeRequests` | `FailsOnlyOnFault`, `InSync`, `GatewayKnowsUrls`, `ImplementsStore` | `OneAtATime`, `MaxFailures = 0` |
| `SuccessIsDeployed` | `OkMeansDeployed` | `OneClient`, `MaxFailures = 0` |

`OneAtATime` is one client, or requests of one resolver, which `pLimit(1)` puts in
a queue. That the queue works is itself a theorem: `Turns`, the part of `TypeInv` next to
the types, says that a request that runs is first in its queue and in it once.
`Registry_shared_files` shows that two resolvers break `OwnCode`,
`Registry_late_save` a late write that breaks `ImplementsStore`, and
`Registry_unbuildable` a crash with a refresh that breaks `GatewayKnowsUrls`.
`RegistryGroups` says that every group a request has in hand, not only the file, knows
the urls of its schemas; `GatewayGroups` the same of the other file; `OwnInv` that
wherever code comes by on its way to the folder it is code of its policy, and that
the one bundle is of the policy that is being compiled; `StoreInv` that what a
request is about to save derives from the file as it still is. `SyncInv` follows a request up to its save: before
it the files agree (`BeforeSave`), while it lasts each is the old one or the new one
(`WhileSaving`).

`Deployment_proofs`, for any files of users, commands, plugins, deletions and
restarts: `TypeCorrect`, `NamesAreUnique` (`OneOfEachName`), `FileIsUnambiguous`
(`Unambiguous`), `OkIsApplied` (`OkMeansApplied`), `PublishedAsDeclared`
(`DeclaredIsPublished`), `BothAreServed` (`ServesBoth`), `RepeatsAreHarmless`
(`RepeatChangesNothing`) and `DeclaredImplemented` (`ImplementsDeclared`). They rest on
`TextAssumption` and `GroupsAssumption` (what files and plugins contain are resource
groups, and the file system's group has no twins), `NoneAssumption` and
`BoundAssumption`. The invariant is `PluginsInv`, `FilesInv` (both files are groups
without twins, with the same declarations but for what plugins touch, and the gateways' is
valid), `CommandsInv` (who said ok was applied) and `LastInv` (the request applied last
still shows, and would change nothing).

Most of the work is about lists: an update replaces or appends one resource
after the other. `Upserted`, `Updated` and `Filtered` say what that does to a list,
`UpdatedGroup` and `DeletedGroup` what it does to declarations, `Transformed` what
plugins do. `AppliedAgain` is the surprising one. A request may declare a name twice,
so that applying it again first puts the older resource back: the list is not
unchanged in between, only at the end.

`Folding` has the lemmas that say what folds are for: `FoldPath`, that the result of `FoldLeft` is
reached from its base by one step for each element, and `FoldSteps`, that what
the base has and a step keeps, the result has. `FoldLeft` chooses a recursive
function; that the choice exists follows from a least counterexample, because no
induction rule with an operator parameter can be used.

## 6. What is only checked, and what is left out

Checked by TLC on the instances above, and not proved:

* liveness (`Converges`, `Answered`, `WaitingEnds`) and the part of
  `ImplementsPublication` that is fairness: out of the proof system's reach.

All other properties of the passing runs are theorems, some of them under the premises that
section 5 names.

Abstractions, beyond the tables of section 3:

* In `Registry` plugins are the identity and validation accepts what the clients
  send; `Deployment` has both, and there a request is applied in one step.
* Reading or writing one file is one step. (`fs.writeFile` is not atomic.) The
  metadata file that `update` writes next to a resource file is not read by
  anyone; that its write may fail is part of `Fail`.
* In `GatewayService` a refresh of the compiled policies is one step;
  `PolicyAttachments` has its inside.
* `shutdown-handler.ts`: a signal during a call is a crash.
* Compiled policies are pure functions of their arguments and of their queries; in
  `FieldResolution` their answers are arbitrary.
* `FieldResolution` asks each policy of a wrapper in one step; conditions of
  `@errorHandler`, `enabledIf` and paths of `@select` are free choices.
* The etag of a combined group, its compiled policies and remote schemas are left
  out of `CombinedGroups`: only those of the first repository are kept.
* A token is a record of whom it is for and when it was granted; a signature is
  genuine or not.

Not modelled:

* Argument injection: templates and policy arguments are JavaScript, evaluated in a
  virtual machine; so are urls and bodies of `@rest` and `@gql` that they fill in.
* `transformBaseSchema`, the Apollo server plugins and the globals that plugins
  bring; the command `refresh:remote-schema` (the registry's side of it is in
  `Registry`).
* Evaluation of a policy in the wasm runtime, and the syntax of Rego.
* Paging of S3 listings and partly written files.
* `implicit-type-resolver.ts`, HTTP wiring, CORS, configuration, logging and
  metrics: no state that a property could be about.

`PROJECT.json` has every component with its status.
