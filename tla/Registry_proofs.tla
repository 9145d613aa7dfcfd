--------------------------- MODULE Registry_proofs ---------------------------
(***************************************************************************)
(* Proofs about the registry (Registry), for any policies, schemas, remote *)
(* servers, clients, requests and bounds.                                  *)
(*                                                                         *)
(* Every action has a lemma that says what it makes of the request it is a *)
(* step of (FetchEffect ... CrashEffect); the invariants are proved from   *)
(* these lemmas and not from the actions.                                  *)
(*                                                                         *)
(*   whatever overlaps and fails   TypeCorrect, RequestsTakeTurns,         *)
(*                                 RemoteSchemasKept                       *)
(*   and nothing is refreshed      GatewaysBuildWithoutRefresh             *)
(*   one request at a time         CompiledFromOwnCode, StoreImplemented   *)
(*   and nothing fails             OnlyFaultsFail, FilesInSync,            *)
(*                                 GatewaysBuild, WholeRequests,           *)
(*                                 SuccessIsDeployed                       *)
(*                                                                         *)
(* One at a time: there is a single client, or all requests are of one     *)
(* resolver, whose singleton(...) makes them take turns.                   *)
(***************************************************************************)
EXTENDS Registry, TLAPS

----------------------------------------------------------------------------
(* Resource groups. *)

\* What a request makes of a resource group: its policies and schemas replace
\* those of their names, the remote schemas stay.
LEMMA ApplyType ==
  ASSUME NEW g \in ResourceGroup, NEW op \in Operations
  PROVE  LET h == Store!Apply(g, op)
         IN  /\ h \in ResourceGroup
             /\ h.policies = Store!Override(g.policies, op.policies)
             /\ h.uses = Store!Override(g.uses, op.uses)
             /\ h.remote = g.remote
             /\ \A p \in Policies : h.policies[p] =
                    IF p \in DOMAIN op.policies THEN op.policies[p] ELSE g.policies[p]
             /\ \A s \in Schemas : h.uses[s] =
                    IF s \in DOMAIN op.uses THEN op.uses[s] ELSE g.uses[s]
<1>1. /\ g.policies \in [Policies -> Code] /\ g.uses \in [Schemas -> Urls \cup {NoUrl}]
      /\ g.remote \in [Urls -> Nat]
  BY DEF ResourceGroup
<1>2. /\ \A p \in DOMAIN op.policies : op.policies[p] \in Code
      /\ \A s \in DOMAIN op.uses : op.uses[s] \in Urls \cup {NoUrl}
  BY OperationsAssumption
<1> DEFINE P == Store!Override(g.policies, op.policies)
           U == Store!Override(g.uses, op.uses)
<1>3. /\ P \in [Policies -> Code]
      /\ \A p \in Policies : P[p] = IF p \in DOMAIN op.policies THEN op.policies[p] ELSE g.policies[p]
  BY <1>1, <1>2 DEF Store!Override
<1>4. /\ U \in [Schemas -> Urls \cup {NoUrl}]
      /\ \A s \in Schemas : U[s] = IF s \in DOMAIN op.uses THEN op.uses[s] ELSE g.uses[s]
  BY <1>1, <1>2 DEF Store!Override
<1>5. Store!Apply(g, op) = [g EXCEPT !.policies = P, !.uses = U]
  BY DEF Store!Apply
<1> HIDE DEF P, U
<1>6. /\ Store!Apply(g, op) \in ResourceGroup
      /\ Store!Apply(g, op).policies = P /\ Store!Apply(g, op).uses = U
      /\ Store!Apply(g, op).remote = g.remote
  BY <1>3, <1>4, <1>5 DEF ResourceGroup
<1>7. QED
  BY <1>3, <1>4, <1>6 DEF P, U

\* The resource group after the introspection of what is missing knows the remote
\* servers it uses, and keeps its policies and its schemas.
LEMMA IntrospectedType ==
  ASSUME NEW g \in ResourceGroup, version \in Nat \ {0}
  PROVE  /\ Introspected(g) \in ResourceGroup
         /\ Introspected(g).policies = g.policies
         /\ Introspected(g).uses = g.uses
         /\ Used(Introspected(g)) = Used(g)
         /\ Used(g) \subseteq Known(Introspected(g))
         /\ \A u \in Urls : g.remote[u] # 0 => Introspected(g).remote[u] \in {g.remote[u], 0}
         /\ \A u \in Urls : Introspected(g).remote[u] \in {g.remote[u], 0, version}
<1>1. CASE Used(g) \subseteq Known(g)
  <2>1. Introspected(g) = g
    BY <1>1 DEF Introspected
  <2>2. QED
    BY <1>1, <2>1
<1>2. CASE ~(Used(g) \subseteq Known(g))
  <2> DEFINE remote == [u \in Urls |->
                CASE u \notin Used(g) -> 0
                  [] u \in Used(g) /\ u \in Known(g) -> g.remote[u]
                  [] u \in Used(g) /\ u \notin Known(g) -> version]
  <2>1. Introspected(g) = [g EXCEPT !.remote = remote]
    BY <1>2 DEF Introspected
  <2>2. /\ remote \in [Urls -> Nat]
        /\ \A u \in Urls : /\ u \in Used(g) => remote[u] # 0
                           /\ g.remote[u] # 0 => remote[u] \in {g.remote[u], 0}
                           /\ remote[u] \in {g.remote[u], 0, version}
    BY DEF ResourceGroup, Known
  <2> HIDE DEF remote
  <2>3. /\ Introspected(g) \in ResourceGroup /\ Introspected(g).policies = g.policies
        /\ Introspected(g).uses = g.uses /\ Introspected(g).remote = remote
    BY <2>1, <2>2 DEF ResourceGroup
  <2>4. Used(Introspected(g)) = Used(g)
    BY <2>3 DEF Used
  <2>5. Used(g) \subseteq Known(Introspected(g))
    BY <2>2, <2>3 DEF Known, Used
  <2>6. QED
    BY <2>2, <2>3, <2>4, <2>5
<1>3. QED
  BY <1>1, <1>2

\* The resource group with a remote schema renewed.
LEMMA RenewedType ==
  ASSUME NEW g \in ResourceGroup, NEW u \in Urls, NEW v \in Nat
  PROVE  LET h == [g EXCEPT !.remote[u] = v]
         IN  /\ h \in ResourceGroup
             /\ h.policies = g.policies /\ h.uses = g.uses
             /\ h.remote[u] = v /\ \A x \in Urls : x # u => h.remote[x] = g.remote[x]
BY DEF ResourceGroup

\* The resource group with the remote schemas of another one.
LEMMA OverlaidType ==
  ASSUME NEW g \in ResourceGroup, NEW h \in ResourceGroup
  PROVE  LET o == [g EXCEPT !.remote = h.remote]
         IN  /\ o \in ResourceGroup
             /\ o.policies = g.policies /\ o.uses = g.uses /\ o.remote = h.remote
BY DEF ResourceGroup

LEMMA EmptyGroupType == EmptyGroup \in ResourceGroup /\ Used(EmptyGroup) = {}
BY NoneAssumption DEF EmptyGroup, ResourceGroup, Code, Absent, Used

----------------------------------------------------------------------------
(* What each step makes of the request it is a step of. *)

Pcs == Running \cup Answers \cup {"none", "queued"}
Active == Running \cup {"queued"}

\* A request of which nothing is done yet.
Fresh(q, pc, op) ==
    /\ q.pc = pc /\ q.op = op
    /\ q.registryRg = EmptyGroup /\ q.gatewayRg = EmptyGroup
    /\ q.toCompile = {} /\ q.toSave = {} /\ q.toDelete = {} /\ q.compiled = {}
    /\ q.current = NoPolicy /\ q.unsaved = {"registry", "gateway"} /\ q.answer = "ok"

SameGroups(r, q) == q.registryRg = r.registryRg /\ q.gatewayRg = r.gatewayRg
SameWork(r, q) ==
    /\ q.toCompile = r.toCompile /\ q.toSave = r.toSave /\ q.toDelete = r.toDelete
    /\ q.compiled = r.compiled

\* The local state before the first request.
LEMMA NoRequestType == NoRequest \in Request /\ Fresh(NoRequest, "none", NoRequest.op)
BY OperationsAssumption, EmptyGroupType DEF NoRequest, Request, Fresh, Answers

\* A request that was just made, answered or lost.
LEMMA FreshRequest ==
  ASSUME NEW pc \in Pcs, NEW op \in Operations
  PROVE  LET q == [NoRequest EXCEPT !.pc = pc, !.op = op]
         IN  q \in Request /\ Fresh(q, pc, op)
BY NoRequestType DEF Request, Fresh, Pcs

LEMMA SetRequest ==
  ASSUME TypeOK, NEW c \in Clients, NEW q, Set(c, q)
  PROVE  /\ request'[c] = q
         /\ \A d \in Clients : d # c => request'[d] = request[d]
         /\ q \in Request => request' \in [Clients -> Request]
BY DEF Set, TypeOK

LEMMA AbortFields ==
  ASSUME NEW r \in Request, NEW a \in Answers
  PROVE  LET q == Abort(r, a)
         IN  /\ q \in Request /\ q.pc = "cleanup" /\ q.answer = a /\ q.op = r.op
             /\ SameGroups(r, q) /\ SameWork(r, q)
             /\ q.current = r.current /\ q.unsaved = r.unsaved
BY DEF Abort, Request, Running, SameGroups, SameWork

Phases == {"compile", "cleanup", "attach", "detach", "save"}

\* The phase of a request follows from what is left to do.
InPhase(q) ==
    /\ q.pc \in Phases
    /\ q.pc = "compile" <=> q.toCompile # {}
    /\ q.pc = "cleanup" <=> q.toCompile = {} /\ q.op.dryRun
    /\ q.pc = "attach" <=> q.toCompile = {} /\ ~q.op.dryRun /\ q.toSave # {}
    /\ q.pc = "detach" <=> /\ q.toCompile = {} /\ ~q.op.dryRun /\ q.toSave = {}
                           /\ q.toDelete # {}
    /\ q.pc = "save" <=> /\ q.toCompile = {} /\ ~q.op.dryRun /\ q.toSave = {}
                         /\ q.toDelete = {}

LEMMA AdvanceFields ==
  ASSUME NEW r \in Request
  PROVE  LET q == Advance(r)
         IN  /\ q \in Request /\ InPhase(q) /\ q.answer = r.answer /\ q.op = r.op
             /\ SameGroups(r, q) /\ SameWork(r, q)
             /\ q.current = r.current /\ q.unsaved = r.unsaved
<1>1. r.op.dryRun \in BOOLEAN
  BY OperationsAssumption DEF Request
<1>2. /\ Phase(r) \in Phases
      /\ Phase(r) = "compile" <=> r.toCompile # {}
      /\ Phase(r) = "cleanup" <=> r.toCompile = {} /\ r.op.dryRun
      /\ Phase(r) = "attach" <=> r.toCompile = {} /\ ~r.op.dryRun /\ r.toSave # {}
      /\ Phase(r) = "detach" <=> /\ r.toCompile = {} /\ ~r.op.dryRun /\ r.toSave = {}
                                 /\ r.toDelete # {}
      /\ Phase(r) = "save" <=> /\ r.toCompile = {} /\ ~r.op.dryRun /\ r.toSave = {}
                               /\ r.toDelete = {}
  BY <1>1 DEF Phase, Phases
<1>3. LET q == Advance(r)
      IN  /\ q \in Request /\ q.pc = Phase(r) /\ q.answer = r.answer /\ q.op = r.op
          /\ SameGroups(r, q) /\ SameWork(r, q)
          /\ q.current = r.current /\ q.unsaved = r.unsaved
  BY <1>2 DEF Advance, Request, Running, Phases, SameGroups, SameWork
<1>4. InPhase(Advance(r))
  BY <1>2, <1>3 DEF InPhase, SameWork
<1>5. QED
  BY <1>3, <1>4

\* Only the request of c changes.
Others(c) ==
    /\ request' \in [Clients -> Request]
    /\ \A d \in Clients : d # c => request'[d] = request[d]

\* Fetch: a refresh of an unknown url is refused, every other request is applied to
\* the registry's file.
LEMMA FetchEffect ==
  ASSUME TypeOK, NEW c \in Clients, Fetch(c)
  PROVE  LET r == request[c]
             q == request'[c]
         IN  /\ r.pc = "queued" /\ MyTurn(c)
             /\ Others(c) /\ q.op = r.op /\ q.gatewayRg = r.gatewayRg /\ q.compiled = r.compiled
             /\ q.current = r.current /\ q.unsaved = r.unsaved
             /\ \/ /\ r.op.kind = "refresh" /\ q.pc = "cleanup" /\ q.answer = "unknown_url"
                   /\ q.registryRg = r.registryRg
                \/ /\ q.pc = "introspect" /\ q.answer = r.answer
                   /\ r.op.kind = "refresh" => r.op.url \in Known(registryFile)
                   /\ q.registryRg = Store!Apply(registryFile, r.op)
                   /\ q.toCompile = ToGenerate(registryFile, q.registryRg)
                   /\ q.toSave = ToGenerate(registryFile, q.registryRg)
                   /\ q.toDelete = ToRemove(registryFile, q.registryRg)
             /\ UNCHANGED <<registryFile, gatewayFile, folder, tmp, bundle, queue, late,
                            version, failures>>
<1> DEFINE r == request[c]
           rg == Store!Apply(registryFile, r.op)
           g == ToGenerate(registryFile, rg)
           m == ToRemove(registryFile, rg)
           q == [r EXCEPT !.pc = "introspect", !.registryRg = rg, !.toCompile = g,
                          !.toSave = g, !.toDelete = m]
<1>1. /\ r \in Request /\ r.op \in Operations /\ registryFile \in ResourceGroup
  BY DEF TypeOK, Request
<1>2. r.pc = "queued" /\ MyTurn(c)
  BY DEF Fetch
<1>3. UNCHANGED <<registryFile, gatewayFile, folder, tmp, bundle, queue, late, version, failures>>
  BY DEF Fetch, files, local
<1>4. CASE r.op.kind = "refresh" /\ r.op.url \notin Known(registryFile)
  <2>1. Set(c, Abort(r, "unknown_url"))
    BY <1>4 DEF Fetch
  <2>2. "unknown_url" \in Answers
    BY DEF Answers
  <2>3. QED
    BY <1>1, <1>2, <1>3, <1>4, <2>1, <2>2, AbortFields, SetRequest DEF Others, SameGroups, SameWork
<1>5. CASE ~(r.op.kind = "refresh" /\ r.op.url \notin Known(registryFile))
  <2>1. Set(c, q)
    BY <1>5 DEF Fetch
  <2>2. rg \in ResourceGroup
    BY <1>1, ApplyType
  <2>3. g \in SUBSET Policies /\ m \in SUBSET Policies
    BY DEF ToGenerate, ToRemove
  <2> HIDE DEF rg, g, m
  <2>4. /\ q \in Request /\ q.pc = "introspect" /\ q.registryRg = rg /\ q.toCompile = g
        /\ q.toSave = g /\ q.toDelete = m /\ q.op = r.op /\ q.gatewayRg = r.gatewayRg
        /\ q.compiled = r.compiled /\ q.current = r.current /\ q.unsaved = r.unsaved
        /\ q.answer = r.answer
    BY <1>1, <2>2, <2>3 DEF Request, Running
  <2> HIDE DEF q
  <2>5. request'[c] = q /\ Others(c)
    BY <2>1, <2>4, SetRequest DEF Others
  <2>6. QED
    BY <1>2, <1>3, <1>5, <2>4, <2>5 DEF rg, g, m
<1>6. QED
  BY <1>4, <1>5

\* updateResourceGroup, rebuildResourceGroup and deleteResources up to the compilation:
\* the resource group knows the remote servers it uses, or the request fails.
LEMMA PrepareEffect ==
  ASSUME TypeOK, NEW c \in Clients,
         UpdateResources(c) \/ RebuildResources(c) \/ DeleteResources(c)
  PROVE  LET r == request[c]
             q == request'[c]
         IN  /\ r.pc = "introspect" /\ r.op.kind # "refresh"
             /\ Others(c) /\ q.op = r.op /\ SameWork(r, q)
             /\ q.current = r.current /\ q.unsaved = r.unsaved
             /\ \/ /\ r.op.kind = "delete" /\ ~(Used(r.registryRg) \subseteq Known(r.registryRg))
                   /\ q.pc = "cleanup" /\ q.answer = "failed" /\ SameGroups(r, q)
                \/ /\ InPhase(q) /\ q.answer = r.answer /\ q.gatewayRg = q.registryRg
                   /\ q.registryRg.policies = r.registryRg.policies
                   /\ q.registryRg.uses = r.registryRg.uses
                   /\ Used(q.registryRg) \subseteq Known(q.registryRg)
                   /\ \A u \in Urls :
                        /\ r.registryRg.remote[u] # 0
                              => q.registryRg.remote[u] \in {r.registryRg.remote[u], 0}
                        /\ q.registryRg.remote[u] \in {r.registryRg.remote[u], 0, version}
             /\ UNCHANGED <<registryFile, gatewayFile, folder, tmp, bundle, queue, late,
                            version, failures>>
<1> DEFINE r == request[c]
<1>1. r \in Request /\ r.registryRg \in ResourceGroup /\ version \in Nat \ {0}
  BY DEF TypeOK, Request
<1>2. PICK rg \in {r.registryRg, Introspected(r.registryRg)} :
         Prepare(c, rg) /\ (rg = r.registryRg => r.op.kind = "delete" \/ rg = Introspected(r.registryRg))
  BY DEF UpdateResources, RebuildResources, DeleteResources, Introspecting
<1>3. r.pc = "introspect" /\ r.op.kind # "refresh"
  BY DEF UpdateResources, RebuildResources, DeleteResources, Introspecting
<1>4. UNCHANGED <<registryFile, gatewayFile, folder, tmp, bundle, queue, late, version, failures>>
  BY <1>2 DEF Prepare, files, local
<1>5. /\ rg \in ResourceGroup /\ rg.policies = r.registryRg.policies /\ rg.uses = r.registryRg.uses
      /\ \A u \in Urls : /\ r.registryRg.remote[u] # 0 => rg.remote[u] \in {r.registryRg.remote[u], 0}
                         /\ rg.remote[u] \in {r.registryRg.remote[u], 0, version}
  BY <1>1, <1>2, IntrospectedType
<1>6. CASE Used(rg) \subseteq Known(rg)
  <2> DEFINE b == [r EXCEPT !.registryRg = rg, !.gatewayRg = rg]
  <2>1. Set(c, Advance(b))
    BY <1>2, <1>6 DEF Prepare
  <2>2. /\ b \in Request /\ b.pc = r.pc /\ b.registryRg = rg /\ b.gatewayRg = rg /\ b.op = r.op
        /\ SameWork(r, b) /\ b.current = r.current /\ b.unsaved = r.unsaved /\ b.answer = r.answer
    BY <1>1, <1>5 DEF Request, SameWork
  <2> DEFINE q == Advance(b)
  <2> HIDE DEF b
  <2>3. /\ q \in Request /\ InPhase(q) /\ q.registryRg = rg /\ q.gatewayRg = rg /\ q.op = r.op
        /\ SameWork(r, q) /\ q.current = r.current /\ q.unsaved = r.unsaved /\ q.answer = r.answer
    BY <2>2, AdvanceFields DEF SameGroups, SameWork
  <2> HIDE DEF q
  <2>4. request'[c] = q /\ Others(c)
    BY <2>1, <2>3, SetRequest DEF q, Others
  <2>5. QED
    BY <1>3, <1>4, <1>5, <1>6, <2>3, <2>4
<1>7. CASE ~(Used(rg) \subseteq Known(rg))
  <2>1. Set(c, Abort(r, "failed"))
    BY <1>2, <1>7 DEF Prepare
  <2>2. rg = r.registryRg /\ r.op.kind = "delete"
    BY <1>1, <1>2, <1>7, IntrospectedType
  <2>3. "failed" \in Answers
    BY DEF Answers
  <2>4. QED
    BY <1>1, <1>3, <1>4, <1>7, <2>1, <2>2, <2>3, AbortFields, SetRequest DEF Others
<1>8. QED
  BY <1>6, <1>7

\* refreshRemoteSchema: a new version of one remote schema ...
LEMMA RefreshEffect ==
  ASSUME TypeOK, NEW c \in Clients, RefreshRemoteSchema(c)
  PROVE  LET r == request[c]
             q == request'[c]
         IN  /\ r.pc = "introspect" /\ r.op.kind = "refresh" /\ q.pc = "overlay"
             /\ Others(c) /\ q.op = r.op /\ SameWork(r, q) /\ q.gatewayRg = r.gatewayRg
             /\ q.current = r.current /\ q.unsaved = r.unsaved /\ q.answer = r.answer
             /\ q.registryRg = [r.registryRg EXCEPT !.remote[r.op.url] = version]
             /\ UNCHANGED <<registryFile, gatewayFile, folder, tmp, bundle, queue, late,
                            version, failures>>
<1> DEFINE r == request[c]
           q == [r EXCEPT !.pc = "overlay", !.registryRg.remote[r.op.url] = version]
           g == [r.registryRg EXCEPT !.remote[r.op.url] = version]
<1>1. /\ r \in Request /\ r.registryRg \in ResourceGroup /\ version \in Nat \ {0}
      /\ r.op \in Operations
  BY DEF TypeOK, Request
<1>2. r.pc = "introspect" /\ r.op.kind = "refresh" /\ Set(c, q)
  BY DEF RefreshRemoteSchema, Introspecting
<1>3. g \in ResourceGroup
  BY <1>1, <1>2, OperationsAssumption, RenewedType
<1>4. q.registryRg = g
  BY <1>1 DEF Request
<1>5. q = [r EXCEPT !.pc = "overlay", !.registryRg = g]
  BY <1>1 DEF Request
<1> HIDE DEF g
<1>6. /\ q \in Request /\ q.pc = "overlay" /\ q.op = r.op /\ SameWork(r, q)
      /\ q.gatewayRg = r.gatewayRg /\ q.current = r.current /\ q.unsaved = r.unsaved
      /\ q.answer = r.answer
  BY <1>1, <1>3, <1>5 DEF Request, Running, SameWork
<1> HIDE DEF q
<1>7. request'[c] = q /\ Others(c)
  BY <1>2, <1>6, SetRequest DEF Others
<1>8. UNCHANGED <<registryFile, gatewayFile, folder, tmp, bundle, queue, late, version, failures>>
  BY DEF RefreshRemoteSchema, files, local
<1>9. QED
  BY <1>2, <1>4, <1>6, <1>7, <1>8 DEF g

\* ... and the gateway's file with the registry's remote schemas.
LEMMA OverlayEffect ==
  ASSUME TypeOK, NEW c \in Clients, Overlay(c)
  PROVE  LET r == request[c]
             q == request'[c]
         IN  /\ r.pc = "overlay" /\ q.pc = "save"
             /\ Others(c) /\ q.op = r.op /\ SameWork(r, q) /\ q.registryRg = r.registryRg
             /\ q.current = r.current /\ q.unsaved = r.unsaved /\ q.answer = r.answer
             /\ q.gatewayRg = [gatewayFile EXCEPT !.remote = r.registryRg.remote]
             /\ UNCHANGED <<registryFile, gatewayFile, folder, tmp, bundle, queue, late,
                            version, failures>>
<1> DEFINE r == request[c]
           g == [gatewayFile EXCEPT !.remote = r.registryRg.remote]
           q == [r EXCEPT !.pc = "save", !.gatewayRg = g]
<1>1. r \in Request /\ r.registryRg \in ResourceGroup /\ gatewayFile \in ResourceGroup
  BY DEF TypeOK, Request
<1>2. r.pc = "overlay" /\ Set(c, q)
  BY DEF Overlay
<1>3. g \in ResourceGroup
  BY <1>1, OverlaidType
<1> HIDE DEF g
<1>4. /\ q \in Request /\ q.pc = "save" /\ q.op = r.op /\ SameWork(r, q) /\ q.gatewayRg = g
      /\ q.registryRg = r.registryRg /\ q.current = r.current /\ q.unsaved = r.unsaved
      /\ q.answer = r.answer
  BY <1>1, <1>3 DEF Request, Running, SameWork
<1> HIDE DEF q
<1>5. request'[c] = q /\ Others(c)
  BY <1>2, <1>4, SetRequest DEF Others
<1>6. UNCHANGED <<registryFile, gatewayFile, folder, tmp, bundle, queue, late, version, failures>>
  BY DEF Overlay, files, local
<1>7. QED
  BY <1>2, <1>4, <1>5, <1>6 DEF g

\* "opa build" of the next policy.
LEMMA CompileEffect ==
  ASSUME TypeOK, NEW c \in Clients, Compile(c)
  PROVE  LET r == request[c]
             q == request'[c]
         IN  /\ r.pc = "compile" /\ q.pc = "unpack"
             /\ Others(c) /\ q.op = r.op /\ SameWork(r, q) /\ SameGroups(r, q)
             /\ q.current \in r.toCompile /\ q.unsaved = r.unsaved /\ q.answer = r.answer
             /\ bundle' = r.registryRg.policies[q.current]
             /\ UNCHANGED <<registryFile, gatewayFile, folder, tmp, queue, late, version, failures>>
<1> DEFINE r == request[c]
<1>1. PICK p \in r.toCompile : /\ bundle' = r.registryRg.policies[p]
                               /\ Set(c, [r EXCEPT !.pc = "unpack", !.current = p])
  BY DEF Compile
<1> DEFINE q == [r EXCEPT !.pc = "unpack", !.current = p]
<1>2. r \in Request /\ p \in Policies
  BY DEF TypeOK, Request
<1>3. /\ q \in Request /\ q.pc = "unpack" /\ q.op = r.op /\ SameWork(r, q) /\ SameGroups(r, q)
      /\ q.current = p /\ q.unsaved = r.unsaved /\ q.answer = r.answer
  BY <1>2 DEF Request, Running, SameWork, SameGroups
<1> HIDE DEF q
<1>4. request'[c] = q /\ Others(c)
  BY <1>1, <1>3, SetRequest DEF Others, q
<1>5. /\ r.pc = "compile"
      /\ UNCHANGED <<registryFile, gatewayFile, folder, tmp, queue, late, version, failures>>
  BY DEF Compile, files
<1>6. QED
  BY <1>1, <1>3, <1>4, <1>5

\* "tar", "mv" and "rm": the output, if it is there, goes to the temporary folder.
LEMMA UnpackEffect ==
  ASSUME TypeOK, NEW c \in Clients, Unpack(c)
  PROVE  LET r == request[c]
             q == request'[c]
         IN  /\ r.pc = "unpack"
             /\ Others(c) /\ q.op = r.op /\ SameGroups(r, q) /\ q.unsaved = r.unsaved
             /\ \/ /\ bundle = Absent /\ q.pc = "cleanup" /\ q.answer = "failed"
                   /\ SameWork(r, q) /\ UNCHANGED <<tmp, bundle>>
                \/ /\ bundle # Absent /\ InPhase(q) /\ q.answer = r.answer
                   /\ q.toCompile = r.toCompile \ {r.current}
                   /\ q.compiled = r.compiled \cup {r.current}
                   /\ q.toSave = r.toSave /\ q.toDelete = r.toDelete
                   /\ tmp' = [tmp EXCEPT ![r.current] = bundle] /\ bundle' = Absent
             /\ UNCHANGED <<registryFile, gatewayFile, folder, queue, late, version, failures>>
<1> DEFINE r == request[c]
<1>1. /\ r \in Request /\ r.pc = "unpack" /\ r.current \in Policies /\ "failed" \in Answers
      /\ UNCHANGED <<registryFile, gatewayFile, folder, queue, late, version, failures>>
  BY DEF TypeOK, Request, Unpack, files, Answers
<1>2. CASE bundle = Absent
  <2>1. Set(c, Abort(r, "failed")) /\ UNCHANGED <<tmp, bundle>>
    BY <1>2 DEF Unpack, local
  <2>2. QED
    BY <1>1, <1>2, <2>1, AbortFields, SetRequest DEF Others
<1>3. CASE bundle # Absent
  <2> DEFINE left == r.toCompile \ {r.current}
             done == r.compiled \cup {r.current}
             b == [r EXCEPT !.toCompile = left, !.compiled = done, !.current = NoPolicy]
             q == Advance(b)
  <2>1. Set(c, q) /\ tmp' = [tmp EXCEPT ![r.current] = bundle] /\ bundle' = Absent
    BY <1>3 DEF Unpack, local
  <2>2. left \in SUBSET Policies /\ done \in SUBSET Policies
    BY <1>1 DEF Request
  <2> HIDE DEF left, done
  <2>3. /\ b \in Request /\ b.op = r.op /\ SameGroups(r, b) /\ b.toCompile = left
        /\ b.compiled = done /\ b.toSave = r.toSave /\ b.toDelete = r.toDelete
        /\ b.unsaved = r.unsaved /\ b.answer = r.answer
    BY <1>1, <2>2 DEF Request, SameGroups
  <2> HIDE DEF b
  <2>4. /\ q \in Request /\ InPhase(q) /\ q.op = r.op /\ SameGroups(r, q) /\ q.toCompile = left
        /\ q.compiled = done /\ q.toSave = r.toSave /\ q.toDelete = r.toDelete
        /\ q.unsaved = r.unsaved /\ q.answer = r.answer
    BY <2>3, AdvanceFields DEF SameGroups, SameWork
  <2> HIDE DEF q
  <2>5. request'[c] = q /\ Others(c)
    BY <2>1, <2>4, SetRequest DEF Others, q
  <2>6. QED
    BY <1>1, <1>3, <2>1, <2>4, <2>5 DEF left, done
<1>4. QED
  BY <1>2, <1>3

\* writeToRepo: the file of one policy is written ...
LEMMA AttachEffect ==
  ASSUME TypeOK, NEW c \in Clients, Attach(c)
  PROVE  LET r == request[c]
             q == request'[c]
         IN  /\ r.pc = "attach"
             /\ Others(c) /\ q.op = r.op /\ SameGroups(r, q) /\ q.unsaved = r.unsaved
             /\ \E p \in r.toSave :
                  \/ /\ tmp[p] = Absent /\ q.pc = "cleanup" /\ q.answer = "failed"
                     /\ SameWork(r, q) /\ UNCHANGED folder
                  \/ /\ tmp[p] # Absent /\ InPhase(q) /\ q.answer = r.answer
                     /\ q.toSave = r.toSave \ {p} /\ q.toCompile = r.toCompile
                     /\ q.toDelete = r.toDelete /\ q.compiled = r.compiled
                     /\ folder' = [folder EXCEPT ![p] = tmp[p]]
             /\ UNCHANGED <<registryFile, gatewayFile, tmp, bundle, queue, late, version, failures>>
<1> DEFINE r == request[c]
<1>1. /\ r \in Request /\ r.pc = "attach" /\ "failed" \in Answers
      /\ UNCHANGED <<registryFile, gatewayFile, tmp, bundle, queue, late, version, failures>>
  BY DEF TypeOK, Attach, files, local, Answers
<1>2. PICK p \in r.toSave :
        \/ /\ tmp[p] = Absent
           /\ Set(c, Abort(r, "failed"))
           /\ UNCHANGED folder
        \/ /\ tmp[p] # Absent
           /\ folder' = [folder EXCEPT ![p] = tmp[p]]
           /\ Set(c, Advance([r EXCEPT !.toSave = r.toSave \ {p}]))
  BY DEF Attach
<1>3. CASE tmp[p] = Absent
  <2>1. Set(c, Abort(r, "failed")) /\ UNCHANGED folder
    BY <1>2, <1>3
  <2>2. QED
    BY <1>1, <1>3, <2>1, AbortFields, SetRequest DEF Others
<1>4. CASE tmp[p] # Absent
  <2> DEFINE left == r.toSave \ {p}
             b == [r EXCEPT !.toSave = left]
             q == Advance(b)
  <2>1. Set(c, q) /\ folder' = [folder EXCEPT ![p] = tmp[p]]
    BY <1>2, <1>4
  <2>2. left \in SUBSET Policies
    BY <1>1 DEF Request
  <2> HIDE DEF left
  <2>3. /\ b \in Request /\ b.op = r.op /\ SameGroups(r, b) /\ b.toSave = left
        /\ b.toCompile = r.toCompile /\ b.compiled = r.compiled /\ b.toDelete = r.toDelete
        /\ b.unsaved = r.unsaved /\ b.answer = r.answer
    BY <1>1, <2>2 DEF Request, SameGroups
  <2> HIDE DEF b
  <2>4. /\ q \in Request /\ InPhase(q) /\ q.op = r.op /\ SameGroups(r, q) /\ q.toSave = left
        /\ q.toCompile = r.toCompile /\ q.compiled = r.compiled /\ q.toDelete = r.toDelete
        /\ q.unsaved = r.unsaved /\ q.answer = r.answer
    BY <2>3, AdvanceFields DEF SameGroups, SameWork
  <2> HIDE DEF q
  <2>5. request'[c] = q /\ Others(c)
    BY <2>1, <2>4, SetRequest DEF Others, q
  <2>6. QED
    BY <1>1, <1>4, <2>1, <2>4, <2>5 DEF left
<1>5. QED
  BY <1>3, <1>4

\* ... or deleted.
LEMMA DetachEffect ==
  ASSUME TypeOK, NEW c \in Clients, Detach(c)
  PROVE  LET r == request[c]
             q == request'[c]
         IN  /\ r.pc = "detach"
             /\ Others(c) /\ q.op = r.op /\ SameGroups(r, q) /\ q.unsaved = r.unsaved
             /\ \E p \in r.toDelete :
                  \/ /\ folder[p] = Absent /\ q.pc = "cleanup" /\ q.answer = "failed"
                     /\ SameWork(r, q) /\ UNCHANGED folder
                  \/ /\ InPhase(q) /\ q.answer = r.answer
                     /\ q.toDelete = r.toDelete \ {p} /\ q.toCompile = r.toCompile
                     /\ q.toSave = r.toSave /\ q.compiled = r.compiled
                     /\ folder' = [folder EXCEPT ![p] = Absent]
             /\ UNCHANGED <<registryFile, gatewayFile, tmp, bundle, queue, late, version, failures>>
<1> DEFINE r == request[c]
<1>1. /\ r \in Request /\ r.pc = "detach" /\ "failed" \in Answers
      /\ UNCHANGED <<registryFile, gatewayFile, tmp, bundle, queue, late, version, failures>>
  BY DEF TypeOK, Detach, files, local, Answers
<1>2. PICK p \in r.toDelete :
        \/ /\ folder[p] = Absent /\ UnlinkMissingFails
           /\ Set(c, Abort(r, "failed"))
           /\ UNCHANGED folder
        \/ /\ folder[p] # Absent \/ ~UnlinkMissingFails
           /\ folder' = [folder EXCEPT ![p] = Absent]
           /\ Set(c, Advance([r EXCEPT !.toDelete = r.toDelete \ {p}]))
  BY DEF Detach
<1>3. CASE folder[p] = Absent /\ UnlinkMissingFails
  <2>1. Set(c, Abort(r, "failed")) /\ UNCHANGED folder
    BY <1>2, <1>3
  <2>2. QED
    BY <1>1, <1>3, <2>1, AbortFields, SetRequest DEF Others
<1>4. CASE folder[p] # Absent \/ ~UnlinkMissingFails
  <2> DEFINE left == r.toDelete \ {p}
             b == [r EXCEPT !.toDelete = left]
             q == Advance(b)
  <2>1. Set(c, q) /\ folder' = [folder EXCEPT ![p] = Absent]
    BY <1>2, <1>4
  <2>2. left \in SUBSET Policies
    BY <1>1 DEF Request
  <2> HIDE DEF left
  <2>3. /\ b \in Request /\ b.op = r.op /\ SameGroups(r, b) /\ b.toDelete = left
        /\ b.toCompile = r.toCompile /\ b.compiled = r.compiled /\ b.toSave = r.toSave
        /\ b.unsaved = r.unsaved /\ b.answer = r.answer
    BY <1>1, <2>2 DEF Request, SameGroups
  <2> HIDE DEF b
  <2>4. /\ q \in Request /\ InPhase(q) /\ q.op = r.op /\ SameGroups(r, q) /\ q.toDelete = left
        /\ q.toCompile = r.toCompile /\ q.compiled = r.compiled /\ q.toSave = r.toSave
        /\ q.unsaved = r.unsaved /\ q.answer = r.answer
    BY <2>3, AdvanceFields DEF SameGroups, SameWork
  <2> HIDE DEF q
  <2>5. request'[c] = q /\ Others(c)
    BY <2>1, <2>4, SetRequest DEF Others, q
  <2>6. QED
    BY <1>1, <2>1, <2>4, <2>5 DEF left
<1>5. QED
  BY <1>2, <1>3, <1>4

\* One of the two resource files is written.
LEMMA SaveEffect ==
  ASSUME TypeOK, NEW c \in Clients, Save(c)
  PROVE  LET r == request[c]
             q == request'[c]
         IN  /\ r.pc = "save"
             /\ Others(c) /\ q.op = r.op /\ SameGroups(r, q) /\ SameWork(r, q)
             /\ q.current = r.current /\ q.answer = r.answer
             /\ \E file \in r.unsaved :
                  /\ q.unsaved = r.unsaved \ {file}
                  /\ q.pc = IF q.unsaved = {} THEN "cleanup" ELSE "save"
                  /\ registryFile' = IF file = "registry" THEN r.registryRg ELSE registryFile
                  /\ gatewayFile' = IF file = "registry" THEN gatewayFile ELSE r.gatewayRg
             /\ UNCHANGED <<folder, tmp, bundle, queue, late, version, failures>>
<1> DEFINE r == request[c]
<1>1. /\ r \in Request /\ r.pc = "save"
      /\ UNCHANGED <<folder, tmp, bundle, queue, late, version, failures>>
  BY DEF TypeOK, Save, local
<1>2. PICK file \in r.unsaved :
        LET left == r.unsaved \ {file}
        IN  /\ WriteResources(file, r)
            /\ Set(c, [r EXCEPT !.unsaved = left,
                                !.pc = IF left = {} THEN "cleanup" ELSE "save"])
  BY DEF Save
<1> DEFINE left == r.unsaved \ {file}
           pc == IF left = {} THEN "cleanup" ELSE "save"
           q == [r EXCEPT !.unsaved = left, !.pc = pc]
<1>3. Set(c, q)
  BY <1>2
<1>4. left \in SUBSET {"registry", "gateway"} /\ pc \in Running
  BY <1>1 DEF Request, Running
<1>5. /\ registryFile' = IF file = "registry" THEN r.registryRg ELSE registryFile
      /\ gatewayFile' = IF file = "registry" THEN gatewayFile ELSE r.gatewayRg
  BY <1>2 DEF WriteResources
<1> HIDE DEF left, pc
<1>6. /\ q \in Request /\ q.pc = pc /\ q.op = r.op /\ SameGroups(r, q) /\ SameWork(r, q)
      /\ q.current = r.current /\ q.answer = r.answer /\ q.unsaved = left
  BY <1>1, <1>4 DEF Request, SameGroups, SameWork
<1> HIDE DEF q
<1>7. request'[c] = q /\ Others(c)
  BY <1>3, <1>6, SetRequest DEF Others
<1>8. QED
  BY <1>1, <1>5, <1>6, <1>7 DEF left, pc

\* The request is answered.
LEMMA FinishEffect ==
  ASSUME TypeOK, NEW c \in Clients, Finish(c)
  PROVE  LET r == request[c]
             q == request'[c]
         IN  /\ r.pc = "cleanup"
             /\ Others(c) /\ Fresh(q, r.answer, r.op)
             /\ tmp' = [p \in Policies |-> IF p \in r.compiled THEN Absent ELSE tmp[p]]
             /\ queue' = [queue EXCEPT ![r.op.kind] = Tail(@)]
             /\ UNCHANGED <<registryFile, gatewayFile, folder, bundle, late, version, failures>>
<1> DEFINE r == request[c]
           q == [NoRequest EXCEPT !.pc = r.answer, !.op = r.op]
<1>1. r.answer \in Pcs /\ r.op \in Operations
  BY DEF TypeOK, Request, Pcs
<1>2. q \in Request /\ Fresh(q, r.answer, r.op)
  BY <1>1, FreshRequest
<1>3. request'[c] = q /\ Others(c)
  BY <1>2, SetRequest DEF Finish, Others
<1> HIDE DEF q
<1>4. QED
  BY <1>2, <1>3 DEF Finish, files

\* The request is made.
LEMMA SubmitEffect ==
  ASSUME TypeOK, NEW c \in Clients, NEW op \in Operations, Submit(c, op)
  PROVE  /\ request[c].pc \in Answers \cup {"none"}
         /\ Others(c) /\ Fresh(request'[c], "queued", op)
         /\ queue' = [queue EXCEPT ![op.kind] = Append(@, c)]
         /\ UNCHANGED <<registryFile, gatewayFile, folder, tmp, bundle, late, version, failures>>
<1> DEFINE q == [NoRequest EXCEPT !.pc = "queued", !.op = op]
<1>1. q \in Request /\ Fresh(q, "queued", op)
  BY FreshRequest DEF Pcs
<1>2. request'[c] = q /\ Others(c)
  BY <1>1, SetRequest DEF Submit, Others
<1> HIDE DEF q
<1>3. QED
  BY <1>1, <1>2 DEF Submit, files, local

\* An await rejects; when it is one of the two saves the other one goes on.
LEMMA FailEffect ==
  ASSUME TypeOK, NEW c \in Clients, Fail(c)
  PROVE  LET r == request[c]
             q == request'[c]
         IN  /\ r.pc \in Active \ {"cleanup"} /\ (r.pc = "queued" => MyTurn(c))
             /\ failures < MaxFailures /\ failures' = failures + 1
             /\ Others(c) /\ q.pc = "cleanup" /\ q.answer = "faulted" /\ q.op = r.op
             /\ SameGroups(r, q) /\ SameWork(r, q) /\ q.unsaved = r.unsaved
             /\ late \subseteq late'
             /\ \A w \in late' : w \in late \/ /\ r.pc = "save" /\ w.request = r
                                               /\ w.file \in r.unsaved
             /\ late' \subseteq [file : {"registry", "gateway"}, request : Request]
             /\ UNCHANGED <<registryFile, gatewayFile, folder, tmp, bundle, queue, version>>
<1> DEFINE r == request[c]
<1>1. r \in Request /\ "faulted" \in Answers
  BY DEF TypeOK, Answers
<1>2. Set(c, Abort(r, "faulted"))
  BY DEF Fail
<1>3. /\ Others(c) /\ request'[c] = Abort(r, "faulted")
  BY <1>1, <1>2, AbortFields, SetRequest DEF Others
<1>4. /\ failures < MaxFailures /\ failures' = failures + 1
      /\ UNCHANGED <<registryFile, gatewayFile, folder, tmp, bundle, queue, version>>
  BY DEF Fail, files, local
<1>5. r.pc \in Active \ {"cleanup"} /\ (r.pc = "queued" => MyTurn(c))
  BY DEF Fail, Active, Running
<1>6. /\ late \subseteq late'
      /\ \A w \in late' : w \in late \/ /\ r.pc = "save" /\ w.request = r /\ w.file \in r.unsaved
      /\ late' \subseteq [file : {"registry", "gateway"}, request : Request]
  <2>1. CASE late' = late
    BY <2>1 DEF TypeOK
  <2>2. CASE r.pc = "save" /\ late' # late
    <3>1. PICK file \in {"registry", "gateway"} :
            late' = late \cup {[file |-> other, request |-> r] : other \in r.unsaved \ {file}}
      BY <2>2 DEF Fail
    <3>2. r.unsaved \subseteq {"registry", "gateway"}
      BY <1>1 DEF Request
    <3>3. QED
      BY <1>1, <2>2, <3>1, <3>2 DEF TypeOK
  <2>3. QED
    BY <2>1, <2>2 DEF Fail
<1>7. QED
  BY <1>1, <1>3, <1>4, <1>5, <1>6, AbortFields

\* The process exits: whatever was not answered is lost.
LEMMA CrashEffect ==
  ASSUME TypeOK, Crash
  PROVE  /\ failures < MaxFailures /\ failures' = failures + 1
         /\ queue' = [k \in Kinds |-> <<>>]
         /\ request' \in [Clients -> Request]
         /\ \A c \in Clients :
              \/ request[c].pc \in Answers \cup {"none"} /\ request'[c] = request[c]
              \/ /\ request[c].pc \notin Answers \cup {"none"}
                 /\ Fresh(request'[c], "faulted", request[c].op)
         /\ late' = {}
         /\ UNCHANGED <<registryFile, gatewayFile, folder, tmp, bundle, version>>
<1> DEFINE Lost(c) == [NoRequest EXCEPT !.pc = "faulted", !.op = request[c].op]
<1>1. request' = [c \in Clients |->
                    IF request[c].pc \in Answers \cup {"none"} THEN request[c] ELSE Lost(c)]
  BY DEF Crash
<1>2. ASSUME NEW c \in Clients
      PROVE  /\ request[c] \in Request /\ Lost(c) \in Request
             /\ Fresh(Lost(c), "faulted", request[c].op)
  <2>1. request[c] \in Request /\ request[c].op \in Operations /\ "faulted" \in Pcs
    BY DEF TypeOK, Request, Pcs, Answers
  <2>2. QED
    BY <2>1, FreshRequest
<1> HIDE DEF Lost
<1>3. QED
  BY <1>1, <1>2 DEF Crash, files, local

----------------------------------------------------------------------------
(* Types and turns. *)

\* pLimit(1): whoever waits or runs is in the queue of its resolver, once, and only
\* the head runs.
Turns ==
    /\ \A k \in Kinds : \A i, j \in 1..Len(queue[k]) : queue[k][i] = queue[k][j] => i = j
    /\ \A k \in Kinds : \A i \in 1..Len(queue[k]) :
        /\ request[queue[k][i]].op.kind = k
        /\ request[queue[k][i]].pc \in Active
        /\ i # 1 => request[queue[k][i]].pc = "queued"
    /\ \A c \in Clients : request[c].pc \in Active =>
        \E i \in 1..Len(queue[request[c].op.kind]) : queue[request[c].op.kind][i] = c

TypeInv == TypeOK /\ Turns

\* What TypeOK says of one request.
RequestOK(q) ==
    /\ q \in Request
    /\ q.pc = "unpack" => q.current \in q.toCompile
    /\ q.pc \notin Running => q.compiled = {}

LEMMA RequestsOK ==
  ASSUME TypeOK, NEW c \in Clients
  PROVE  RequestOK(request[c])
BY DEF TypeOK, RequestOK

LEMMA KindOfRequest ==
  ASSUME TypeOK, NEW c \in Clients
  PROVE  /\ request[c].op \in Operations /\ request[c].op.kind \in Kinds
         /\ queue[request[c].op.kind] \in Seq(Clients)
BY OperationsAssumption DEF TypeOK, Request

\* The kinds of program counters exclude each other.
LEMMA PcsDisjoint ==
  /\ \A pc \in Active : pc \notin Answers \cup {"none"}
  /\ \A pc \in Running : pc # "queued" /\ pc \in Active
  /\ \A pc \in Pcs : pc \in Active \/ pc \in Answers \cup {"none"}
  /\ \A pc \in Phases : pc \in Running /\ pc # "unpack" /\ pc # "queued"
BY DEF Active, Running, Answers, Phases, Pcs

\* The running request is at the head of its queue.
LEMMA RunnerIsHead ==
  ASSUME TypeInv, NEW c \in Clients,
         request[c].pc \in Running \/ (request[c].pc = "queued" /\ MyTurn(c))
  PROVE  LET q == queue[request[c].op.kind]
         IN  Len(q) > 0 /\ q # <<>> /\ q[1] = c
<1> DEFINE k == request[c].op.kind
           q == queue[k]
<1>1. k \in Kinds /\ q \in Seq(Clients)
  BY KindOfRequest DEF TypeInv
<1>2. PICK i \in 1..Len(q) : q[i] = c
  BY PcsDisjoint DEF TypeInv, Turns, Active
<1>3. q # <<>> /\ Len(q) > 0 /\ 1 \in 1..Len(q)
  BY <1>1, <1>2
<1>4. CASE request[c].pc \in Running
  BY <1>1, <1>2, <1>3, <1>4, PcsDisjoint DEF TypeInv, Turns
<1>5. CASE request[c].pc = "queued" /\ MyTurn(c)
  BY <1>1, <1>3, <1>5 DEF MyTurn
<1>6. QED
  BY <1>3, <1>4, <1>5

\* A step of a request between its turn and its answer keeps the turns.
LEMMA TurnsKept ==
  ASSUME TypeInv, NEW c \in Clients, Others(c), queue' = queue,
         request[c].pc \in Running \/ (request[c].pc = "queued" /\ MyTurn(c)),
         request'[c].pc \in Running, request'[c].op = request[c].op
  PROVE  Turns'
<1> DEFINE kind == request[c].op.kind
<1>1. /\ Len(queue[kind]) > 0 /\ queue[kind][1] = c /\ kind \in Kinds
  BY RunnerIsHead, KindOfRequest DEF TypeInv
<1>2. \A k \in Kinds : queue[k] \in Seq(Clients) /\ Len(queue[k]) \in Nat
  BY DEF TypeInv, TypeOK
<1>3. \A k \in Kinds : \A i \in 1..Len(queue[k]) : queue[k][i] \in Clients
  BY <1>2
<1>4. ASSUME NEW k \in Kinds, NEW i \in 1..Len(queue[k])
      PROVE  /\ request'[queue[k][i]].op.kind = k
             /\ request'[queue[k][i]].pc \in Active
             /\ i # 1 => request'[queue[k][i]].pc = "queued"
  <2>1. CASE queue[k][i] = c
    <3>1. k = kind
      BY <2>1 DEF TypeInv, Turns
    <3>2. i = 1
      BY <1>1, <1>2, <2>1, <3>1 DEF TypeInv, Turns
    <3>3. QED
      BY <2>1, <3>1, <3>2, PcsDisjoint
  <2>2. CASE queue[k][i] # c
    BY <1>3, <2>2 DEF TypeInv, Turns, Others
  <2>3. QED
    BY <2>1, <2>2
<1>5. ASSUME NEW d \in Clients, request'[d].pc \in Active
      PROVE  \E i \in 1..Len(queue[request'[d].op.kind]) : queue[request'[d].op.kind][i] = d
  <2>1. CASE d = c
    BY <1>1, <1>2, <2>1
  <2>2. CASE d # c
    BY <1>5, <2>2 DEF TypeInv, Turns, Others
  <2>3. QED
    BY <2>1, <2>2
<1>6. QED
  BY <1>4, <1>5 DEF TypeInv, Turns

\* The request that is answered leaves its queue.
LEMMA TurnsFinish ==
  ASSUME TypeInv, NEW c \in Clients, Finish(c)
  PROVE  Turns' /\ queue' \in [Kinds -> Seq(Clients)]
<1> DEFINE kind == request[c].op.kind
           q == queue[kind]
<1>1. /\ request[c].pc = "cleanup" /\ Others(c) /\ request'[c].pc \notin Active
      /\ request'[c].op = request[c].op
      /\ queue' = [queue EXCEPT ![kind] = Tail(q)]
  BY FinishEffect, PcsDisjoint DEF TypeInv, Fresh, TypeOK, Request
<1>2. /\ q \in Seq(Clients) /\ q # <<>> /\ Len(q) > 0 /\ q[1] = c /\ kind \in Kinds
  BY <1>1, RunnerIsHead, KindOfRequest DEF TypeInv, Running
<1>3. /\ Tail(q) \in Seq(Clients) /\ Len(Tail(q)) = Len(q) - 1 /\ Len(q) \in Nat
      /\ \A i \in 1..Len(Tail(q)) : i + 1 \in 1..Len(q) /\ i + 1 # 1 /\ Tail(q)[i] = q[i + 1]
  BY <1>2
<1>4. \A k \in Kinds : /\ queue'[k] = IF k = kind THEN Tail(q) ELSE queue[k]
                       /\ queue[k] \in Seq(Clients)
                       /\ \A i \in 1..Len(queue[k]) : queue[k][i] \in Clients
  BY <1>1, <1>2 DEF TypeInv, TypeOK
<1>5. queue' \in [Kinds -> Seq(Clients)]
  BY <1>1, <1>2, <1>3 DEF TypeInv, TypeOK
<1>6. \A k \in Kinds : \A i \in 1..Len(queue[k]) : queue[k][i] = c => k = kind /\ i = 1
  <2>1. ASSUME NEW k \in Kinds, NEW i \in 1..Len(queue[k]), queue[k][i] = c
        PROVE  k = kind /\ i = 1
    <3>1. k = kind
      BY <2>1 DEF TypeInv, Turns
    <3>2. 1 \in 1..Len(queue[k]) /\ queue[k][1] = c
      BY <1>2, <1>3, <3>1
    <3>3. QED
      BY <2>1, <3>1, <3>2 DEF TypeInv, Turns
  <2>2. QED
    BY <2>1
<1>7. ASSUME NEW k \in Kinds, NEW i \in 1..Len(queue'[k])
      PROVE  /\ \A j \in 1..Len(queue'[k]) : queue'[k][i] = queue'[k][j] => i = j
             /\ request'[queue'[k][i]].op.kind = k
             /\ request'[queue'[k][i]].pc \in Active
             /\ i # 1 => request'[queue'[k][i]].pc = "queued"
  <2>1. CASE k = kind
    <3>1. \A j \in 1..Len(queue'[k]) : /\ j + 1 \in 1..Len(queue[k]) /\ j + 1 # 1
                                       /\ queue'[k][j] = queue[k][j + 1]
      BY <1>2, <1>3, <1>4, <2>1
    <3>2. \A j \in 1..Len(queue'[k]) : queue'[k][i] = queue'[k][j] => i = j
      <4>1. ASSUME NEW j \in 1..Len(queue'[k]), queue'[k][i] = queue'[k][j]
            PROVE  i = j
        <5>1. i + 1 = j + 1
          BY <3>1, <4>1 DEF TypeInv, Turns
        <5>2. QED
          BY <5>1
      <4>2. QED
        BY <4>1
    <3>3. queue'[k][i] # c /\ queue'[k][i] \in Clients
      BY <1>4, <1>6, <3>1
    <3>4. /\ request[queue'[k][i]].op.kind = k
          /\ request[queue'[k][i]].pc = "queued"
      <4>1. /\ i + 1 \in 1..Len(queue[k]) /\ i + 1 # 1 /\ queue'[k][i] = queue[k][i + 1]
        BY <3>1
      <4>2. QED
        BY <4>1 DEF TypeInv, Turns
    <3>5. QED
      BY <1>1, <3>2, <3>3, <3>4 DEF Others, Active
  <2>2. CASE k # kind
    BY <1>1, <1>4, <1>6, <2>2 DEF TypeInv, Turns, Others
  <2>3. QED
    BY <2>1, <2>2
<1>8. ASSUME NEW d \in Clients, request'[d].pc \in Active
      PROVE  \E i \in 1..Len(queue'[request'[d].op.kind]) : queue'[request'[d].op.kind][i] = d
  <2>1. d # c /\ request'[d] = request[d]
    BY <1>1, <1>8 DEF Others
  <2> DEFINE k == request[d].op.kind
  <2>2. k \in Kinds
    BY KindOfRequest DEF TypeInv
  <2>3. PICK i \in 1..Len(queue[k]) : queue[k][i] = d
    BY <1>8, <2>1 DEF TypeInv, Turns
  <2>4. CASE k = kind
    <3>1. i - 1 \in 1..Len(Tail(q)) /\ Tail(q)[i - 1] = d
      BY <1>2, <1>3, <2>1, <2>3, <2>4
    <3>2. QED
      BY <1>4, <2>1, <2>2, <2>4, <3>1
  <2>5. CASE k # kind
    BY <1>4, <2>1, <2>2, <2>3, <2>5
  <2>6. QED
    BY <2>4, <2>5
<1>9. QED
  BY <1>5, <1>7, <1>8 DEF Turns

\* The request that is made goes to the end of its queue.
LEMMA TurnsSubmit ==
  ASSUME TypeInv, NEW c \in Clients, NEW op \in Operations, Submit(c, op)
  PROVE  Turns' /\ queue' \in [Kinds -> Seq(Clients)]
<1> DEFINE kind == op.kind
           q == queue[kind]
<1>1. /\ request[c].pc \notin Active /\ Others(c) /\ request'[c].pc = "queued"
      /\ request'[c].op = op /\ queue' = [queue EXCEPT ![kind] = Append(q, c)]
  BY SubmitEffect, PcsDisjoint DEF TypeInv, Fresh
<1>2. kind \in Kinds /\ q \in Seq(Clients) /\ Len(q) \in Nat
  BY OperationsAssumption DEF TypeInv, TypeOK
<1>3. /\ Append(q, c) \in Seq(Clients) /\ Len(Append(q, c)) = Len(q) + 1
      /\ \A i \in 1..Len(q) : Append(q, c)[i] = q[i]
      /\ Append(q, c)[Len(q) + 1] = c
  BY <1>2
<1>4. \A k \in Kinds : /\ queue'[k] = IF k = kind THEN Append(q, c) ELSE queue[k]
                       /\ queue[k] \in Seq(Clients)
                       /\ \A i \in 1..Len(queue[k]) : queue[k][i] \in Clients
  BY <1>1, <1>2 DEF TypeInv, TypeOK
<1>5. queue' \in [Kinds -> Seq(Clients)]
  BY <1>1, <1>2, <1>3 DEF TypeInv, TypeOK
<1>6. \A k \in Kinds : \A i \in 1..Len(queue[k]) : queue[k][i] # c
  BY <1>1 DEF TypeInv, Turns
<1>7. ASSUME NEW k \in Kinds, NEW i \in 1..Len(queue'[k])
      PROVE  /\ \A j \in 1..Len(queue'[k]) : queue'[k][i] = queue'[k][j] => i = j
             /\ request'[queue'[k][i]].op.kind = k
             /\ request'[queue'[k][i]].pc \in Active
             /\ i # 1 => request'[queue'[k][i]].pc = "queued"
  <2>1. CASE k = kind
    <3>1. \A j \in 1..Len(queue'[k]) : \/ j \in 1..Len(q) /\ queue'[k][j] = q[j]
                                       \/ j = Len(q) + 1 /\ queue'[k][j] = c
      <4>1. queue'[k] = Append(q, c)
        BY <1>4, <2>1
      <4> HIDE DEF q
      <4>2. QED
        BY <1>2, <1>3, <4>1
    <3>2. \A j \in 1..Len(queue'[k]) : queue'[k][i] = queue'[k][j] => i = j
      BY <1>2, <1>6, <3>1 DEF TypeInv, Turns
    <3>3. CASE i \in 1..Len(q) /\ queue'[k][i] = q[i]
      BY <1>1, <1>2, <1>4, <1>6, <2>1, <3>2, <3>3 DEF TypeInv, Turns, Others
    <3>4. CASE queue'[k][i] = c
      BY <1>1, <2>1, <3>2, <3>4 DEF Active
    <3>5. QED
      BY <3>1, <3>3, <3>4
  <2>2. CASE k # kind
    BY <1>1, <1>4, <1>6, <2>2 DEF TypeInv, Turns, Others
  <2>3. QED
    BY <2>1, <2>2
<1>8. ASSUME NEW d \in Clients, request'[d].pc \in Active
      PROVE  \E i \in 1..Len(queue'[request'[d].op.kind]) : queue'[request'[d].op.kind][i] = d
  <2>1. CASE d = c
    <3>1. /\ queue'[kind] = Append(q, c) /\ Len(q) + 1 \in 1..Len(Append(q, c))
      <4>1. queue'[kind] = Append(q, c)
        BY <1>2, <1>4
      <4> HIDE DEF q
      <4>2. QED
        BY <1>2, <1>3, <4>1
    <3>2. QED
      BY <1>1, <1>3, <2>1, <3>1
  <2>2. CASE d # c
    <3>1. request'[d] = request[d] /\ request[d].op.kind \in Kinds
      BY <1>1, <2>2, KindOfRequest DEF Others, TypeInv
    <3>2. PICK i \in 1..Len(queue[request[d].op.kind]) : queue[request[d].op.kind][i] = d
      BY <1>8, <3>1 DEF TypeInv, Turns
    <3>3. /\ i \in 1..Len(queue'[request[d].op.kind])
          /\ queue'[request[d].op.kind][i] = d
      <4>1. CASE request[d].op.kind # kind
        BY <1>4, <3>1, <3>2, <4>1
      <4>2. CASE request[d].op.kind = kind
        <5>1. queue'[request[d].op.kind] = Append(q, c) /\ i \in 1..Len(q) /\ q[i] = d
          BY <1>2, <1>4, <3>2, <4>2
        <5> HIDE DEF q
        <5>2. i \in 1..Len(Append(q, c)) /\ Append(q, c)[i] = d
          BY <1>2, <1>3, <5>1
        <5>3. QED
          BY <5>1, <5>2
      <4>3. QED
        BY <4>1, <4>2
    <3>4. QED
      BY <3>1, <3>3
  <2>3. QED
    BY <2>1, <2>2
<1>9. QED
  BY <1>5, <1>7, <1>8 DEF Turns

\* A well-formed change of one request, with well-typed variables around it.
LEMMA TypeOfRequests ==
  ASSUME TypeOK, NEW c \in Clients, Others(c), RequestOK(request'[c]),
         registryFile' \in ResourceGroup, gatewayFile' \in ResourceGroup,
         folder' \in [Policies -> Code], tmp' \in [Policies -> Code], bundle' \in Code,
         queue' \in [Kinds -> Seq(Clients)],
         late' \subseteq [file : {"registry", "gateway"}, request : Request],
         version' = version, failures' \in Nat
  PROVE  TypeOK'
<1>1. \A d \in Clients : RequestOK(request'[d])
  BY DEF Others, TypeOK, RequestOK
<1>2. QED
  BY <1>1 DEF Others, TypeOK, RequestOK

\* What the phases keep of the types.
LEMMA PhaseOK ==
  ASSUME NEW q \in Request, InPhase(q) \/ q.pc \in {"cleanup", "introspect", "overlay", "save"}
  PROVE  RequestOK(q)
BY PcsDisjoint DEF InPhase, RequestOK, Running

\* The steps of a request in which it keeps its turn.
Working(c) ==
    \/ Fetch(c) \/ UpdateResources(c) \/ RebuildResources(c) \/ DeleteResources(c)
    \/ RefreshRemoteSchema(c) \/ Overlay(c)
    \/ Compile(c) \/ Unpack(c) \/ Attach(c) \/ Detach(c) \/ Save(c) \/ Fail(c)

\* What all of them have in common: the request goes on running.
LEMMA WorkingEffect ==
  ASSUME TypeOK, NEW c \in Clients, Working(c)
  PROVE  /\ Others(c) /\ RequestOK(request'[c])
         /\ request'[c].op = request[c].op /\ request'[c].pc \in Running
         /\ request[c].pc \in Running \/ (request[c].pc = "queued" /\ MyTurn(c))
         /\ queue' = queue /\ version' = version
<1> USE DEF Running
<1>1. CASE Fetch(c)
  BY <1>1, FetchEffect, PhaseOK DEF Others
<1>2. CASE UpdateResources(c) \/ RebuildResources(c) \/ DeleteResources(c)
  BY <1>2, PrepareEffect, PhaseOK, PcsDisjoint DEF Others, InPhase
<1>3. CASE RefreshRemoteSchema(c)
  BY <1>3, RefreshEffect, PhaseOK DEF Others
<1>4. CASE Overlay(c)
  BY <1>4, OverlayEffect, PhaseOK DEF Others
<1>5. CASE Compile(c)
  BY <1>5, CompileEffect DEF Others, RequestOK, SameWork
<1>6. CASE Unpack(c)
  BY <1>6, UnpackEffect, PhaseOK, PcsDisjoint DEF Others, InPhase
<1>7. CASE Attach(c)
  BY <1>7, AttachEffect, PhaseOK, PcsDisjoint DEF Others, InPhase
<1>8. CASE Detach(c)
  BY <1>8, DetachEffect, PhaseOK, PcsDisjoint DEF Others, InPhase
<1>9. CASE Save(c)
  BY <1>9, SaveEffect, PhaseOK DEF Others
<1>10. CASE Fail(c)
  BY <1>10, FailEffect, PhaseOK DEF Others, Active
<1>11. QED
  BY <1>1, <1>2, <1>3, <1>4, <1>5, <1>6, <1>7, <1>8, <1>9, <1>10 DEF Working

\* The variables they change keep their types.
LEMMA WorkingTypes ==
  ASSUME TypeOK, NEW c \in Clients, Working(c)
  PROVE  /\ registryFile' \in ResourceGroup /\ gatewayFile' \in ResourceGroup
         /\ folder' \in [Policies -> Code] /\ tmp' \in [Policies -> Code] /\ bundle' \in Code
         /\ late' \subseteq [file : {"registry", "gateway"}, request : Request]
         /\ failures' \in Nat
<1>1. /\ request[c] \in Request /\ request[c].registryRg \in ResourceGroup
      /\ request[c].gatewayRg \in ResourceGroup
      /\ request[c].toCompile \subseteq Policies /\ request[c].toSave \subseteq Policies
      /\ request[c].toDelete \subseteq Policies /\ Absent \in Code
  BY DEF TypeOK, Request, Absent, Code
<1> USE DEF TypeOK
<1>2. CASE Fetch(c)
  BY <1>2, FetchEffect
<1>3. CASE UpdateResources(c) \/ RebuildResources(c) \/ DeleteResources(c)
  BY <1>3, PrepareEffect
<1>4. CASE RefreshRemoteSchema(c)
  BY <1>4, RefreshEffect
<1>5. CASE Overlay(c)
  BY <1>5, OverlayEffect
<1>6. CASE Compile(c)
  <2>1. request[c].registryRg.policies \in [Policies -> Code]
    BY <1>1 DEF ResourceGroup
  <2>2. /\ bundle' = request[c].registryRg.policies[request'[c].current]
        /\ request'[c].current \in Policies
    BY <1>1, <1>6, CompileEffect
  <2>3. QED
    BY <1>1, <1>6, <2>1, <2>2, CompileEffect
<1>7. CASE Unpack(c)
  BY <1>1, <1>7, UnpackEffect
<1>8. CASE Attach(c)
  <2>1. PICK p \in request[c].toSave :
          folder' = folder \/ folder' = [folder EXCEPT ![p] = tmp[p]]
    BY <1>8, AttachEffect
  <2>2. folder' \in [Policies -> Code]
    BY <1>1, <2>1
  <2>3. QED
    BY <1>8, <2>2, AttachEffect
<1>9. CASE Detach(c)
  <2>1. PICK p \in request[c].toDelete :
          folder' = folder \/ folder' = [folder EXCEPT ![p] = Absent]
    BY <1>9, DetachEffect
  <2>2. folder' \in [Policies -> Code]
    BY <1>1, <2>1
  <2>3. QED
    BY <1>9, <2>2, DetachEffect
<1>10. CASE Save(c)
  BY <1>1, <1>10, SaveEffect
<1>11. CASE Fail(c)
  BY <1>11, FailEffect
<1>12. QED
  BY <1>2, <1>3, <1>4, <1>5, <1>6, <1>7, <1>8, <1>9, <1>10, <1>11 DEF Working

LEMMA StepsCovered ==
  Next <=> \/ \E c \in Clients : Working(c) \/ Finish(c) \/ \E op \in Operations : Submit(c, op)
           \/ LateWrite \/ Crash \/ Evolve
BY DEF Next, Step, Working

LEMMA InitTypeInv == Init => TypeInv
<1> SUFFICES ASSUME Init
             PROVE  TypeInv
  OBVIOUS
<1>1. registryFile \in ResourceGroup /\ gatewayFile \in ResourceGroup
  BY EmptyGroupType DEF Init
<1>2. \A c \in Clients : RequestOK(request[c]) /\ request[c].pc = "none"
  BY NoRequestType DEF Init, RequestOK, Fresh
<1>3. request \in [Clients -> Request]
  BY NoRequestType DEF Init
<1>4. /\ folder \in [Policies -> Code] /\ tmp \in [Policies -> Code] /\ bundle \in Code
      /\ late \subseteq [file : {"registry", "gateway"}, request : Request]
      /\ version \in Nat \ {0} /\ failures \in Nat
  BY DEF Init, Absent, Code
<1>5. queue \in [Kinds -> Seq(Clients)] /\ \A k \in Kinds : 1..Len(queue[k]) = {}
  BY DEF Init
<1>6. TypeOK
  BY <1>1, <1>2, <1>3, <1>4, <1>5 DEF TypeOK, RequestOK
<1>7. Turns
  BY <1>2, <1>5, PcsDisjoint DEF Turns
<1>8. QED
  BY <1>6, <1>7 DEF TypeInv

LEMMA NextTypeInv == TypeInv /\ [Next]_vars => TypeInv'
<1> SUFFICES ASSUME TypeInv, [Next]_vars
             PROVE  TypeInv'
  OBVIOUS
<1> USE DEF TypeInv
<1>1. ASSUME NEW c \in Clients, Working(c)
      PROVE  TypeInv'
  <2>1. Turns'
    BY <1>1, WorkingEffect, TurnsKept
  <2>2. queue' \in [Kinds -> Seq(Clients)]
    BY <1>1, WorkingEffect DEF TypeOK
  <2>3. TypeOK'
    BY <1>1, <2>2, WorkingEffect, WorkingTypes, TypeOfRequests
  <2>4. QED
    BY <2>1, <2>3
<1>2. ASSUME NEW c \in Clients, Finish(c)
      PROVE  TypeInv'
  <2>1. Turns' /\ queue' \in [Kinds -> Seq(Clients)]
    BY <1>2, TurnsFinish
  <2>2. Others(c) /\ Fresh(request'[c], request[c].answer, request[c].op)
    BY <1>2, FinishEffect
  <2>3. RequestOK(request'[c])
    BY <2>2, PcsDisjoint DEF Others, Fresh, RequestOK, TypeOK, Request, Answers, Running
  <2>4. tmp' \in [Policies -> Code]
    BY <1>2, FinishEffect DEF TypeOK, Absent, Code
  <2>5. UNCHANGED <<registryFile, gatewayFile, folder, bundle, late, version, failures>>
    BY <1>2, FinishEffect
  <2>6. TypeOK'
    BY <2>1, <2>2, <2>3, <2>4, <2>5, TypeOfRequests DEF TypeOK
  <2>7. QED
    BY <2>1, <2>6
<1>3. ASSUME NEW c \in Clients, NEW op \in Operations, Submit(c, op)
      PROVE  TypeInv'
  <2>1. Turns' /\ queue' \in [Kinds -> Seq(Clients)]
    BY <1>3, TurnsSubmit
  <2>2. Others(c) /\ RequestOK(request'[c])
    BY <1>3, SubmitEffect, PcsDisjoint DEF Others, Fresh, RequestOK
  <2>3. UNCHANGED <<registryFile, gatewayFile, folder, tmp, bundle, late, version, failures>>
    BY <1>3, SubmitEffect
  <2>4. TypeOK'
    BY <2>1, <2>2, <2>3, TypeOfRequests DEF TypeOK
  <2>5. QED
    BY <2>1, <2>4
<1>4. CASE LateWrite
  <2>1. PICK w \in late : WriteResources(w.file, w.request) /\ late' = late \ {w}
    BY <1>4 DEF LateWrite
  <2>2. UNCHANGED <<folder, tmp, bundle, queue, request, version, failures>>
    BY <1>4 DEF LateWrite, local
  <2>3. w.request \in Request
    BY <2>1 DEF TypeOK
  <2>4. registryFile' \in ResourceGroup /\ gatewayFile' \in ResourceGroup
    BY <2>1, <2>3 DEF WriteResources, TypeOK, Request
  <2>5. QED
    BY <2>1, <2>2, <2>4 DEF TypeOK, Turns
<1>5. CASE Crash
  <2>1. /\ request' \in [Clients -> Request]
        /\ \A c \in Clients : RequestOK(request'[c]) /\ request'[c].pc \notin Active
    BY <1>5, CrashEffect, PcsDisjoint DEF TypeOK, Fresh, RequestOK, Answers, Active, Running
  <2>2. /\ queue' = [k \in Kinds |-> <<>>] /\ late' = {} /\ failures' = failures + 1
        /\ UNCHANGED <<registryFile, gatewayFile, folder, tmp, bundle, version>>
    BY <1>5, CrashEffect
  <2>3. queue' \in [Kinds -> Seq(Clients)] /\ \A k \in Kinds : 1..Len(queue'[k]) = {}
    BY <2>2
  <2>4. TypeOK'
    BY <2>1, <2>2, <2>3 DEF TypeOK, RequestOK
  <2>5. QED
    BY <2>1, <2>3, <2>4 DEF Turns
<1>6. CASE Evolve
  BY <1>6 DEF Evolve, TypeOK, Turns, files, local
<1>7. CASE UNCHANGED vars
  BY <1>7 DEF vars, TypeOK, Turns
<1>8. QED
  BY <1>1, <1>2, <1>3, <1>4, <1>5, <1>6, <1>7, StepsCovered

\* The types of the registry's files, folders and requests, for any requests,
\* clients and failures; and who waits in which queue.
THEOREM TypeCorrect == Spec => []TypeOK
<1>1. TypeInv => TypeOK
  BY DEF TypeInv
<1>2. QED
  BY <1>1, InitTypeInv, NextTypeInv, PTL DEF Spec

LEMMA TypeInvariant == Spec => []TypeInv
BY InitTypeInv, NextTypeInv, PTL DEF Spec

\* Of the requests of one resolver at most one runs, the first of its queue, and the
\* others wait in it once each: singleton(...) of every resolver module.
THEOREM RequestsTakeTurns == Spec => []Exclusive
<1>1. TypeInv => Exclusive
  <2> SUFFICES ASSUME TypeInv, NEW c \in Clients
               PROVE  LET q == queue[request[c].op.kind]
                          places == {i \in 1..Len(q) : q[i] = c}
                      IN  /\ request[c].pc \in Running => places = {1}
                          /\ request[c].pc = "queued" => \E i \in 1..Len(q) : places = {i}
    BY DEF Exclusive
  <2> DEFINE q == queue[request[c].op.kind]
  <2>1. request[c].op.kind \in Kinds /\ q \in Seq(Clients) /\ Len(q) \in Nat
    BY KindOfRequest DEF TypeInv
  <2>2. \A i, j \in 1..Len(q) : q[i] = q[j] => i = j
    BY <2>1 DEF TypeInv, Turns
  <2>3. CASE request[c].pc \in Running
    <3>1. 1 \in 1..Len(q) /\ q[1] = c
      BY <2>1, <2>3, RunnerIsHead
    <3>2. QED
      BY <2>2, <2>3, <3>1, PcsDisjoint
  <2>4. CASE request[c].pc = "queued"
    <3>1. PICK i \in 1..Len(q) : q[i] = c
      BY <2>4 DEF TypeInv, Turns, Active
    <3>2. {j \in 1..Len(q) : q[j] = c} = {i}
      BY <2>2, <3>1
    <3>3. QED
      BY <2>4, <3>2, PcsDisjoint
  <2>5. QED
    BY <2>3, <2>4
<1>2. QED
  BY <1>1, TypeInvariant, PTL

----------------------------------------------------------------------------
(* The remote schemas of the resource files. *)

Knows(rg) == Used(rg) \subseteq Known(rg)

\* The request has done its introspection; a refresh starts with the registry's.
HasIntrospected(q) ==
    \/ q.pc \in {"compile", "unpack", "attach", "detach", "overlay", "save"}
    \/ q.pc = "introspect" /\ q.op.kind = "refresh"

\* From there on it carries a resource group that knows its remote servers, and so
\* does a save that nobody waits for.
RegistryGroups ==
    /\ Knows(registryFile)
    /\ \A c \in Clients : HasIntrospected(request[c]) => Knows(request[c].registryRg)
    /\ \A w \in late : Knows(w.request.registryRg)

\* A refresh changes neither policies nor schemas.
LEMMA RefreshChangesNothing ==
  ASSUME NEW g \in ResourceGroup, NEW op \in Operations, op.kind \in {"rebuild", "refresh"}
  PROVE  Store!Apply(g, op) \in ResourceGroup /\ Store!Apply(g, op) = g
<1> DEFINE h == Store!Apply(g, op)
<1>1. DOMAIN op.policies = {} /\ DOMAIN op.uses = {}
  BY OperationsAssumption
<1>2. /\ h \in ResourceGroup /\ h.remote = g.remote
      /\ \A p \in Policies : h.policies[p] = g.policies[p]
      /\ \A s \in Schemas : h.uses[s] = g.uses[s]
  BY <1>1, ApplyType
<1> HIDE DEF h
<1>3. h.policies = g.policies /\ h.uses = g.uses
  BY <1>2 DEF ResourceGroup
<1>4. QED
  BY <1>2, <1>3 DEF ResourceGroup, h

\* A group with a remote schema renewed, or with the uses of another that knew them.
LEMMA KnowsRenewed ==
  ASSUME NEW g \in ResourceGroup, NEW u \in Urls, NEW v \in Nat \ {0}, Knows(g)
  PROVE  Knows([g EXCEPT !.remote[u] = v])
<1> DEFINE h == [g EXCEPT !.remote[u] = v]
<1>0. v \in Nat /\ v # 0
  OBVIOUS
<1>1. /\ h.uses = g.uses /\ h.remote[u] = v /\ \A x \in Urls : x # u => h.remote[x] = g.remote[x]
  BY <1>0, RenewedType, Zenon
<1> HIDE DEF h
<1>2. Knows(h)
  BY <1>1 DEF Knows, Used, Known
<1>3. QED
  BY <1>2 DEF h

LEMMA WorkingRegistryGroups ==
  ASSUME TypeInv, RegistryGroups, NEW c \in Clients, Working(c)
  PROVE  RegistryGroups'
<1> DEFINE r == request[c]
           q == request'[c]
<1>1. /\ TypeOK /\ r \in Request /\ r.op \in Operations /\ registryFile \in ResourceGroup
      /\ r.registryRg \in ResourceGroup /\ version \in Nat \ {0}
  BY DEF TypeInv, TypeOK, Request
<1>2. /\ Others(c) /\ q.op = r.op
  BY <1>1, WorkingEffect
<1>3. SUFFICES /\ Knows(registryFile')
               /\ HasIntrospected(q) => Knows(q.registryRg)
               /\ \A w \in late' : Knows(w.request.registryRg)
  BY <1>2 DEF RegistryGroups, Others
<1> USE DEF HasIntrospected
<1>4. CASE Fetch(c)
  <2>1. registryFile' = registryFile /\ late' = late
    BY <1>1, <1>4, FetchEffect
  <2>2. HasIntrospected(q) => r.op.kind = "refresh" /\ q.registryRg = registryFile
    BY <1>1, <1>2, <1>4, FetchEffect, RefreshChangesNothing
  <2>3. QED
    BY <2>1, <2>2 DEF RegistryGroups
<1>5. CASE UpdateResources(c) \/ RebuildResources(c) \/ DeleteResources(c)
  <2>1. registryFile' = registryFile /\ late' = late
    BY <1>1, <1>5, PrepareEffect
  <2>2. HasIntrospected(q) => Knows(q.registryRg)
    BY <1>1, <1>2, <1>5, PrepareEffect DEF Knows
  <2>3. QED
    BY <2>1, <2>2 DEF RegistryGroups
<1>6. CASE RefreshRemoteSchema(c)
  <2>1. /\ registryFile' = registryFile /\ late' = late
        /\ r.pc = "introspect" /\ r.op.kind = "refresh"
        /\ q.registryRg = [r.registryRg EXCEPT !.remote[r.op.url] = version]
    BY <1>1, <1>6, RefreshEffect
  <2>2. r.op.url \in Urls /\ Knows(r.registryRg)
    BY <1>1, <2>1, OperationsAssumption DEF RegistryGroups
  <2>3. Knows(q.registryRg)
    BY <1>1, <2>1, <2>2, KnowsRenewed
  <2>4. QED
    BY <2>1, <2>3 DEF RegistryGroups
<1>7. CASE Overlay(c)
  BY <1>1, <1>7, OverlayEffect DEF RegistryGroups
<1>8. CASE Compile(c)
  BY <1>1, <1>8, CompileEffect DEF RegistryGroups, SameGroups
<1>9. CASE Unpack(c)
  BY <1>1, <1>9, UnpackEffect DEF RegistryGroups, SameGroups
<1>10. CASE Attach(c)
  BY <1>1, <1>10, AttachEffect DEF RegistryGroups, SameGroups
<1>11. CASE Detach(c)
  BY <1>1, <1>11, DetachEffect DEF RegistryGroups, SameGroups
<1>12. CASE Save(c)
  BY <1>1, <1>12, SaveEffect DEF RegistryGroups, SameGroups
<1>13. CASE Fail(c)
  BY <1>1, <1>13, FailEffect DEF RegistryGroups
<1>14. QED
  BY <1>4, <1>5, <1>6, <1>7, <1>8, <1>9, <1>10, <1>11, <1>12, <1>13 DEF Working

LEMMA NextRegistryGroups == TypeInv /\ RegistryGroups /\ [Next]_vars => RegistryGroups'
<1> SUFFICES ASSUME TypeInv, RegistryGroups, [Next]_vars
             PROVE  RegistryGroups'
  OBVIOUS
<1>1. TypeOK
  BY DEF TypeInv
<1>2. ASSUME NEW c \in Clients, Working(c)
      PROVE  RegistryGroups'
  BY <1>2, WorkingRegistryGroups
<1>3. ASSUME NEW c \in Clients, Finish(c)
      PROVE  RegistryGroups'
  <2>1. /\ Others(c) /\ ~HasIntrospected(request'[c])
        /\ UNCHANGED <<registryFile, late>>
    BY <1>1, <1>3, FinishEffect DEF Fresh, HasIntrospected, TypeOK, Request, Answers
  <2>2. QED
    BY <2>1 DEF RegistryGroups, Others
<1>4. ASSUME NEW c \in Clients, NEW op \in Operations, Submit(c, op)
      PROVE  RegistryGroups'
  <2>1. /\ Others(c) /\ ~HasIntrospected(request'[c])
        /\ UNCHANGED <<registryFile, late>>
    BY <1>1, <1>4, SubmitEffect DEF Fresh, HasIntrospected
  <2>2. QED
    BY <2>1 DEF RegistryGroups, Others
<1>5. CASE LateWrite
  BY <1>5 DEF LateWrite, WriteResources, RegistryGroups
<1>6. CASE Crash
  <2>1. /\ registryFile' = registryFile /\ late' = {}
        /\ \A c \in Clients : request'[c] = request[c] \/ ~HasIntrospected(request'[c])
    BY <1>1, <1>6, CrashEffect DEF Fresh, HasIntrospected
  <2>2. QED
    BY <2>1 DEF RegistryGroups
<1>7. CASE Evolve
  BY <1>7 DEF Evolve, RegistryGroups, files
<1>8. CASE UNCHANGED vars
  BY <1>8 DEF vars, RegistryGroups
<1>9. QED
  BY <1>2, <1>3, <1>4, <1>5, <1>6, <1>7, <1>8, StepsCovered

LEMMA InitRegistryGroups == Init => RegistryGroups
<1> SUFFICES ASSUME Init
             PROVE  RegistryGroups
  OBVIOUS
<1>1. Knows(registryFile) /\ late = {}
  BY EmptyGroupType DEF Init, Knows
<1>2. \A c \in Clients : ~HasIntrospected(request[c])
  BY NoRequestType DEF Init, Fresh, HasIntrospected
<1>3. QED
  BY <1>1, <1>2 DEF RegistryGroups

\* Whatever overlaps and whatever fails, the registry's file has the remote schema of
\* every url its schemas use: a deletion, which does not wait for an introspection,
\* finds everything it needs.
THEOREM RemoteSchemasKept == Spec => []RegistryKnowsUrls
<1>1. RegistryGroups => RegistryKnowsUrls
  BY DEF RegistryGroups, RegistryKnowsUrls, Knows
<1>2. QED
  BY <1>1, InitRegistryGroups, NextRegistryGroups, TypeInvariant, PTL DEF Spec

\* The same for the gateways' file, unless a refresh overlays it with the remote
\* schemas of a registry that is ahead of it.
NoRefresh == \A op \in Operations : op.kind # "refresh"

GatewayGroups ==
    /\ Knows(gatewayFile)
    /\ \A c \in Clients : /\ HasIntrospected(request[c]) => Knows(request[c].gatewayRg)
                          /\ request[c].pc # "overlay"
    /\ \A w \in late : Knows(w.request.gatewayRg)

LEMMA WorkingGatewayGroups ==
  ASSUME NoRefresh, TypeInv, GatewayGroups, NEW c \in Clients, Working(c)
  PROVE  GatewayGroups'
<1> DEFINE r == request[c]
           q == request'[c]
<1>1. /\ TypeOK /\ r.op.kind # "refresh"
  BY DEF TypeInv, TypeOK, Request, NoRefresh
<1>2. /\ Others(c) /\ q.op = r.op
  BY <1>1, WorkingEffect
<1>3. SUFFICES /\ Knows(gatewayFile')
               /\ HasIntrospected(q) => Knows(q.gatewayRg)
               /\ q.pc # "overlay"
               /\ \A w \in late' : Knows(w.request.gatewayRg)
  BY <1>2 DEF GatewayGroups, Others
<1> USE DEF HasIntrospected
<1>4. CASE Fetch(c)
  BY <1>1, <1>2, <1>4, FetchEffect DEF GatewayGroups
<1>5. CASE UpdateResources(c) \/ RebuildResources(c) \/ DeleteResources(c)
  <2>1. gatewayFile' = gatewayFile /\ late' = late
    BY <1>1, <1>5, PrepareEffect
  <2>2. (HasIntrospected(q) => Knows(q.gatewayRg)) /\ q.pc # "overlay"
    BY <1>1, <1>2, <1>5, PrepareEffect DEF Knows, InPhase, Phases
  <2>3. QED
    BY <2>1, <2>2 DEF GatewayGroups
<1>6. CASE RefreshRemoteSchema(c)
  BY <1>1, <1>6, RefreshEffect
<1>7. CASE Overlay(c)
  BY <1>1, <1>7, OverlayEffect DEF GatewayGroups
<1>8. CASE Compile(c)
  BY <1>1, <1>8, CompileEffect DEF GatewayGroups, SameGroups, InPhase, Phases
<1>9. CASE Unpack(c)
  BY <1>1, <1>9, UnpackEffect DEF GatewayGroups, SameGroups, InPhase, Phases
<1>10. CASE Attach(c)
  BY <1>1, <1>10, AttachEffect DEF GatewayGroups, SameGroups, InPhase, Phases
<1>11. CASE Detach(c)
  BY <1>1, <1>11, DetachEffect DEF GatewayGroups, SameGroups, InPhase, Phases
<1>12. CASE Save(c)
  BY <1>1, <1>12, SaveEffect DEF GatewayGroups, SameGroups, InPhase, Phases
<1>13. CASE Fail(c)
  BY <1>1, <1>13, FailEffect DEF GatewayGroups
<1>14. QED
  BY <1>4, <1>5, <1>6, <1>7, <1>8, <1>9, <1>10, <1>11, <1>12, <1>13 DEF Working

LEMMA NextGatewayGroups ==
  ASSUME NoRefresh
  PROVE  TypeInv /\ GatewayGroups /\ [Next]_vars => GatewayGroups'
<1> SUFFICES ASSUME TypeInv, GatewayGroups, [Next]_vars
             PROVE  GatewayGroups'
  OBVIOUS
<1>1. TypeOK
  BY DEF TypeInv
<1>2. ASSUME NEW c \in Clients, Working(c)
      PROVE  GatewayGroups'
  BY <1>2, WorkingGatewayGroups
<1>3. ASSUME NEW c \in Clients, Finish(c)
      PROVE  GatewayGroups'
  <2>1. /\ Others(c) /\ ~HasIntrospected(request'[c]) /\ request'[c].pc # "overlay"
        /\ UNCHANGED <<gatewayFile, late>>
    BY <1>1, <1>3, FinishEffect DEF Fresh, HasIntrospected, TypeOK, Request, Answers
  <2>2. QED
    BY <2>1 DEF GatewayGroups, Others
<1>4. ASSUME NEW c \in Clients, NEW op \in Operations, Submit(c, op)
      PROVE  GatewayGroups'
  <2>1. /\ Others(c) /\ ~HasIntrospected(request'[c]) /\ request'[c].pc # "overlay"
        /\ UNCHANGED <<gatewayFile, late>>
    BY <1>1, <1>4, SubmitEffect DEF Fresh, HasIntrospected
  <2>2. QED
    BY <2>1 DEF GatewayGroups, Others
<1>5. CASE LateWrite
  BY <1>5 DEF LateWrite, WriteResources, GatewayGroups
<1>6. CASE Crash
  <2>1. /\ gatewayFile' = gatewayFile /\ late' = {}
        /\ \A c \in Clients : \/ request'[c] = request[c]
                              \/ ~HasIntrospected(request'[c]) /\ request'[c].pc # "overlay"
    BY <1>1, <1>6, CrashEffect DEF Fresh, HasIntrospected
  <2>2. QED
    BY <2>1 DEF GatewayGroups
<1>7. CASE Evolve
  BY <1>7 DEF Evolve, GatewayGroups, files
<1>8. CASE UNCHANGED vars
  BY <1>8 DEF vars, GatewayGroups
<1>9. QED
  BY <1>2, <1>3, <1>4, <1>5, <1>6, <1>7, <1>8, StepsCovered

\* Without refreshes the gateways can build their schema from whatever file they find,
\* whatever overlaps and whatever fails: only refreshRemoteSchema writes a group that
\* was put together from two files.
THEOREM GatewaysBuildWithoutRefresh ==
  ASSUME NoRefresh
  PROVE  Spec => []GatewayKnowsUrls
<1>1. Init => GatewayGroups
  <2> SUFFICES ASSUME Init
               PROVE  GatewayGroups
    OBVIOUS
  <2>1. Knows(gatewayFile) /\ late = {}
    BY EmptyGroupType DEF Init, Knows
  <2>2. \A c \in Clients : ~HasIntrospected(request[c]) /\ request[c].pc # "overlay"
    BY NoRequestType DEF Init, Fresh, HasIntrospected
  <2>3. QED
    BY <2>1, <2>2 DEF GatewayGroups
<1>2. GatewayGroups => GatewayKnowsUrls
  BY DEF GatewayGroups, GatewayKnowsUrls, Knows
<1>3. QED
  BY <1>1, <1>2, NextGatewayGroups, TypeInvariant, PTL DEF Spec

----------------------------------------------------------------------------
(* Requests one at a time: one client, or requests of one resolver. *)

OneClient == \A c, d \in Clients : c = d
OneResolver == \A o, p \in Operations : o.kind = p.kind
OneAtATime == OneClient \/ OneResolver

\* While a request works or is about to, no other one runs.
LEMMA NobodyElseRuns ==
  ASSUME OneAtATime, TypeInv, NEW c \in Clients, NEW d \in Clients, d # c,
         request[c].pc \in Running \/ (request[c].pc = "queued" /\ MyTurn(c))
  PROVE  request[d].pc \notin Running
<1> SUFFICES ASSUME request[d].pc \in Running
             PROVE  FALSE
  OBVIOUS
<1>1. /\ request[c].op \in Operations /\ request[d].op \in Operations
  BY KindOfRequest DEF TypeInv
<1>2. request[c].op.kind = request[d].op.kind
  BY <1>1 DEF OneAtATime, OneClient, OneResolver
<1>3. QED
  BY <1>2, RunnerIsHead

LEMMA WorkingAlone ==
  ASSUME OneAtATime, TypeInv, NEW c \in Clients, Working(c) \/ Finish(c),
         NEW d \in Clients, d # c
  PROVE  request[d].pc \notin Running /\ request'[d] = request[d]
<1>1. /\ Others(c)
      /\ request[c].pc \in Running \/ (request[c].pc = "queued" /\ MyTurn(c))
  BY WorkingEffect, FinishEffect DEF TypeInv, Running
<1>2. QED
  BY <1>1, NobodyElseRuns DEF Others

----------------------------------------------------------------------------
(* Each policy's wasm file is compiled from its own code. *)

Own(p) == {Absent} \cup {op.policies[p] : op \in {o \in Operations : p \in DOMAIN o.policies}}
OwnGroup(rg) == \A p \in Policies : rg.policies[p] \in Own(p)

\* Wherever code comes by on its way to the attachments folder it is a code of the
\* policy it is kept for; the output of "opa build", of which there is one for all
\* requests, belongs to the policy that the running request compiles.
OwnInv ==
    /\ OwnGroup(registryFile)
    /\ \A p \in Policies : folder[p] \in Own(p) /\ tmp[p] \in Own(p)
    /\ \A c \in Clients : /\ OwnGroup(request[c].registryRg)
                          /\ request[c].pc = "unpack" => bundle \in Own(request[c].current)
    /\ \A w \in late : OwnGroup(w.request.registryRg)

LEMMA FreshOwn ==
  ASSUME NEW q, NEW pc, NEW op, Fresh(q, pc, op)
  PROVE  OwnGroup(q.registryRg)
<1>1. \A p \in Policies : EmptyGroup.policies[p] = Absent
  BY DEF EmptyGroup
<1>2. \A p \in Policies : Absent \in Own(p)
  BY DEF Own
<1>3. q.registryRg = EmptyGroup
  BY DEF Fresh
<1>4. QED
  BY <1>1, <1>2, <1>3 DEF OwnGroup

LEMMA OwnApplied ==
  ASSUME NEW g \in ResourceGroup, NEW op \in Operations, OwnGroup(g)
  PROVE  OwnGroup(Store!Apply(g, op))
<1>1. \A p \in Policies : Store!Apply(g, op).policies[p] =
                    IF p \in DOMAIN op.policies THEN op.policies[p] ELSE g.policies[p]
  BY ApplyType
<1>2. \A p \in DOMAIN op.policies : op.policies[p] \in Own(p)
  BY DEF Own
<1>3. QED
  BY <1>1, <1>2 DEF OwnGroup

LEMMA WorkingOwn ==
  ASSUME OneAtATime, TypeInv, OwnInv, NEW c \in Clients, Working(c)
  PROVE  OwnInv'
<1> DEFINE r == request[c]
           q == request'[c]
<1>1. /\ TypeOK /\ r \in Request /\ r.op \in Operations /\ registryFile \in ResourceGroup
      /\ RequestOK(r) /\ r.toCompile \subseteq Policies /\ r.toSave \subseteq Policies
      /\ r.toDelete \subseteq Policies
  BY RequestsOK DEF TypeInv, TypeOK, Request
<1>2. \A d \in Clients : d # c => request'[d] = request[d] /\ request[d].pc # "unpack"
  BY WorkingAlone DEF Running
<1>3. SUFFICES /\ OwnGroup(registryFile')
               /\ \A p \in Policies : folder'[p] \in Own(p) /\ tmp'[p] \in Own(p)
               /\ OwnGroup(q.registryRg)
               /\ q.pc = "unpack" => bundle' \in Own(q.current)
               /\ \A w \in late' : OwnGroup(w.request.registryRg)
  BY <1>2 DEF OwnInv
<1>4. /\ OwnGroup(registryFile) /\ OwnGroup(r.registryRg)
      /\ \A p \in Policies : folder[p] \in Own(p) /\ tmp[p] \in Own(p)
      /\ \A w \in late : OwnGroup(w.request.registryRg)
  BY DEF OwnInv
<1>5. CASE Fetch(c)
  <2>1. OwnGroup(Store!Apply(registryFile, r.op))
    BY <1>1, <1>4, OwnApplied
  <2>2. QED
    BY <1>1, <1>4, <1>5, <2>1, FetchEffect
<1>6. CASE UpdateResources(c) \/ RebuildResources(c) \/ DeleteResources(c)
  <2>1. q.registryRg.policies = r.registryRg.policies /\ q.pc # "unpack"
    BY <1>1, <1>6, PrepareEffect, PcsDisjoint DEF SameGroups, InPhase
  <2>2. OwnGroup(q.registryRg)
    BY <1>4, <2>1 DEF OwnGroup
  <2>3. QED
    BY <1>1, <1>4, <1>6, <2>1, <2>2, PrepareEffect
<1>7. CASE RefreshRemoteSchema(c)
  <2>1. /\ q.registryRg = [r.registryRg EXCEPT !.remote[r.op.url] = version]
        /\ r.op.kind = "refresh" /\ q.pc # "unpack"
    BY <1>1, <1>7, RefreshEffect
  <2>2. r.op.url \in Urls /\ version \in Nat /\ r.registryRg \in ResourceGroup
    BY <1>1, <2>1, OperationsAssumption DEF TypeOK, Request
  <2>3. q.registryRg.policies = r.registryRg.policies
    BY <2>1, <2>2, RenewedType
  <2>4. OwnGroup(q.registryRg)
    BY <1>4, <2>3 DEF OwnGroup
  <2>5. QED
    BY <1>1, <1>4, <1>7, <2>1, <2>4, RefreshEffect
<1>8. CASE Overlay(c)
  BY <1>1, <1>4, <1>8, OverlayEffect
<1>9. CASE Compile(c)
  <2>1. /\ bundle' = r.registryRg.policies[q.current] /\ q.current \in Policies
    BY <1>1, <1>9, CompileEffect
  <2>2. bundle' \in Own(q.current)
    BY <1>4, <2>1 DEF OwnGroup
  <2>3. QED
    BY <1>1, <1>4, <1>9, <2>2, CompileEffect DEF SameGroups
<1>10. CASE Unpack(c)
  <2>1. r.pc = "unpack" /\ r.current \in Policies /\ bundle \in Own(r.current)
    BY <1>1, <1>10, UnpackEffect DEF OwnInv, RequestOK
  <2>2. \A p \in Policies : tmp'[p] \in Own(p)
    BY <1>1, <1>4, <1>10, <2>1, UnpackEffect DEF TypeOK
  <2>3. q.pc # "unpack"
    BY <1>1, <1>10, UnpackEffect, PcsDisjoint DEF InPhase
  <2>4. QED
    BY <1>1, <1>4, <1>10, <2>2, <2>3, UnpackEffect DEF SameGroups
<1>11. CASE Attach(c)
  <2>1. PICK p \in r.toSave : folder' = folder \/ folder' = [folder EXCEPT ![p] = tmp[p]]
    BY <1>1, <1>11, AttachEffect
  <2>2. \A x \in Policies : folder'[x] \in Own(x)
    BY <1>1, <1>4, <2>1 DEF TypeOK
  <2>3. q.pc # "unpack"
    BY <1>1, <1>11, AttachEffect, PcsDisjoint DEF InPhase
  <2>4. QED
    BY <1>1, <1>4, <1>11, <2>2, <2>3, AttachEffect DEF SameGroups
<1>12. CASE Detach(c)
  <2>1. PICK p \in r.toDelete : folder' = folder \/ folder' = [folder EXCEPT ![p] = Absent]
    BY <1>1, <1>12, DetachEffect
  <2>2. \A x \in Policies : folder'[x] \in Own(x)
    BY <1>1, <1>4, <2>1 DEF TypeOK, Own
  <2>3. q.pc # "unpack"
    BY <1>1, <1>12, DetachEffect, PcsDisjoint DEF InPhase
  <2>4. QED
    BY <1>1, <1>4, <1>12, <2>2, <2>3, DetachEffect DEF SameGroups
<1>13. CASE Save(c)
  BY <1>1, <1>4, <1>13, SaveEffect DEF SameGroups
<1>14. CASE Fail(c)
  BY <1>1, <1>4, <1>14, FailEffect DEF SameGroups
<1>15. QED
  BY <1>5, <1>6, <1>7, <1>8, <1>9, <1>10, <1>11, <1>12, <1>13, <1>14 DEF Working

LEMMA NextOwn ==
  ASSUME OneAtATime
  PROVE  TypeInv /\ OwnInv /\ [Next]_vars => OwnInv'
<1> SUFFICES ASSUME TypeInv, OwnInv, [Next]_vars
             PROVE  OwnInv'
  OBVIOUS
<1>1. TypeOK
  BY DEF TypeInv
<1>2. \A pc, op, q : Fresh(q, pc, op) => OwnGroup(q.registryRg)
  BY FreshOwn
<1>3. ASSUME NEW c \in Clients, Working(c)
      PROVE  OwnInv'
  BY <1>3, WorkingOwn
<1>4. ASSUME NEW c \in Clients, Finish(c)
      PROVE  OwnInv'
  <2>1. /\ Others(c) /\ OwnGroup(request'[c].registryRg) /\ request'[c].pc # "unpack"
        /\ UNCHANGED <<registryFile, folder, bundle, late>>
    BY <1>1, <1>2, <1>4, FinishEffect DEF Fresh, TypeOK, Request, Answers
  <2>2. \A p \in Policies : tmp'[p] \in Own(p)
    BY <1>1, <1>4, FinishEffect DEF OwnInv, Own
  <2>3. QED
    BY <2>1, <2>2 DEF OwnInv, Others
<1>5. ASSUME NEW c \in Clients, NEW op \in Operations, Submit(c, op)
      PROVE  OwnInv'
  <2>1. /\ Others(c) /\ OwnGroup(request'[c].registryRg) /\ request'[c].pc # "unpack"
        /\ UNCHANGED <<registryFile, folder, tmp, bundle, late>>
    BY <1>1, <1>2, <1>5, SubmitEffect DEF Fresh
  <2>2. QED
    BY <2>1 DEF OwnInv, Others
<1>6. CASE LateWrite
  BY <1>6 DEF LateWrite, WriteResources, OwnInv, local
<1>7. CASE Crash
  <2>1. /\ late' = {} /\ UNCHANGED <<registryFile, folder, tmp, bundle>>
        /\ \A c \in Clients :
             \/ request'[c] = request[c]
             \/ OwnGroup(request'[c].registryRg) /\ request'[c].pc # "unpack"
    BY <1>1, <1>2, <1>7, CrashEffect DEF Fresh
  <2>2. QED
    BY <2>1 DEF OwnInv
<1>8. CASE Evolve
  BY <1>8 DEF Evolve, OwnInv, files, local
<1>9. CASE UNCHANGED vars
  BY <1>9 DEF vars, OwnInv
<1>10. QED
  BY <1>3, <1>4, <1>5, <1>6, <1>7, <1>8, <1>9, StepsCovered

\* As long as requests do not overlap, whatever fails, every wasm file in the
\* attachments folder is the compiled form of a code its own policy was given.  (With
\* Registry_shared_files.cfg TLC finds two overlapping requests that break this.)
THEOREM CompiledFromOwnCode ==
  ASSUME OneAtATime
  PROVE  Spec => []OwnCode
<1>1. Init => OwnInv
  <2> SUFFICES ASSUME Init
               PROVE  OwnInv
    OBVIOUS
  <2>1. OwnGroup(NoRequest.registryRg)
    BY NoRequestType, FreshOwn
  <2>2. \A c \in Clients : OwnGroup(request[c].registryRg) /\ request[c].pc # "unpack"
    BY <2>1, NoRequestType DEF Init, Fresh
  <2>3. OwnGroup(registryFile) /\ \A p \in Policies : folder[p] \in Own(p) /\ tmp[p] \in Own(p)
    BY DEF Init, OwnGroup, EmptyGroup, Own
  <2>4. late = {}
    BY DEF Init
  <2>5. QED
    BY <2>2, <2>3, <2>4 DEF OwnInv
<1>2. OwnInv => OwnCode
  BY DEF OwnInv, OwnCode, Own
<1>3. QED
  BY <1>1, <1>2, NextOwn, TypeInvariant, PTL DEF Spec

----------------------------------------------------------------------------
(* The registry's resource group changes by whole requests. *)

\* The request has still to write the registry's file.
Unwritten(r) == \/ r.pc \in Running \ {"save", "cleanup"}
                \/ r.pc = "save" /\ "registry" \in r.unsaved

\* What it carries is the request applied to that file: ResourceStore's Change, or
\* Renew for a refresh.
Derived(file, r) ==
    LET op == r.op
        rg == r.registryRg
    IN  IF op.kind = "refresh"
        THEN /\ file.remote[op.url] # 0
             /\ rg = [file EXCEPT !.remote[op.url] = rg.remote[op.url]]
             /\ rg.remote[op.url] >= file.remote[op.url]
        ELSE /\ rg.policies = Store!Apply(file, op).policies
             /\ rg.uses = Store!Apply(file, op).uses
             /\ \A u \in Urls : file.remote[u] # 0 => rg.remote[u] \in {file.remote[u], 0}

\* The phases each kind of request goes through.
Itinerary(r) ==
    /\ r.op.kind = "refresh" => r.pc \notin {"compile", "unpack", "attach", "detach"}
    /\ r.op.kind # "refresh" => r.pc # "overlay"
    /\ r.op.kind # "refresh" /\ r.op.dryRun => r.pc \notin {"attach", "detach", "save"}

StoreInv ==
    /\ \A u \in Urls : registryFile.remote[u] <= version
    /\ \A c \in Clients :
        /\ Itinerary(request[c])
        /\ request[c].pc = "introspect" => request[c].registryRg.remote = registryFile.remote
        /\ Unwritten(request[c]) => /\ Derived(registryFile, request[c])
                                    /\ \A u \in Urls : request[c].registryRg.remote[u] <= version

\* Where nothing was put in place of the group, or the group did not change.
LEMMA DerivedSame ==
  ASSUME NEW file, NEW r, NEW q, q.op = r.op, q.registryRg = r.registryRg
  PROVE  Derived(file, r) <=> Derived(file, q)
BY DEF Derived

LEMMA PhaseItinerary ==
  ASSUME NEW q, InPhase(q), q.op.kind # "refresh"
  PROVE  Itinerary(q)
BY DEF InPhase, Itinerary, Phases

LEMMA OnlyFetchStarts ==
  ASSUME TypeOK, NEW c \in Clients, Working(c), ~Fetch(c)
  PROVE  request'[c].pc # "introspect"
<1>1. \A q : InPhase(q) => q.pc # "introspect"
  BY DEF InPhase, Phases
<1>2. CASE UpdateResources(c) \/ RebuildResources(c) \/ DeleteResources(c)
  BY <1>1, <1>2, PrepareEffect
<1>3. CASE RefreshRemoteSchema(c) \/ Overlay(c)
  BY <1>1, <1>3, RefreshEffect, OverlayEffect
<1>4. CASE Compile(c) \/ Unpack(c)
  BY <1>1, <1>4, CompileEffect, UnpackEffect
<1>5. CASE Attach(c) \/ Detach(c)
  BY <1>1, <1>5, AttachEffect, DetachEffect
<1>6. CASE Save(c) \/ Fail(c)
  BY <1>6, SaveEffect, FailEffect
<1>7. QED
  BY <1>2, <1>3, <1>4, <1>5, <1>6 DEF Working

LEMMA WorkingStore ==
  ASSUME OneAtATime, TypeInv, StoreInv, NEW c \in Clients, Working(c)
  PROVE  StoreInv'
<1> DEFINE r == request[c]
           q == request'[c]
           Bounded(rg) == \A u \in Urls : rg.remote[u] <= version
<1>1. /\ TypeOK /\ r \in Request /\ r.op \in Operations /\ registryFile \in ResourceGroup
      /\ r.registryRg \in ResourceGroup /\ version \in Nat \ {0}
  BY DEF TypeInv, TypeOK, Request
<1>2. /\ \A d \in Clients : d # c => request'[d] = request[d] /\ ~Unwritten(request[d])
      /\ version' = version /\ q.op = r.op /\ q.pc \in Running
  BY <1>1, WorkingAlone, WorkingEffect DEF Unwritten, Running
<1>3. /\ Bounded(registryFile) /\ Itinerary(r)
      /\ Unwritten(r) => Derived(registryFile, r) /\ Bounded(r.registryRg)
  BY DEF StoreInv
<1>4. SUFFICES /\ Bounded(registryFile') /\ Itinerary(q)
               /\ Unwritten(q) => Derived(registryFile', q) /\ Bounded(q.registryRg)
  <2>1. q.pc = "introspect" => q.registryRg.remote = registryFile'.remote
    BY <1>1, OnlyFetchStarts, FetchEffect, ApplyType
  <2>2. \A d \in Clients : d # c => request[d].pc # "introspect"
    BY <1>2 DEF Unwritten, Running
  <2>3. QED
    BY <1>2, <2>1, <2>2 DEF StoreInv
<1>5. ASSUME registryFile' = registryFile, q.registryRg = r.registryRg, Unwritten(r), Itinerary(q)
      PROVE  /\ Bounded(registryFile') /\ Itinerary(q)
             /\ Unwritten(q) => Derived(registryFile', q) /\ Bounded(q.registryRg)
  BY <1>2, <1>3, <1>5, DerivedSame
<1>6. CASE Fetch(c)
  <2>1. registryFile' = registryFile
    BY <1>1, <1>6, FetchEffect
  <2>2. CASE q.pc = "cleanup"
    BY <1>3, <2>1, <2>2 DEF Unwritten, Itinerary
  <2>3. CASE q.pc # "cleanup"
    <3>1. /\ q.pc = "introspect" /\ q.registryRg = Store!Apply(registryFile, r.op)
          /\ r.op.kind = "refresh" => r.op.url \in Known(registryFile)
      BY <1>1, <1>6, <2>3, FetchEffect
    <3>2. q.registryRg.remote = registryFile.remote
      BY <1>1, <3>1, ApplyType
    <3>3. CASE r.op.kind = "refresh"
      <4>1. /\ q.registryRg = registryFile /\ r.op.url \in Urls
            /\ registryFile.remote[r.op.url] \in Nat \ {0}
        BY <1>1, <3>1, <3>3, RefreshChangesNothing DEF Known, ResourceGroup
      <4>2. registryFile = [registryFile EXCEPT !.remote[r.op.url] = registryFile.remote[r.op.url]]
        BY <1>1, <4>1 DEF ResourceGroup
      <4>3. Derived(registryFile, q)
        BY <1>2, <3>3, <4>1, <4>2 DEF Derived
      <4>4. QED
        BY <1>2, <1>3, <2>1, <3>1, <3>3, <4>1, <4>3 DEF Itinerary
    <3>4. CASE r.op.kind # "refresh"
      <4>1. Derived(registryFile, q)
        BY <1>2, <3>1, <3>2, <3>4 DEF Derived
      <4>2. QED
        BY <1>2, <1>3, <2>1, <3>1, <3>2, <3>4, <4>1 DEF Itinerary
    <3>5. QED
      BY <3>3, <3>4
  <2>4. QED
    BY <2>2, <2>3
<1>7. CASE UpdateResources(c) \/ RebuildResources(c) \/ DeleteResources(c)
  <2>1. /\ r.pc = "introspect" /\ r.op.kind # "refresh" /\ registryFile' = registryFile
    BY <1>1, <1>7, PrepareEffect
  <2>2. Unwritten(r)
    BY <2>1 DEF Unwritten, Running
  <2>3. CASE SameGroups(r, q)
    <3>1. Itinerary(q)
      BY <1>1, <1>2, <1>7, <2>1, PrepareEffect, PhaseItinerary DEF Itinerary
    <3>2. QED
      BY <1>5, <2>1, <2>2, <2>3, <3>1 DEF SameGroups
  <2>4. CASE ~SameGroups(r, q)
    <3>1. /\ InPhase(q) /\ q.registryRg.policies = r.registryRg.policies
          /\ q.registryRg.uses = r.registryRg.uses
          /\ \A u \in Urls :
               /\ r.registryRg.remote[u] # 0
                     => q.registryRg.remote[u] \in {r.registryRg.remote[u], 0}
               /\ q.registryRg.remote[u] \in {r.registryRg.remote[u], 0, version}
      BY <1>1, <1>7, <2>4, PrepareEffect
    <3>2. Itinerary(q)
      BY <1>2, <2>1, <3>1, PhaseItinerary
    <3>3. Bounded(q.registryRg)
      BY <1>1, <1>3, <2>2, <3>1
    <3>4. Derived(registryFile, q)
      <4>1. r.registryRg.remote = registryFile.remote
        BY <2>1 DEF StoreInv
      <4>2. QED
        BY <1>2, <1>3, <2>1, <2>2, <3>1, <4>1 DEF Derived
    <3>5. QED
      BY <1>3, <2>1, <3>2, <3>3, <3>4
  <2>5. QED
    BY <2>3, <2>4
<1>8. CASE RefreshRemoteSchema(c)
  <2> DEFINE u == r.op.url
  <2>1. /\ r.pc = "introspect" /\ r.op.kind = "refresh" /\ q.pc = "overlay"
        /\ q.registryRg = [r.registryRg EXCEPT !.remote[u] = version]
        /\ registryFile' = registryFile /\ u \in Urls
    BY <1>1, <1>8, RefreshEffect, OperationsAssumption
  <2>2. /\ r.registryRg = [registryFile EXCEPT !.remote[u] = r.registryRg.remote[u]]
        /\ registryFile.remote[u] # 0 /\ Bounded(r.registryRg)
    BY <1>3, <2>1 DEF Unwritten, Running, Derived
  <2>3. /\ q.registryRg.remote[u] = version
        /\ \A x \in Urls : x # u => q.registryRg.remote[x] = r.registryRg.remote[x]
    BY <1>1, <2>1, RenewedType
  <2>4. q.registryRg = [registryFile EXCEPT !.remote[u] = q.registryRg.remote[u]]
    <3>1. [r.registryRg EXCEPT !.remote[u] = version] = [registryFile EXCEPT !.remote[u] = version]
      <4> DEFINE v == r.registryRg.remote[u]
      <4>1. v \in Nat
        BY <1>1, <2>1 DEF ResourceGroup
      <4> HIDE DEF v
      <4>2. [[registryFile EXCEPT !.remote[u] = v] EXCEPT !.remote[u] = version]
                = [registryFile EXCEPT !.remote[u] = version]
        BY <1>1, <2>1, <4>1 DEF ResourceGroup
      <4>3. QED
        BY <2>2, <4>2 DEF v
    <3>2. QED
      BY <2>1, <2>3, <3>1
  <2>5. q.registryRg.remote[u] >= registryFile.remote[u]
    BY <1>1, <1>3, <2>1, <2>3
  <2>6. Derived(registryFile, q)
    BY <1>2, <2>1, <2>2, <2>4, <2>5 DEF Derived
  <2>7. Bounded(q.registryRg)
    BY <1>1, <2>2, <2>3
  <2>8. QED
    BY <1>2, <1>3, <2>1, <2>6, <2>7 DEF Itinerary
<1>9. CASE Overlay(c)
  <2>1. /\ r.pc = "overlay" /\ q.pc = "save" /\ registryFile' = registryFile
        /\ q.registryRg = r.registryRg
    BY <1>1, <1>9, OverlayEffect
  <2>2. QED
    BY <1>2, <1>3, <1>5, <2>1 DEF Unwritten, Running, Itinerary
<1>10. CASE Compile(c)
  <2>1. /\ r.pc = "compile" /\ q.pc = "unpack" /\ registryFile' = registryFile
        /\ q.registryRg = r.registryRg
    BY <1>1, <1>10, CompileEffect DEF SameGroups
  <2>2. QED
    BY <1>2, <1>3, <1>5, <2>1 DEF Unwritten, Running, Itinerary
<1>11. CASE Unpack(c)
  <2>1. /\ r.pc = "unpack" /\ registryFile' = registryFile /\ q.registryRg = r.registryRg
        /\ InPhase(q) \/ q.pc = "cleanup"
    BY <1>1, <1>11, UnpackEffect DEF SameGroups
  <2>2. Itinerary(q)
    BY <1>2, <1>3, <2>1, PhaseItinerary DEF Itinerary
  <2>3. QED
    BY <1>5, <2>1, <2>2 DEF Unwritten, Running
<1>12. CASE Attach(c)
  <2>1. /\ r.pc = "attach" /\ registryFile' = registryFile /\ q.registryRg = r.registryRg
        /\ InPhase(q) \/ q.pc = "cleanup"
    BY <1>1, <1>12, AttachEffect DEF SameGroups
  <2>2. Itinerary(q)
    BY <1>2, <1>3, <2>1, PhaseItinerary DEF Itinerary
  <2>3. QED
    BY <1>5, <2>1, <2>2 DEF Unwritten, Running
<1>13. CASE Detach(c)
  <2>1. /\ r.pc = "detach" /\ registryFile' = registryFile /\ q.registryRg = r.registryRg
        /\ InPhase(q) \/ q.pc = "cleanup"
    BY <1>1, <1>13, DetachEffect DEF SameGroups
  <2>2. Itinerary(q)
    BY <1>2, <1>3, <2>1, PhaseItinerary DEF Itinerary
  <2>3. QED
    BY <1>5, <2>1, <2>2 DEF Unwritten, Running
<1>14. CASE Save(c)
  <2>1. /\ r.pc = "save" /\ q.registryRg = r.registryRg /\ q.pc \in {"save", "cleanup"}
    BY <1>1, <1>14, SaveEffect DEF SameGroups
  <2>2. PICK file \in r.unsaved :
          /\ q.unsaved = r.unsaved \ {file}
          /\ registryFile' = IF file = "registry" THEN r.registryRg ELSE registryFile
    BY <1>1, <1>14, SaveEffect
  <2>3. Itinerary(q)
    BY <1>2, <1>3, <2>1 DEF Itinerary
  <2>4. CASE file = "registry"
    BY <1>3, <2>1, <2>2, <2>3, <2>4 DEF Unwritten
  <2>5. CASE file # "registry"
    BY <1>2, <1>3, <2>1, <2>2, <2>3, <2>5, DerivedSame DEF Unwritten
  <2>6. QED
    BY <2>4, <2>5
<1>15. CASE Fail(c)
  <2>1. q.pc = "cleanup" /\ registryFile' = registryFile
    BY <1>1, <1>15, FailEffect
  <2>2. QED
    BY <1>3, <2>1 DEF Unwritten, Itinerary
<1>16. QED
  BY <1>6, <1>7, <1>8, <1>9, <1>10, <1>11, <1>12, <1>13, <1>14, <1>15 DEF Working

LEMMA IdleStore ==
  ASSUME NEW q, q.pc \in Answers \cup {"none", "queued"}
  PROVE  Itinerary(q) /\ ~Unwritten(q) /\ q.pc # "introspect"
BY DEF Itinerary, Unwritten, Running, Answers

LEMMA NextStore ==
  ASSUME OneAtATime
  PROVE  TypeInv /\ StoreInv /\ late = {} /\ [Next]_vars => StoreInv'
<1> SUFFICES ASSUME TypeInv, StoreInv, late = {}, [Next]_vars
             PROVE  StoreInv'
  OBVIOUS
<1>1. TypeOK /\ version \in Nat
  BY DEF TypeInv, TypeOK
<1>2. ASSUME NEW c \in Clients, Working(c)
      PROVE  StoreInv'
  BY <1>2, WorkingStore
<1>3. ASSUME NEW c \in Clients, Finish(c)
      PROVE  StoreInv'
  <2>1. /\ Others(c) /\ request'[c].pc \in Answers /\ UNCHANGED <<registryFile, version>>
    BY <1>1, <1>3, FinishEffect DEF Fresh, TypeOK, Request
  <2>2. QED
    BY <2>1, IdleStore DEF StoreInv, Others
<1>4. ASSUME NEW c \in Clients, NEW op \in Operations, Submit(c, op)
      PROVE  StoreInv'
  <2>1. /\ Others(c) /\ request'[c].pc = "queued" /\ UNCHANGED <<registryFile, version>>
    BY <1>1, <1>4, SubmitEffect DEF Fresh
  <2>2. QED
    BY <2>1, IdleStore DEF StoreInv, Others
<1>5. CASE LateWrite
  BY <1>5 DEF LateWrite
<1>6. CASE Crash
  <2>1. /\ UNCHANGED <<registryFile, version>>
        /\ \A c \in Clients : request'[c] = request[c] \/ request'[c].pc \in Answers
    BY <1>1, <1>6, CrashEffect DEF Fresh, Answers
  <2>2. QED
    BY <2>1, IdleStore DEF StoreInv
<1>7. CASE Evolve
  <2>1. UNCHANGED <<registryFile, request>> /\ version' = version + 1
    BY <1>7 DEF Evolve, files
  <2>2. /\ \A u \in Urls : registryFile.remote[u] \in Nat
        /\ \A c \in Clients, u \in Urls : request[c].registryRg.remote[u] \in Nat
    BY <1>1 DEF TypeOK, Request, ResourceGroup
  <2>3. QED
    BY <1>1, <2>1, <2>2 DEF StoreInv
<1>8. CASE UNCHANGED vars
  BY <1>8 DEF vars, StoreInv
<1>9. QED
  BY <1>2, <1>3, <1>4, <1>5, <1>6, <1>7, <1>8, StepsCovered

LEMMA InitStore == Init => StoreInv /\ Store!Init
<1> SUFFICES ASSUME Init
             PROVE  StoreInv /\ Store!Init
  OBVIOUS
<1>1. registryFile = EmptyGroup /\ version = 1
  BY DEF Init
<1>2. /\ \A u \in Urls : EmptyGroup.remote[u] = 0
      /\ DOMAIN EmptyGroup.policies = Policies /\ DOMAIN EmptyGroup.remote = Urls
      /\ DOMAIN EmptyGroup.uses = Schemas
      /\ \A p \in Policies : EmptyGroup.policies[p] = 0
      /\ \A s \in Schemas : EmptyGroup.uses[s] = NoUrl
  BY DEF EmptyGroup, Absent
<1>3. \A c \in Clients : request[c].pc = "none"
  BY NoRequestType DEF Init, Fresh
<1>4. StoreInv
  BY <1>1, <1>2, <1>3, IdleStore DEF StoreInv
<1>5. Store!Init
  BY <1>1, <1>2, NoneAssumption DEF Store!Init, Store!Uses
<1>6. QED
  BY <1>4, <1>5

\* Only the save of the registry's file changes it, and it is a step of ResourceStore.
LEMMA StoreStep ==
  ASSUME OneAtATime
  PROVE  TypeInv /\ RegistryGroups /\ StoreInv /\ late = {} /\ [Next]_vars
            => [Store!Next]_registryFile
<1> SUFFICES ASSUME TypeInv, RegistryGroups, StoreInv, late = {}, [Next]_vars,
                    registryFile' # registryFile
             PROVE  Store!Next
  OBVIOUS
<1>1. TypeOK
  BY DEF TypeInv
<1>2. PICK c \in Clients : Save(c)
  <2>1. ASSUME NEW c \in Clients, Working(c), ~Save(c)
        PROVE  registryFile' = registryFile
    BY <1>1, <2>1, FetchEffect, PrepareEffect, RefreshEffect, OverlayEffect, CompileEffect,
       UnpackEffect, AttachEffect, DetachEffect, FailEffect DEF Working
  <2>2. ASSUME NEW c \in Clients, Finish(c) \/ \E op \in Operations : Submit(c, op)
        PROVE  registryFile' = registryFile
    BY <1>1, <2>2, FinishEffect, SubmitEffect
  <2>3. LateWrite \/ Crash \/ Evolve \/ UNCHANGED vars => registryFile' = registryFile
    BY DEF LateWrite, Crash, Evolve, vars, files
  <2>4. QED
    BY <2>1, <2>2, <2>3, StepsCovered
<1> DEFINE r == request[c]
           op == r.op
           rg == r.registryRg
<1>3. /\ r.pc = "save" /\ registryFile' = rg /\ "registry" \in r.unsaved
  BY <1>1, <1>2, SaveEffect
<1>4. /\ Derived(registryFile, r) /\ Itinerary(r)
  BY <1>3 DEF StoreInv, Unwritten
<1>5. Knows(rg)
  BY <1>3 DEF RegistryGroups, HasIntrospected
<1>6. /\ op \in Operations /\ op.dryRun \in BOOLEAN /\ rg \in ResourceGroup
      /\ registryFile \in ResourceGroup
  BY <1>1, OperationsAssumption DEF TypeOK, Request
<1>7. CASE op.kind = "refresh"
  <2>1. Store!Renew(op)
    BY <1>3, <1>4, <1>7 DEF Derived, Store!Renew
  <2>2. QED
    BY <1>6, <1>7, <2>1 DEF Store!Next
<1>8. CASE op.kind # "refresh"
  <2>1. ~op.dryRun
    BY <1>3, <1>4, <1>8 DEF Itinerary
  <2>2. /\ rg.policies = Store!Apply(registryFile, op).policies
        /\ rg.uses = Store!Apply(registryFile, op).uses
        /\ \A u \in Urls : registryFile.remote[u] # 0 => rg.remote[u] \in {registryFile.remote[u], 0}
    BY <1>4, <1>8 DEF Derived
  <2>3. DOMAIN registryFile.remote = Urls /\ DOMAIN rg.uses = Schemas
    BY <1>6 DEF ResourceGroup
  <2>4. \A u \in Urls : Store!Uses(rg, u) => rg.remote[u] # 0
    BY <1>5, <2>3 DEF Knows, Used, Known, Store!Uses
  <2>5. Store!Change(op)
    BY <1>3, <2>2, <2>3, <2>4 DEF Store!Change
  <2>6. QED
    BY <1>6, <1>8, <2>1, <2>5 DEF Store!Next
<1>9. QED
  BY <1>7, <1>8

\* Registry implements ResourceStore as long as requests do not overlap and no save is
\* left behind: its file goes from one whole request to the next, each applied to what
\* the one before it left.  Crashes and failures anywhere else do no harm.
THEOREM StoreImplemented ==
  ASSUME OneAtATime
  PROVE  Spec /\ [](late = {}) => ImplementsStore
<1>1. Init => RegistryGroups
  BY InitRegistryGroups
<1>2. QED
  BY <1>1, InitStore, NextStore, StoreStep, NextRegistryGroups, TypeInvariant, PTL
     DEF Spec, ImplementsStore, Store!Spec

----------------------------------------------------------------------------
(* Nothing fails: the files agree. *)

\* The gateways' file is the registry's and the folder holds its compiled policies.
FilesAgree == gatewayFile = registryFile /\ folder = registryFile.policies

\* The request carries the policies it was given.
Carries(rg, op) ==
    op.kind # "refresh" => \A p \in DOMAIN op.policies : rg.policies[p] = op.policies[p]

\* Before the save: what has not been attached or detached yet is as the registry's
\* file says, the rest as the request wants it, and what was compiled lies in tmp.
BeforeSave(r) ==
    LET rg == r.registryRg
    IN  /\ gatewayFile = registryFile /\ r.unsaved = {"registry", "gateway"}
        /\ \A p \in Policies : folder[p] = IF p \in r.toSave \cup r.toDelete
                                           THEN registryFile.policies[p] ELSE rg.policies[p]
        /\ r.toCompile \subseteq r.toSave
        /\ \A p \in r.toSave : /\ rg.policies[p] # Absent
                               /\ p \notin r.toCompile => tmp[p] = rg.policies[p]
        /\ \A p \in r.toDelete : registryFile.policies[p] # Absent /\ rg.policies[p] = Absent
        /\ r.pc \in {"introspect", "overlay", "compile", "unpack"} =>
              /\ r.toSave = ToGenerate(registryFile, rg)
              /\ r.toDelete = ToRemove(registryFile, rg)
        /\ r.pc \in {"compile", "unpack", "attach", "detach"} => r.gatewayRg = rg
        /\ r.pc \in {"attach", "detach"} => r.toCompile = {}
        /\ r.pc = "unpack" => bundle = rg.policies[r.current]
        /\ Carries(rg, r.op)

\* The save: each file is the old one or the new one.
WhileSaving(r) ==
    LET rg == r.registryRg
    IN  /\ r.gatewayRg = rg /\ folder = rg.policies
        /\ "registry" \in r.unsaved \/ registryFile = rg
        /\ "gateway" \in r.unsaved \/ gatewayFile = rg
        /\ Knows(gatewayFile)
        /\ Carries(rg, r.op)

SyncInv ==
    /\ late = {}
    /\ \A c \in Clients :
        /\ request[c].pc # "failed" /\ request[c].answer # "failed"
        /\ request[c].pc = "queued" => request[c].unsaved = {"registry", "gateway"}
    /\ (\A c \in Clients : request[c].pc \notin Running) => FilesAgree
    /\ \A c \in Clients :
        /\ request[c].pc \in Running \ {"save", "cleanup"} => BeforeSave(request[c])
        /\ request[c].pc = "save" => WhileSaving(request[c])
        /\ request[c].pc = "cleanup" => FilesAgree

\* A request that was carried out, and is the only one, is in the registry's file.
OkInv ==
    \A c \in Clients :
        LET r == request[c]
        IN  /\ r.pc = "ok" \/ (r.pc = "cleanup" /\ r.answer = "ok")
            /\ ~r.op.dryRun
            => Carries(registryFile, r.op)

Synced == TypeInv /\ RegistryGroups /\ StoreInv /\ SyncInv

LEMMA NothingFails ==
  ASSUME MaxFailures = 0, TypeOK
  PROVE  ~Crash /\ \A c \in Clients : ~Fail(c)
<1>1. ~(failures < MaxFailures)
  BY DEF TypeOK
<1>2. QED
  BY <1>1 DEF Crash, Fail

\* The policies of a group with those of another.
LEMMA GroupsEqual ==
  ASSUME NEW g \in ResourceGroup, NEW h \in ResourceGroup,
         g.policies = h.policies, g.uses = h.uses, g.remote = h.remote
  PROVE  g = h
BY DEF ResourceGroup

\* Nothing is left to attach or to detach.
LEMMA FolderDone ==
  ASSUME TypeOK, NEW rg \in ResourceGroup, NEW f \in [Policies -> Code],
         \A p \in Policies : f[p] = rg.policies[p]
  PROVE  f = rg.policies
BY DEF ResourceGroup

\* Where what is to attach and to detach is what differs, the folder is unchanged.
LEMMA FolderUntouched ==
  ASSUME TypeOK, NEW r \in Request, BeforeSave(r),
         r.pc \in {"introspect", "overlay", "compile", "unpack"}
  PROVE  FilesAgree
<1>1. /\ registryFile \in ResourceGroup /\ folder \in [Policies -> Code]
  BY DEF TypeOK
<1>2. /\ r.toSave = ToGenerate(registryFile, r.registryRg)
      /\ r.toDelete = ToRemove(registryFile, r.registryRg)
      /\ gatewayFile = registryFile
      /\ \A p \in Policies : folder[p] = IF p \in r.toSave \cup r.toDelete
                                         THEN registryFile.policies[p] ELSE r.registryRg.policies[p]
  BY DEF BeforeSave
<1>3. \A p \in Policies : p \notin r.toSave \cup r.toDelete =>
        r.registryRg.policies[p] = registryFile.policies[p]
  BY <1>2 DEF ToGenerate, ToRemove
<1>4. \A p \in Policies : folder[p] = registryFile.policies[p]
  BY <1>2, <1>3
<1>5. QED
  BY <1>1, <1>2, <1>4, FolderDone DEF FilesAgree

\* What SyncInv says of the request that runs.
Progress(r) ==
    /\ r.pc # "failed" /\ r.answer # "failed"
    /\ r.pc \in Running \ {"save", "cleanup"} => BeforeSave(r)
    /\ r.pc = "save" => WhileSaving(r)
    /\ r.pc = "cleanup" => FilesAgree

\* What is left of BeforeSave when a request comes to its phase: the save, when nothing
\* is to be done, and the end of a dry run, when the files were left alone.
LEMMA PhaseReached ==
  ASSUME TypeOK, TypeOK', NEW c \in Clients, UNCHANGED <<registryFile, gatewayFile>>,
         NEW q, q = request'[c], InPhase(q), q.op.kind # "refresh", q.answer # "failed",
         gatewayFile = registryFile, q.unsaved = {"registry", "gateway"},
         q.gatewayRg = q.registryRg, Knows(registryFile), Carries(q.registryRg, q.op),
         \A p \in Policies : folder'[p] = IF p \in q.toSave \cup q.toDelete
                                          THEN registryFile.policies[p] ELSE q.registryRg.policies[p],
         q.toCompile \subseteq q.toSave,
         \A p \in q.toSave : /\ q.registryRg.policies[p] # Absent
                             /\ p \notin q.toCompile => tmp'[p] = q.registryRg.policies[p],
         \A p \in q.toDelete : /\ registryFile.policies[p] # Absent
                               /\ q.registryRg.policies[p] = Absent,
         q.pc \in {"compile", "cleanup"} => /\ q.toSave = ToGenerate(registryFile, q.registryRg)
                                            /\ q.toDelete = ToRemove(registryFile, q.registryRg)
  PROVE  Progress(request[c])'
<1>1. /\ q.registryRg \in ResourceGroup /\ folder' \in [Policies -> Code]
      /\ registryFile \in ResourceGroup
  BY DEF TypeOK, Request
<1>2. CASE q.pc \in Running \ {"save", "cleanup"}
  <2>1. q.pc \notin {"save", "cleanup", "failed", "introspect", "overlay", "unpack"}
    BY <1>2, PcsDisjoint DEF InPhase, Phases
  <2>2. q.pc \in {"attach", "detach"} => q.toCompile = {}
    BY DEF InPhase
  <2>3. BeforeSave(request[c])'
    BY <2>1, <2>2 DEF BeforeSave
  <2>4. QED
    BY <2>1, <2>3 DEF Progress
<1>3. CASE q.pc = "save"
  <2>1. \A p \in Policies : folder'[p] = q.registryRg.policies[p]
    BY <1>3 DEF InPhase
  <2>2. folder' = q.registryRg.policies
    BY <1>1, <2>1, FolderDone
  <2>3. WhileSaving(request[c])'
    BY <2>2 DEF WhileSaving, Knows, Used, Known
  <2>4. QED
    BY <1>3, <2>3 DEF Progress
<1>4. CASE q.pc = "cleanup"
  <2>1. \A p \in Policies : folder'[p] = registryFile.policies[p]
    BY <1>4 DEF ToGenerate, ToRemove
  <2>2. folder' = registryFile.policies
    BY <1>1, <2>1, FolderDone
  <2>3. QED
    BY <1>4, <2>2 DEF Progress, FilesAgree
<1>5. QED
  BY <1>2, <1>3, <1>4, PcsDisjoint DEF InPhase

LEMMA FetchSync ==
  ASSUME OneAtATime, Synced, NEW c \in Clients, Fetch(c)
  PROVE  Progress(request[c])'
<1> DEFINE r == request[c]
           q == request'[c]
           rg == Store!Apply(registryFile, r.op)
<1>1. /\ TypeOK /\ r \in Request /\ q \in Request /\ r.op \in Operations
      /\ registryFile \in ResourceGroup /\ r.pc = "queued"
  BY FetchEffect DEF Synced, TypeInv, TypeOK, Request, Others
<1>2. FilesAgree
  <2>1. r.pc \notin Running
    BY <1>1 DEF Running
  <2>2. \A d \in Clients : d # c => request[d].pc \notin Running
    BY WorkingAlone DEF Working, Synced
  <2>3. QED
    BY <2>1, <2>2 DEF Synced, SyncInv
<1>3. UNCHANGED <<registryFile, gatewayFile, folder, tmp, bundle>>
  BY <1>1, FetchEffect
<1>4. r.answer # "failed"
  BY DEF Synced, SyncInv
<1>5. CASE q.pc = "cleanup"
  <2>1. q.answer = "unknown_url"
    BY <1>1, <1>5, FetchEffect
  <2>2. QED
    BY <1>2, <1>3, <1>5, <2>1 DEF Progress, FilesAgree
<1>6. CASE q.pc # "cleanup"
  <2>1. /\ q.pc = "introspect" /\ q.answer = r.answer /\ q.op = r.op /\ q.unsaved = r.unsaved
        /\ q.registryRg = rg
        /\ q.toCompile = ToGenerate(registryFile, q.registryRg)
        /\ q.toSave = ToGenerate(registryFile, q.registryRg)
        /\ q.toDelete = ToRemove(registryFile, q.registryRg)
    BY <1>1, <1>6, FetchEffect
  <2>2. r.unsaved = {"registry", "gateway"}
    BY <1>1 DEF Synced, SyncInv
  <2>3. \A p \in Policies : p \notin q.toSave \cup q.toDelete =>
          q.registryRg.policies[p] = registryFile.policies[p]
    BY <2>1 DEF ToGenerate, ToRemove
  <2>4. /\ \A p \in q.toSave : p \in q.toCompile /\ q.registryRg.policies[p] # Absent
        /\ \A p \in q.toDelete : registryFile.policies[p] # Absent /\ q.registryRg.policies[p] = Absent
    BY <2>1 DEF ToGenerate, ToRemove
  <2>5. Carries(q.registryRg, q.op)
    <3>1. DOMAIN r.op.policies \subseteq Policies
      BY <1>1, OperationsAssumption
    <3>2. \A p \in DOMAIN r.op.policies : rg.policies[p] = r.op.policies[p]
      BY <1>1, <3>1, ApplyType
    <3>3. QED
      BY <2>1, <3>2 DEF Carries
  <2>6. BeforeSave(request[c])'
    BY <1>2, <1>3, <2>1, <2>2, <2>3, <2>4, <2>5 DEF BeforeSave, FilesAgree
  <2>7. QED
    BY <1>4, <2>1, <2>6 DEF Progress
<1>7. QED
  BY <1>5, <1>6

\* The introspection is done: a deletion finds every remote schema it needs, because
\* the registry's file has those of the schemas it is about to delete from.
LEMMA PrepareSync ==
  ASSUME Synced, TypeOK', NEW c \in Clients,
         UpdateResources(c) \/ RebuildResources(c) \/ DeleteResources(c)
  PROVE  Progress(request[c])'
<1> DEFINE r == request[c]
           q == request'[c]
<1>1. /\ TypeOK /\ r \in Request /\ r.op \in Operations
      /\ registryFile \in ResourceGroup /\ r.registryRg \in ResourceGroup
  BY DEF Synced, TypeInv, TypeOK, Request
<1>2. r.pc = "introspect" /\ r.op.kind # "refresh"
  BY <1>1, PrepareEffect
<1>3. BeforeSave(r) /\ r.answer # "failed"
  BY <1>2 DEF Synced, SyncInv, Running
<1>4. /\ Derived(registryFile, r) /\ r.registryRg.remote = registryFile.remote
      /\ Knows(registryFile)
  BY <1>2 DEF Synced, StoreInv, RegistryGroups, Unwritten, Running
<1>5. r.op.kind = "delete" => Knows(r.registryRg)
  <2> SUFFICES ASSUME r.op.kind = "delete"
               PROVE  Knows(r.registryRg)
    OBVIOUS
  <2>1. r.registryRg.uses = Store!Apply(registryFile, r.op).uses
    BY <1>2, <1>4 DEF Derived
  <2>2. \A s \in Schemas : r.registryRg.uses[s] \in {registryFile.uses[s], NoUrl}
    BY <1>1, <2>1, ApplyType, OperationsAssumption
  <2>3. Used(r.registryRg) \subseteq Used(registryFile)
    BY <2>2, NoneAssumption DEF Used
  <2>4. QED
    BY <1>4, <2>3 DEF Knows, Known
<1>6. /\ InPhase(q) /\ q.answer = r.answer /\ q.gatewayRg = q.registryRg
      /\ q.registryRg.policies = r.registryRg.policies
      /\ q.op = r.op /\ SameWork(r, q) /\ q.unsaved = r.unsaved
      /\ UNCHANGED <<registryFile, gatewayFile, folder, tmp, bundle>>
  BY <1>1, <1>5, PrepareEffect DEF Knows
<1>7. QED
  BY <1>1, <1>2, <1>3, <1>4, <1>6, PhaseReached
     DEF BeforeSave, SameWork, Carries, ToGenerate, ToRemove

\* A refresh touches neither policies nor wasm files.
LEMMA RefreshSync ==
  ASSUME Synced, NEW c \in Clients, RefreshRemoteSchema(c)
  PROVE  Progress(request[c])'
<1> DEFINE r == request[c]
           q == request'[c]
<1>1. /\ TypeOK /\ r \in Request /\ r.op \in Operations /\ r.registryRg \in ResourceGroup
      /\ version \in Nat
  BY DEF Synced, TypeInv, TypeOK, Request
<1>2. /\ r.pc = "introspect" /\ r.op.kind = "refresh" /\ q.pc = "overlay"
      /\ q.op = r.op /\ SameWork(r, q) /\ q.unsaved = r.unsaved /\ q.answer = r.answer
      /\ q.registryRg = [r.registryRg EXCEPT !.remote[r.op.url] = version]
      /\ UNCHANGED <<registryFile, gatewayFile, folder, tmp, bundle>>
  BY <1>1, RefreshEffect
<1>3. q.registryRg.policies = r.registryRg.policies
  BY <1>1, <1>2, RenewedType, OperationsAssumption
<1>4. BeforeSave(r) /\ r.answer # "failed"
  BY <1>2 DEF Synced, SyncInv, Running
<1>5. BeforeSave(request[c])'
  BY <1>2, <1>3, <1>4 DEF BeforeSave, SameWork, Carries, ToGenerate, ToRemove
<1>6. QED
  BY <1>2, <1>4, <1>5 DEF Progress

\* The gateways' file with the registry's remote schemas is what the registry saves.
LEMMA OverlaySync ==
  ASSUME Synced, NEW c \in Clients, Overlay(c)
  PROVE  Progress(request[c])'
<1> DEFINE r == request[c]
           q == request'[c]
           u == r.op.url
<1>1. /\ TypeOK /\ r \in Request /\ r.op \in Operations /\ r.registryRg \in ResourceGroup
      /\ registryFile \in ResourceGroup /\ gatewayFile \in ResourceGroup
  BY DEF Synced, TypeInv, TypeOK, Request
<1>2. /\ r.pc = "overlay" /\ q.pc = "save" /\ q.op = r.op /\ q.registryRg = r.registryRg
      /\ q.unsaved = r.unsaved /\ q.answer = r.answer
      /\ q.gatewayRg = [gatewayFile EXCEPT !.remote = r.registryRg.remote]
      /\ UNCHANGED <<registryFile, gatewayFile, folder, tmp, bundle>>
  BY <1>1, OverlayEffect
<1>3. BeforeSave(r) /\ r.answer # "failed"
  BY <1>2 DEF Synced, SyncInv, Running
<1>4. FilesAgree
  BY <1>1, <1>2, <1>3, FolderUntouched
<1>5. r.op.kind = "refresh" /\ Derived(registryFile, r)
  BY <1>2 DEF Synced, StoreInv, Unwritten, Running, Itinerary
<1>6. /\ r.registryRg.policies = registryFile.policies
      /\ r.registryRg.uses = registryFile.uses
  <2>1. r.registryRg = [registryFile EXCEPT !.remote[u] = r.registryRg.remote[u]]
    BY <1>5 DEF Derived
  <2>2. u \in Urls /\ r.registryRg.remote[u] \in Nat
    BY <1>1, <1>5, OperationsAssumption DEF ResourceGroup
  <2> DEFINE v == r.registryRg.remote[u]
  <2> HIDE DEF v
  <2>3. r.registryRg = [registryFile EXCEPT !.remote[u] = v] /\ v \in Nat
    BY <2>1, <2>2 DEF v
  <2>4. QED
    BY <1>1, <2>2, <2>3, RenewedType
<1>7. q.gatewayRg = q.registryRg
  <2> DEFINE g == [gatewayFile EXCEPT !.remote = r.registryRg.remote]
  <2>1. /\ g \in ResourceGroup /\ g.policies = gatewayFile.policies
        /\ g.uses = gatewayFile.uses /\ g.remote = r.registryRg.remote
    BY <1>1, OverlaidType
  <2> HIDE DEF g
  <2>2. g = r.registryRg
    BY <1>1, <1>4, <1>6, <2>1, GroupsEqual DEF FilesAgree
  <2>3. QED
    BY <1>2, <2>2 DEF g
<1>8. WhileSaving(request[c])'
  <2>1. q.unsaved = {"registry", "gateway"}
    BY <1>2, <1>3 DEF BeforeSave
  <2>2. Knows(gatewayFile)
    BY <1>4 DEF Synced, RegistryGroups, FilesAgree
  <2>3. Carries(q.registryRg, q.op)
    BY <1>2, <1>5 DEF Carries
  <2>4. folder = r.registryRg.policies
    BY <1>4, <1>6 DEF FilesAgree
  <2>5. QED
    BY <1>2, <1>7, <2>1, <2>2, <2>3, <2>4 DEF WhileSaving, Knows, Used, Known
<1>9. QED
  BY <1>2, <1>3, <1>8 DEF Progress

LEMMA CompileSync ==
  ASSUME Synced, NEW c \in Clients, Compile(c)
  PROVE  Progress(request[c])'
<1> DEFINE r == request[c]
           q == request'[c]
<1>1. /\ TypeOK /\ r \in Request
  BY DEF Synced, TypeInv, TypeOK
<1>2. /\ r.pc = "compile" /\ q.pc = "unpack" /\ q.op = r.op /\ SameWork(r, q) /\ SameGroups(r, q)
      /\ q.unsaved = r.unsaved /\ q.answer = r.answer
      /\ bundle' = r.registryRg.policies[q.current]
      /\ UNCHANGED <<registryFile, gatewayFile, folder, tmp>>
  BY <1>1, CompileEffect
<1>3. BeforeSave(r) /\ r.answer # "failed"
  BY <1>2 DEF Synced, SyncInv, Running
<1>4. BeforeSave(request[c])'
  BY <1>2, <1>3 DEF BeforeSave, SameWork, SameGroups, Carries, ToGenerate, ToRemove
<1>5. QED
  BY <1>2, <1>3, <1>4 DEF Progress

\* The output of the compiler is there, and it is the policy's that was compiled.
LEMMA UnpackSync ==
  ASSUME Synced, TypeOK', NEW c \in Clients, Unpack(c)
  PROVE  Progress(request[c])'
<1> DEFINE r == request[c]
           q == request'[c]
<1>1. /\ TypeOK /\ r \in Request /\ RequestOK(r) /\ r.toSave \subseteq Policies
      /\ tmp \in [Policies -> Code]
  BY RequestsOK DEF Synced, TypeInv, TypeOK, Request
<1>2. r.pc = "unpack"
  BY <1>1, UnpackEffect
<1>3. BeforeSave(r) /\ r.answer # "failed"
  BY <1>2 DEF Synced, SyncInv, Running
<1>4. /\ r.current \in r.toCompile /\ r.current \in r.toSave /\ r.current \in Policies
      /\ bundle = r.registryRg.policies[r.current] /\ bundle # Absent
  BY <1>1, <1>2, <1>3 DEF RequestOK, BeforeSave
<1>5. /\ InPhase(q) /\ q.answer = r.answer /\ q.op = r.op /\ SameGroups(r, q)
      /\ q.unsaved = r.unsaved /\ q.toCompile = r.toCompile \ {r.current}
      /\ q.toSave = r.toSave /\ q.toDelete = r.toDelete
      /\ tmp' = [tmp EXCEPT ![r.current] = bundle]
      /\ UNCHANGED <<registryFile, gatewayFile, folder>>
  BY <1>1, <1>4, UnpackEffect
<1>6. \A p \in q.toSave : p \notin q.toCompile => tmp'[p] = q.registryRg.policies[p]
  <2>1. \A p \in q.toSave : p \in Policies
    BY <1>1, <1>5
  <2>2. \A p \in q.toSave : p # r.current /\ p \notin q.toCompile
                               => tmp'[p] = tmp[p] /\ tmp[p] = r.registryRg.policies[p]
    BY <1>1, <1>3, <1>5, <2>1 DEF BeforeSave
  <2>3. QED
    BY <1>1, <1>4, <1>5, <2>2 DEF SameGroups
<1>7. r.op.kind # "refresh" /\ Knows(registryFile)
  BY <1>2 DEF Synced, StoreInv, RegistryGroups, Itinerary
<1>8. QED
  BY <1>1, <1>2, <1>3, <1>5, <1>6, <1>7, PhaseReached DEF BeforeSave, SameGroups

\* The compiled file is there.
LEMMA AttachSync ==
  ASSUME Synced, TypeOK', NEW c \in Clients, Attach(c)
  PROVE  Progress(request[c])'
<1> DEFINE r == request[c]
           q == request'[c]
<1>1. /\ TypeOK /\ r \in Request /\ r.toSave \subseteq Policies
      /\ folder \in [Policies -> Code]
  BY DEF Synced, TypeInv, TypeOK, Request
<1>2. r.pc = "attach"
  BY <1>1, AttachEffect
<1>3. BeforeSave(r) /\ r.answer # "failed" /\ r.toCompile = {}
  BY <1>2 DEF Synced, SyncInv, Running, BeforeSave
<1>4. PICK p \in r.toSave :
        \/ tmp[p] = Absent
        \/ /\ InPhase(q) /\ q.answer = r.answer
           /\ q.toSave = r.toSave \ {p} /\ q.toCompile = r.toCompile
           /\ q.toDelete = r.toDelete
           /\ folder' = [folder EXCEPT ![p] = tmp[p]]
  BY <1>1, AttachEffect
<1>5. /\ p \in Policies /\ tmp[p] = r.registryRg.policies[p] /\ tmp[p] # Absent
      /\ p \notin r.toDelete
  BY <1>1, <1>3, <1>4 DEF BeforeSave
<1>6. /\ q.op = r.op /\ SameGroups(r, q) /\ q.unsaved = r.unsaved
      /\ UNCHANGED <<registryFile, gatewayFile, tmp>>
  BY <1>1, AttachEffect
<1>7. \A x \in Policies : folder'[x] = IF x \in q.toSave \cup q.toDelete
                                       THEN registryFile.policies[x] ELSE q.registryRg.policies[x]
  <2>1. folder'[p] = q.registryRg.policies[p] /\ p \notin q.toSave \cup q.toDelete
    BY <1>1, <1>4, <1>5, <1>6 DEF SameGroups
  <2>2. \A x \in Policies : x # p => folder'[x] = folder[x]
    BY <1>1, <1>4, <1>5
  <2>3. \A x \in Policies : x # p => (x \in q.toSave \cup q.toDelete <=> x \in r.toSave \cup r.toDelete)
    BY <1>4, <1>5
  <2>4. QED
    BY <1>3, <1>6, <2>1, <2>2, <2>3 DEF BeforeSave, SameGroups
<1>8. r.op.kind # "refresh" /\ Knows(registryFile) /\ ~r.op.dryRun /\ r.op.dryRun \in BOOLEAN
  BY <1>1, <1>2, OperationsAssumption DEF Synced, StoreInv, RegistryGroups, Itinerary, Request
<1>9. q.pc \notin {"compile", "cleanup"}
  BY <1>3, <1>4, <1>5, <1>6, <1>8 DEF InPhase
<1>10. /\ InPhase(q) /\ q.op.kind # "refresh" /\ q.answer # "failed"
       /\ gatewayFile = registryFile /\ q.unsaved = {"registry", "gateway"}
       /\ q.gatewayRg = q.registryRg /\ Carries(q.registryRg, q.op)
       /\ q.toCompile \subseteq q.toSave
  BY <1>2, <1>3, <1>4, <1>5, <1>6, <1>8 DEF BeforeSave, SameGroups
<1>11. /\ \A x \in q.toSave : /\ q.registryRg.policies[x] # Absent
                              /\ x \notin q.toCompile => tmp'[x] = q.registryRg.policies[x]
       /\ \A x \in q.toDelete : /\ registryFile.policies[x] # Absent
                                /\ q.registryRg.policies[x] = Absent
  BY <1>3, <1>4, <1>5, <1>6 DEF BeforeSave, SameGroups
<1>12. QED
  BY <1>1, <1>6, <1>7, <1>8, <1>9, <1>10, <1>11, PhaseReached

\* The file that is to be deleted is there.
LEMMA DetachSync ==
  ASSUME Synced, TypeOK', NEW c \in Clients, Detach(c)
  PROVE  Progress(request[c])'
<1> DEFINE r == request[c]
           q == request'[c]
<1>1. /\ TypeOK /\ r \in Request /\ r.toDelete \subseteq Policies
      /\ folder \in [Policies -> Code]
  BY DEF Synced, TypeInv, TypeOK, Request
<1>2. r.pc = "detach"
  BY <1>1, DetachEffect
<1>3. BeforeSave(r) /\ r.answer # "failed" /\ r.toCompile = {}
  BY <1>2 DEF Synced, SyncInv, Running, BeforeSave
<1>4. PICK p \in r.toDelete :
        \/ folder[p] = Absent
        \/ /\ InPhase(q) /\ q.answer = r.answer
           /\ q.toDelete = r.toDelete \ {p} /\ q.toCompile = r.toCompile
           /\ q.toSave = r.toSave
           /\ folder' = [folder EXCEPT ![p] = Absent]
  BY <1>1, DetachEffect
<1>5. /\ p \in Policies /\ folder[p] = registryFile.policies[p] /\ folder[p] # Absent
      /\ r.registryRg.policies[p] = Absent /\ p \notin r.toSave
  BY <1>1, <1>3, <1>4 DEF BeforeSave
<1>6. /\ q.op = r.op /\ SameGroups(r, q) /\ q.unsaved = r.unsaved
      /\ UNCHANGED <<registryFile, gatewayFile, tmp>>
  BY <1>1, DetachEffect
<1>7. \A x \in Policies : folder'[x] = IF x \in q.toSave \cup q.toDelete
                                       THEN registryFile.policies[x] ELSE q.registryRg.policies[x]
  <2>1. folder'[p] = q.registryRg.policies[p] /\ p \notin q.toSave \cup q.toDelete
    BY <1>1, <1>4, <1>5, <1>6 DEF SameGroups
  <2>2. \A x \in Policies : x # p => folder'[x] = folder[x]
    BY <1>1, <1>4, <1>5
  <2>3. \A x \in Policies : x # p => (x \in q.toSave \cup q.toDelete <=> x \in r.toSave \cup r.toDelete)
    BY <1>4, <1>5
  <2>4. QED
    BY <1>3, <1>6, <2>1, <2>2, <2>3 DEF BeforeSave, SameGroups
<1>8. r.op.kind # "refresh" /\ Knows(registryFile) /\ ~r.op.dryRun /\ r.op.dryRun \in BOOLEAN
  BY <1>1, <1>2, OperationsAssumption DEF Synced, StoreInv, RegistryGroups, Itinerary, Request
<1>9. q.pc \notin {"compile", "cleanup"}
  BY <1>3, <1>4, <1>5, <1>6, <1>8 DEF InPhase
<1>10. /\ InPhase(q) /\ q.op.kind # "refresh" /\ q.answer # "failed"
       /\ gatewayFile = registryFile /\ q.unsaved = {"registry", "gateway"}
       /\ q.gatewayRg = q.registryRg /\ Carries(q.registryRg, q.op)
       /\ q.toCompile \subseteq q.toSave
  BY <1>2, <1>3, <1>4, <1>5, <1>6, <1>8 DEF BeforeSave, SameGroups
<1>11. /\ \A x \in q.toSave : /\ q.registryRg.policies[x] # Absent
                              /\ x \notin q.toCompile => tmp'[x] = q.registryRg.policies[x]
       /\ \A x \in q.toDelete : /\ registryFile.policies[x] # Absent
                                /\ q.registryRg.policies[x] = Absent
  BY <1>3, <1>4, <1>5, <1>6 DEF BeforeSave, SameGroups
<1>12. QED
  BY <1>1, <1>6, <1>7, <1>8, <1>9, <1>10, <1>11, PhaseReached

\* Each file becomes what the request carries.
LEMMA SaveSync ==
  ASSUME Synced, NEW c \in Clients, Save(c)
  PROVE  Progress(request[c])'
<1> DEFINE r == request[c]
           q == request'[c]
<1>1. TypeOK /\ r.pc = "save" /\ r.unsaved \subseteq {"registry", "gateway"}
  BY SaveEffect DEF Synced, TypeInv, TypeOK, Request
<1>2. WhileSaving(r) /\ r.answer # "failed" /\ Knows(r.registryRg)
  BY <1>1 DEF Synced, SyncInv, RegistryGroups, HasIntrospected
<1>3. /\ q.op = r.op /\ SameGroups(r, q) /\ q.answer = r.answer /\ UNCHANGED folder
  BY <1>1, SaveEffect
<1>4. PICK file \in r.unsaved :
        /\ q.unsaved = r.unsaved \ {file}
        /\ q.pc = IF q.unsaved = {} THEN "cleanup" ELSE "save"
        /\ registryFile' = IF file = "registry" THEN r.registryRg ELSE registryFile
        /\ gatewayFile' = IF file = "registry" THEN gatewayFile ELSE r.gatewayRg
  BY <1>1, SaveEffect
<1>5. /\ "registry" \in q.unsaved \/ registryFile' = r.registryRg
      /\ "gateway" \in q.unsaved \/ gatewayFile' = r.registryRg
      /\ gatewayFile' \in {gatewayFile, r.registryRg}
  BY <1>1, <1>2, <1>4 DEF WhileSaving
<1>6. CASE q.unsaved = {}
  BY <1>2, <1>3, <1>4, <1>5, <1>6 DEF Progress, FilesAgree, WhileSaving
<1>7. CASE q.unsaved # {}
  <2>1. Knows(gatewayFile')
    BY <1>2, <1>5 DEF WhileSaving
  <2>2. WhileSaving(request[c])'
    BY <1>2, <1>3, <1>5, <2>1 DEF WhileSaving, SameGroups, Carries, Knows, Used, Known
  <2>3. QED
    BY <1>2, <1>3, <1>4, <1>7, <2>2 DEF Progress
<1>8. QED
  BY <1>6, <1>7

LEMMA WorkingSync ==
  ASSUME OneAtATime, MaxFailures = 0, Synced, TypeOK', NEW c \in Clients, Working(c)
  PROVE  SyncInv'
<1>1. TypeOK /\ TypeInv /\ ~Fail(c) /\ late = {}
  BY NothingFails DEF Synced, TypeInv, SyncInv
<1>2. Progress(request[c])'
  BY <1>1, FetchSync, PrepareSync, RefreshSync, OverlaySync, CompileSync, UnpackSync, AttachSync,
     DetachSync, SaveSync DEF Working
<1>3. late' = {}
  BY <1>1, FetchEffect, PrepareEffect, RefreshEffect, OverlayEffect, CompileEffect, UnpackEffect,
     AttachEffect, DetachEffect, SaveEffect DEF Working
<1>4. request'[c].pc \in Running /\ request'[c].pc # "queued"
  BY <1>1, WorkingEffect, PcsDisjoint
<1>5. \A d \in Clients : d # c => /\ request'[d] = request[d]
                                  /\ request'[d].pc \notin Running
                                  /\ request'[d].pc \notin {"save", "cleanup"}
  BY <1>1, WorkingAlone DEF Running
<1>6. ASSUME NEW d \in Clients
      PROVE  /\ request'[d].pc # "failed" /\ request'[d].answer # "failed"
             /\ request'[d].pc = "queued" => request'[d].unsaved = {"registry", "gateway"}
             /\ request'[d].pc \in Running \ {"save", "cleanup"} => BeforeSave(request[d])'
             /\ request'[d].pc = "save" => WhileSaving(request[d])'
             /\ request'[d].pc = "cleanup" => FilesAgree'
  <2>1. CASE d = c
    BY <1>2, <1>4, <2>1 DEF Progress
  <2>2. CASE d # c
    BY <1>5, <2>2 DEF Synced, SyncInv
  <2>3. QED
    BY <2>1, <2>2
<1>7. QED
  BY <1>3, <1>4, <1>6 DEF SyncInv

\* Steps that leave the files and whoever runs alone.
LEMMA IdleSync ==
  ASSUME Synced, UNCHANGED <<registryFile, gatewayFile, folder, tmp, bundle, late>>,
         \A c \in Clients : \/ request'[c] = request[c]
                            \/ /\ request[c].pc \notin Running /\ request'[c].pc \notin Running
                               /\ request'[c].pc # "failed" /\ request'[c].answer # "failed"
                               /\ request'[c].unsaved = {"registry", "gateway"}
  PROVE  SyncInv'
<1>1. ASSUME NEW d \in Clients
      PROVE  /\ request'[d].pc # "failed" /\ request'[d].answer # "failed"
             /\ request'[d].pc = "queued" => request'[d].unsaved = {"registry", "gateway"}
             /\ request'[d].pc \in Running \ {"save", "cleanup"} => BeforeSave(request[d])'
             /\ request'[d].pc = "save" => WhileSaving(request[d])'
             /\ request'[d].pc = "cleanup" => FilesAgree'
  <2>1. CASE request'[d] = request[d]
    <3>1. BeforeSave(request[d])' <=> BeforeSave(request[d])
      BY <2>1 DEF BeforeSave, Carries, ToGenerate, ToRemove
    <3>2. WhileSaving(request[d])' <=> WhileSaving(request[d])
      BY <2>1 DEF WhileSaving, Carries, Knows, Used, Known
    <3>3. QED
      BY <2>1, <3>1, <3>2 DEF Synced, SyncInv, FilesAgree
  <2>2. CASE request'[d] # request[d]
    BY <2>2 DEF Running
  <2>3. QED
    BY <2>1, <2>2
<1>2. (\A c \in Clients : request'[c].pc \notin Running) => FilesAgree'
  BY DEF Synced, SyncInv, FilesAgree
<1>3. late' = {}
  BY DEF Synced, SyncInv
<1>4. QED
  BY <1>1, <1>2, <1>3 DEF SyncInv

LEMMA NextSync ==
  ASSUME OneAtATime, MaxFailures = 0
  PROVE  Synced /\ [Next]_vars => SyncInv'
<1> SUFFICES ASSUME Synced, [Next]_vars
             PROVE  SyncInv'
  OBVIOUS
<1>1. TypeInv /\ TypeOK /\ TypeOK' /\ ~Crash /\ late = {}
  BY NextTypeInv, NothingFails DEF Synced, TypeInv, SyncInv
<1>2. ASSUME NEW c \in Clients, Working(c)
      PROVE  SyncInv'
  BY <1>1, <1>2, WorkingSync
<1>3. ASSUME NEW c \in Clients, Finish(c)
      PROVE  SyncInv'
  <2>1. /\ request[c].pc = "cleanup" /\ Fresh(request'[c], request[c].answer, request[c].op)
        /\ UNCHANGED <<registryFile, gatewayFile, folder, bundle, late>>
    BY <1>1, <1>3, FinishEffect
  <2>2. FilesAgree' /\ request[c].answer # "failed"
    BY <2>1 DEF Synced, SyncInv, FilesAgree
  <2>3. request[c].answer \in Answers
    BY <1>1 DEF TypeOK, Request
  <2>4. \A d \in Clients : d # c => /\ request'[d] = request[d]
                                    /\ request'[d].pc \notin Running
                                    /\ request'[d].pc \notin {"save", "cleanup"}
    BY <1>1, <1>3, WorkingAlone DEF Running
  <2>5. /\ request'[c].pc \notin Running /\ request'[c].pc # "failed" /\ request'[c].answer # "failed"
        /\ request'[c].pc \notin {"save", "cleanup", "queued"}
    BY <2>1, <2>2, <2>3 DEF Fresh, Running, Answers
  <2>6. ASSUME NEW d \in Clients
        PROVE  /\ request'[d].pc # "failed" /\ request'[d].answer # "failed"
               /\ request'[d].pc \notin Running
               /\ request'[d].pc \notin {"save", "cleanup"}
               /\ request'[d].pc = "queued" => request'[d].unsaved = {"registry", "gateway"}
    <3>1. CASE d = c
      BY <2>5, <3>1
    <3>2. CASE d # c
      BY <2>4, <3>2 DEF Synced, SyncInv
    <3>3. QED
      BY <3>1, <3>2
  <2>7. QED
    BY <1>1, <2>1, <2>2, <2>6 DEF SyncInv
<1>4. ASSUME NEW c \in Clients, NEW op \in Operations, Submit(c, op)
      PROVE  SyncInv'
  <2>1. /\ request[c].pc \in Answers \cup {"none"} /\ Others(c) /\ Fresh(request'[c], "queued", op)
        /\ UNCHANGED <<registryFile, gatewayFile, folder, tmp, bundle, late>>
    BY <1>1, <1>4, SubmitEffect
  <2>2. /\ request[c].pc \notin Running /\ request'[c].pc \notin Running
        /\ request'[c].pc # "failed" /\ request'[c].answer # "failed"
        /\ request'[c].unsaved = {"registry", "gateway"}
    BY <2>1, PcsDisjoint DEF Fresh, Running
  <2>3. QED
    BY <2>1, <2>2, IdleSync DEF Others
<1>5. CASE LateWrite
  BY <1>1, <1>5 DEF LateWrite
<1>6. CASE Evolve
  BY <1>6, IdleSync DEF Evolve, files, local
<1>7. CASE UNCHANGED vars
  BY <1>7, IdleSync DEF vars
<1>8. QED
  BY <1>1, <1>2, <1>3, <1>4, <1>5, <1>6, <1>7, StepsCovered

LEMMA InitSynced == Init => Synced
<1> SUFFICES ASSUME Init
             PROVE  Synced
  OBVIOUS
<1>1. \A c \in Clients : request[c] = NoRequest
  BY DEF Init
<1>2. /\ NoRequest.pc = "none" /\ NoRequest.answer = "ok"
  BY NoRequestType DEF Fresh
<1>3. FilesAgree
  BY DEF Init, FilesAgree, EmptyGroup
<1>4. SyncInv
  BY <1>1, <1>2, <1>3 DEF Init, SyncInv, Running
<1>5. QED
  BY <1>4, InitTypeInv, InitRegistryGroups, InitStore DEF Synced

\* Where requests come one at a time and nothing fails.
LEMMA SyncInvariant ==
  ASSUME OneAtATime, MaxFailures = 0
  PROVE  Spec => []Synced
<1>1. Synced /\ [Next]_vars => Synced'
  <2>1. Synced => TypeInv /\ RegistryGroups /\ StoreInv /\ late = {}
    BY DEF Synced, SyncInv
  <2>2. QED
    BY <2>1, NextTypeInv, NextRegistryGroups, NextStore, NextSync DEF Synced
<1>2. QED
  BY <1>1, InitSynced, PTL DEF Spec

\* Nothing but a failure makes a request fail: what was introspected, compiled and
\* written is there when a later step looks for it.
THEOREM OnlyFaultsFail ==
  ASSUME OneAtATime, MaxFailures = 0
  PROVE  Spec => []FailsOnlyOnFault
<1>1. Synced => FailsOnlyOnFault
  BY DEF Synced, SyncInv, FailsOnlyOnFault
<1>2. QED
  BY <1>1, SyncInvariant, PTL

\* Between requests the gateways find the registry's resources and exactly the wasm
\* files that belong to them.
THEOREM FilesInSync ==
  ASSUME OneAtATime, MaxFailures = 0
  PROVE  Spec => []InSync
<1>1. Synced => InSync
  <2>1. Synced /\ Quiet => FilesAgree
    BY PcsDisjoint DEF Synced, SyncInv, Quiet
  <2>2. QED
    BY <2>1 DEF InSync, FilesAgree
<1>2. QED
  BY <1>1, SyncInvariant, PTL

\* Whenever a gateway looks, in the middle of a save too, it can build its schema from
\* the file it finds.
THEOREM GatewaysBuild ==
  ASSUME OneAtATime, MaxFailures = 0
  PROVE  Spec => []GatewayKnowsUrls
<1>1. Synced => GatewayKnowsUrls
  <2> SUFFICES ASSUME Synced
               PROVE  Knows(gatewayFile)
    BY DEF GatewayKnowsUrls, Knows
  <2>1. Knows(registryFile)
    BY DEF Synced, RegistryGroups
  <2>2. CASE \E c \in Clients : request[c].pc \in Running
    <3>1. PICK c \in Clients : request[c].pc \in Running
      BY <2>2
    <3>2. CASE request[c].pc = "save"
      BY <3>2 DEF Synced, SyncInv, WhileSaving
    <3>3. CASE request[c].pc # "save"
      <4>1. gatewayFile = registryFile
        BY <3>1, <3>3 DEF Synced, SyncInv, BeforeSave, FilesAgree
      <4>2. QED
        BY <2>1, <4>1
    <3>4. QED
      BY <3>2, <3>3
  <2>3. CASE \A c \in Clients : request[c].pc \notin Running
    BY <2>1, <2>3 DEF Synced, SyncInv, FilesAgree
  <2>4. QED
    BY <2>2, <2>3
<1>2. QED
  BY <1>1, SyncInvariant, PTL

\* Without failures no save is left behind, and the registry's file changes by whole
\* requests only.
THEOREM WholeRequests ==
  ASSUME OneAtATime, MaxFailures = 0
  PROVE  Spec => ImplementsStore
<1>1. Synced => late = {}
  BY DEF Synced, SyncInv
<1>2. QED
  BY <1>1, SyncInvariant, StoreImplemented, PTL

LEMMA WorkingOk ==
  ASSUME OneClient, MaxFailures = 0, Synced, OkInv, NEW c \in Clients, Working(c)
  PROVE  OkInv'
<1> DEFINE r == request[c]
           q == request'[c]
<1>1. TypeOK /\ ~Fail(c) /\ r \in Request /\ r.op.dryRun \in BOOLEAN
  BY NothingFails, OperationsAssumption DEF Synced, TypeInv, TypeOK, Request
<1>2. q.pc \in Running /\ q.op = r.op /\ \A d \in Clients : d = c
  BY <1>1, WorkingEffect DEF OneClient
<1>3. SUFFICES ASSUME q.pc = "cleanup", q.answer = "ok", ~r.op.dryRun
               PROVE  Carries(registryFile', r.op)
  BY <1>2 DEF OkInv, Running
<1>4. CASE Save(c)
  <2>1. PICK file \in r.unsaved :
          /\ q.unsaved = r.unsaved \ {file}
          /\ q.pc = IF q.unsaved = {} THEN "cleanup" ELSE "save"
          /\ registryFile' = IF file = "registry" THEN r.registryRg ELSE registryFile
    BY <1>1, <1>4, SaveEffect
  <2>2. r.pc = "save" /\ WhileSaving(r)
    BY <1>1, <1>4, SaveEffect DEF Synced, SyncInv
  <2>3. registryFile' = r.registryRg
    BY <1>3, <2>1, <2>2 DEF WhileSaving
  <2>4. QED
    BY <2>2, <2>3 DEF WhileSaving
<1>5. CASE ~Save(c)
  <2>1. ~InPhase(q)
    BY <1>2, <1>3 DEF InPhase
  <2>2. q.pc = "cleanup" => q.answer # "ok"
    BY <1>1, <1>5, <2>1, FetchEffect, PrepareEffect, RefreshEffect, OverlayEffect, CompileEffect,
       UnpackEffect, AttachEffect, DetachEffect DEF Working
  <2>3. QED
    BY <1>3, <2>2
<1>6. QED
  BY <1>4, <1>5

LEMMA NextOk ==
  ASSUME OneClient, MaxFailures = 0
  PROVE  Synced /\ OkInv /\ [Next]_vars => OkInv'
<1> SUFFICES ASSUME Synced, OkInv, [Next]_vars
             PROVE  OkInv'
  OBVIOUS
<1>1. TypeOK /\ ~Crash /\ late = {}
  BY NothingFails DEF Synced, TypeInv, SyncInv
<1>2. ASSUME NEW c \in Clients, Working(c)
      PROVE  OkInv'
  BY <1>2, WorkingOk
<1>3. ASSUME NEW c \in Clients, Finish(c)
      PROVE  OkInv'
  <2>1. /\ request[c].pc = "cleanup" /\ Fresh(request'[c], request[c].answer, request[c].op)
        /\ UNCHANGED registryFile
    BY <1>1, <1>3, FinishEffect
  <2>2. \A d \in Clients : d = c
    BY DEF OneClient
  <2>3. request[c].answer # "cleanup"
    BY <1>1 DEF TypeOK, Request, Answers
  <2>4. QED
    BY <2>1, <2>2, <2>3 DEF OkInv, Fresh
<1>4. ASSUME NEW c \in Clients, NEW op \in Operations, Submit(c, op)
      PROVE  OkInv'
  BY <1>1, <1>4, SubmitEffect DEF OkInv, Others, Fresh
<1>5. CASE LateWrite
  BY <1>1, <1>5 DEF LateWrite
<1>6. CASE Evolve
  BY <1>6 DEF Evolve, OkInv, files
<1>7. CASE UNCHANGED vars
  BY <1>7 DEF vars, OkInv
<1>8. QED
  BY <1>1, <1>2, <1>3, <1>4, <1>5, <1>6, <1>7, StepsCovered

\* A client that was told "success" finds its policies in the gateways' file and
\* compiled in the attachments folder, until its next request.
THEOREM SuccessIsDeployed ==
  ASSUME OneClient, MaxFailures = 0
  PROVE  Spec => []OkMeansDeployed
<1>1. OneAtATime
  BY DEF OneAtATime
<1>2. Init => OkInv
  BY NoRequestType DEF Init, OkInv, Fresh
<1>3. Synced /\ OkInv => OkMeansDeployed
  <2> SUFFICES ASSUME Synced, OkInv, Quiet, NEW c \in Clients, request[c].pc = "ok",
                      request[c].op.kind # "refresh", ~request[c].op.dryRun,
                      NEW p \in DOMAIN request[c].op.policies
               PROVE  /\ gatewayFile.policies[p] = request[c].op.policies[p]
                      /\ folder[p] = request[c].op.policies[p]
    BY DEF OkMeansDeployed
  <2>1. FilesAgree
    BY PcsDisjoint DEF Synced, SyncInv, Quiet
  <2>2. Carries(registryFile, request[c].op)
    BY DEF OkInv
  <2>3. QED
    BY <2>1, <2>2 DEF FilesAgree, Carries
<1>4. QED
  BY <1>1, <1>2, <1>3, SyncInvariant, NextOk, PTL DEF Spec

=============================================================================
