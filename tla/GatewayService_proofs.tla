------------------------ MODULE GatewayService_proofs ------------------------
(***************************************************************************)
(* Proofs about the gateway's view of the resource group (GatewayService), *)
(* for any repositories, callers, versions and bounds.                     *)
(*                                                                         *)
(*   whatever overlaps and fails      TypeCorrect                          *)
(*   only publications can fail       PublishingEndsNothing                *)
(*   one call at a time               AttachmentsServed,                   *)
(*                                    PublicationImplemented               *)
(*   and no call answers an error     SchemaMatchesServed                  *)
(*   and nothing is rejected          AnswersAreCurrent                    *)
(*                                                                         *)
(* The loading process and the timer or a client never overlap, so one     *)
(* call of updateSchema at a time is one call of fetchLatest at a time     *)
(* (OneFlight): what a call returns is then what the repository has cached *)
(* (FlightInv), and the other invariants follow from that.                 *)
(***************************************************************************)
EXTENDS GatewayService, TLAPS

----------------------------------------------------------------------------
(* What each step does to the objects and to the call it is a step of. *)

Pcs == {"idle", "stat", "read", "get", "refresh", "build", "ok", "error"}
Waiting(c) == call[c].pc \in {"stat", "read", "get"}

\* Only the call of c changes.
Others(c) ==
    /\ call' \in [Calls -> Call]
    /\ \A d \in Calls : d # c => call'[d] = call[d]

\* fetchLatest begins.
LEMMA StartEffect ==
  ASSUME TypeOK, NEW c \in Calls, StartFetch(c)
  PROVE  /\ Others(c) /\ ~InFlight(c)
         /\ call'[c].pc = IF store = "s3" THEN "get" ELSE "stat"
         /\ call'[c].stamp = IF store = "s3" THEN cached.stamp ELSE Undefined
         /\ call'[c].obj = Undefined
         /\ call'[c].since = file.version
BY DEF TypeOK, StartFetch, Others, Call, Undefined

LEMMA StatEffect ==
  ASSUME TypeOK, NEW c \in Calls, Stat(c)
  PROVE  /\ Others(c) /\ call[c].pc = "stat"
         /\ call'[c].stamp = StampOfFile
         /\ call'[c].pc = IF cached.obj # Undefined /\ cached.stamp = StampOfFile
                          THEN "refresh" ELSE "read"
         /\ call'[c].obj = call[c].obj /\ call'[c].since = call[c].since
         /\ UNCHANGED <<storage, failures, process>>
<1>1. StampOfFile \in Nat
  BY DEF TypeOK, StampOfFile
<1> DEFINE s == StampOfFile
           pc == IF cached.obj # Undefined /\ cached.stamp = s THEN "refresh" ELSE "read"
<1>2. s \in Nat /\ pc \in {"refresh", "read"}
  BY <1>1
<1>3. call' = [call EXCEPT ![c].stamp = s, ![c].pc = pc] /\ call[c].pc = "stat"
  BY DEF Stat
<1> HIDE DEF s, pc
<1>4. /\ Others(c) /\ call'[c].stamp = s /\ call'[c].pc = pc
      /\ call'[c].obj = call[c].obj /\ call'[c].since = call[c].since
  BY <1>2, <1>3 DEF TypeOK, Others, Call
<1>5. QED
  BY <1>3, <1>4 DEF s, pc, Stat

\* A new object at the end of the heap, cached and returned.
LEMMA KeepEffect ==
  ASSUME TypeOK, NEW c \in Calls, NEW s \in Nat, KeepContent(c, s)
  PROVE  /\ Others(c) /\ call'[c].pc = "refresh"
         /\ call'[c].stamp = call[c].stamp /\ call'[c].since = call[c].since
         /\ call'[c].obj = Len(heap) + 1
         /\ heap' \in Seq(Object) /\ Len(heap') = Len(heap) + 1
         /\ \A i \in ObjectIds : heap'[i] = heap[i]
         /\ heap'[Len(heap) + 1].version = file.version
         /\ heap'[Len(heap) + 1].attachments = Undefined
         /\ cached'.stamp = s /\ cached'.obj = Len(heap) + 1
<1> DEFINE o == [version |-> file.version, attachments |-> Undefined]
<1>1. heap \in Seq(Object) /\ o \in Object /\ heap' = Append(heap, o)
  BY DEF TypeOK, KeepContent, Object, Undefined
<1>2. o.version = file.version /\ o.attachments = Undefined
  OBVIOUS
<1> HIDE DEF o
<1>3. /\ heap' \in Seq(Object) /\ Len(heap') = Len(heap) + 1 /\ Len(heap) \in Nat
      /\ heap'[Len(heap) + 1] = o /\ \A i \in 1..Len(heap) : heap'[i] = heap[i]
  BY <1>1
<1> DEFINE n == Len(heap')
<1>4. n \in Nat /\ n = Len(heap) + 1
  BY <1>3
<1>5. call' = [call EXCEPT ![c].pc = "refresh", ![c].obj = n] /\ cached' = [stamp |-> s, obj |-> n]
  BY DEF KeepContent
<1> HIDE DEF n
<1>6. /\ Others(c) /\ call'[c].pc = "refresh" /\ call'[c].obj = n
      /\ call'[c].stamp = call[c].stamp /\ call'[c].since = call[c].since
  BY <1>4, <1>5 DEF TypeOK, Others, Call
<1>7. QED
  BY <1>2, <1>3, <1>4, <1>5, <1>6 DEF ObjectIds

LEMMA NotModifiedEffect ==
  ASSUME TypeOK, NEW c \in Calls, NotModified(c)
  PROVE  /\ Others(c) /\ call[c].pc = "get" /\ call'[c].pc = "refresh"
         /\ call[c].stamp = StampOfFile
         /\ call'[c].stamp = call[c].stamp /\ call'[c].obj = call[c].obj
         /\ call'[c].since = call[c].since
         /\ UNCHANGED <<storage, failures, process>>
BY DEF TypeOK, NotModified, Others, Call

\* The attachments of one object are set.
LEMMA AttachEffect ==
  ASSUME TypeOK, cached.obj # Undefined, AttachPolicies
  PROVE  /\ heap' \in Seq(Object) /\ Len(heap') = Len(heap)
         /\ \A i \in ObjectIds : heap'[i].version = heap[i].version
         /\ heap'[cached.obj].attachments = attached
         /\ \A i \in ObjectIds : heap[i].attachments # Undefined
                                 => heap'[i].attachments # Undefined
<1>1. /\ heap \in Seq(Object) /\ cached.obj \in 1..Len(heap) /\ attached \in Nat \ {0}
      /\ heap' = [heap EXCEPT ![cached.obj].attachments = attached]
  BY BoundsAssumption DEF TypeOK, AttachPolicies, ObjectIds
<1>2. /\ DOMAIN heap' = 1..Len(heap)
      /\ \A i \in 1..Len(heap) : heap'[i] = IF i = cached.obj
                                            THEN [heap[i] EXCEPT !.attachments = attached] ELSE heap[i]
  BY <1>1
<1>3. \A i \in 1..Len(heap) : heap[i] \in Object
  BY <1>1
<1>4. \A i \in 1..Len(heap) :
        /\ heap'[i] \in Object /\ heap'[i].version = heap[i].version
        /\ heap'[i].attachments = IF i = cached.obj THEN attached ELSE heap[i].attachments
  BY <1>1, <1>2, <1>3 DEF Object
<1>5. heap' \in Seq(Object) /\ Len(heap') = Len(heap)
  <2>1. Len(heap) \in Nat
    BY <1>1
  <2>2. heap' \in [1..Len(heap) -> Object]
    BY <1>1, <1>2, <1>4
  <2>3. QED
    BY <2>1, <2>2
<1>6. QED
  BY <1>1, <1>4, <1>5 DEF ObjectIds, Undefined

LEMMA AnswerEffect ==
  ASSUME TypeOK, NEW c \in Calls, NEW pc \in Pcs, call' = [call EXCEPT ![c].pc = pc]
  PROVE  /\ Others(c) /\ call'[c].pc = pc
         /\ call'[c].stamp = call[c].stamp /\ call'[c].obj = call[c].obj
         /\ call'[c].since = call[c].since
BY DEF TypeOK, Others, Call, Pcs

\* The process has ended.
Ended == /\ up = "down" /\ heap = <<>> /\ cached = Nothing /\ served = Undefined
         /\ schema = Undefined /\ call = [d \in Calls |-> NoCall]

\* A rejection: the end of the process, or the end of the call.
LEMMA RejectEffect ==
  ASSUME TypeOK, NEW c \in Calls, Reject(c)
  PROVE  \/ Ended' /\ c \notin HttpCalls
         \/ /\ c \in HttpCalls /\ Others(c) /\ call'[c].pc = "error" /\ call'[c].obj = Undefined
            /\ UNCHANGED process
<1> DEFINE k == [NoCall EXCEPT !.pc = "error"]
<1>1. k \in Call /\ k.pc = "error" /\ k.obj = Undefined
  BY DEF NoCall, Call, Undefined
<1> HIDE DEF k
<1>2. CASE c \in HttpCalls /\ call' = [call EXCEPT ![c] = k] /\ UNCHANGED process
  BY <1>1, <1>2 DEF TypeOK, Others
<1>3. CASE c \notin HttpCalls /\ Exit
  BY <1>3 DEF Exit, Ended
<1>4. QED
  BY <1>2, <1>3, Zenon DEF Reject, k

----------------------------------------------------------------------------
(* Types. *)

\* What a call knows is there: the objects it refers to, what it is waiting for.
CallOk(c) ==
    /\ call[c].obj \in ObjectIds \cup {Undefined}
    /\ call[c].pc = "refresh" => cached.obj # Undefined
    /\ call[c].pc = "get" =>
          store = "s3" /\ (call[c].stamp # Undefined => cached.obj # Undefined)
    /\ call[c].pc = "build" => call[c].obj # Undefined /\ served # Undefined
    /\ InFlight(c) => up = IF c = Loader THEN "loading" ELSE "running"

TypeInv ==
    /\ TypeOK
    /\ \A i \in ObjectIds : heap[i].version <= file.version
    /\ schema <= file.version
    /\ cached.stamp # Undefined => cached.obj # Undefined
    /\ \A c \in Calls : CallOk(c)

LEMMA CallStaysOk ==
  ASSUME NEW d \in Calls, CallOk(d), call'[d] = call[d], store' = store,
         ObjectIds \subseteq ObjectIds',
         cached.obj # Undefined => cached'.obj # Undefined,
         served # Undefined => served' # Undefined,
         InFlight(d) => up' = up
  PROVE  CallOk(d)'
BY DEF CallOk, InFlight, Undefined

\* One call moves on, the others see what they have seen.
LEMMA CallsStayOk ==
  ASSUME TypeInv, NEW c \in Calls, Others(c), CallOk(c)', store' = store,
         ObjectIds \subseteq ObjectIds',
         cached.obj # Undefined => cached'.obj # Undefined,
         served # Undefined => served' # Undefined,
         \A d \in Calls : d # c /\ InFlight(d) => up' = up
  PROVE  \A d \in Calls : CallOk(d)'
<1> SUFFICES ASSUME NEW d \in Calls, d # c
             PROVE  CallOk(d)'
  OBVIOUS
<1>1. CallOk(d) /\ call'[d] = call[d]
  BY DEF TypeInv, Others
<1>2. QED
  BY <1>1, CallStaysOk

\* The types follow from those of the parts.
LEMMA TypeParts ==
  ASSUME /\ store \in Stores
         /\ file \in [version : 1..MaxPublish, stamp : Nat]
         /\ attached \in 1..MaxPublish
         /\ failures \in 0..MaxFailures
         /\ up \in {"down", "loading", "running"}
         /\ heap \in Seq(Object)
         /\ cached.obj \in ObjectIds \cup {Undefined} /\ cached.stamp \in Nat
         /\ served \in ObjectIds \cup {Undefined}
         /\ schema \in Nat /\ schema <= file.version
         /\ call \in [Calls -> Call]
         /\ \A c \in Calls : CallOk(c)
         /\ up = "running" => served # Undefined /\ schema # Undefined
  PROVE  TypeOK
<1>1. schema \in 0..MaxPublish
  BY BoundsAssumption
<1>2. QED
  BY <1>1 DEF TypeOK, CallOk

LEMMA InitTypeInv == Init => TypeInv
<1> SUFFICES ASSUME Init
             PROVE  TypeInv
  OBVIOUS
<1>1. NoCall \in Call /\ NoCall.pc = "idle" /\ NoCall.obj = Undefined
  BY DEF NoCall, Call, Undefined
<1>2. \A c \in Calls : call[c] = NoCall
  BY DEF Init
<1>3. call \in [Calls -> Call] /\ \A c \in Calls : CallOk(c)
  BY <1>1, <1>2 DEF Init, CallOk, InFlight
<1>4. cached.obj = Undefined /\ cached.stamp = Undefined
  BY DEF Init, Nothing
<1>5. TypeOK
  BY <1>3, <1>4, TypeParts, BoundsAssumption DEF Init, ObjectIds, Undefined
<1>6. QED
  BY <1>3, <1>4, <1>5 DEF Init, TypeInv, ObjectIds, Undefined

\* A process that has ended, and nothing happened to the storage.
LEMMA EndedTypeInv ==
  ASSUME TypeInv, Ended', UNCHANGED storage, failures' \in 0..MaxFailures
  PROVE  TypeInv'
<1>1. NoCall \in Call /\ NoCall.pc = "idle" /\ NoCall.obj = Undefined
  BY DEF NoCall, Call, Undefined
<1>2. call' \in [Calls -> Call] /\ \A c \in Calls : CallOk(c)'
  BY <1>1 DEF Ended, CallOk, InFlight
<1>3. cached'.obj = Undefined /\ cached'.stamp = Undefined
  BY DEF Ended, Nothing
<1>4. /\ up' = "down" /\ heap' = <<>> /\ served' = Undefined /\ schema' = Undefined
      /\ store' = store /\ file' = file /\ attached' = attached
  BY DEF Ended, storage
<1>5. TypeOK /\ file.version \in 1..MaxPublish
  BY DEF TypeInv, TypeOK
<1>6. ObjectIds' = {}
  BY <1>4 DEF ObjectIds
<1>7. TypeOK'
  <2>1. schema' \in 0..MaxPublish
    BY <1>4, BoundsAssumption DEF Undefined
  <2>2. heap' \in Seq(Object)
    BY <1>4
  <2>3. QED
    BY <1>2, <1>3, <1>4, <1>5, <1>6, <2>1, <2>2 DEF TypeOK, CallOk, Undefined
<1>8. QED
  BY <1>2, <1>3, <1>4, <1>5, <1>6, <1>7 DEF TypeInv, Undefined

\* The calls while the process runs on.
StartSteps(c) == (Load /\ c = Loader) \/ UpdateSchema(c)

LEMMA StartTypeInv ==
  ASSUME TypeInv, NEW c \in Calls, StartSteps(c)
  PROVE  TypeInv'
<1>1. TypeOK
  BY DEF TypeInv
<1>2. /\ StartFetch(c) /\ UNCHANGED <<storage, failures, heap, cached, served, schema>>
      /\ \/ c = Loader /\ up = "down" /\ up' = "loading"
         \/ c # Loader /\ up = "running" /\ up' = "running"
  BY DEF StartSteps, Load, UpdateSchema, process
<1>3. CallOk(c)'
  <2>1. /\ call'[c].pc = IF store = "s3" THEN "get" ELSE "stat"
        /\ call'[c].stamp = IF store = "s3" THEN cached.stamp ELSE Undefined
        /\ call'[c].obj = Undefined
    BY <1>1, <1>2, StartEffect
  <2>2. cached.stamp # Undefined => cached.obj # Undefined
    BY DEF TypeInv
  <2>3. cached' = cached /\ store' = store
    BY <1>2 DEF storage
  <2>4. QED
    BY <1>2, <2>1, <2>2, <2>3 DEF CallOk, InFlight
<1>4. \A d \in Calls : d # c /\ InFlight(d) => up' = up
  BY <1>2 DEF TypeInv, CallOk
<1>5. \A d \in Calls : CallOk(d)'
  <2>1. Others(c)
    BY <1>1, <1>2, StartEffect
  <2>2. store' = store /\ ObjectIds' = ObjectIds /\ cached' = cached /\ served' = served
    BY <1>2 DEF storage, ObjectIds
  <2>3. QED
    BY <1>3, <1>4, <2>1, <2>2, CallsStayOk
<1>6. call' \in [Calls -> Call]
  BY <1>1, <1>2, StartEffect DEF Others
<1>7. QED
  BY <1>1, <1>2, <1>5, <1>6 DEF TypeInv, TypeOK, CallOk, storage, ObjectIds

\* A step of a call that leaves objects, what is served and the process as they are.
LEMMA QuietTypeInv ==
  ASSUME TypeInv, NEW c \in Calls, Others(c), UNCHANGED <<storage, process>>,
         failures' \in 0..MaxFailures, CallOk(c)'
  PROVE  TypeInv'
<1>1. TypeOK
  BY DEF TypeInv
<1>2. /\ store' = store /\ file' = file /\ attached' = attached
      /\ up' = up /\ heap' = heap /\ cached' = cached /\ served' = served /\ schema' = schema
  BY DEF storage, process
<1>3. ObjectIds' = ObjectIds
  BY <1>2 DEF ObjectIds
<1>4. \A d \in Calls : CallOk(d)'
  BY <1>2, <1>3, CallsStayOk
<1>5. call' \in [Calls -> Call]
  BY DEF Others
<1>6. QED
  BY <1>1, <1>2, <1>3, <1>4, <1>5 DEF TypeInv, TypeOK, CallOk

LEMMA KeepTypeInv ==
  ASSUME TypeInv, NEW c \in Calls, NEW s \in Nat, KeepContent(c, s), InFlight(c),
         UNCHANGED <<storage, failures, up, served, schema>>
  PROVE  TypeInv'
<1>1. TypeOK
  BY DEF TypeInv
<1>2. /\ store' = store /\ file' = file /\ attached' = attached /\ failures' = failures
      /\ up' = up /\ served' = served /\ schema' = schema
  BY DEF storage
<1> DEFINE n == Len(heap)
<1>3. /\ heap' \in Seq(Object) /\ Len(heap') = n + 1 /\ \A i \in 1..n : heap'[i] = heap[i]
      /\ heap'[n + 1].version = file.version
      /\ cached'.stamp = s /\ cached'.obj = n + 1
      /\ call'[c].pc = "refresh" /\ call'[c].obj = n + 1
  BY <1>1, KeepEffect DEF ObjectIds
<1>4. Others(c)
  BY <1>1, KeepEffect
<1>5. n \in Nat
  BY <1>1 DEF TypeOK
<1>6. ObjectIds = 1..n /\ ObjectIds' = 1..(n + 1)
  BY <1>3 DEF ObjectIds
<1> HIDE DEF n
<1>7. ObjectIds \subseteq ObjectIds' /\ n + 1 \in ObjectIds' /\ n + 1 # Undefined
  BY <1>5, <1>6 DEF Undefined
<1>8. CallOk(c)'
  BY <1>2, <1>3, <1>7 DEF TypeInv, CallOk, InFlight
<1>9. \A d \in Calls : CallOk(d)'
  BY <1>2, <1>3, <1>4, <1>7, <1>8, CallsStayOk
<1>10. \A i \in ObjectIds' : heap'[i].version <= file'.version
  <2>1. file.version \in Nat
    BY <1>1 DEF TypeOK
  <2>2. \A i \in 1..n : heap[i].version <= file.version
    BY <1>6 DEF TypeInv
  <2>3. QED
    BY <1>2, <1>3, <1>5, <1>6, <2>1, <2>2
<1>11. TypeOK'
  BY <1>1, <1>2, <1>3, <1>4, <1>6, <1>7, <1>9 DEF TypeOK, CallOk, Others
<1>12. QED
  BY <1>2, <1>3, <1>7, <1>9, <1>10, <1>11 DEF TypeInv

\* The end of fetchLatest: the attachments, and what it returned is served.
LEMMA AttachTypeInv ==
  ASSUME TypeInv, NEW c \in Calls, Refresh(c) \/ Adopt(c)
  PROVE  TypeInv'
<1>1. TypeOK /\ call[c].pc = "refresh" /\ cached.obj # Undefined
  BY DEF TypeInv, CallOk, Refresh, Adopt
<1>2. /\ AttachPolicies
      /\ store' = store /\ file' = file /\ attached' = attached /\ failures' = failures
      /\ up' = up /\ cached' = cached /\ schema' = schema
  BY DEF Refresh, Adopt, storage
<1>3. /\ heap' \in Seq(Object) /\ Len(heap') = Len(heap)
      /\ \A i \in ObjectIds : heap'[i].version = heap[i].version
  BY <1>1, <1>2, AttachEffect
<1>4. ObjectIds' = ObjectIds
  BY <1>3 DEF ObjectIds
<1>5. /\ Others(c) /\ call'[c].obj = call[c].obj /\ served' \in ObjectIds \cup {Undefined}
      /\ served # Undefined => served' # Undefined
      /\ \/ call'[c].pc = "ok"
         \/ call'[c].pc = "build" /\ call[c].obj # Undefined /\ served' # Undefined
  <2>1. call[c].obj \in ObjectIds \cup {Undefined} /\ served \in ObjectIds \cup {Undefined}
    BY DEF TypeInv, TypeOK
  <2>2. CASE Refresh(c)
    BY <1>1, <2>1, <2>2, AnswerEffect DEF Refresh, Pcs
  <2>3. CASE Adopt(c)
    BY <1>1, <2>1, <2>3, AnswerEffect DEF Adopt, Pcs
  <2>4. QED
    BY <2>2, <2>3
<1>6. CallOk(c)'
  BY <1>1, <1>2, <1>4, <1>5 DEF TypeInv, CallOk, InFlight
<1>7. \A d \in Calls : CallOk(d)'
  BY <1>2, <1>4, <1>5, <1>6, CallsStayOk
<1>8. TypeOK'
  BY <1>1, <1>2, <1>3, <1>4, <1>5, <1>7 DEF TypeInv, TypeOK, CallOk, Others
<1>9. QED
  BY <1>2, <1>3, <1>4, <1>7, <1>8 DEF TypeInv

LEMMA BuildTypeInv ==
  ASSUME TypeInv, NEW c \in Calls, Build(c)
  PROVE  TypeInv'
<1>1. /\ TypeOK /\ call[c].pc = "build" /\ call[c].obj \in ObjectIds /\ served # Undefined
      /\ up = IF c = Loader THEN "loading" ELSE "running"
  BY DEF TypeInv, CallOk, Build, InFlight
<1>2. /\ store' = store /\ file' = file /\ attached' = attached /\ failures' = failures
      /\ up' = "running" /\ heap' = heap /\ cached' = cached /\ served' = served
      /\ schema' = heap[call[c].obj].version
  BY DEF Build, storage
<1>3. /\ heap[call[c].obj] \in Object /\ heap[call[c].obj].version <= file.version
  BY <1>1 DEF TypeInv, TypeOK, ObjectIds
<1>4. schema' \in Nat \ {0} /\ schema' <= file'.version
  BY <1>2, <1>3 DEF Object
<1>5. /\ Others(c) /\ call'[c].pc = "ok" /\ call'[c].obj = call[c].obj
  BY <1>1, AnswerEffect DEF Build, Pcs
<1>6. ObjectIds' = ObjectIds
  BY <1>2 DEF ObjectIds
<1>7. CallOk(c)'
  BY <1>1, <1>5, <1>6 DEF CallOk, InFlight
<1>8. \A d \in Calls : d # c /\ InFlight(d) => up' = up
  BY <1>1, <1>2 DEF TypeInv, CallOk
<1>9. \A d \in Calls : CallOk(d)'
  BY <1>2, <1>5, <1>6, <1>7, <1>8, CallsStayOk
<1>10. TypeOK'
  <2>1. schema' \in 0..MaxPublish /\ schema' # Undefined
    BY <1>1, <1>2, <1>4, BoundsAssumption DEF TypeOK, Undefined
  <2>2. QED
    BY <1>1, <1>2, <1>5, <1>6, <1>9, <2>1 DEF TypeOK, CallOk, Others
<1>11. QED
  BY <1>2, <1>4, <1>6, <1>9, <1>10 DEF TypeInv

LEMMA PublishTypeInv ==
  ASSUME TypeInv, PublishResources \/ PublishAttachments
  PROVE  TypeInv'
<1>1. /\ store' = store /\ failures' = failures /\ up' = up /\ heap' = heap /\ call' = call
      /\ cached' = cached /\ served' = served /\ schema' = schema
  BY DEF PublishResources, PublishAttachments, process
<1>2. ObjectIds' = ObjectIds /\ TypeOK
  BY <1>1 DEF ObjectIds, TypeInv
<1>3. file' \in [version : 1..MaxPublish, stamp : Nat] /\ file.version <= file'.version
  BY <1>2, StoreAssumption, BoundsAssumption DEF PublishResources, PublishAttachments, TypeOK
<1>4. attached' \in 1..MaxPublish
  BY <1>2, BoundsAssumption DEF PublishResources, PublishAttachments, TypeOK
<1>5. \A d \in Calls : CallOk(d)'
  BY <1>1, <1>2 DEF TypeInv, CallOk, InFlight
<1>6. TypeOK'
  BY <1>1, <1>2, <1>3, <1>4, <1>5 DEF TypeOK, CallOk
<1>7. /\ \A i \in ObjectIds' : heap'[i].version <= file'.version
      /\ schema' <= file'.version
  <2>1. file.version \in Nat /\ file'.version \in Nat /\ schema \in Nat
    BY <1>2, <1>3 DEF TypeOK
  <2>2. \A i \in ObjectIds : heap[i].version \in Nat
    <3>1. heap \in Seq(Object)
      BY <1>2 DEF TypeOK
    <3>2. \A i \in ObjectIds : heap[i] \in Object
      BY <3>1 DEF ObjectIds
    <3>3. QED
      BY <3>2 DEF Object
  <2>3. QED
    BY <1>1, <1>2, <1>3, <2>1, <2>2 DEF TypeInv
<1>8. QED
  BY <1>1, <1>5, <1>6, <1>7 DEF TypeInv

\* The process ends, killed or by a rejection that is nobody's answer.
Ends ==
    /\ Ended' /\ UNCHANGED storage /\ failures' \in 0..MaxFailures
    /\ MaxFailures # 0 \/ (BadVersions # {} /\ \E c \in Calls \ HttpCalls : InFlight(c))

\* A request to update is answered with an error.
Errors(c) ==
    /\ c \in HttpCalls /\ InFlight(c) /\ (MaxFailures # 0 \/ BadVersions # {})
    /\ Others(c) /\ call'[c].pc = "error" /\ call'[c].obj = Undefined
    /\ UNCHANGED <<storage, process>> /\ failures' \in 0..MaxFailures

StepOf(c) ==
    \/ StartSteps(c) \/ Stat(c) \/ Read(c) \/ NotModified(c) \/ Get(c)
    \/ Refresh(c) \/ Adopt(c) \/ Build(c) \/ Errors(c)

LEMMA StepsCovered ==
  ASSUME TypeOK, Next
  PROVE  PublishResources \/ PublishAttachments \/ Ends \/ \E c \in Calls : StepOf(c)
<1>1. CASE PublishResources \/ PublishAttachments
  BY <1>1
<1>2. CASE Load
  <2>1. Loader \in Calls
    BY DEF Calls
  <2>2. QED
    BY <1>2, <2>1 DEF StepOf, StartSteps
<1>3. CASE Crash
  <2>1. Ended' /\ UNCHANGED storage
    BY <1>3 DEF Crash, Exit, Ended
  <2>2. MaxFailures # 0 /\ failures' \in 0..MaxFailures
    BY <1>3, BoundsAssumption DEF Crash, TypeOK
  <2>3. QED
    BY <2>1, <2>2 DEF Ends
<1>4. ASSUME NEW c \in Calls, BuildRejects(c) \/ Fail(c)
      PROVE  Ends \/ Errors(c)
  <2>1. InFlight(c) /\ Reject(c) /\ UNCHANGED storage
    BY <1>4 DEF BuildRejects, Fail, InFlight
  <2>2. MaxFailures # 0 \/ BadVersions # {}
    BY <1>4, BoundsAssumption DEF BuildRejects, Fail, TypeOK
  <2>3. failures' \in 0..MaxFailures
    BY <1>4, BoundsAssumption DEF BuildRejects, Fail, TypeOK
  <2>4. QED
    BY <2>1, <2>2, <2>3, RejectEffect DEF Ends, Errors, storage, process
<1>5. CASE \E c \in Calls : UpdateSchema(c) \/ Progress(c) \/ Fail(c)
  <2>1. PICK c \in Calls : UpdateSchema(c) \/ Progress(c) \/ Fail(c)
    BY <1>5
  <2>2. QED
    BY <1>4, <2>1 DEF Progress, StepOf, StartSteps
<1>6. QED
  BY <1>1, <1>2, <1>3, <1>5 DEF Next

LEMMA StatTypeInv ==
  ASSUME TypeInv, NEW c \in Calls, Stat(c) \/ NotModified(c)
  PROVE  TypeInv'
<1>1. TypeOK /\ CallOk(c)
  BY DEF TypeInv
<1>2. /\ Others(c) /\ call'[c].obj = call[c].obj /\ InFlight(c)
      /\ call'[c].pc = "read" \/ (call'[c].pc = "refresh" /\ cached.obj # Undefined)
      /\ UNCHANGED <<storage, failures, process>>
  <2>1. CASE Stat(c)
    BY <1>1, <2>1, StatEffect DEF InFlight
  <2>2. CASE NotModified(c)
    <3>1. call[c].pc = "get" /\ call[c].stamp = StampOfFile /\ store = "s3"
      BY <1>1, <2>2, NotModifiedEffect DEF CallOk
    <3>2. call[c].stamp # Undefined
      BY <1>1, <3>1, BoundsAssumption DEF StampOfFile, TypeOK, Undefined
    <3>3. QED
      BY <1>1, <2>2, <3>1, <3>2, NotModifiedEffect DEF InFlight, CallOk
  <2>3. QED
    BY <2>1, <2>2
<1>3. UNCHANGED <<storage, process>> /\ failures' \in 0..MaxFailures
  BY <1>1, <1>2 DEF TypeOK
<1>4. CallOk(c)'
  BY <1>1, <1>2 DEF CallOk, InFlight, storage, process, ObjectIds
<1>5. QED
  BY <1>2, <1>3, <1>4, QuietTypeInv

\* Read and Get keep what they read with a stamp.
LEMMA ReadKeeps ==
  ASSUME TypeOK, NEW c \in Calls, Read(c) \/ Get(c)
  PROVE  \E s \in Nat : /\ KeepContent(c, s) /\ InFlight(c)
                        /\ s = IF call[c].pc = "get" THEN StampOfFile ELSE call[c].stamp
                        /\ UNCHANGED <<storage, failures, up, served, schema>>
<1>1. StampOfFile \in Nat /\ call[c].stamp \in Nat
  BY DEF TypeOK, StampOfFile, Call
<1>2. QED
  BY <1>1 DEF Read, Get, InFlight

LEMMA NextTypeInv == TypeInv /\ [Next]_vars => TypeInv'
<1> SUFFICES ASSUME TypeInv, [Next]_vars
             PROVE  TypeInv'
  OBVIOUS
<1>1. TypeOK
  BY DEF TypeInv
<1>2. CASE PublishResources \/ PublishAttachments
  BY <1>2, PublishTypeInv
<1>3. CASE Ends
  BY <1>3, EndedTypeInv DEF Ends
<1>4. ASSUME NEW c \in Calls, StepOf(c)
      PROVE  TypeInv'
  <2>1. CASE StartSteps(c)
    BY <2>1, StartTypeInv
  <2>2. CASE Stat(c) \/ NotModified(c)
    BY <2>2, StatTypeInv
  <2>3. CASE Read(c) \/ Get(c)
    BY <1>1, <2>3, ReadKeeps, KeepTypeInv
  <2>4. CASE Refresh(c) \/ Adopt(c)
    BY <2>4, AttachTypeInv
  <2>5. CASE Build(c)
    BY <2>5, BuildTypeInv
  <2>6. CASE Errors(c)
    <3>1. CallOk(c)'
      BY <2>6 DEF Errors, CallOk, InFlight
    <3>2. QED
      BY <2>6, <3>1, QuietTypeInv DEF Errors
  <2>7. QED
    BY <1>4, <2>1, <2>2, <2>3, <2>4, <2>5, <2>6 DEF StepOf
<1>5. CASE UNCHANGED vars
  BY <1>5 DEF vars, storage, process, TypeInv, TypeOK, CallOk, InFlight, ObjectIds
<1>6. QED
  BY <1>1, <1>2, <1>3, <1>4, <1>5, StepsCovered

\* The types of the gateway's state, for any callers and failures: what a call, the
\* repository and the service refer to is an object of the process.
THEOREM TypeCorrect == Spec => []TypeOK
<1>1. TypeInv => TypeOK
  BY DEF TypeInv
<1>2. QED
  BY <1>1, InitTypeInv, NextTypeInv, PTL DEF Spec

LEMMA TypeInvariant == Spec => []TypeInv
BY InitTypeInv, NextTypeInv, PTL DEF Spec

----------------------------------------------------------------------------
(* What is published does not end the process. *)

\* As long as nothing else fails, a gateway that has loaded goes on serving, whether the
\* versions that are published are valid or not, when updates come over HTTP only; with
\* the timer, when all of them are valid.
THEOREM PublishingEndsNothing ==
  ASSUME MaxFailures = 0, TimerCalls = {} \/ BadVersions = {}
  PROVE  Spec => KeepsServing
<1>1. TypeInv /\ [Next]_vars => [up = "running" => up' = "running"]_vars
  <2> SUFFICES ASSUME TypeInv, Next, up = "running"
               PROVE  up' = "running"
    BY DEF vars
  <2>1. TypeOK
    BY DEF TypeInv
  <2>2. ~Ends
    <3> SUFFICES ASSUME Ends
                 PROVE  FALSE
      OBVIOUS
    <3>1. PICK c \in Calls \ HttpCalls : InFlight(c) /\ BadVersions # {}
      BY DEF Ends
    <3>2. c = Loader
      BY <3>1 DEF Calls
    <3>3. QED
      BY <3>1, <3>2 DEF TypeInv, CallOk
  <2>3. CASE PublishResources \/ PublishAttachments
    BY <2>3 DEF PublishResources, PublishAttachments, process
  <2>4. ASSUME NEW c \in Calls, StepOf(c)
        PROVE  up' = "running"
    BY <2>4 DEF StepOf, StartSteps, Load, UpdateSchema, Stat, Read, NotModified, Get, Refresh,
                Adopt, Build, Errors, process
  <2>5. QED
    BY <2>1, <2>2, <2>3, <2>4, StepsCovered
<1>2. QED
  BY <1>1, TypeInvariant, PTL DEF Spec, KeepsServing

----------------------------------------------------------------------------
(* One call at a time. *)

\* The timer calls updateSchema, or one client does, and never both.
OneCaller == \A c, d \in TimerCalls \cup HttpCalls : c = d

LEMMA OneFlight ==
  ASSUME OneCaller, TypeInv, NEW c \in Calls, NEW d \in Calls, InFlight(c), InFlight(d)
  PROVE  c = d
BY DEF OneCaller, TypeInv, CallOk, Calls

\* Whoever is in flight after a step took the step.
LEMMA StepperFlies ==
  ASSUME OneCaller, TypeInv, TypeInv', NEW c \in Calls, StepOf(c), Others(c),
         NEW d \in Calls, InFlight(d)'
  PROVE  d = c
<1> SUFFICES ASSUME d # c
             PROVE  FALSE
  OBVIOUS
<1>1. InFlight(d)
  BY DEF Others, InFlight
<1>2. ~InFlight(c)
  BY <1>1, OneFlight
<1>3. StartSteps(c)
  BY <1>2 DEF StepOf, Stat, Read, NotModified, Get, Refresh, Adopt, Build, Errors, InFlight
<1>4. InFlight(c)'
  BY <1>3, StartEffect DEF TypeInv, StartSteps, Load, UpdateSchema, InFlight
<1>5. /\ up' = IF c = Loader THEN "loading" ELSE "running"
      /\ up' = IF d = Loader THEN "loading" ELSE "running"
  BY <1>4 DEF TypeInv, CallOk
<1>6. QED
  BY <1>5 DEF OneCaller, Calls

\* Every step of a call changes only this call.
LEMMA StepOthers ==
  ASSUME TypeOK, NEW c \in Calls, StepOf(c)
  PROVE  Others(c)
<1>1. CASE StartSteps(c)
  BY <1>1, StartEffect DEF StartSteps, Load, UpdateSchema
<1>2. CASE Stat(c) \/ NotModified(c)
  BY <1>2, StatEffect, NotModifiedEffect
<1>3. CASE Read(c) \/ Get(c)
  BY <1>3, ReadKeeps, KeepEffect
<1>4. CASE Refresh(c) \/ Adopt(c) \/ Build(c)
  BY <1>4, AnswerEffect DEF Refresh, Adopt, Build, Pcs
<1>5. CASE Errors(c)
  BY <1>5 DEF Errors
<1>6. QED
  BY <1>1, <1>2, <1>3, <1>4, <1>5 DEF StepOf

\* What a call returns is what the repository has cached, and no older than the schema.
FlightInv ==
    \A c \in Calls : InFlight(c) /\ call[c].obj # Undefined =>
        /\ call[c].obj = cached.obj
        /\ schema <= heap[call[c].obj].version

LEMMA NextFlight ==
  ASSUME OneCaller, TypeInv, TypeInv', FlightInv, [Next]_vars
  PROVE  FlightInv'
<1>1. TypeOK
  BY DEF TypeInv
<1>2. CASE PublishResources \/ PublishAttachments
  BY <1>2 DEF PublishResources, PublishAttachments, process, FlightInv, InFlight
<1>3. CASE Ends
  BY <1>3 DEF Ends, Ended, FlightInv, InFlight, NoCall
<1>4. ASSUME NEW c \in Calls, StepOf(c)
      PROVE  FlightInv'
  <2>1. Others(c)
    BY <1>1, <1>4, StepOthers
  <2> SUFFICES ASSUME InFlight(c)', call'[c].obj # Undefined
               PROVE  /\ call'[c].obj = cached'.obj
                      /\ schema' <= heap'[call'[c].obj].version
    BY <1>4, <2>1, StepperFlies DEF FlightInv
  <2>2. CASE StartSteps(c)
    BY <1>1, <2>2, StartEffect DEF StartSteps, Load, UpdateSchema
  <2>3. CASE Stat(c) \/ NotModified(c)
    BY <1>1, <2>3, StatEffect, NotModifiedEffect DEF FlightInv, InFlight, process
  <2>4. CASE Read(c) \/ Get(c)
    <3>1. PICK s \in Nat : KeepContent(c, s) /\ schema' = schema
      BY <1>1, <2>4, ReadKeeps
    <3>2. QED
      BY <1>1, <3>1, KeepEffect DEF TypeInv
  <2>5. CASE Adopt(c)
    <3>1. /\ call'[c].obj = call[c].obj /\ cached' = cached /\ schema' = schema
          /\ call[c].pc = "refresh"
      BY <1>1, <2>5, AnswerEffect DEF Adopt, Pcs
    <3>2. cached.obj # Undefined /\ call[c].obj \in ObjectIds
      BY <3>1 DEF TypeInv, CallOk
    <3>3. heap'[call[c].obj].version = heap[call[c].obj].version
      BY <1>1, <2>5, <3>2, AttachEffect DEF Adopt
    <3>4. QED
      BY <3>1, <3>3 DEF FlightInv, InFlight
  <2>6. CASE Refresh(c) \/ Build(c) \/ Errors(c)
    <3>1. call'[c].pc \in {"ok", "error"}
      BY <1>1, <2>6, AnswerEffect DEF Refresh, Build, Errors, Pcs
    <3>2. QED
      BY <3>1 DEF InFlight
  <2>7. QED
    BY <1>4, <2>2, <2>3, <2>4, <2>5, <2>6 DEF StepOf
<1>5. CASE UNCHANGED vars
  BY <1>5 DEF vars, FlightInv, InFlight
<1>6. QED
  BY <1>1, <1>2, <1>3, <1>4, <1>5, StepsCovered

LEMMA FlightInvariant ==
  ASSUME OneCaller
  PROVE  Spec => [](TypeInv /\ FlightInv)
<1>1. Init => FlightInv
  BY DEF Init, FlightInv, InFlight, NoCall
<1>2. QED
  BY <1>1, InitTypeInv, NextTypeInv, NextFlight, PTL DEF Spec

\* As long as calls do not overlap, every resource group that requests are executed with
\* carries compiled policies, whatever fails and whatever is published meanwhile: an
\* object is adopted only after the attachments went to it.
THEOREM AttachmentsServed ==
  ASSUME OneCaller
  PROVE  Spec => []ServedHasAttachments
<1>1. Init => ServedHasAttachments
  BY DEF Init, ServedHasAttachments
<1>2. ASSUME TypeInv, FlightInv, ServedHasAttachments, [Next]_vars
      PROVE  ServedHasAttachments'
  <2>1. TypeOK
    BY <1>2 DEF TypeInv
  <2>2. CASE PublishResources \/ PublishAttachments \/ UNCHANGED vars
    BY <1>2, <2>2 DEF PublishResources, PublishAttachments, process, vars, ServedHasAttachments
  <2>3. CASE Ends
    BY <2>3 DEF Ends, Ended, ServedHasAttachments
  <2>4. ASSUME NEW c \in Calls, StepOf(c)
        PROVE  ServedHasAttachments'
    <3>1. CASE StartSteps(c) \/ Stat(c) \/ NotModified(c) \/ Build(c) \/ Errors(c)
      BY <1>2, <3>1 DEF StartSteps, Load, UpdateSchema, Stat, NotModified, Build, Errors,
                        process, ServedHasAttachments
    <3>2. CASE Read(c) \/ Get(c)
      BY <1>2, <2>1, <3>2, ReadKeeps, KeepEffect DEF ServedHasAttachments, TypeOK
    <3>3. CASE Refresh(c) \/ Adopt(c)
      <4>1. /\ call[c].pc = "refresh" /\ AttachPolicies
            /\ \/ served' = served
               \/ served' = call[c].obj /\ call[c].obj # Undefined
        BY <3>3 DEF Refresh, Adopt
      <4>2. cached.obj # Undefined /\ attached # Undefined
        BY <2>1, <4>1, BoundsAssumption DEF TypeOK, Undefined
      <4>3. served' # Undefined => served' = cached.obj \/ (served' = served /\ served \in ObjectIds)
        BY <1>2, <2>1, <4>1 DEF TypeOK, FlightInv, InFlight
      <4>4. QED
        BY <1>2, <2>1, <4>1, <4>2, <4>3, AttachEffect DEF ServedHasAttachments
    <3>4. QED
      BY <2>4, <3>1, <3>2, <3>3 DEF StepOf
  <2>5. QED
    BY <1>2, <2>1, <2>2, <2>3, <2>4, StepsCovered
<1>3. QED
  BY <1>1, <1>2, FlightInvariant, PTL DEF Spec

\* The schema is only ever exchanged for a later one.
LEMMA SchemaAdvances ==
  ASSUME TypeInv, FlightInv, NEW c \in Calls, Build(c)
  PROVE  schema' \in schema..file.version
<1>1. call[c].obj \in ObjectIds /\ schema' = heap[call[c].obj].version
  BY DEF TypeInv, CallOk, Build
<1>2. schema <= heap[call[c].obj].version
  BY <1>1 DEF FlightInv, InFlight, Build, TypeInv, CallOk
<1>3. heap[call[c].obj] \in Object /\ heap[call[c].obj].version <= file.version
  BY <1>1 DEF TypeInv, TypeOK, ObjectIds
<1>4. schema \in Nat /\ file.version \in Nat /\ heap[call[c].obj].version \in Nat
  BY <1>3 DEF TypeInv, TypeOK, Object
<1>5. QED
  BY <1>1, <1>2, <1>3, <1>4

\* Every step of the gateway is one of SchemaPublication, or none.
LEMMA PublicationStep ==
  ASSUME TypeInv, FlightInv, [Next]_vars
  PROVE  [Publication!Next]_(Publication!vars)
<1>1. TypeOK /\ schema \in Nat
  BY DEF TypeInv, TypeOK
<1>2. CASE PublishResources \/ PublishAttachments
  BY <1>2 DEF PublishResources, PublishAttachments, process, Publication!Next,
              Publication!Publish, Publication!vars
<1>3. CASE Ends
  BY <1>3 DEF Ends, Ended, storage, Publication!Next, Publication!Stop, Publication!vars, Undefined
<1>4. ASSUME NEW c \in Calls, StepOf(c)
      PROVE  [Publication!Next]_(Publication!vars)
  <2>1. file' = file
    BY <1>4 DEF StepOf, StartSteps, Load, UpdateSchema, Stat, Read, NotModified, Get, Refresh,
                Adopt, Build, Errors, storage
  <2>2. CASE Build(c)
    <3>1. schema' \in schema..file.version
      BY <2>2, SchemaAdvances
    <3>2. schema' = schema \/ schema' \in (schema + 1)..file.version
      BY <1>1, <3>1 DEF TypeOK
    <3>3. QED
      BY <2>1, <3>2 DEF Publication!Next, Publication!Serve, Publication!vars
  <2>3. CASE ~Build(c)
    <3>1. schema' = schema
      BY <1>4, <2>3 DEF StepOf, StartSteps, Load, UpdateSchema, Stat, Read, NotModified, Get,
                        Refresh, Adopt, Errors, process
    <3>2. QED
      BY <2>1, <3>1 DEF Publication!vars
  <2>4. QED
    BY <2>2, <2>3
<1>5. CASE UNCHANGED vars
  BY <1>5 DEF vars, Publication!vars
<1>6. QED
  BY <1>1, <1>2, <1>3, <1>4, <1>5, StepsCovered

\* As long as calls do not overlap, the gateway serves some version that was published or
\* none, and while it runs it only moves forward: the safety part of SchemaPublication,
\* whatever fails and however stamps of the file repeat.
THEOREM PublicationImplemented ==
  ASSUME OneCaller
  PROVE  Spec => Publication!Init /\ [][Publication!Next]_(Publication!vars)
<1>1. Init => Publication!Init
  BY DEF Init, Publication!Init, Undefined
<1>2. QED
  BY <1>1, PublicationStep, FlightInvariant, PTL DEF Spec

----------------------------------------------------------------------------
(* What is served and the schema it is served with. *)

\* No call can be rejected, or every rejection ends the process.
NothingRejects == MaxFailures = 0 /\ BadVersions = {}
RejectionsExit == HttpCalls = {}

\* What is being built is what is served.
MatchInv ==
    /\ \A c \in Calls : call[c].pc = "build" => call[c].obj = served
    /\ ServedMatchesSchema

LEMMA NextMatch ==
  ASSUME OneCaller, NothingRejects \/ RejectionsExit,
         TypeInv, TypeInv', MatchInv, [Next]_vars
  PROVE  MatchInv'
<1>1. TypeOK
  BY DEF TypeInv
<1>2. CASE PublishResources \/ PublishAttachments \/ UNCHANGED vars
  BY <1>2 DEF PublishResources, PublishAttachments, process, vars, MatchInv, ServedMatchesSchema
<1>3. CASE Ends
  BY <1>3 DEF Ends, Ended, MatchInv, ServedMatchesSchema, NoCall
<1>4. ASSUME NEW c \in Calls, StepOf(c)
      PROVE  MatchInv'
  <2>1. Others(c)
    BY <1>1, <1>4, StepOthers
  <2>2. \A d \in Calls : d # c => call'[d].pc # "build"
    BY <1>4, <2>1, StepperFlies DEF InFlight
  <2>3. \A d \in Calls : d # c => call[d].pc # "build"
    BY <2>1, <2>2 DEF Others
  <2>4. CASE StartSteps(c)
    <3>1. /\ ~InFlight(c) /\ call'[c].pc \in {"stat", "get"}
          /\ heap' = heap /\ served' = served /\ schema' = schema
      BY <1>1, <2>4, StartEffect DEF StartSteps, Load, UpdateSchema, process
    <3>2. up' = "running" => up = "running"
      BY <2>4 DEF StartSteps, Load, UpdateSchema
    <3>3. QED
      BY <2>2, <2>3, <3>1, <3>2 DEF MatchInv, ServedMatchesSchema, InFlight
  <2>5. CASE Stat(c) \/ NotModified(c)
    <3>1. /\ call[c].pc \in {"stat", "get"} /\ call'[c].pc # "build"
          /\ up' = up /\ heap' = heap /\ served' = served /\ schema' = schema
      BY <1>1, <2>5, StatEffect, NotModifiedEffect DEF process
    <3>2. QED
      BY <2>2, <2>3, <3>1 DEF MatchInv, ServedMatchesSchema
  <2>6. CASE Read(c) \/ Get(c)
    <3>1. PICK s \in Nat : /\ KeepContent(c, s)
                           /\ up' = up /\ served' = served /\ schema' = schema
      BY <1>1, <2>6, ReadKeeps
    <3>2. call[c].pc # "build" /\ call'[c].pc = "refresh" /\ \A i \in ObjectIds : heap'[i] = heap[i]
      BY <1>1, <2>6, <3>1, KeepEffect DEF Read, Get
    <3>3. up = "running" => served \in ObjectIds
      BY <1>1 DEF TypeOK
    <3>4. QED
      BY <2>2, <2>3, <3>1, <3>2, <3>3 DEF MatchInv, ServedMatchesSchema
  <2>7. CASE Refresh(c)
    <3>1. /\ call[c].pc = "refresh" /\ call'[c].pc = "ok" /\ AttachPolicies
          /\ up' = up /\ served' = served /\ schema' = schema
      BY <1>1, <2>7, AnswerEffect DEF Refresh, Pcs
    <3>2. cached.obj # Undefined /\ (up = "running" => served \in ObjectIds)
      BY <1>1, <3>1 DEF TypeOK
    <3>3. \A i \in ObjectIds : heap'[i].version = heap[i].version
      BY <1>1, <3>1, <3>2, AttachEffect
    <3>4. QED
      BY <2>2, <2>3, <3>1, <3>2, <3>3 DEF MatchInv, ServedMatchesSchema
  <2>8. CASE Adopt(c)
    <3>1. /\ call'[c].pc = "build" /\ call'[c].obj = call[c].obj /\ served' = call[c].obj
      BY <1>1, <2>8, AnswerEffect DEF Adopt, Pcs
    <3>2. QED
      BY <2>2, <3>1 DEF MatchInv, ServedMatchesSchema
  <2>9. CASE Build(c)
    BY <1>1, <2>2, <2>9, AnswerEffect DEF Build, Pcs, MatchInv, ServedMatchesSchema
  <2>10. ~Errors(c)
    BY DEF Errors, NothingRejects, RejectionsExit
  <2>11. QED
    BY <1>4, <2>4, <2>5, <2>6, <2>7, <2>8, <2>9, <2>10 DEF StepOf
<1>5. QED
  BY <1>1, <1>2, <1>3, <1>4, StepsCovered

\* As long as calls do not overlap and none is answered with an error, the policies and
\* upstreams of a request are of the version its schema was built from, but for the time
\* in which a schema is built.
THEOREM SchemaMatchesServed ==
  ASSUME OneCaller, NothingRejects \/ RejectionsExit
  PROVE  Spec => []ServedMatchesSchema
<1>1. Init => MatchInv
  BY DEF Init, MatchInv, ServedMatchesSchema, NoCall
<1>2. MatchInv => ServedMatchesSchema
  BY DEF MatchInv
<1>3. QED
  BY <1>1, <1>2, NextMatch, TypeInvariant, PTL DEF Spec

----------------------------------------------------------------------------
(* Updates asked for over HTTP. *)

\* The cached object has the content that its stamp stands for, or a later one.
CachedMatchesStamp ==
    cached.obj # Undefined =>
        IF store = "s3" THEN cached.stamp = heap[cached.obj].version
        ELSE /\ cached.stamp <= file.stamp
             /\ cached.stamp = file.stamp => heap[cached.obj].version = file.version

\* What a call has seen is no older than what was published when it began.
CallFollows(c) ==
    /\ Waiting(c) => call[c].obj = Undefined
    /\ InFlight(c) => call[c].since <= file.version
    /\ call[c].pc = "stat" => store # "s3"
    /\ call[c].pc = "read" => store # "s3" /\ call[c].stamp <= file.stamp
    /\ call[c].pc = "get" => call[c].stamp = cached.stamp
    /\ call[c].pc \in {"refresh", "build"} =>
          call[c].since <= IF call[c].obj = Undefined THEN schema
                           ELSE heap[call[c].obj].version
    /\ call[c].pc = "ok" => call[c].since <= schema

\* What is cached is served, unless a call is about to.
Settled ==
    cached.obj # Undefined /\ (\A c \in Calls : InFlight(c) => call[c].obj = Undefined)
        => schema = heap[cached.obj].version

AnswerInv == CachedMatchesStamp /\ Settled /\ \A c \in Calls : CallFollows(c)

\* The cached content is that of the file when the stamps agree.
LEMMA SameStamp ==
  ASSUME TypeInv, CachedMatchesStamp, cached.obj # Undefined, cached.stamp = StampOfFile
  PROVE  heap[cached.obj].version = file.version
BY DEF CachedMatchesStamp, StampOfFile

\* A new stamp is a later one: file.stamp moves whenever the file does.
LEMMA PublishAnswer ==
  ASSUME 0 \notin Elapsed, TypeInv, AnswerInv, PublishResources \/ PublishAttachments
  PROVE  AnswerInv'
<1>1. /\ store' = store /\ heap' = heap /\ cached' = cached /\ schema' = schema /\ call' = call
      /\ file.version <= file'.version
      /\ file'.stamp > file.stamp \/ file' = file
      /\ file.version \in Nat /\ file'.version \in Nat /\ file.stamp \in Nat /\ file'.stamp \in Nat
  BY StoreAssumption DEF PublishResources, PublishAttachments, process, TypeInv, TypeOK
<1>2. \A c \in Calls : call[c].since \in Nat /\ call[c].stamp \in Nat
  BY DEF TypeInv, TypeOK, Call
<1>3. \A c \in Calls : CallFollows(c)'
  <2> TAKE c \in Calls
  <2>1. CallFollows(c)
    BY DEF AnswerInv
  <2>2. QED
    BY <1>1, <1>2, <2>1 DEF CallFollows, InFlight, Waiting
<1>4. Settled'
  BY <1>1 DEF AnswerInv, Settled, InFlight
<1>5. CachedMatchesStamp'
  <2>1. cached.stamp \in Nat
    BY DEF TypeInv, TypeOK
  <2>2. QED
    BY <1>1, <2>1 DEF AnswerInv, CachedMatchesStamp
<1>6. QED
  BY <1>3, <1>4, <1>5 DEF AnswerInv

\* A call that is not in flight is left as it was.
LEMMA RestFollows ==
  ASSUME NEW d \in Calls, CallFollows(d), call'[d] = call[d], ~InFlight(d),
         TypeOK, schema' \in Nat, schema <= schema'
  PROVE  CallFollows(d)'
<1>1. call[d].since \in Nat /\ schema \in Nat
  BY DEF TypeOK, Call
<1>2. QED
  BY <1>1 DEF CallFollows, InFlight, Waiting

LEMMA NextAnswer ==
  ASSUME OneCaller, NothingRejects, 0 \notin Elapsed,
         TypeInv, TypeInv', FlightInv, AnswerInv, [Next]_vars
  PROVE  AnswerInv'
<1>1. TypeOK
  BY DEF TypeInv
<1>2. ~Ends
  BY DEF Ends, NothingRejects
<1>3. ASSUME NEW c \in Calls, StepOf(c)
      PROVE  AnswerInv'
  <2>1. Others(c) /\ file' = file /\ store' = store
    BY <1>1, <1>3, StepOthers DEF StepOf, StartSteps, Load, UpdateSchema, Stat, Read,
         NotModified, Get, Refresh, Adopt, Build, Errors, storage
  <2>2. \A d \in Calls : d # c => ~InFlight(d) /\ ~InFlight(d)' /\ call'[d] = call[d]
    BY <1>3, <2>1, StepperFlies DEF Others, InFlight
  <2>3. schema \in Nat /\ schema' \in Nat /\ schema <= schema'
    <3>1. CASE Build(c)
      BY <1>1, <3>1, SchemaAdvances DEF TypeOK
    <3>2. CASE ~Build(c)
      BY <1>1, <1>3, <3>2 DEF StepOf, StartSteps, Load, UpdateSchema, Stat, Read, NotModified,
         Get, Refresh, Adopt, Errors, process, TypeOK
    <3>3. QED
      BY <3>1, <3>2
  <2>4. \A d \in Calls : d # c => CallFollows(d)'
    BY <1>1, <2>2, <2>3, RestFollows DEF AnswerInv
  <2>5. CallFollows(c) /\ CallOk(c) /\ CachedMatchesStamp /\ Settled
    BY DEF AnswerInv, TypeInv
  <2>6. call[c].since \in Nat /\ file.version \in Nat /\ file.stamp \in Nat
    BY <1>1 DEF TypeOK, Call
  <2> SUFFICES CallFollows(c)' /\ CachedMatchesStamp' /\ Settled'
    BY <2>4 DEF AnswerInv
  <2>7. CASE StartSteps(c)
    <3>1. /\ ~InFlight(c) /\ InFlight(c)' /\ heap' = heap /\ cached' = cached /\ schema' = schema
          /\ call'[c].pc = IF store = "s3" THEN "get" ELSE "stat"
          /\ call'[c].stamp = IF store = "s3" THEN cached.stamp ELSE Undefined
          /\ call'[c].obj = Undefined
          /\ call'[c].since = file.version
      BY <1>1, <2>7, StartEffect DEF StartSteps, Load, UpdateSchema, process, InFlight
    <3>2. CallFollows(c)'
      BY <2>1, <2>6, <3>1 DEF CallFollows, Waiting, InFlight
    <3>3. Settled'
      BY <2>2, <2>5, <3>1 DEF Settled
    <3>4. QED
      BY <2>1, <2>5, <3>1, <3>2, <3>3 DEF CachedMatchesStamp
  <2>8. CASE Stat(c) \/ NotModified(c)
    <3>1. /\ heap' = heap /\ cached' = cached /\ schema' = schema /\ InFlight(c) /\ Waiting(c)
          /\ call'[c].obj = call[c].obj /\ call'[c].since = call[c].since
          /\ \/ /\ call'[c].pc = "refresh" /\ cached.stamp = StampOfFile
             \/ /\ call'[c].pc = "read" /\ store # "s3" /\ call'[c].stamp = StampOfFile
      BY <1>1, <2>5, <2>8, StatEffect, NotModifiedEffect
         DEF process, InFlight, Waiting, CallFollows
    <3>2. call[c].obj = Undefined /\ call[c].since <= file.version
      BY <2>5, <3>1 DEF CallFollows
    <3>3. CASE call'[c].pc = "refresh"
      <4>1. cached.obj # Undefined
        BY <1>1, <2>1, <3>1, <3>3 DEF TypeInv, CallOk
      <4>2. schema = file.version
        BY <2>2, <2>5, <3>1, <3>2, <3>3, <4>1, SameStamp DEF Settled
      <4>3. QED
        BY <2>1, <2>2, <2>5, <3>1, <3>2, <3>3, <4>2
           DEF CallFollows, CachedMatchesStamp, Settled, Waiting, InFlight
    <3>4. CASE call'[c].pc = "read"
      BY <2>1, <2>2, <2>5, <2>6, <3>1, <3>2, <3>4
         DEF CallFollows, CachedMatchesStamp, Settled, Waiting, InFlight, StampOfFile
    <3>5. QED
      BY <3>1, <3>3, <3>4
  <2>9. CASE Read(c) \/ Get(c)
    <3>1. PICK s \in Nat : /\ KeepContent(c, s) /\ InFlight(c) /\ schema' = schema
                           /\ s = IF call[c].pc = "get" THEN StampOfFile ELSE call[c].stamp
      BY <1>1, <2>9, ReadKeeps
    <3> DEFINE n == Len(heap) + 1
    <3>2. /\ call'[c].pc = "refresh" /\ call'[c].obj = n /\ call'[c].since = call[c].since
          /\ cached'.stamp = s /\ cached'.obj = n /\ heap'[n].version = file.version
      BY <1>1, <3>1, KeepEffect
    <3>3. n # Undefined
      BY <1>1 DEF TypeOK, Undefined
    <3> HIDE DEF n
    <3>4. IF store = "s3" THEN s = file.version ELSE s <= file.stamp
      BY <1>1, <2>5, <2>6, <2>9, <3>1 DEF Read, Get, CallFollows, CallOk, StampOfFile
    <3>5. CallFollows(c)'
      BY <2>1, <2>5, <3>1, <3>2, <3>3 DEF CallFollows, Waiting, InFlight
    <3>6. QED
      BY <2>1, <3>2, <3>3, <3>4, <3>5 DEF CachedMatchesStamp, Settled, InFlight
  <2>10. CASE Refresh(c) \/ Adopt(c)
    <3>1. /\ AttachPolicies /\ cached' = cached /\ schema' = schema /\ call[c].pc = "refresh"
          /\ call'[c].obj = call[c].obj /\ call'[c].since = call[c].since
          /\ \/ call'[c].pc = "ok" /\ call[c].obj = Undefined
             \/ call'[c].pc = "build" /\ call[c].obj # Undefined
      BY <1>1, <2>10, AnswerEffect DEF Refresh, Adopt, Pcs
    <3>2. cached.obj \in ObjectIds /\ call[c].obj \in ObjectIds \cup {Undefined} /\ cached.obj # Undefined
      BY <1>1, <3>1 DEF TypeOK
    <3>3. \A i \in ObjectIds : heap'[i].version = heap[i].version
      BY <1>1, <3>1, <3>2, AttachEffect
    <3>4. CallFollows(c)'
      BY <2>1, <2>5, <3>1, <3>2, <3>3 DEF CallFollows, Waiting, InFlight
    <3>5. CachedMatchesStamp'
      BY <2>1, <2>5, <3>1, <3>2, <3>3 DEF CachedMatchesStamp
    <3>6. Settled'
      BY <2>2, <2>5, <3>1, <3>2, <3>3 DEF Settled, InFlight
    <3>7. QED
      BY <3>4, <3>5, <3>6
  <2>11. CASE Build(c)
    <3>1. /\ heap' = heap /\ cached' = cached /\ call[c].pc = "build"
          /\ schema' = heap[call[c].obj].version /\ call'[c].pc = "ok"
          /\ call'[c].obj = call[c].obj /\ call'[c].since = call[c].since
      BY <1>1, <2>11, AnswerEffect DEF Build, Pcs
    <3>2. call[c].obj # Undefined /\ call[c].obj = cached.obj
      BY <2>5, <3>1 DEF CallOk, FlightInv, InFlight
    <3>3. QED
      BY <2>1, <2>2, <2>5, <3>1, <3>2
         DEF CallFollows, CachedMatchesStamp, Settled, Waiting, InFlight
  <2>12. ~Errors(c)
    BY DEF Errors, NothingRejects
  <2>13. QED
    BY <1>3, <2>7, <2>8, <2>9, <2>10, <2>11, <2>12 DEF StepOf
<1>4. CASE UNCHANGED vars
  BY <1>4 DEF vars, AnswerInv, CachedMatchesStamp, Settled, CallFollows, Waiting, InFlight
<1>5. QED
  BY <1>1, <1>2, <1>3, <1>4, StepsCovered, PublishAnswer

\* As long as calls do not overlap, nothing is rejected and no two writes of the file have
\* one stamp, POST /updateSchema answers 200 only when the gateway serves what was
\* published before the request.  (With Elapsed = {0, 1}, an invalid version or two
\* callers it does not: GatewayService_invalid_retry.cfg, GatewayService_overlap_answer.cfg.)
THEOREM AnswersAreCurrent ==
  ASSUME OneCaller, NothingRejects, 0 \notin Elapsed
  PROVE  Spec => []UpdateSchemaAnswered
<1>1. Init => AnswerInv
  <2> SUFFICES ASSUME Init
               PROVE  AnswerInv
    OBVIOUS
  <2>1. cached.obj = Undefined
    BY DEF Init, Nothing
  <2>2. \A c \in Calls : CallFollows(c)
    BY DEF Init, CallFollows, NoCall, Waiting, InFlight
  <2>3. QED
    BY <2>1, <2>2 DEF AnswerInv, CachedMatchesStamp, Settled
<1>2. TypeInv /\ AnswerInv => UpdateSchemaAnswered
  <2> SUFFICES ASSUME TypeInv, AnswerInv, NEW c \in HttpCalls, call[c].pc = "ok"
               PROVE  schema >= call[c].since
    BY DEF UpdateSchemaAnswered
  <2>1. c \in Calls /\ call[c] \in Call /\ schema \in Nat
    BY DEF Calls, TypeInv, TypeOK
  <2>2. call[c].since <= schema
    BY <2>1 DEF AnswerInv, CallFollows
  <2>3. QED
    BY <2>1, <2>2 DEF Call
<1>3. QED
  BY <1>1, <1>2, NextAnswer, FlightInvariant, PTL DEF Spec

=============================================================================
