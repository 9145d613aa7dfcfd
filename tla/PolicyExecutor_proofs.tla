------------------------- MODULE PolicyExecutor_proofs -------------------------
(***************************************************************************)
(* Proofs about the result caches of PolicyExecutor, for any policies,     *)
(* verdicts, queries (circular ones included), requests and versions:      *)
(*   - the typing invariant;                                               *)
(*   - each policy is executed once for its arguments;                     *)
(*   - requests that ask for the same are answered alike;                  *)
(*   - what is answered follows from what policies gave, in versions the   *)
(*     gateway has had, down through all queries.                          *)
(***************************************************************************)
EXTENDS PolicyExecutor, TLAPS

----------------------------------------------------------------------------
(* Types. *)

\* The initial states are well typed.
LEMMA InitTypeOK == Init => TypeOK
<1> SUFFICES ASSUME Init
             PROVE  TypeOK
  OBVIOUS
<1>1. MaxVersion \in Nat \ {0} /\ MaxFailures \in Nat
  BY BoundsAssumption
<1>2. /\ version \in 1..MaxVersion
      /\ compiled \in [1..MaxVersion -> 0..MaxVersion]
      /\ \A v \in 1..MaxVersion : v <= version <=> compiled[v] # 0
      /\ failures \in 0..MaxFailures
  BY <1>1 DEF Init
<1>3. /\ asyncCache \in [Keys -> Promise]
      /\ syncCache \in [Keys -> {"none", "allow", "deny"}]
      /\ runs \in [Modes -> [Keys -> 0..2]]
  BY <1>1 DEF Init, NoPromise, Promise, Outcomes, Modes
<1>4. ClosedRequest \in Request
  BY <1>1, KeysAssumption DEF ClosedRequest, Request, Modes, Outcomes
<1>5. request \in [Requests -> Request]
  BY <1>4 DEF Init
<1>6. \A k \in Keys : asyncCache[k].state = "none" /\ runs["async"][k] = 0
  BY DEF Init, NoPromise, Modes
<1>7. \A r \in Requests : request[r].pc = "closed"
  BY DEF Init, ClosedRequest
<1>8. QED
  BY <1>2, <1>3, <1>5, <1>6, <1>7 DEF TypeOK

\* A resource group that was served carries compiled policies, and each policy has
\* an outcome in them.
LEMMA VerdictIsOutcome ==
  ASSUME TypeOK, NEW k \in Keys, NEW v \in 1..version
  PROVE  /\ v \in 1..MaxVersion
         /\ compiled[v] \in 1..MaxVersion
         /\ \A given \in GivenTo(k) : Verdict[k][compiled[v]][given] \in Outcomes
<1>1. v \in 1..MaxVersion
  BY BoundsAssumption DEF TypeOK
<1>2. compiled[v] \in 1..MaxVersion
  BY <1>1, BoundsAssumption DEF TypeOK
<1>3. QED
  BY <1>1, <1>2, VerdictAssumption DEF Verdicts, Outcomes

\* Resources and compiled policies only move forward.
LEMMA ResourcesMoveForward ==
  ASSUME TypeOK, UpdateResources \/ RefreshPolicies
  PROVE  /\ version' \in 1..MaxVersion /\ version <= version'
         /\ compiled' \in [1..MaxVersion -> 0..MaxVersion]
         /\ \A v \in 1..MaxVersion : v <= version' <=> compiled'[v] # 0
         /\ \A v \in 1..version : compiled[v] <= compiled'[v]
         /\ compiled[version] <= compiled'[version']
         /\ UNCHANGED <<asyncCache, syncCache, runs, request, failures>>
<1>1. /\ MaxVersion \in Nat /\ version \in 1..MaxVersion
      /\ compiled[version] \in 1..MaxVersion
  BY BoundsAssumption DEF TypeOK
<1>2. CASE UpdateResources
  <2>1. PICK n \in compiled[version]..MaxVersion :
              compiled' = [compiled EXCEPT ![version + 1] = n]
    BY <1>2 DEF UpdateResources
  <2>2. version' = version + 1 /\ version' \in 1..MaxVersion /\ n \in 1..MaxVersion
    BY <1>1, <1>2 DEF UpdateResources
  <2>3. QED
    BY <1>1, <1>2, <2>1, <2>2 DEF TypeOK, UpdateResources
<1>3. CASE RefreshPolicies
  <2>1. /\ compiled' = [compiled EXCEPT ![version] = compiled[version] + 1]
        /\ compiled[version] + 1 \in 1..MaxVersion
    BY <1>1, <1>3 DEF RefreshPolicies, TypeOK
  <2>2. QED
    BY <1>1, <1>3, <2>1 DEF TypeOK, RefreshPolicies
<1>4. QED
  BY <1>2, <1>3

\* A request in flight whose record is well formed.
WellFormed(q) ==
    /\ q \in Request
    /\ q.pc # "closed" => /\ q.version \in 1..version
                          /\ q.compiledBefore \in 1..compiled[q.version]
    /\ q.pc = "answered" => q.outcome # "none"
    /\ q.pc = "waiting" => asyncCache[q.key].state # "none"

\* Replacing one request by a well-formed one keeps all requests well formed.
LEMMA RequestUpdate ==
  ASSUME TypeOK, NEW r \in Requests, NEW q, WellFormed(q),
         request' = [request EXCEPT ![r] = q]
  PROVE  request' \in [Requests -> Request] /\ \A s \in Requests : WellFormed(request'[s])
  BY DEF TypeOK, WellFormed

\* The request as it becomes when it is answered.
AnsweredWith(r, mode, key, outcome) ==
    [request[r] EXCEPT !.pc = "answered", !.mode = mode, !.key = key, !.outcome = outcome]

\* An answer with an outcome is well formed.
LEMMA AnswerWellFormed ==
  ASSUME TypeOK, NEW r \in Requests, request[r].pc # "closed",
         NEW mode \in Modes, NEW key \in Keys, NEW outcome \in Outcomes
  PROVE  WellFormed(AnsweredWith(r, mode, key, outcome))
<1> DEFINE q == AnsweredWith(r, mode, key, outcome)
<1>1. /\ request[r] \in Request
      /\ request[r].version \in 1..version
      /\ request[r].compiledBefore \in 1..compiled[request[r].version]
  BY DEF TypeOK
<1>2. q \in Request
  BY <1>1 DEF Request, AnsweredWith
<1>3. /\ q.pc = "answered" /\ q.outcome = outcome /\ q.version = request[r].version
      /\ q.compiledBefore = request[r].compiledBefore
  BY <1>1 DEF Request, AnsweredWith
<1>4. outcome # "none"
  BY DEF Outcomes
<1>5. QED
  BY <1>1, <1>2, <1>3, <1>4 DEF WellFormed

\* The steps of a request that leave the caches alone keep the types.
LEMMA RequestTypeOK ==
  ASSUME TypeOK, NEW r \in Requests,
         \/ Open(r) \/ Close(r) \/ Receive(r)
         \/ \E m \in Modes, k \in Keys : NotDefined(r, m, k)
  PROVE  TypeOK'
<1>1. UNCHANGED <<version, compiled, asyncCache, syncCache, runs, failures>>
  BY DEF Open, Close, Receive, NotDefined, resources
<1>2. PICK q : WellFormed(q) /\ request' = [request EXCEPT ![r] = q]
  <2>1. CASE Open(r)
    <3> DEFINE q == [request[r] EXCEPT !.pc = "open", !.version = version,
                                       !.outcome = "none",
                                       !.compiledBefore = compiled[version],
                                       !.failuresBefore = failures]
    <3>1. request' = [request EXCEPT ![r] = q]
      BY <2>1 DEF Open, TypeOK
    <3>2. /\ request[r] \in Request /\ version \in 1..MaxVersion
          /\ failures \in 0..MaxFailures
      BY DEF TypeOK
    <3>3. compiled[version] \in 1..MaxVersion /\ version \in 1..version
      BY <3>2, VerdictIsOutcome, KeysAssumption, BoundsAssumption DEF TypeOK
    <3>4. version \in 0..MaxVersion /\ compiled[version] \in 0..MaxVersion
      BY <3>2, <3>3, BoundsAssumption
    <3>5. q \in Request
      BY <3>2, <3>4 DEF Request
    <3>6. /\ q.pc = "open" /\ q.version = version /\ q.compiledBefore = compiled[version]
      BY <3>2 DEF Request
    <3>7. compiled[version] \in 1..compiled[version]
      BY <3>3, BoundsAssumption
    <3>8. WellFormed(q)
      BY <3>3, <3>5, <3>6, <3>7 DEF WellFormed
    <3>9. QED
      BY <3>1, <3>8
  <2>2. CASE Close(r)
    <3>1. ClosedRequest \in Request
      BY KeysAssumption, BoundsAssumption DEF ClosedRequest, Request, Modes, Outcomes
    <3>2. WellFormed(ClosedRequest)
      BY <3>1 DEF WellFormed, ClosedRequest
    <3>3. QED
      BY <2>2, <3>2 DEF Close
  <2>3. CASE Receive(r)
    <3>1. /\ request[r].key \in Keys /\ request[r].pc # "closed"
          /\ asyncCache[request[r].key].state \in Outcomes
      BY <2>3 DEF Receive, TypeOK, Request
    <3>2. request' = [request EXCEPT ![r] = AnsweredWith(r, "async", request[r].key,
                                                asyncCache[request[r].key].state)]
      BY <2>3 DEF Receive, Answer, AnsweredWith, TypeOK
    <3>3. QED
      BY <3>1, <3>2, AnswerWellFormed DEF Modes
  <2>4. ASSUME NEW m \in Modes, NEW k \in Keys, NotDefined(r, m, k)
        PROVE  \E q : WellFormed(q) /\ request' = [request EXCEPT ![r] = q]
    <3>1. request[r].pc # "closed" /\ "error" \in Outcomes
      BY <2>4 DEF NotDefined, Ready, Outcomes
    <3>2. request' = [request EXCEPT ![r] = AnsweredWith(r, m, k, "error")]
      BY <2>4 DEF NotDefined, Answer, AnsweredWith, TypeOK
    <3>3. QED
      BY <3>1, <3>2, AnswerWellFormed
  <2>5. QED
    BY <2>1, <2>2, <2>3, <2>4
<1>3. request' \in [Requests -> Request] /\ \A s \in Requests : WellFormed(request'[s])
  BY <1>2, RequestUpdate
<1>4. QED
  BY <1>1, <1>3 DEF TypeOK, WellFormed

\* Counting a run changes the count of one policy, to something else than 0.
LEMMA CountRunChanges ==
  ASSUME TypeOK, NEW mode \in Modes, NEW key \in Keys, CountRun(mode, key)
  PROVE  /\ runs' \in [Modes -> [Keys -> 0..2]]
         /\ runs'[mode][key] # 0
         /\ runs[mode][key] = 0 => runs'[mode][key] = 1
         /\ \A m \in Modes, k \in Keys : m # mode \/ k # key => runs'[m][k] = runs[m][k]
<1> DEFINE n == IF runs[mode][key] < 2 THEN runs[mode][key] + 1 ELSE 2
<1>1. runs \in [Modes -> [Keys -> 0..2]] /\ runs[mode][key] \in 0..2
  BY DEF TypeOK
<1>2. runs' = [runs EXCEPT ![mode] = [runs[mode] EXCEPT ![key] = n]]
  BY <1>1 DEF CountRun
<1>3. n \in 1..2 /\ (runs[mode][key] = 0 => n = 1)
  BY <1>1
<1> HIDE DEF n
<1>4. QED
  BY <1>1, <1>2, <1>3

\* A new promise, or a promise that settles, keeps the async cache well formed.
LEMMA PromiseUpdate ==
  ASSUME TypeOK, NEW key \in Keys, NEW p,
         UNCHANGED <<version, compiled>>,
         asyncCache' = [asyncCache EXCEPT ![key] = p],
         p \in Promise, p.state # "none", p.version \in 1..version,
         \/ CountRun("async", key)
         \/ asyncCache[key].state # "none" /\ UNCHANGED runs
  PROVE  /\ asyncCache' \in [Keys -> Promise]
         /\ runs' \in [Modes -> [Keys -> 0..2]]
         /\ asyncCache'[key] = p
         /\ \A k \in Keys \ {key} : asyncCache'[k] = asyncCache[k]
         /\ \A k \in Keys : IF asyncCache'[k].state = "none"
                            THEN runs'["async"][k] = 0
                            ELSE runs'["async"][k] # 0 /\ asyncCache'[k].version \in 1..version
         /\ \A k \in Keys : asyncCache[k].state # "none" => asyncCache'[k].state # "none"
<1>1. /\ asyncCache' \in [Keys -> Promise] /\ asyncCache'[key] = p
      /\ \A k \in Keys \ {key} : asyncCache'[k] = asyncCache[k]
  BY DEF TypeOK
<1>2. /\ runs' \in [Modes -> [Keys -> 0..2]] /\ runs'["async"][key] # 0
      /\ \A k \in Keys \ {key} : runs'["async"][k] = runs["async"][k]
  <2>1. "async" \in Modes
    BY DEF Modes
  <2>2. CASE CountRun("async", key)
    BY <2>1, <2>2, CountRunChanges
  <2>3. CASE asyncCache[key].state # "none" /\ UNCHANGED runs
    BY <2>3 DEF TypeOK
  <2>4. QED
    BY <2>2, <2>3
<1>3. QED
  BY <1>1, <1>2 DEF TypeOK

\* What a policy's promise becomes: pending for a new one, an outcome in the end.
LEMMA PromiseStep ==
  ASSUME TypeOK, NEW key \in Keys,
         \/ Settle(key) \/ QueryFails(key)
         \/ \E k \in Keys : Ask(k, key)
         \/ \E r \in Requests : Validate(r, key) /\ asyncCache[key].state = "none"
  PROVE  \E p : /\ asyncCache' = [asyncCache EXCEPT ![key] = p]
                /\ p \in Promise /\ p.state # "none" /\ p.version \in 1..version
                /\ \/ /\ asyncCache[key].state = "none" /\ p.state = "pending"
                      /\ CountRun("async", key)
                   \/ /\ asyncCache[key].state = "pending" /\ UNCHANGED runs
                      /\ \/ p.state = "error"
                         \/ /\ KeptAnswers(key) \in QueryAnswers(key)
                            /\ p.state = Verdict[key][compiled[asyncCache[key].version]]
                                                     [KeptAnswers(key)]
                /\ UNCHANGED <<version, compiled, syncCache>>
<1>1. ASSUME NEW v \in 1..version
      PROVE  /\ [state |-> "pending", version |-> v] \in Promise
             /\ \A o \in Outcomes : [state |-> o, version |-> v] \in Promise
  BY <1>1, VerdictIsOutcome, KeysAssumption, BoundsAssumption DEF Promise
<1>2. CASE Settle(key) \/ QueryFails(key)
  <2>1. /\ asyncCache[key] \in Promise /\ asyncCache[key].state = "pending"
        /\ asyncCache[key].version \in 1..version
    BY <1>2 DEF Settle, QueryFails, TypeOK
  <2> DEFINE verdict == Verdict[key][compiled[asyncCache[key].version]][KeptAnswers(key)]
  <2>2. "error" \in Outcomes /\ (KeptAnswers(key) \in QueryAnswers(key) => verdict \in Outcomes)
    BY <2>1, VerdictIsOutcome DEF Outcomes, GivenTo
  <2>3. PICK o : /\ o = "error" \/ (KeptAnswers(key) \in QueryAnswers(key) /\ o = verdict)
                 /\ asyncCache' = [asyncCache EXCEPT ![key].state = o]
    <3>1. CASE QueryFails(key)
      BY <3>1 DEF QueryFails
    <3>2. CASE Settle(key)
      <4>1. CASE QueryErrs(key)
        BY <3>2, <4>1 DEF Settle, Result
      <4>2. CASE ~QueryErrs(key)
        <5>1. KeptAnswers(key) \in QueryAnswers(key)
          BY <3>2, <4>2 DEF Settle, QueryErrs, KeptAnswers, QueryAnswers, Outcomes, Decisions
        <5>2. Result(key) = verdict
          BY <4>2 DEF Result
        <5>3. QED
          BY <3>2, <5>1, <5>2 DEF Settle
      <4>3. QED
        BY <4>1, <4>2
    <3>3. QED
      BY <1>2, <3>1, <3>2
  <2> HIDE DEF verdict
  <2> DEFINE p == [state |-> o, version |-> asyncCache[key].version]
  <2>4. asyncCache' = [asyncCache EXCEPT ![key] = p]
    <3>1. [asyncCache[key] EXCEPT !.state = o] = p
      BY <2>1 DEF Promise
    <3>2. asyncCache' = [asyncCache EXCEPT ![key] = [asyncCache[key] EXCEPT !.state = o]]
      BY <2>3
    <3>3. QED
      BY <3>1, <3>2
  <2>5. p \in Promise /\ p.state # "none"
    BY <1>1, <2>1, <2>2, <2>3 DEF Outcomes
  <2>6. UNCHANGED <<version, compiled, syncCache, runs>>
    BY <1>2 DEF Settle, QueryFails, resources
  <2>7. QED
    BY <2>1, <2>3, <2>4, <2>5, <2>6 DEF verdict
<1>3. ASSUME NEW k \in Keys, Ask(k, key)
      PROVE  asyncCache[k].version \in 1..version
  BY <1>3 DEF Ask, TypeOK
<1>4. ASSUME NEW r \in Requests, Validate(r, key)
      PROVE  request[r].version \in 1..version
  BY <1>4 DEF Validate, Ready, TypeOK
<1>5. ASSUME NEW k \in Keys, Ask(k, key)
      PROVE  /\ asyncCache' = [asyncCache EXCEPT ![key] = [state |-> "pending",
                                                    version |-> asyncCache[k].version]]
             /\ asyncCache[key].state = "none" /\ CountRun("async", key)
             /\ UNCHANGED <<version, compiled, syncCache>>
  BY <1>5 DEF Ask, resources
<1>6. ASSUME NEW r \in Requests, Validate(r, key), asyncCache[key].state = "none"
      PROVE  /\ asyncCache' = [asyncCache EXCEPT ![key] = [state |-> "pending",
                                                    version |-> request[r].version]]
             /\ CountRun("async", key)
             /\ UNCHANGED <<version, compiled, syncCache>>
  BY <1>6 DEF Validate, resources
<1>7. ASSUME NEW k \in Keys, Ask(k, key)
      PROVE  \E p : /\ asyncCache' = [asyncCache EXCEPT ![key] = p]
                    /\ p \in Promise /\ p.state = "pending" /\ p.version \in 1..version
  <2> DEFINE p == [state |-> "pending", version |-> asyncCache[k].version]
  <2>1. p \in Promise /\ p.state = "pending" /\ p.version \in 1..version
    BY <1>1, <1>3, <1>7
  <2>2. asyncCache' = [asyncCache EXCEPT ![key] = p]
    BY <1>5, <1>7
  <2> HIDE DEF p
  <2>3. QED
    BY <2>1, <2>2
<1>8. ASSUME NEW r \in Requests, Validate(r, key), asyncCache[key].state = "none"
      PROVE  \E p : /\ asyncCache' = [asyncCache EXCEPT ![key] = p]
                    /\ p \in Promise /\ p.state = "pending" /\ p.version \in 1..version
  <2> DEFINE p == [state |-> "pending", version |-> request[r].version]
  <2>1. p \in Promise /\ p.state = "pending" /\ p.version \in 1..version
    BY <1>1, <1>4, <1>8
  <2>2. asyncCache' = [asyncCache EXCEPT ![key] = p]
    BY <1>6, <1>8
  <2> HIDE DEF p
  <2>3. QED
    BY <2>1, <2>2
<1>9. CASE \E k \in Keys : Ask(k, key)
  BY <1>5, <1>7, <1>9
<1>10. CASE \E r \in Requests : Validate(r, key) /\ asyncCache[key].state = "none"
  BY <1>6, <1>8, <1>10
<1>11. QED
  BY <1>2, <1>9, <1>10

\* A step of a promise alone keeps the types.
LEMMA PromiseTypeOK ==
  ASSUME TypeOK, NEW key \in Keys,
         Settle(key) \/ QueryFails(key) \/ \E k \in Keys : Ask(k, key)
  PROVE  TypeOK'
<1>1. request' = request /\ failures' \in 0..MaxFailures
  BY BoundsAssumption DEF Settle, QueryFails, Ask, TypeOK, resources
<1>2. PICK p : /\ asyncCache' = [asyncCache EXCEPT ![key] = p]
               /\ p \in Promise /\ p.state # "none" /\ p.version \in 1..version
               /\ \/ CountRun("async", key)
                  \/ asyncCache[key].state # "none" /\ UNCHANGED runs
               /\ UNCHANGED <<version, compiled, syncCache>>
  BY PromiseStep
<1>3. /\ asyncCache' \in [Keys -> Promise] /\ runs' \in [Modes -> [Keys -> 0..2]]
      /\ \A k \in Keys : IF asyncCache'[k].state = "none"
                         THEN runs'["async"][k] = 0
                         ELSE runs'["async"][k] # 0 /\ asyncCache'[k].version \in 1..version
      /\ \A k \in Keys : asyncCache[k].state # "none" => asyncCache'[k].state # "none"
  BY <1>2, PromiseUpdate
<1>4. \A r \in Requests : request[r].key \in Keys
  BY DEF TypeOK, Request
<1>5. QED
  BY <1>1, <1>2, <1>3, <1>4 DEF TypeOK

\* The request as it waits for the promise of key.
WaitingFor(r, key) ==
    [request[r] EXCEPT !.pc = "waiting", !.mode = "async", !.key = key, !.outcome = "none"]

\* Looking for a result in the async cache keeps the types.
LEMMA ValidateTypeOK ==
  ASSUME TypeOK, NEW r \in Requests, NEW key \in Keys, Validate(r, key)
  PROVE  /\ TypeOK'
         /\ request' = [request EXCEPT ![r] = WaitingFor(r, key)]
<1>1. /\ request' = [request EXCEPT ![r] = WaitingFor(r, key)]
      /\ UNCHANGED <<version, compiled, syncCache, failures>>
      /\ request[r].pc \in {"open", "answered"}
  BY DEF Validate, Ready, WaitingFor, TypeOK, resources
<1>2. /\ asyncCache' \in [Keys -> Promise] /\ runs' \in [Modes -> [Keys -> 0..2]]
      /\ \A k \in Keys : IF asyncCache'[k].state = "none"
                         THEN runs'["async"][k] = 0
                         ELSE runs'["async"][k] # 0 /\ asyncCache'[k].version \in 1..version
      /\ \A k \in Keys : asyncCache[k].state # "none" => asyncCache'[k].state # "none"
      /\ asyncCache'[key].state # "none"
  <2>1. CASE asyncCache[key].state # "none" /\ UNCHANGED <<asyncCache, runs>>
    BY <2>1 DEF TypeOK
  <2>2. CASE asyncCache[key].state = "none"
    <3>1. PICK p : /\ asyncCache' = [asyncCache EXCEPT ![key] = p]
                   /\ p \in Promise /\ p.state # "none" /\ p.version \in 1..version
                   /\ CountRun("async", key)
      BY <2>2, PromiseStep
    <3>2. QED
      BY <1>1, <3>1, PromiseUpdate
  <2>3. QED
    BY <2>1, <2>2 DEF Validate
<1> DEFINE q == WaitingFor(r, key)
<1>3. /\ request[r] \in Request
      /\ request[r].version \in 1..version
      /\ request[r].compiledBefore \in 1..compiled[request[r].version]
  BY <1>1 DEF TypeOK
<1>4. q \in Request
  BY <1>3 DEF Request, WaitingFor, Modes
<1>5. /\ q.pc = "waiting" /\ q.key = key /\ q.version = request[r].version
      /\ q.compiledBefore = request[r].compiledBefore
  BY <1>3 DEF Request, WaitingFor
<1>6. /\ request' \in [Requests -> Request] /\ request'[r] = q
      /\ \A s \in Requests \ {r} : request'[s] = request[s]
  BY <1>1, <1>4 DEF TypeOK
<1>7. \A s \in Requests : request[s].key \in Keys
  BY DEF TypeOK, Request
<1> HIDE DEF q
<1>8. QED
  BY <1>1, <1>2, <1>3, <1>5, <1>6, <1>7 DEF TypeOK

\* What the sync cache answers, and keeps.
LEMMA SyncStep ==
  ASSUME TypeOK, NEW r \in Requests, NEW key \in Keys, ValidateSync(r, key)
  PROVE  \E o \in Outcomes :
            /\ request' = [request EXCEPT ![r] = AnsweredWith(r, "sync", key, o)]
            /\ request[r].pc \in {"open", "answered"} /\ request[r].version \in 1..version
            /\ \/ o = "allow" /\ syncCache[key] = "allow" /\ UNCHANGED <<syncCache, runs>>
               \/ /\ o = Verdict[key][compiled[request[r].version]][NoAnswers]
                  /\ CountRun("sync", key)
                  /\ \/ UNCHANGED syncCache
                     \/ o # "error" /\ syncCache' = [syncCache EXCEPT ![key] = o]
            /\ UNCHANGED <<version, compiled, asyncCache, failures>>
<1>1. /\ request[r].pc \in {"open", "answered"} /\ request[r].version \in 1..version
      /\ UNCHANGED <<version, compiled, asyncCache, failures>>
  BY DEF ValidateSync, Ready, TypeOK, resources
<1>2. CASE syncCache[key] = "allow"
  BY <1>1, <1>2 DEF ValidateSync, Answer, AnsweredWith, TypeOK, Outcomes
<1>3. CASE syncCache[key] # "allow"
  <2> DEFINE o == Verdict[key][compiled[request[r].version]][NoAnswers]
  <2>1. o \in Outcomes
    BY <1>1, VerdictIsOutcome DEF GivenTo
  <2>2. /\ request' = [request EXCEPT ![r] = AnsweredWith(r, "sync", key, o)]
        /\ CountRun("sync", key)
        /\ syncCache' = [syncCache EXCEPT ![key] =
                IF syncCache[key] = "none" /\ o # "error" THEN o ELSE syncCache[key]]
    BY <1>3 DEF ValidateSync, Answer, AnsweredWith, TypeOK
  <2> HIDE DEF o
  <2>3. \/ UNCHANGED syncCache
        \/ o # "error" /\ syncCache' = [syncCache EXCEPT ![key] = o]
    <3>1. CASE syncCache[key] = "none" /\ o # "error"
      BY <2>2, <3>1
    <3>2. CASE ~(syncCache[key] = "none" /\ o # "error")
      BY <2>2, <3>2 DEF TypeOK
    <3>3. QED
      BY <3>1, <3>2
  <2>4. QED
    BY <1>1, <2>1, <2>2, <2>3 DEF o
<1>4. QED
  BY <1>2, <1>3

\* The sync cache keeps the types.
LEMMA SyncTypeOK ==
  ASSUME TypeOK, NEW r \in Requests, NEW key \in Keys, ValidateSync(r, key)
  PROVE  TypeOK'
<1>1. PICK o \in Outcomes :
            /\ request' = [request EXCEPT ![r] = AnsweredWith(r, "sync", key, o)]
            /\ request[r].pc # "closed"
            /\ UNCHANGED syncCache \/ (o # "error" /\ syncCache' = [syncCache EXCEPT ![key] = o])
            /\ UNCHANGED runs \/ CountRun("sync", key)
            /\ UNCHANGED <<version, compiled, asyncCache, failures>>
  BY SyncStep
<1>2. request' \in [Requests -> Request] /\ \A s \in Requests : WellFormed(request'[s])
  BY <1>1, AnswerWellFormed, RequestUpdate DEF Modes
<1>3. syncCache' \in [Keys -> {"none", "allow", "deny"}]
  BY <1>1 DEF TypeOK, Outcomes
<1>4. runs' \in [Modes -> [Keys -> 0..2]] /\ runs'["async"] = runs["async"]
  <2>1. CASE UNCHANGED runs
    BY <2>1 DEF TypeOK
  <2>2. CASE CountRun("sync", key)
    <3>1. runs' \in [Modes -> [Keys -> 0..2]]
      BY <2>2, CountRunChanges DEF Modes
    <3>2. runs'["async"] = runs["async"]
      BY <2>2 DEF CountRun, TypeOK, Modes
    <3>3. QED
      BY <3>1, <3>2
  <2>3. QED
    BY <1>1, <2>1, <2>2
<1>5. QED
  BY <1>1, <1>2, <1>3, <1>4 DEF TypeOK, WellFormed

\* The steps that replace the resources keep the types.
LEMMA ResourcesTypeOK ==
  ASSUME TypeOK, UpdateResources \/ RefreshPolicies
  PROVE  TypeOK'
<1>1. /\ version' \in 1..MaxVersion /\ version <= version'
      /\ compiled' \in [1..MaxVersion -> 0..MaxVersion]
      /\ \A v \in 1..MaxVersion : v <= version' <=> compiled'[v] # 0
      /\ \A v \in 1..version : compiled[v] <= compiled'[v]
      /\ UNCHANGED <<asyncCache, syncCache, runs, request, failures>>
  BY ResourcesMoveForward
<1>2. /\ MaxVersion \in Nat /\ version \in 1..MaxVersion
      /\ compiled \in [1..MaxVersion -> 0..MaxVersion]
  BY BoundsAssumption DEF TypeOK
<1>3. \A v \in 1..version : v \in 1..version' /\ v \in 1..MaxVersion
  BY <1>1, <1>2
<1>4. \A v \in 1..version : \A n \in 1..compiled[v] : n \in 1..compiled'[v]
  <2> SUFFICES ASSUME NEW v \in 1..version, NEW n \in 1..compiled[v]
               PROVE  n \in 1..compiled'[v]
    OBVIOUS
  <2>1. compiled[v] \in 0..MaxVersion /\ compiled'[v] \in 0..MaxVersion
    BY <1>1, <1>2, <1>3
  <2>2. QED
    BY <1>1, <1>2, <2>1
<1>5. \A k \in Keys : IF asyncCache[k].state = "none"
                      THEN runs["async"][k] = 0
                      ELSE runs["async"][k] # 0 /\ asyncCache[k].version \in 1..version'
  BY <1>3 DEF TypeOK
<1>6. \A r \in Requests :
        /\ request[r].pc # "closed" =>
             /\ request[r].version \in 1..version'
             /\ request[r].compiledBefore \in 1..compiled'[request[r].version]
        /\ request[r].pc = "answered" => request[r].outcome # "none"
        /\ request[r].pc = "waiting" => asyncCache[request[r].key].state # "none"
  BY <1>3, <1>4 DEF TypeOK
<1>7. QED
  BY <1>1, <1>5, <1>6 DEF TypeOK

\* Every step keeps the types.
LEMMA NextTypeOK == TypeOK /\ [Next]_vars => TypeOK'
<1> SUFFICES ASSUME TypeOK, [Next]_vars
             PROVE  TypeOK'
  OBVIOUS
<1>1. CASE UpdateResources \/ RefreshPolicies
  BY <1>1, ResourcesTypeOK
<1>2. ASSUME NEW r \in Requests,
             \/ Open(r) \/ Close(r) \/ Receive(r)
             \/ \E m \in Modes, k \in Keys : NotDefined(r, m, k)
      PROVE  TypeOK'
  BY <1>2, RequestTypeOK
<1>3. ASSUME NEW r \in Requests, NEW k \in Keys, Validate(r, k)
      PROVE  TypeOK'
  BY <1>3, ValidateTypeOK
<1>4. ASSUME NEW r \in Requests, NEW k \in Keys, ValidateSync(r, k)
      PROVE  TypeOK'
  BY <1>4, SyncTypeOK
<1>5. ASSUME NEW k \in Keys, Settle(k) \/ QueryFails(k) \/ \E a \in Keys : Ask(a, k)
      PROVE  TypeOK'
  BY <1>5, PromiseTypeOK
<1>6. CASE UNCHANGED vars
  BY <1>6 DEF vars, TypeOK
<1>7. QED
  BY <1>1, <1>2, <1>3, <1>4, <1>5, <1>6 DEF Next

\* Whatever the policies, their queries and the requests are, the caches, the
\* requests and the resources they run with keep their types (evaluatePolicy,
\* evaluatePolicySync, getOperationResult).
THEOREM TypeCorrect == Spec => []TypeOK
<1>1. Init => TypeOK
  BY InitTypeOK
<1>2. TypeOK /\ [Next]_vars => TypeOK'
  BY NextTypeOK
<1>3. QED
  BY <1>1, <1>2, PTL DEF Spec

----------------------------------------------------------------------------
(* What the caches keep, and what they answer. *)

\* What the invariant says of the answer in a request's record.
AnswerGood(q) ==
    /\ q.pc = "answered" /\ q.mode = "async" /\ q.key \in Defined[q.version] =>
         q.outcome = asyncCache[q.key].state
    /\ q.pc = "answered" /\ q.mode = "async" /\ q.outcome \in Decisions =>
         q.outcome = asyncCache[q.key].state
    /\ q.pc = "answered" /\ q.mode = "sync" /\ q.outcome \in Decisions =>
         Given(q.key, NoAnswers, q.outcome)
    /\ q.pc = "answered" /\ q.mode = "sync" /\ q.outcome = "deny" =>
         \E n \in q.compiledBefore..compiled[q.version] : Verdict[q.key][n][NoAnswers] = "deny"

AnswersGood == \A r \in Requests : AnswerGood(request[r])

\* What a base policy may have answered.
LEMMA PossibleSync ==
  ASSUME NEW r \in Requests, request[r].mode = "sync"
  PROVE  "deny" \in Possible(r) <=>
             \E n \in request[r].compiledBefore..compiled[request[r].version] :
                 Verdict[request[r].key][n][NoAnswers] = "deny"
  BY DEF Possible

\* ... and so in the next state.
LEMMA PossibleSyncNext ==
  ASSUME NEW r \in Requests, (request[r].mode = "sync")'
  PROVE  ("deny" \in Possible(r) <=>
             \E n \in request[r].compiledBefore..compiled[request[r].version] :
                 Verdict[request[r].key][n][NoAnswers] = "deny")'
  BY DEF Possible

\* The invariant, with its two parts about answers put together.
LEMMA CacheInvParts ==
  /\ CacheInv <=> TypeOK /\ ExecutedOnce /\ NewestPolicies /\ KeptIsGiven /\ AnswersGood
  /\ CacheInv' <=> (TypeOK /\ ExecutedOnce /\ NewestPolicies /\ KeptIsGiven /\ AnswersGood)'
<1>1. TypeOK /\ KeptIsGiven => (AnswersGood <=> AnswerIsKept /\ Justified)
  <2> SUFFICES ASSUME TypeOK, KeptIsGiven
               PROVE  AnswersGood <=> AnswerIsKept /\ Justified
    OBVIOUS
  <2>1. \A r \in Requests : request[r].mode \in {"async", "sync"}
    BY DEF TypeOK, Request, Modes
  <2>2. QED
    BY <2>1, PossibleSync DEF AnswersGood, AnswerGood, AnswerIsKept, Justified, Answered,
                              KeptIsGiven, Decisions
<1>2. TypeOK' /\ KeptIsGiven' => (AnswersGood' <=> AnswerIsKept' /\ Justified')
  <2> SUFFICES ASSUME TypeOK', KeptIsGiven'
               PROVE  AnswersGood' <=> AnswerIsKept' /\ Justified'
    OBVIOUS
  <2>1. \A r \in Requests : request'[r].mode \in {"async", "sync"}
    BY DEF TypeOK, Request, Modes
  <2>2. QED
    BY <2>1, PossibleSyncNext DEF AnswersGood, AnswerGood, AnswerIsKept, Justified, Answered,
                                  KeptIsGiven, Decisions
<1>3. QED
  BY <1>1, <1>2 DEF CacheInv

\* What the compiled policies of a served resource group say was given.
LEMMA VerdictGiven ==
  ASSUME TypeOK, NewestPolicies, NEW k \in Keys, NEW v \in 1..version, NEW given
  PROVE  Given(k, given, Verdict[k][compiled[v]][given])
<1>1. /\ compiled[v] \in 1..MaxVersion /\ compiled[v] <= compiled[version]
      /\ compiled[version] \in 0..MaxVersion
  BY VerdictIsOutcome, BoundsAssumption DEF NewestPolicies, TypeOK
<1>2. compiled[v] \in 1..compiled[version]
  BY <1>1, BoundsAssumption
<1>3. QED
  BY <1>2 DEF Given

\* What is kept stays grounded while the promises that settled are kept and the
\* compiled policies move forward.
LEMMA GroundedStays ==
  ASSUME TypeOK, NEW k \in Keys, asyncCache[k].state \in Decisions, Grounded(k),
         \A a \in Keys : asyncCache[a].state \in Outcomes => asyncCache'[a] = asyncCache[a],
         \A n \in 1..compiled[version] : n \in 1..compiled'[version']
  PROVE  Grounded(k)' /\ asyncCache'[k] = asyncCache[k]
<1>1. asyncCache'[k] = asyncCache[k]
  BY DEF Decisions, Outcomes
<1>2. \A a \in Asks[k] : a \in Keys /\ asyncCache[a].state \in Decisions
  BY AsksAssumption DEF Grounded, KeptAnswers, QueryAnswers
<1>3. \A a \in Asks[k] : asyncCache'[a] = asyncCache[a]
  BY <1>2 DEF Decisions, Outcomes
<1>4. KeptAnswers(k)' = KeptAnswers(k)
  BY <1>3 DEF KeptAnswers
<1>5. Given(k, KeptAnswers(k), asyncCache[k].state)'
  BY <1>1, <1>4 DEF Grounded, Given
<1>6. QED
  BY <1>1, <1>4, <1>5 DEF Grounded, QueryAnswers

\* One request changes, to one that was answered well or is not answered.
LEMMA AnswersChange ==
  ASSUME TypeOK, AnswersGood, NEW r \in Requests, NEW q,
         request' = [request EXCEPT ![r] = q],
         q.pc = "answered" => AnswerGood(q),
         UNCHANGED <<version, compiled, asyncCache>>
  PROVE  AnswersGood'
<1>1. request'[r] = q /\ \A s \in Requests \ {r} : request'[s] = request[s]
  BY DEF TypeOK
<1>2. ASSUME NEW s \in Requests
      PROVE  AnswerGood(request[s])'
  <2>1. CASE s # r
    BY <1>1, <2>1 DEF AnswersGood, AnswerGood, Given
  <2>2. CASE s = r
    BY <1>1, <2>2 DEF AnswerGood, Given
  <2>3. QED
    BY <2>1, <2>2
<1>3. QED
  BY <1>2 DEF AnswersGood

\* The resources move forward.
LEMMA ResourcesCacheInv ==
  ASSUME CacheInv, UpdateResources \/ RefreshPolicies
  PROVE  CacheInv'
<1>1. TypeOK /\ ExecutedOnce /\ NewestPolicies /\ KeptIsGiven /\ AnswersGood
  BY CacheInvParts
<1>2. /\ version' \in 1..MaxVersion /\ version <= version'
      /\ compiled' \in [1..MaxVersion -> 0..MaxVersion]
      /\ \A v \in 1..version : compiled[v] <= compiled'[v]
      /\ compiled[version] <= compiled'[version']
      /\ UNCHANGED <<asyncCache, syncCache, runs, request, failures>>
  BY <1>1, ResourcesMoveForward
<1>3. /\ MaxVersion \in Nat /\ version \in 1..MaxVersion
      /\ compiled \in [1..MaxVersion -> 0..MaxVersion]
  BY <1>1, BoundsAssumption DEF TypeOK
<1>4. NewestPolicies'
  <2>1. CASE UpdateResources
    <3>1. PICK n \in compiled[version]..MaxVersion :
                compiled' = [compiled EXCEPT ![version + 1] = n]
      BY <2>1 DEF UpdateResources
    <3>2. version' = version + 1 /\ version' \in 1..MaxVersion
      BY <1>2, <2>1 DEF UpdateResources
    <3>3. compiled[version] \in 0..MaxVersion
      BY <1>3
    <3>4. compiled'[version'] = n /\ \A v \in 1..version : compiled'[v] = compiled[v]
      BY <1>3, <3>1, <3>2
    <3>5. \A v \in 1..version : compiled'[v] <= n
      <4> SUFFICES ASSUME NEW v \in 1..version
                   PROVE  compiled[v] <= n
        BY <3>4
      <4>1. compiled[v] <= compiled[version] /\ compiled[v] \in 0..MaxVersion
        BY <1>1, <1>3 DEF NewestPolicies
      <4>2. QED
        BY <3>1, <3>3, <4>1, <1>3
    <3>6. n <= n
      BY <3>1, <3>3, <1>3
    <3>7. \A v \in 1..version' : v \in 1..version \/ v = version'
      BY <1>3, <3>2
    <3>8. QED
      BY <3>4, <3>5, <3>6, <3>7 DEF NewestPolicies
  <2>2. CASE RefreshPolicies
    <3>1. /\ version' = version
          /\ compiled' = [compiled EXCEPT ![version] = compiled[version] + 1]
      BY <2>2 DEF RefreshPolicies
    <3>2. compiled[version] \in 0..MaxVersion
      BY <1>3
    <3>3. \A v \in 1..version : compiled[v] <= compiled[version] /\ compiled[v] \in 0..MaxVersion
      BY <1>1, <1>3 DEF NewestPolicies
    <3>4. compiled'[version] = compiled[version] + 1
      BY <1>3, <3>1
    <3>5. \A v \in 1..version : v # version => compiled'[v] = compiled[v]
      BY <1>3, <3>1
    <3>6. QED
      BY <1>3, <3>1, <3>2, <3>3, <3>4, <3>5 DEF NewestPolicies
  <2>3. QED
    BY <2>1, <2>2
<1>5. /\ \A n \in 1..compiled[version] : n \in 1..compiled'[version']
      /\ \A k \in Keys, o \in Outcomes : Given(k, NoAnswers, o) => Given(k, NoAnswers, o)'
  <2>1. compiled[version] \in 0..MaxVersion /\ compiled'[version'] \in 0..MaxVersion
    BY <1>2, <1>3
  <2>2. \A n \in 1..compiled[version] : n \in 1..compiled'[version']
    BY <1>2, <1>3, <2>1
  <2>3. QED
    BY <2>2 DEF Given
<1>6. KeptIsGiven'
  <2>1. \A k \in Keys : syncCache[k] \in {"none", "allow", "deny"}
    BY <1>1 DEF TypeOK
  <2>2. \A k \in Keys : asyncCache[k].state \in Decisions => Grounded(k)'
    BY <1>1, <1>2, <1>5, GroundedStays DEF KeptIsGiven
  <2>3. QED
    BY <1>1, <1>2, <1>5, <2>1, <2>2 DEF KeptIsGiven, Outcomes
<1>7. AnswersGood'
  <2> SUFFICES ASSUME NEW r \in Requests, request[r].pc = "answered"
               PROVE  AnswerGood(request[r])'
    BY <1>2 DEF AnswersGood, AnswerGood
  <2>1. /\ AnswerGood(request[r]) /\ request'[r] = request[r]
        /\ request[r].key \in Keys /\ request[r].outcome \in Outcomes
        /\ request[r].version \in 1..version
        /\ request[r].compiledBefore \in 0..MaxVersion
    BY <1>1, <1>2 DEF TypeOK, Request, AnswersGood
  <2>2. \A n \in request[r].compiledBefore..compiled[request[r].version] :
            n \in request[r].compiledBefore..compiled'[request[r].version]
    <3>1. /\ compiled[request[r].version] <= compiled'[request[r].version]
          /\ compiled[request[r].version] \in 0..MaxVersion
          /\ compiled'[request[r].version] \in 0..MaxVersion
      BY <1>2, <1>3, <2>1
    <3>2. QED
      BY <1>3, <2>1, <3>1
  <2>3. QED
    BY <1>2, <1>5, <2>1, <2>2 DEF AnswerGood
<1>8. TypeOK' /\ ExecutedOnce'
  BY <1>1, <1>2, ResourcesTypeOK DEF ExecutedOnce
<1>9. QED
  BY <1>4, <1>6, <1>7, <1>8, CacheInvParts

\* A request starts, ends, is answered by the async cache or finds no policy.
LEMMA RequestCacheInv ==
  ASSUME CacheInv, NEW r \in Requests,
         \/ Open(r) \/ Close(r) \/ Receive(r)
         \/ \E m \in Modes, k \in Keys : NotDefined(r, m, k)
  PROVE  CacheInv'
<1>1. TypeOK /\ ExecutedOnce /\ NewestPolicies /\ KeptIsGiven /\ AnswersGood
  BY CacheInvParts
<1>2. UNCHANGED <<version, compiled, asyncCache, syncCache, runs, failures>>
  BY DEF Open, Close, Receive, NotDefined, resources
<1>3. TypeOK' /\ ExecutedOnce' /\ NewestPolicies' /\ KeptIsGiven'
  BY <1>1, <1>2, RequestTypeOK DEF ExecutedOnce, NewestPolicies, KeptIsGiven, Given,
                                 Grounded, KeptAnswers, QueryAnswers
<1>4. /\ request[r] \in Request
      /\ \A q : request' = [request EXCEPT ![r] = q] => request'[r] = q
  BY <1>1 DEF TypeOK
<1>5. CASE Open(r)
  <2>1. PICK q : request' = [request EXCEPT ![r] = q] /\ q.pc = "open"
    <3> DEFINE q == [request[r] EXCEPT !.pc = "open", !.version = version,
                                       !.outcome = "none",
                                       !.compiledBefore = compiled[version],
                                       !.failuresBefore = failures]
    <3>1. request' = [request EXCEPT ![r] = q]
      BY <1>5 DEF Open
    <3>2. q.pc = "open"
      BY <1>4 DEF Request
    <3> HIDE DEF q
    <3>3. QED
      BY <3>1, <3>2
  <2>2. AnswersGood'
    BY <1>1, <1>2, <2>1, AnswersChange
  <2>3. QED
    BY <1>3, <2>2, CacheInvParts
<1>6. CASE Close(r)
  <2>1. PICK q : request' = [request EXCEPT ![r] = q] /\ q.pc = "closed"
    <3>1. ClosedRequest.pc = "closed"
      BY DEF ClosedRequest
    <3>2. request' = [request EXCEPT ![r] = ClosedRequest]
      BY <1>6 DEF Close
    <3>3. QED
      BY <3>1, <3>2
  <2>2. AnswersGood'
    BY <1>1, <1>2, <2>1, AnswersChange
  <2>3. QED
    BY <1>3, <2>2, CacheInvParts
<1>7. CASE Receive(r)
  <2> DEFINE key == request[r].key
  <2> DEFINE o == asyncCache[key].state
  <2>1. /\ request' = [request EXCEPT ![r] = AnsweredWith(r, "async", key, o)]
        /\ o \in Outcomes /\ key \in Keys
    BY <1>4, <1>7 DEF Receive, Answer, AnsweredWith, Request
  <2>3. PICK q : /\ request' = [request EXCEPT ![r] = q]
                 /\ q.mode = "async" /\ q.key = key /\ q.outcome = o
    <3> DEFINE q == AnsweredWith(r, "async", key, o)
    <3>1. q.mode = "async" /\ q.key = key /\ q.outcome = o
      BY <1>4 DEF AnsweredWith, Request
    <3> HIDE DEF q, key, o
    <3>2. QED
      BY <2>1, <3>1 DEF q
  <2>4. AnswerGood(q)
    BY <2>3 DEF AnswerGood
  <2>5. AnswersGood'
    BY <1>1, <1>2, <2>3, <2>4, AnswersChange
  <2>6. QED
    BY <1>3, <2>5, CacheInvParts
<1>8. ASSUME NEW m \in Modes, NEW k \in Keys, NotDefined(r, m, k)
      PROVE  AnswersGood'
  <2>1. /\ request' = [request EXCEPT ![r] = AnsweredWith(r, m, k, "error")]
        /\ k \notin Defined[request[r].version]
    BY <1>8 DEF NotDefined, Answer, AnsweredWith
  <2>2. PICK q : /\ request' = [request EXCEPT ![r] = q]
                 /\ q.key = k /\ q.outcome = "error" /\ q.version = request[r].version
    <3> DEFINE q == AnsweredWith(r, m, k, "error")
    <3>1. q.key = k /\ q.outcome = "error" /\ q.version = request[r].version
      BY <1>4 DEF AnsweredWith, Request
    <3> HIDE DEF q
    <3>2. QED
      BY <2>1, <3>1 DEF q
  <2>3. AnswerGood(q)
    BY <2>1, <2>2 DEF AnswerGood, Decisions
  <2>4. QED
    BY <1>1, <1>2, <2>2, <2>3, AnswersChange
<1>9. CASE \E m \in Modes, k \in Keys : NotDefined(r, m, k)
  BY <1>3, <1>8, <1>9, CacheInvParts
<1>10. QED
  BY <1>5, <1>6, <1>7, <1>9

\* A promise that is put into the cache, or settles, breaks no answer given before.
LEMMA PromiseKeepsAnswers ==
  ASSUME CacheInv, NEW key \in Keys,
         \/ Settle(key) \/ QueryFails(key)
         \/ \E k \in Keys : Ask(k, key)
         \/ \E r \in Requests : Validate(r, key) /\ asyncCache[key].state = "none"
  PROVE  /\ ExecutedOnce' /\ NewestPolicies' /\ KeptIsGiven'
         /\ \A k \in Keys : asyncCache[k].state \in Outcomes => asyncCache'[k] = asyncCache[k]
         /\ UNCHANGED <<version, compiled>>
<1>1. TypeOK /\ ExecutedOnce /\ NewestPolicies /\ KeptIsGiven
  BY CacheInvParts
<1>2. PICK p : /\ asyncCache' = [asyncCache EXCEPT ![key] = p]
               /\ p \in Promise /\ p.state # "none" /\ p.version \in 1..version
               /\ \/ /\ asyncCache[key].state = "none" /\ p.state = "pending"
                     /\ CountRun("async", key)
                  \/ /\ asyncCache[key].state = "pending" /\ UNCHANGED runs
                     /\ \/ p.state = "error"
                        \/ /\ KeptAnswers(key) \in QueryAnswers(key)
                           /\ p.state = Verdict[key][compiled[asyncCache[key].version]]
                                                    [KeptAnswers(key)]
               /\ UNCHANGED <<version, compiled, syncCache>>
  BY <1>1, PromiseStep
<1>3. asyncCache'[key] = p /\ \A k \in Keys \ {key} : asyncCache'[k] = asyncCache[k]
  BY <1>1, <1>2 DEF TypeOK
<1>4. asyncCache[key].state \notin Outcomes
  BY <1>2 DEF Outcomes
<1>5. ExecutedOnce'
  <2>1. CASE asyncCache[key].state = "none" /\ CountRun("async", key)
    <3>1. runs["async"][key] = 0 /\ "async" \in Modes
      BY <1>1, <2>1 DEF TypeOK, Modes
    <3>2. /\ runs'["async"][key] = 1
          /\ \A k \in Keys \ {key} : runs'["async"][k] = runs["async"][k]
      BY <1>1, <2>1, <3>1, CountRunChanges
    <3>3. QED
      BY <1>1, <3>2 DEF ExecutedOnce
  <2>2. CASE UNCHANGED runs
    BY <1>1, <2>2 DEF ExecutedOnce
  <2>3. QED
    BY <1>2, <2>1, <2>2
<1>6. /\ \A k \in Keys : asyncCache[k].state \in Outcomes => asyncCache'[k] = asyncCache[k]
      /\ \A n \in 1..compiled[version] : n \in 1..compiled'[version']
  BY <1>2, <1>3, <1>4
<1>7. p.state \in Decisions => Grounded(key)'
  <2> SUFFICES ASSUME p.state \in Decisions
               PROVE  Grounded(key)'
    OBVIOUS
  <2>1. /\ asyncCache[key].state = "pending"
        /\ KeptAnswers(key) \in QueryAnswers(key)
        /\ p.state = Verdict[key][compiled[asyncCache[key].version]][KeptAnswers(key)]
    BY <1>2 DEF Decisions
  <2>2. \A a \in Asks[key] : a \in Keys /\ asyncCache[a].state \in Decisions
    BY <2>1, AsksAssumption DEF KeptAnswers, QueryAnswers
  <2>3. \A a \in Asks[key] : asyncCache'[a] = asyncCache[a]
    BY <1>6, <2>2 DEF Decisions, Outcomes
  <2>4. KeptAnswers(key)' = KeptAnswers(key)
    BY <2>3 DEF KeptAnswers
  <2>5. asyncCache[key].version \in 1..version
    BY <1>1, <2>1 DEF TypeOK
  <2>6. Given(key, KeptAnswers(key), p.state)
    BY <1>1, <2>1, <2>5, VerdictGiven
  <2>7. Given(key, KeptAnswers(key), asyncCache[key].state)'
    BY <1>2, <1>3, <2>4, <2>6 DEF Given
  <2>8. QED
    BY <2>1, <2>4, <2>7 DEF Grounded, QueryAnswers
<1>8. KeptIsGiven'
  <2>1. \A k \in Keys : syncCache[k] # "none" => Given(k, NoAnswers, syncCache[k])'
    BY <1>1, <1>2 DEF KeptIsGiven, Given
  <2>2. ASSUME NEW k \in Keys, asyncCache'[k].state \in Decisions
        PROVE  Grounded(k)'
    <3>1. CASE k = key
      BY <1>3, <1>7, <2>2, <3>1
    <3>2. CASE k # key
      <4>1. asyncCache[k].state \in Decisions /\ Grounded(k)
        BY <1>1, <1>3, <2>2, <3>2 DEF KeptIsGiven
      <4>2. QED
        BY <1>1, <1>6, <4>1, GroundedStays
    <3>3. QED
      BY <3>1, <3>2
  <2>3. QED
    BY <1>2, <2>1, <2>2 DEF KeptIsGiven
<1>9. NewestPolicies'
  BY <1>1, <1>2 DEF NewestPolicies
<1>10. QED
  BY <1>2, <1>3, <1>4, <1>5, <1>8, <1>9

\* The answer of a request is still good when the promises that settled are kept.
LEMMA AnswerStaysGood ==
  ASSUME TypeOK, NEW s \in Requests, AnswerGood(request[s]), request'[s] = request[s],
         \A k \in Keys : asyncCache[k].state \in Outcomes => asyncCache'[k] = asyncCache[k],
         UNCHANGED <<version, compiled>>
  PROVE  AnswerGood(request[s])'
<1>1. CASE request[s].pc = "answered"
  <2>1. request[s].key \in Keys /\ request[s].outcome \in Outcomes
    BY <1>1 DEF TypeOK, Request
  <2>2. QED
    BY <2>1 DEF AnswerGood, Given
<1>2. QED
  BY <1>1 DEF AnswerGood

\* A query asks, fails or settles its promise.
LEMMA PromiseCacheInv ==
  ASSUME CacheInv, NEW key \in Keys,
         Settle(key) \/ QueryFails(key) \/ \E k \in Keys : Ask(k, key)
  PROVE  CacheInv'
<1>1. TypeOK /\ AnswersGood
  BY CacheInvParts
<1>2. TypeOK'
  BY <1>1, PromiseTypeOK
<1>3. /\ ExecutedOnce' /\ NewestPolicies' /\ KeptIsGiven'
      /\ \A k \in Keys : asyncCache[k].state \in Outcomes => asyncCache'[k] = asyncCache[k]
      /\ UNCHANGED <<version, compiled>>
  BY PromiseKeepsAnswers
<1>4. request' = request
  BY DEF Settle, QueryFails, Ask
<1>5. AnswersGood'
  BY <1>1, <1>3, <1>4, AnswerStaysGood DEF AnswersGood
<1>6. QED
  BY <1>2, <1>3, <1>5, CacheInvParts

\* A request looks for a result in the async cache.
LEMMA ValidateCacheInv ==
  ASSUME CacheInv, NEW r \in Requests, NEW key \in Keys, Validate(r, key)
  PROVE  CacheInv'
<1>1. TypeOK /\ ExecutedOnce /\ NewestPolicies /\ KeptIsGiven /\ AnswersGood
  BY CacheInvParts
<1>2. TypeOK' /\ request' = [request EXCEPT ![r] = WaitingFor(r, key)]
  BY <1>1, ValidateTypeOK
<1>3. /\ ExecutedOnce' /\ NewestPolicies' /\ KeptIsGiven'
      /\ \A k \in Keys : asyncCache[k].state \in Outcomes => asyncCache'[k] = asyncCache[k]
      /\ UNCHANGED <<version, compiled>>
  <2>1. CASE asyncCache[key].state = "none"
    BY <2>1, PromiseKeepsAnswers
  <2>2. CASE asyncCache[key].state # "none"
    <3>1. UNCHANGED <<version, compiled, asyncCache, runs, syncCache>>
      BY <2>2 DEF Validate, resources
    <3>2. QED
      BY <1>1, <3>1 DEF ExecutedOnce, NewestPolicies, KeptIsGiven, Given, Grounded,
                        KeptAnswers, QueryAnswers
  <2>3. QED
    BY <2>1, <2>2
<1>4. request'[r].pc = "waiting" /\ \A s \in Requests \ {r} : request'[s] = request[s]
  BY <1>1, <1>2 DEF TypeOK, Request, WaitingFor
<1>5. ASSUME NEW s \in Requests
      PROVE  AnswerGood(request[s])'
  <2>1. CASE s = r
    BY <1>4, <2>1 DEF AnswerGood
  <2>2. CASE s # r
    BY <1>1, <1>3, <1>4, <2>2, AnswerStaysGood DEF AnswersGood
  <2>3. QED
    BY <2>1, <2>2
<1>6. QED
  BY <1>2, <1>3, <1>5, CacheInvParts DEF AnswersGood

\* A request is answered by the sync cache.
LEMMA SyncCacheInv ==
  ASSUME CacheInv, NEW r \in Requests, NEW key \in Keys, ValidateSync(r, key)
  PROVE  CacheInv'
<1>1. TypeOK /\ ExecutedOnce /\ NewestPolicies /\ KeptIsGiven /\ AnswersGood
  BY CacheInvParts
<1>2. TypeOK'
  BY <1>1, SyncTypeOK
<1>3. PICK o \in Outcomes :
            /\ request' = [request EXCEPT ![r] = AnsweredWith(r, "sync", key, o)]
            /\ request[r].pc \in {"open", "answered"} /\ request[r].version \in 1..version
            /\ \/ o = "allow" /\ syncCache[key] = "allow" /\ UNCHANGED <<syncCache, runs>>
               \/ /\ o = Verdict[key][compiled[request[r].version]][NoAnswers]
                  /\ CountRun("sync", key)
                  /\ \/ UNCHANGED syncCache
                     \/ o # "error" /\ syncCache' = [syncCache EXCEPT ![key] = o]
            /\ UNCHANGED <<version, compiled, asyncCache, failures>>
  BY <1>1, SyncStep
<1>4. Given(key, NoAnswers, o)
  <2>1. CASE o = Verdict[key][compiled[request[r].version]][NoAnswers]
    BY <1>1, <1>3, <2>1, VerdictGiven
  <2>2. CASE o = "allow" /\ syncCache[key] = "allow"
    BY <1>1, <2>2 DEF KeptIsGiven
  <2>3. QED
    BY <1>3, <2>1, <2>2
<1>5. o = "deny" => \E n \in request[r].compiledBefore..compiled[request[r].version] :
                        Verdict[key][n][NoAnswers] = "deny"
  <2> SUFFICES ASSUME o = "deny"
               PROVE  \E n \in request[r].compiledBefore..compiled[request[r].version] :
                          Verdict[key][n][NoAnswers] = "deny"
    OBVIOUS
  <2>1. Verdict[key][compiled[request[r].version]][NoAnswers] = "deny"
    BY <1>3
  <2>2. /\ request[r].compiledBefore \in 1..compiled[request[r].version]
        /\ compiled[request[r].version] \in 1..MaxVersion
    BY <1>1, <1>3, VerdictIsOutcome DEF TypeOK
  <2>3. compiled[request[r].version] \in
            request[r].compiledBefore..compiled[request[r].version]
    BY <2>2, BoundsAssumption
  <2>4. QED
    BY <2>1, <2>3
<1>6. PICK q : /\ request' = [request EXCEPT ![r] = q]
               /\ q.mode = "sync" /\ q.key = key /\ q.outcome = o
               /\ q.version = request[r].version
               /\ q.compiledBefore = request[r].compiledBefore
  <2> DEFINE q == AnsweredWith(r, "sync", key, o)
  <2>1. /\ q.mode = "sync" /\ q.key = key /\ q.outcome = o
        /\ q.version = request[r].version
        /\ q.compiledBefore = request[r].compiledBefore
    BY <1>1 DEF AnsweredWith, Request, TypeOK
  <2> HIDE DEF q
  <2>2. QED
    BY <1>3, <2>1 DEF q
<1>7. AnswerGood(q)
  BY <1>4, <1>5, <1>6 DEF AnswerGood
<1>8. AnswersGood'
  BY <1>1, <1>3, <1>6, <1>7, AnswersChange
<1>9. ExecutedOnce'
  <2>1. CASE UNCHANGED runs
    BY <1>1, <2>1 DEF ExecutedOnce
  <2>2. CASE CountRun("sync", key)
    <3>1. \A k \in Keys : runs'["async"][k] = runs["async"][k]
      BY <1>1, <2>2, CountRunChanges DEF Modes
    <3>2. QED
      BY <1>1, <3>1 DEF ExecutedOnce
  <2>3. QED
    BY <1>3, <2>1, <2>2
<1>10. NewestPolicies'
  BY <1>1, <1>3 DEF NewestPolicies
<1>11. KeptIsGiven'
  <2>1. ASSUME NEW k \in Keys
        PROVE  syncCache'[k] # "none" => Given(k, NoAnswers, syncCache'[k])
    <3>1. CASE UNCHANGED syncCache
      BY <1>1, <3>1 DEF KeptIsGiven
    <3>2. CASE syncCache' = [syncCache EXCEPT ![key] = o]
      <4>1. CASE k = key
        BY <1>1, <1>4, <3>2, <4>1 DEF TypeOK
      <4>2. CASE k # key
        BY <1>1, <3>2, <4>2 DEF TypeOK, KeptIsGiven
      <4>3. QED
        BY <4>1, <4>2
    <3>3. QED
      BY <1>3, <3>1, <3>2
  <2>2. QED
    BY <1>1, <1>3, <2>1 DEF KeptIsGiven, Given, Grounded, KeptAnswers, QueryAnswers
<1>12. QED
  BY <1>2, <1>8, <1>9, <1>10, <1>11, CacheInvParts

\* The invariant holds at the start, and every step keeps it.
LEMMA CacheInvInductive ==
  /\ Init => CacheInv
  /\ CacheInv /\ [Next]_vars => CacheInv'
<1>1. ASSUME Init
      PROVE  CacheInv
  <2>1. TypeOK
    BY <1>1, InitTypeOK
  <2>2. version = 1 /\ compiled[version] \in 0..MaxVersion
    BY <1>1, <2>1 DEF Init, TypeOK
  <2>3. NewestPolicies
    BY <2>2, BoundsAssumption DEF NewestPolicies
  <2>4. ExecutedOnce /\ KeptIsGiven /\ AnswersGood
    <3>1. \A k \in Keys : /\ asyncCache[k].state = "none" /\ syncCache[k] = "none"
                          /\ runs["async"][k] = 0
      BY <1>1 DEF Init, NoPromise, Modes
    <3>2. \A r \in Requests : request[r].pc = "closed"
      BY <1>1 DEF Init, ClosedRequest
    <3>3. QED
      BY <3>1, <3>2 DEF ExecutedOnce, KeptIsGiven, AnswersGood, AnswerGood, Decisions
  <2>5. QED
    BY <2>1, <2>3, <2>4, CacheInvParts
<1>2. ASSUME CacheInv, [Next]_vars
      PROVE  CacheInv'
  <2>1. CASE UpdateResources \/ RefreshPolicies
    BY <1>2, <2>1, ResourcesCacheInv
  <2>2. ASSUME NEW r \in Requests,
               \/ Open(r) \/ Close(r) \/ Receive(r)
               \/ \E m \in Modes, k \in Keys : NotDefined(r, m, k)
        PROVE  CacheInv'
    BY <1>2, <2>2, RequestCacheInv
  <2>3. ASSUME NEW r \in Requests, NEW k \in Keys, Validate(r, k)
        PROVE  CacheInv'
    BY <1>2, <2>3, ValidateCacheInv
  <2>4. ASSUME NEW r \in Requests, NEW k \in Keys, ValidateSync(r, k)
        PROVE  CacheInv'
    BY <1>2, <2>4, SyncCacheInv
  <2>5. ASSUME NEW k \in Keys, Settle(k) \/ QueryFails(k) \/ \E a \in Keys : Ask(a, k)
        PROVE  CacheInv'
    BY <1>2, <2>5, PromiseCacheInv
  <2>6. CASE UNCHANGED vars
    <3>1. UNCHANGED <<version, compiled, asyncCache, syncCache, runs, request, failures>>
      BY <2>6 DEF vars
    <3>2. TypeOK' /\ ExecutedOnce' /\ NewestPolicies'
      BY <1>2, <3>1 DEF CacheInv, TypeOK, ExecutedOnce, NewestPolicies
    <3>3. KeptIsGiven'
      BY <1>2, <3>1 DEF CacheInv, KeptIsGiven, Grounded, Given, KeptAnswers, QueryAnswers
    <3>4. AnswersGood'
      BY <1>2, <3>1, CacheInvParts DEF AnswersGood, AnswerGood, Given
    <3>5. QED
      BY <3>2, <3>3, <3>4, CacheInvParts
  <2>7. QED
    BY <1>2, <2>1, <2>2, <2>3, <2>4, <2>5, <2>6 DEF Next
<1>3. QED
  BY <1>1, <1>2

----------------------------------------------------------------------------
(* The theorems. *)

\* The invariant behind the three properties: each policy ran at most once through
\* the async cache, what the caches keep was given by the policy, and whoever was
\* answered by the async cache was answered what it still keeps.
THEOREM CacheInvariant == Spec => []CacheInv
<1>1. Init => CacheInv
  BY CacheInvInductive
<1>2. CacheInv /\ [Next]_vars => CacheInv'
  BY CacheInvInductive
<1>3. QED
  BY <1>1, <1>2, PTL DEF Spec

\* "The operation will be executed only once", the comment in cached-operation.ts:
\* however many requests and queries evaluate a policy with the same arguments
\* through getOperationResult, at the same time or later.
THEOREM ExecutedOnceHolds == Spec => []ExecutedOnce
<1>1. CacheInv => ExecutedOnce
  BY DEF CacheInv
<1>2. QED
  BY <1>1, CacheInvariant, PTL

\* Two fields that evaluatePolicy decides by the same policy with the same
\* arguments are decided alike, whatever resources their requests run with.
THEOREM SameAnswerHolds == Spec => []SameAnswer
<1>1. CacheInv => SameAnswer
  BY DEF CacheInv, AnswerIsKept, SameAnswer
<1>2. QED
  BY <1>1, CacheInvariant, PTL

\* Whatever the queries, updates and failures are, a decision of the async cache
\* (getPolicyResult, _evaluatePolicy) follows, in some version of the policy that the
\* gateway has had, from the decisions that are kept for the policies of its query,
\* and so do those in turn; a base policy's decision follows from the policy alone,
\* and its denial from the policies of the request it denies.
THEOREM JustifiedHolds == Spec => []Justified
<1>1. CacheInv => Justified
  BY DEF CacheInv
<1>2. QED
  BY <1>1, CacheInvariant, PTL

=============================================================================
