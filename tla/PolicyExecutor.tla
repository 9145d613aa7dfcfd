--------------------------- MODULE PolicyExecutor ---------------------------
(***************************************************************************)
(* The evaluation of policies by the gateway and its result caches:        *)
(* PolicyExecutor and CachedOperation                                      *)
(* (services/src/modules/directives/policy).                               *)
(*                                                                         *)
(* The process has one executor, so its caches are shared by all requests  *)
(* and outlive every update of the resources.  The async cache (@policy,   *)
(* @policies, @policyQuery) keeps the promise of a result, under the       *)
(* policy and its arguments, from the moment the evaluation starts; a      *)
(* policy with a query evaluates other policies while its promise is       *)
(* pending.  The sync cache (the base policy) keeps the result itself.     *)
(*                                                                         *)
(* A key is a policy with its arguments.  Whether it is defined depends on *)
(* the resource group a request started with, and what it answers on the   *)
(* compiled policies that resource group carries and on what the policies  *)
(* of its query answered.  A request keeps its resource group while it     *)
(* runs, but fetchLatest replaces the compiled policies of the newest      *)
(* resource group in place.                                                *)
(***************************************************************************)
EXTENDS Naturals

CONSTANTS
    Keys,         \* policies with their arguments
    Asks,         \* Asks[k]: the policies that the query of k evaluates
    Defined,      \* Defined[v]: the policies in version v of the resources
    Verdict,      \* Verdict[k][n][a]: what k answers in version n of the compiled
                  \* policies when its query gave it the answers a
    Requests,     \* evaluations in flight at once
    MaxVersion,   \* bound on the versions of the resources and of the compiled policies
    MaxFailures   \* bound on the failures of policy queries

\* A policy without its wasm file throws.
Verdicts == {"allow", "deny", "error"}
Outcomes == {"allow", "deny", "error"}
Decisions == {"allow", "deny"}   \* the "allow" field of a PolicyResult

\* What a policy is given besides its arguments: the answers its query has, or no
\* query result when it has no query or is evaluated synchronously.
NoAnswers == [a \in {} |-> "deny"]
QueryAnswers(key) == [Asks[key] -> Decisions]
GivenTo(key) == QueryAnswers(key) \cup {NoAnswers}

ASSUME BoundsAssumption == MaxVersion \in Nat \ {0} /\ MaxFailures \in Nat
ASSUME KeysAssumption == Keys # {}
ASSUME AsksAssumption == Asks \in [Keys -> SUBSET Keys]
ASSUME VerdictAssumption == /\ Defined \in [1..MaxVersion -> SUBSET Keys]
                            /\ \A k \in Keys, n \in 1..MaxVersion :
                                  Verdict[k][n] \in [GivenTo(k) -> Verdicts]

VARIABLES
    version,     \* the resource group the gateway serves
    compiled,    \* the compiled policies that each version of it carries
    asyncCache,  \* the promise kept for a key
    syncCache,   \* the first result kept for a key
    runs,        \* ghost: how often the policy of a key ran, up to 2
    request,     \* the evaluations requests wait for
    failures     \* failures so far

resources == <<version, compiled>>
vars == <<version, compiled, asyncCache, syncCache, runs, request, failures>>

Modes == {"async", "sync"}
Promise == [state : {"none", "pending"} \cup Outcomes,
            version : 0..MaxVersion]   \* the resources of the request that made it
NoPromise == [state |-> "none", version |-> 0]

Request == [pc : {"closed", "open", "waiting", "answered"},
            version : 0..MaxVersion,          \* requestContext.resourceGroup
            mode : Modes, key : Keys,
            outcome : Outcomes \cup {"none"},
            compiledBefore : 0..MaxVersion,   \* ghost: compiled policies and
            failuresBefore : 0..MaxFailures]  \* failures when it started

ClosedRequest == [pc |-> "closed", version |-> 0, mode |-> "async",
                  key |-> CHOOSE k \in Keys : TRUE, outcome |-> "none",
                  compiledBefore |-> 0, failuresBefore |-> 0]

Init ==
    /\ version = 1
    /\ compiled = [v \in 1..MaxVersion |-> IF v = 1 THEN 1 ELSE 0]
    /\ asyncCache = [k \in Keys |-> NoPromise]
    /\ syncCache = [k \in Keys |-> "none"]
    /\ runs = [m \in Modes |-> [k \in Keys |-> 0]]
    /\ request = [r \in Requests |-> ClosedRequest]
    /\ failures = 0

CountRun(mode, key) ==
    runs' = [runs EXCEPT ![mode][key] = IF @ < 2 THEN @ + 1 ELSE 2]

----------------------------------------------------------------------------
(* Requests, and the resources they run with. *)

\* updateSchema of the gateway replaces the resource group; the new one comes with
\* the compiled policies of the folder, which may have been rewritten as well.
UpdateResources ==
    /\ version < MaxVersion
    /\ version' = version + 1
    /\ \E n \in compiled[version]..MaxVersion : compiled' = [compiled EXCEPT ![version + 1] = n]
    /\ UNCHANGED <<asyncCache, syncCache, runs, request, failures>>

\* fetchLatest finds the same resource group and rewritten policies.
RefreshPolicies ==
    /\ compiled[version] < MaxVersion
    /\ compiled' = [compiled EXCEPT ![version] = @ + 1]
    /\ UNCHANGED <<version, asyncCache, syncCache, runs, request, failures>>

\* executor: a request takes the resource group that is served now.
Open(r) ==
    /\ request[r].pc = "closed"
    /\ request' = [request EXCEPT ![r] = [@ EXCEPT !.pc = "open", !.version = version,
                                                   !.outcome = "none",
                                                   !.compiledBefore = compiled[version],
                                                   !.failuresBefore = failures]]
    /\ UNCHANGED <<resources, asyncCache, syncCache, runs, failures>>

\* The response is sent.
Close(r) ==
    /\ request[r].pc \in {"open", "answered"}
    /\ request' = [request EXCEPT ![r] = ClosedRequest]
    /\ UNCHANGED <<resources, asyncCache, syncCache, runs, failures>>

Answer(r, mode, key, outcome) ==
    request' = [request EXCEPT ![r] = [@ EXCEPT !.pc = "answered", !.mode = mode,
                                                !.key = key, !.outcome = outcome]]

Ready(r) == request[r].pc \in {"open", "answered"}

\* getPolicyDefinition finds nothing: an error, and the cache is not asked.
NotDefined(r, mode, key) ==
    /\ Ready(r)
    /\ key \notin Defined[request[r].version]
    /\ Answer(r, mode, key, "error")
    /\ UNCHANGED <<resources, asyncCache, syncCache, runs, failures>>

----------------------------------------------------------------------------
(* The async cache. *)

\* getOperationResult: the promise that is there, or a new one that is put there
\* before anything is awaited.
Validate_NotKept(r, key) ==
    /\ Ready(r)
    /\ key \in Defined[request[r].version]
    /\ \/ /\ asyncCache[key].state \in Outcomes
          /\ UNCHANGED <<asyncCache, runs>>
       \/ /\ asyncCache[key].state \in {"none", "pending"}
          /\ asyncCache' = [asyncCache EXCEPT ![key] = [state |-> "pending",
                                                        version |-> request[r].version]]
          /\ CountRun("async", key)
    /\ request' = [request EXCEPT ![r] = [@ EXCEPT !.pc = "waiting", !.mode = "async",
                                                   !.key = key, !.outcome = "none"]]
    /\ UNCHANGED <<resources, syncCache, failures>>

Validate(r, key) ==
    /\ Ready(r)
    /\ key \in Defined[request[r].version]
    /\ \/ /\ asyncCache[key].state # "none"
          /\ UNCHANGED <<asyncCache, runs>>
       \/ /\ asyncCache[key].state = "none"
          /\ asyncCache' = [asyncCache EXCEPT ![key] = [state |-> "pending",
                                                        version |-> request[r].version]]
          /\ CountRun("async", key)
    /\ request' = [request EXCEPT ![r] = [@ EXCEPT !.pc = "waiting", !.mode = "async",
                                                   !.key = key, !.outcome = "none"]]
    /\ UNCHANGED <<resources, syncCache, failures>>

\* The query of a pending policy evaluates another one, in the same context, by
\* way of the same cache (@policyQuery).
Ask(key, asked) ==
    /\ asyncCache[key].state = "pending"
    /\ asked \in Asks[key]
    /\ asyncCache[asked].state = "none"
    /\ asked \in Defined[asyncCache[key].version]
    /\ asyncCache' = [asyncCache EXCEPT ![asked] = [state |-> "pending",
                                                    version |-> asyncCache[key].version]]
    /\ CountRun("async", asked)
    /\ UNCHANGED <<resources, syncCache, request, failures>>

\* The policies of the query that are not there: evaluating them throws.
Undefined(key) == Asks[key] \ Defined[asyncCache[key].version]

\* A policy the query asks for is not there, or failed.
QueryErrs(key) == Undefined(key) # {} \/ \E a \in Asks[key] : asyncCache[a].state = "error"

\* The answers of the query, of whichever versions they are.
KeptAnswers(key) == [a \in Asks[key] |-> asyncCache[a].state]

\* A query with an error fails the policy; otherwise the policy is evaluated with
\* what the query answered.
Result(key) ==
    IF QueryErrs(key)
    THEN "error"
    ELSE Verdict[key][compiled[asyncCache[key].version]][KeptAnswers(key)]

\* The query has its answers, and the promise settles; an error need not wait for
\* the other answers.
Settle_NotAwaited(key) ==
    /\ asyncCache[key].state = "pending"
    /\ asyncCache' = [asyncCache EXCEPT ![key].state =
                         Verdict[key][compiled[asyncCache[key].version]][NoAnswers]]
    /\ UNCHANGED <<resources, syncCache, runs, request, failures>>

Settle(key) ==
    /\ asyncCache[key].state = "pending"
    /\ QueryErrs(key) \/ \A a \in Asks[key] : asyncCache[a].state \in Outcomes
    /\ asyncCache' = [asyncCache EXCEPT ![key].state = Result(key)]
    /\ UNCHANGED <<resources, syncCache, runs, request, failures>>

\* An upstream of the query fails: the promise rejects, and stays in the cache.
QueryFails(key) ==
    /\ asyncCache[key].state = "pending"
    /\ failures < MaxFailures
    /\ failures' = failures + 1
    /\ asyncCache' = [asyncCache EXCEPT ![key].state = "error"]
    /\ UNCHANGED <<resources, syncCache, runs, request>>

\* Whoever awaits the promise gets its result.
Receive_OnlyFirst(r) ==
    /\ request[r].pc = "waiting"
    /\ asyncCache[request[r].key].state \in Outcomes
    /\ asyncCache[request[r].key].version = request[r].version
    /\ Answer(r, "async", request[r].key, asyncCache[request[r].key].state)
    /\ UNCHANGED <<resources, asyncCache, syncCache, runs, failures>>

Receive_OwnResources(r) ==
    /\ request[r].pc = "waiting"
    /\ asyncCache[request[r].key].state \in Outcomes
    /\ Answer(r, "async", request[r].key,
              IF asyncCache[request[r].key].state = "error"
              THEN "error"
              ELSE Verdict[request[r].key][compiled[request[r].version]]
                          [KeptAnswers(request[r].key)])
    /\ UNCHANGED <<resources, asyncCache, syncCache, runs, failures>>

Receive(r) ==
    /\ request[r].pc = "waiting"
    /\ asyncCache[request[r].key].state \in Outcomes
    /\ Answer(r, "async", request[r].key, asyncCache[request[r].key].state)
    /\ UNCHANGED <<resources, asyncCache, syncCache, runs, failures>>

----------------------------------------------------------------------------
(* The sync cache. *)

\* A cached "false" is not taken for a result: the policy runs again, and the
\* entry found first stays the one that is found.  What throws is not cached.
ValidateSync_AnyKey(r, key) ==
    /\ Ready(r)
    /\ key \in Defined[request[r].version]
    /\ IF \E k \in Keys : syncCache[k] = "allow"
       THEN /\ Answer(r, "sync", key, "allow")
            /\ UNCHANGED <<syncCache, runs>>
       ELSE LET verdict == Verdict[key][compiled[request[r].version]][NoAnswers]
            IN /\ Answer(r, "sync", key, verdict)
               /\ syncCache' = [syncCache EXCEPT ![key] =
                                   IF @ = "none" /\ verdict # "error" THEN verdict ELSE @]
               /\ CountRun("sync", key)
    /\ UNCHANGED <<resources, asyncCache, failures>>

ValidateSync(r, key) ==
    /\ Ready(r)
    /\ key \in Defined[request[r].version]
    /\ IF syncCache[key] = "allow"
       THEN /\ Answer(r, "sync", key, "allow")
            /\ UNCHANGED <<syncCache, runs>>
       ELSE LET verdict == Verdict[key][compiled[request[r].version]][NoAnswers]
            IN /\ Answer(r, "sync", key, verdict)
               /\ syncCache' = [syncCache EXCEPT ![key] =
                                   IF @ = "none" /\ verdict # "error" THEN verdict ELSE @]
               /\ CountRun("sync", key)
    /\ UNCHANGED <<resources, asyncCache, failures>>

----------------------------------------------------------------------------

Next ==
    \/ UpdateResources \/ RefreshPolicies
    \/ \E r \in Requests : Open(r) \/ Close(r) \/ Receive(r)
    \/ \E r \in Requests, k \in Keys :
        \/ Validate(r, k) \/ ValidateSync(r, k)
        \/ \E m \in Modes : NotDefined(r, m, k)
    \/ \E k \in Keys : Settle(k) \/ QueryFails(k) \/ \E a \in Keys : Ask(k, a)

Spec == Init /\ [][Next]_vars

\* Queries are executed, and promises that can settle do.
FairSpec ==
    /\ Spec
    /\ \A k \in Keys : WF_vars(Settle(k)) /\ \A a \in Keys : WF_vars(Ask(k, a))
    /\ \A r \in Requests : WF_vars(Receive(r))

----------------------------------------------------------------------------

\* Types, and what a promise and a request in flight carry.
TypeOK ==
    /\ version \in 1..MaxVersion
    /\ compiled \in [1..MaxVersion -> 0..MaxVersion]
    /\ \A v \in 1..MaxVersion : v <= version <=> compiled[v] # 0
    /\ asyncCache \in [Keys -> Promise]
    /\ syncCache \in [Keys -> {"none", "allow", "deny"}]
    /\ runs \in [Modes -> [Keys -> 0..2]]
    /\ request \in [Requests -> Request]
    /\ failures \in 0..MaxFailures
    /\ \A k \in Keys : IF asyncCache[k].state = "none"
                       THEN runs["async"][k] = 0
                       ELSE runs["async"][k] # 0 /\ asyncCache[k].version \in 1..version
    /\ \A r \in Requests :
        /\ request[r].pc # "closed" =>
             /\ request[r].version \in 1..version
             /\ request[r].compiledBefore \in 1..compiled[request[r].version]
        /\ request[r].pc = "answered" => request[r].outcome # "none"
        /\ request[r].pc = "waiting" => asyncCache[request[r].key].state # "none"

Answered(r) == request[r].pc = "answered"

\* Requests that need the same evaluation at the same time share one: the promise
\* is in the cache before anything is awaited.
ExecutedOnce == \A k \in Keys : runs["async"][k] <= 1

\* ... and so for the results that are computed synchronously.
SyncExecutedOnce == \A k \in Keys : runs["sync"][k] <= 1

\* Two fields that ask for the same policy with the same arguments are decided
\* alike, unless the policy is gone for one of them.
SameAnswer ==
    \A r, s \in Requests :
        /\ Answered(r) /\ Answered(s)
        /\ request[r].mode = "async" /\ request[s].mode = "async"
        /\ request[r].key = request[s].key
        /\ \A q \in {r, s} : request[q].key \in Defined[request[q].version]
        => request[r].outcome = request[s].outcome

\* What the policy of request r may have answered while the request was executed,
\* whatever its query gave.
Possible(r) ==
    {Verdict[request[r].key][n][given] :
        n \in request[r].compiledBefore..compiled[request[r].version],
        given \in IF request[r].mode = "sync" THEN {NoAnswers}
                                             ELSE QueryAnswers(request[r].key)}

\* A field is decided by the policies of the resource group its request runs with.
OwnVerdict ==
    \A r \in Requests :
        Answered(r) /\ request[r].outcome # "error" => request[r].outcome \in Possible(r)

\* A policy, given these answers, decides so in some version of it that the gateway
\* has had.
Given(key, given, decision) == \E n \in 1..compiled[version] : Verdict[key][n][given] = decision

\* What is kept for a policy follows from what is kept for the policies its query
\* evaluates: they all have answered, and some version of the policy decides so
\* when it is given just these answers.
Grounded(key) ==
    /\ KeptAnswers(key) \in QueryAnswers(key)
    /\ Given(key, KeptAnswers(key), asyncCache[key].state)

\* Whatever the caches do, an answer can be traced back: each decision that the async
\* cache keeps is grounded, however many queries deep, and what a request is told is
\* that decision.  The versions along the way may differ, so no single version need
\* decide like this.  A base policy has no query result, and its denial is of now.
Justified ==
    /\ \A k \in Keys : asyncCache[k].state \in Decisions => Grounded(k)
    /\ \A r \in Requests :
        Answered(r) /\ request[r].outcome \in Decisions =>
            IF request[r].mode = "async"
            THEN asyncCache[request[r].key].state = request[r].outcome
            ELSE /\ Given(request[r].key, NoAnswers, request[r].outcome)
                 /\ request[r].outcome = "deny" => "deny" \in Possible(r)

\* An evaluation fails only when a policy is missing, or a query failed while the
\* request ran.
OwnError ==
    \A r \in Requests :
        Answered(r) /\ request[r].outcome = "error" =>
            \/ failures > request[r].failuresBefore
            \/ "error" \in Possible(r)
            \/ Defined[request[r].version] # Keys

\* Nobody waits for a promise for ever, as long as queries do not ask in a circle.
WaitingEnds ==
    \A r \in Requests : (request[r].pc = "waiting") ~> (request[r].pc # "waiting")

----------------------------------------------------------------------------
(* The inductive invariant behind ExecutedOnce, SameAnswer and Justified. *)

\* The newest resource group carries the newest compiled policies.
NewestPolicies == \A v \in 1..version : compiled[v] <= compiled[version]

\* What the caches keep was given by the policy.
KeptIsGiven ==
    \A k \in Keys :
        /\ asyncCache[k].state \in Decisions => Grounded(k)
        /\ syncCache[k] # "none" => Given(k, NoAnswers, syncCache[k])

\* Whoever was answered by the async cache was answered what it still keeps.
AnswerIsKept ==
    \A r \in Requests :
        /\ Answered(r) /\ request[r].mode = "async"
        /\ request[r].key \in Defined[request[r].version]
        => request[r].outcome = asyncCache[request[r].key].state

CacheInv ==
    /\ TypeOK
    /\ ExecutedOnce
    /\ NewestPolicies
    /\ KeptIsGiven
    /\ AnswerIsKept
    /\ Justified

=============================================================================
