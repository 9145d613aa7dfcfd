-------------------------- MODULE FieldResolution --------------------------
(***************************************************************************)
(* How the gateway resolves the fields of a request through the resolvers  *)
(* that the directives of its schema build: the base policy plugin         *)
(* (apollo-server-plugins/base-policy.ts) and the directives @policy,      *)
(* @policies, @rest, @gql, @stub, @select, @localResolver and              *)
(* @errorHandler (services/src/modules/directives).                        *)
(*                                                                         *)
(* A field has a resolver, and wrappers around it in the order of its      *)
(* directives: the first is the innermost.  A call runs the wrappers from  *)
(* the last to the first, then the resolver, then the wrappers back; a     *)
(* policy, a request and a wrapper that awaits them are asynchronous, so   *)
(* the calls of a request interleave.  An object type with directives has  *)
(* wrappers too (resolveObject): Apollo runs them once for an object, and  *)
(* all its fields await that one call.                                     *)
(*                                                                         *)
(* @localResolver does not await the resolver it wraps.  When it drops the *)
(* promise, the wrappers below it go on without anybody waiting for them:  *)
(* a thread of the call at the level of that wrapper.  The call's own      *)
(* thread is the one above the last wrapper.                               *)
(***************************************************************************)
EXTENDS Naturals, Sequences

CONSTANTS
    Calls,        \* resolutions of fields and objects in one request
    Fields,       \* the fields and the object types they are calls of
    fieldOf,      \* fieldOf[c]: the field, or the type of the object
    objectOf,     \* objectOf[c]: the call of resolveObject that c awaits, or None
    parentOf,     \* parentOf[c]: the call that returned the source of c, or None
    None,
    Impls,        \* fields as their directives may leave them
    Policies, Defined, Overriding,  \* policies; those the resource group has; shouldOverrideBasePolicy
    BasePolicy,   \* whether the resource group has a base policy
    MaxWrappers   \* bound on the wrappers of a field

ASSUME CallsAssumption ==
    /\ None \notin Calls
    /\ fieldOf \in [Calls -> Fields]
    /\ objectOf \in [Calls -> Calls \cup {None}]
    /\ \A c \in Calls : objectOf[c] # None => objectOf[objectOf[c]] = None
    /\ parentOf \in [Calls -> Calls \cup {None}]
ASSUME PoliciesAssumption == Defined \subseteq Policies /\ Overriding \subseteq Defined

Positions == 1..MaxWrappers
Levels == 1..(MaxWrappers + 1)

Resolvers == {"default", "stub", "rest", "gql"}
PolicyNames == {"policy", "policies"}
WrapperNames == PolicyNames \cup {"select", "localResolver", "errorHandler"}
Directives(names) ==
    [name : names,
     policies : SUBSET Policies, relation : {"AND", "OR"}, postResolve : BOOLEAN,
     mergeStrategy : {"Replace", "Merge", "MergeDeep"},
     catches : BOOLEAN, throws : BOOLEAN]

\* A policy that the field declares wraps its resolver, unless a resolver follows it.
KeepsPolicies(i) ==
    \A k \in DOMAIN i.declared : i.declared[k].name = "policy" =>
        \/ \E p \in 1..Len(i.wrappers) : i.wrappers[p] = i.declared[k]
        \/ \E j \in DOMAIN i.declared : j > k /\ i.declared[j].name \in Resolvers
WellFormed(i) ==
    /\ i.resolver \in Resolvers
    /\ i.wrappers \in Seq(Directives(WrapperNames))
    /\ Len(i.wrappers) <= MaxWrappers
    /\ KeepsPolicies(i)
ASSUME ImplsAssumption == MaxWrappers \in Nat /\ \A i \in Impls : WellFormed(i)

VARIABLES
    impl,            \* impl[f]: resolver and wrappers, and all the directives of the field
    ignorePolicies,  \* the request is the query of a policy
    thread,          \* thread[c][l]: where a thread of a call stands
    constant,        \* constant[f]: what the object that @stub returns on f is made of
    sent,            \* the calls that sent their request
    validated,       \* ghost: validated[c]: the wrappers whose policies were evaluated
    granted,         \* ghost: granted[c][p]: the policies of wrapper p that allowed
    baseAllowed,     \* ghost: the calls that the base policy allowed
    crashed          \* the gateway exits on an unhandled rejection

ghosts == <<validated, granted, baseAllowed>>
vars == <<impl, ignorePolicies, thread, constant, sent, ghosts, crashed>>

\* What a resolver returns or throws: where the data of a value comes from (null is a
\* value made of nothing), and which object it is: one of its own, the source, or one
\* of the constants that the schema holds.
Origins == {"parent", "remote", "stub", "local", "handler"}
Out == [kind : {"value", "unauthorized", "failed"}, from : SUBSET Origins,
        object : {"none", "own", "source", "stub", "handler"}]
Value(from, object) == [kind |-> "value", from |-> from, object |-> object]
Null == Value({}, "none")
Error(kind) == [kind |-> kind, from |-> {}, object |-> "none"]
IsValue(out) == out.kind = "value"

Thread == [at : {"idle", "checked", "down", "sent", "up", "done"}, pos : 0..MaxWrappers + 1, out : Out]
NoThread == [at |-> "idle", pos |-> 0, out |-> Null]

WrappersOf(c) == impl[fieldOf[c]].wrappers
ResolverOf(c) == impl[fieldOf[c]].resolver
Top(c) == Len(WrappersOf(c)) + 1
Main(c) == thread[c][Top(c)]
IsPolicy(w) == w.name \in PolicyNames
Objects == {o \in Calls : \E c \in Calls : objectOf[c] = o}

InitCalls ==
    /\ ignorePolicies \in BOOLEAN
    /\ thread \in [Calls -> [Levels -> {NoThread}]]
    /\ constant = [f \in Fields |-> {"stub"}]
    /\ sent = {}
    /\ validated = [c \in Calls |-> {}]
    /\ granted = [c \in Calls |-> [p \in Positions |-> {}]]
    /\ baseAllowed = {}
    /\ crashed = FALSE

Init == impl \in [Fields -> Impls] /\ InitCalls

Put(c, l, t) == thread' = [thread EXCEPT ![c] = [@ EXCEPT ![l] = t]]
At(at, pos, out) == [at |-> at, pos |-> pos, out |-> out]
Move(c, l, at, pos, out) ==
    /\ Put(c, l, At(at, pos, out))
    /\ UNCHANGED <<impl, ignorePolicies, constant, sent, ghosts, crashed>>

----------------------------------------------------------------------------
(* Starting a call. *)

\* getPolicyDefinition of a @policy of the field itself: the first that is missing
\* throws, the first that overrides the base policy ends the search.  All @policy of
\* the declaration count, those a later resolver removed too, but neither @policies nor
\* the directives of the object type.
Declared(c) == impl[fieldOf[c]].declared
OwnPolicies(c) == {k \in DOMAIN Declared(c) : Declared(c)[k].name = "policy"}
FirstIn(c, S) ==   \* the policy is in S, and none before it is missing or overrides
    \E k \in OwnPolicies(c) :
        /\ Declared(c)[k].policies \subseteq S
        /\ \A j \in OwnPolicies(c) : j < k => Declared(c)[j].policies \subseteq Defined \ Overriding
MissingPolicy(c) == FirstIn(c, Policies \ Defined)
OverridesBase_AnyPolicy(c) == OwnPolicies(c) # {}
OverridesBase(c) == FirstIn(c, Overriding)

\* willResolveField: synchronous, before the resolver of the field and of its object.
BaseOutcomes(c) ==
    IF ~BasePolicy THEN {"none"}
    ELSE IF MissingPolicy(c) THEN {"failed"}
    ELSE IF OverridesBase(c) \/ ignorePolicies THEN {"none"}
    ELSE {"allowed", "unauthorized", "failed"}
CheckBasePolicy(c) ==
    /\ c \notin Objects /\ Main(c).at = "idle"
    /\ parentOf[c] # None => /\ Main(parentOf[c]).at = "done"
                             /\ IsValue(Main(parentOf[c]).out) /\ Main(parentOf[c]).out # Null
    /\ \E outcome \in BaseOutcomes(c) :
          /\ baseAllowed' = IF outcome = "allowed" THEN baseAllowed \cup {c} ELSE baseAllowed
          /\ Put(c, Top(c), IF outcome \in {"none", "allowed"} THEN At("checked", 0, Null)
                            ELSE At("done", 0, Error(outcome)))
    /\ UNCHANGED <<impl, ignorePolicies, constant, sent, validated, granted, crashed>>

\* The first field of an object starts resolveObject; the others find its promise.
ResolveObject(o) ==
    /\ \E c \in Calls : objectOf[c] = o /\ Main(c).at = "checked"
    /\ Main(o).at = "idle"
    /\ Move(o, Top(o), "down", Len(WrappersOf(o)), Null)

\* The resolver of the field starts when its object is resolved, with the object that
\* resolveObject returned; the error of resolveObject is the error of the field.
Begin(c) ==
    /\ c \notin Objects /\ Main(c).at = "checked"
    /\ \/ /\ objectOf[c] # None => Main(objectOf[c]).at = "done" /\ IsValue(Main(objectOf[c]).out)
          /\ Move(c, Top(c), "down", Len(WrappersOf(c)), Null)
       \/ /\ objectOf[c] # None
          /\ Main(objectOf[c]).at = "done" /\ ~IsValue(Main(objectOf[c]).out)
          /\ Move(c, Top(c), "done", 0, Main(objectOf[c]).out)

----------------------------------------------------------------------------
(* The wrappers, on the way to the resolver and back. *)

Here(c, l) == WrappersOf(c)[thread[c][l].pos]
Descending(c, l) == thread[c][l].at = "down" /\ thread[c][l].pos > 0
Ascending(c, l) == thread[c][l].at = "up" /\ thread[c][l].pos < l
Below(c, l) == Move(c, l, "down", thread[c][l].pos - 1, Null)
Above(c, l, out) == Move(c, l, "up", thread[c][l].pos + 1, out)

Approves_Some(w, allowed) == w.policies \cap allowed # {}
Approves(w, allowed) ==
    IF w.relation = "AND" THEN w.policies \subseteq allowed ELSE w.policies \cap allowed # {}

\* validatePolicy and validatePolicies: all policies are evaluated, whatever the others
\* answer; a policy that fails makes the refusal an error rather than Unauthorized.
Validate(c, l, passedAt, passedPos, out) ==
    LET w == Here(c, l)
        p == thread[c][l].pos
    IN  \E allowed \in SUBSET (w.policies \cap Defined), failed \in SUBSET w.policies :
          /\ allowed \cap failed = {} /\ w.policies \ Defined \subseteq failed
          /\ validated' = [validated EXCEPT ![c] = @ \cup {p}]
          /\ granted' = [granted EXCEPT ![c] = [@ EXCEPT ![p] = allowed]]
          /\ Put(c, l, IF Approves(w, allowed) THEN At(passedAt, passedPos, out)
                       ELSE At("up", p + 1, Error(IF failed = {} THEN "unauthorized" ELSE "failed")))
          /\ UNCHANGED <<impl, ignorePolicies, constant, sent, baseAllowed, crashed>>

ValidateBefore_Never(c, l) ==
    /\ Descending(c, l) /\ IsPolicy(Here(c, l))
    /\ Below(c, l)

ValidateBefore(c, l) ==
    /\ Descending(c, l) /\ IsPolicy(Here(c, l))
    /\ IF Here(c, l).postResolve \/ ignorePolicies THEN Below(c, l)
       ELSE Validate(c, l, "down", thread[c][l].pos - 1, Null)

ValidateAfter(c, l) ==
    /\ Ascending(c, l) /\ IsPolicy(Here(c, l))
    /\ LET out == thread[c][l].out
       IN  IF IsValue(out) /\ Here(c, l).postResolve /\ ~ignorePolicies
           THEN Validate(c, l, "up", thread[c][l].pos + 1, out)
           ELSE Above(c, l, out)

\* @select and @errorHandler await what they wrap.
Await(c, l) ==
    /\ Descending(c, l) /\ Here(c, l).name \in {"select", "errorHandler"}
    /\ Below(c, l)

Select_SwallowsErrors(c, l) ==
    /\ Ascending(c, l) /\ Here(c, l).name = "select"
    /\ \E out \in {thread[c][l].out, Null} : Above(c, l, out)

\* A segment of the path may be missing.
Select(c, l) ==
    /\ Ascending(c, l) /\ Here(c, l).name = "select"
    /\ \E out \in {thread[c][l].out, Null} :
          /\ ~IsValue(thread[c][l].out) => out = thread[c][l].out
          /\ Above(c, l, out)

\* catchError may catch an error, and returns null or the constant of the schema;
\* throwError may then throw an error of its own.  Both depend on conditions.
HandleError(c, l) ==
    /\ Ascending(c, l) /\ Here(c, l).name = "errorHandler"
    /\ LET out == thread[c][l].out
           caught == IF IsValue(out) THEN {out}
                     ELSE IF Here(c, l).catches THEN {Null, Value({"handler"}, "handler")} ELSE {}
       IN  \E result \in caught \cup {out} \cup
                         {e \in {Error("failed")} : Here(c, l).throws /\ caught # {}} :
              Above(c, l, result)

----------------------------------------------------------------------------
(* The resolver. *)

\* The resolver without wrappers: the property of the source, the object @stub holds.
Stored(c) ==
    IF ResolverOf(c) = "stub" THEN Value(constant[fieldOf[c]], "stub")
    ELSE IF c \in Objects THEN Value({"parent"}, "source")
    ELSE IF objectOf[c] = None THEN Value({"parent"}, "own")
    ELSE IF Main(objectOf[c]).out = Null THEN Null
    ELSE Value(Main(objectOf[c]).out.from, "own")
Returned(c) == {Stored(c)} \cup
               {out \in {Null} : ResolverOf(c) = "default" /\ c \notin Objects}

Resolve(c, l) ==
    /\ thread[c][l].at = "down" /\ thread[c][l].pos = 0 /\ ResolverOf(c) \in {"default", "stub"}
    /\ \E out \in Returned(c) : Above(c, l, out)

\* @rest and @gql: the request may lack a required header, query parameter or token, or
\* have a body twice; then nothing is sent.
SendRequest(c, l) ==
    /\ thread[c][l].at = "down" /\ thread[c][l].pos = 0 /\ ResolverOf(c) \in {"rest", "gql"}
    /\ \/ /\ sent' = sent \cup {c}
          /\ Put(c, l, At("sent", 0, Null))
          /\ UNCHANGED <<impl, ignorePolicies, constant, ghosts, crashed>>
       \/ Above(c, l, Error("failed"))

ReceiveResponse_NotFound(c, l) ==
    /\ thread[c][l].at = "sent"
    /\ \E out \in {Value({"remote"}, "own"), Error("notFound"), Error("failed")} : Above(c, l, out)

\* handleResponse: 404 may be null; any other error status throws, as a timeout does.
ReceiveResponse(c, l) ==
    /\ thread[c][l].at = "sent"
    /\ \E out \in {Value({"remote"}, "own"), Null, Error("failed")} : Above(c, l, out)

\* @localResolver decides with enabledIf, then calls what it wraps unless it replaces it.
IsSync(c, p) == p = 1 /\ ResolverOf(c) \in {"default", "stub"}

LocalResolver(c, l) ==
    /\ Descending(c, l) /\ Here(c, l).name = "localResolver"
    /\ LET p == thread[c][l].pos
           strategy == Here(c, l).mergeStrategy
           local == Value({"local"}, "own")
           notObject == Error("failed")
       IN \/ Below(c, l)                                            \* not enabled
          \/ strategy = "Replace" /\ \E out \in {local, Null} : Above(c, l, out)
          \* The original is a value: null and scalars give way to the local object,
          \* MergeDeep changes the original object in place, Merge copies it.
          \/ /\ strategy # "Replace" /\ IsSync(c, p)
             /\ \E original \in Returned(c) :
                   \/ Above(c, l, notObject)
                   \/ original = Null /\ Above(c, l, local)
                   \/ /\ original # Null /\ strategy = "Merge"
                      /\ Above(c, l, Value(original.from \cup {"local"}, "own"))
                   \/ /\ original # Null /\ strategy = "MergeDeep"
                      /\ Put(c, l, At("up", p + 1, Value(original.from \cup {"local"}, original.object)))
                      /\ constant' = IF original.object = "stub"
                                     THEN [constant EXCEPT ![fieldOf[c]] = @ \cup {"local"}]
                                     ELSE constant
                      /\ UNCHANGED <<impl, ignorePolicies, sent, ghosts, crashed>>
          \* The original is a promise, an object without own properties: Merge and an error
          \* drop it, MergeDeep adds the local properties to it and returns it.
          \/ /\ strategy # "Replace" /\ ~IsSync(c, p)
             /\ \/ /\ \E out \in {notObject} \cup {v \in {local} : strategy = "Merge"} :
                         thread' = [thread EXCEPT ![c] =
                                       [@ EXCEPT ![l] = At("up", p + 1, out),
                                                 ![p] = At("down", p - 1, Null)]]
                   /\ UNCHANGED <<impl, ignorePolicies, constant, sent, ghosts, crashed>>
                \/ strategy = "MergeDeep" /\ Below(c, l)

PassLocal(c, l) ==
    /\ Ascending(c, l) /\ Here(c, l).name = "localResolver"
    /\ Above(c, l, thread[c][l].out)

Finish_Survives(c, l) ==
    /\ thread[c][l].at = "up" /\ thread[c][l].pos = l
    /\ Put(c, l, [thread[c][l] EXCEPT !.at = "done"])
    /\ UNCHANGED <<impl, ignorePolicies, constant, sent, ghosts, crashed>>

\* The thread ends.  Nobody handles the rejection of a promise that was dropped.
Finish(c, l) ==
    /\ thread[c][l].at = "up" /\ thread[c][l].pos = l
    /\ Put(c, l, [thread[c][l] EXCEPT !.at = "done"])
    /\ crashed' = (l # Top(c) /\ ~IsValue(thread[c][l].out))
    /\ UNCHANGED <<impl, ignorePolicies, constant, sent, ghosts>>

----------------------------------------------------------------------------
Run(c, l) ==
    \/ ValidateBefore(c, l) \/ ValidateAfter(c, l)
    \/ Await(c, l) \/ Select(c, l) \/ HandleError(c, l)
    \/ Resolve(c, l) \/ SendRequest(c, l) \/ ReceiveResponse(c, l)
    \/ LocalResolver(c, l) \/ PassLocal(c, l)
    \/ Finish(c, l)

Step == /\ ~crashed
        /\ \E c \in Calls : \/ CheckBasePolicy(c) \/ ResolveObject(c) \/ Begin(c)
                            \/ \E l \in Levels : Run(c, l)

\* The request is answered, or the gateway has exited.
Unstarted(c) ==
    /\ Main(c).at = "idle"
    /\ \/ c \in Objects /\ \A d \in Calls : objectOf[d] = c => Main(d).at \in {"idle", "done"}
       \/ /\ parentOf[c] # None
          /\ Main(parentOf[c]).at = "idle" \/ ~IsValue(Main(parentOf[c]).out) \/ Main(parentOf[c]).out = Null
Ended ==
    \/ crashed
    \/ \A c \in Calls : /\ Main(c).at = "done" \/ Unstarted(c)
                        /\ \A l \in Levels : thread[c][l].at \in {"idle", "done"}

Next == Step \/ (Ended /\ UNCHANGED vars)

----------------------------------------------------------------------------
(* Properties. *)

\* Types, and which directives a field may end with.
TypeOK ==
    /\ DOMAIN impl = Fields /\ \A f \in Fields : WellFormed(impl[f])
    /\ ignorePolicies \in BOOLEAN
    /\ thread \in [Calls -> [Levels -> Thread]]
    /\ constant \in [Fields -> SUBSET Origins]
    /\ sent \subseteq Calls
    /\ validated \in [Calls -> SUBSET Positions]
    /\ granted \in [Calls -> [Positions -> SUBSET Policies]]
    /\ baseAllowed \subseteq Calls
    /\ crashed \in BOOLEAN

\* The policies of wrapper p of the call allowed it: all of them, or one for OR.
Guarded(c, p) ==
    /\ p \in validated[c]
    /\ IF WrappersOf(c)[p].relation = "AND"
       THEN \A x \in WrappersOf(c)[p].policies : x \in granted[c][p]
       ELSE \E x \in WrappersOf(c)[p].policies : x \in granted[c][p]
GuardedAll(c) ==
    ignorePolicies \/ \A p \in 1..Len(WrappersOf(c)) : IsPolicy(WrappersOf(c)[p]) => Guarded(c, p)
BaseData == {"parent", "remote", "stub"}

\* A call answers with data of its resolver only when every policy around that resolver
\* allowed it, before or after, and with data of its object only when those of the object
\* type did too: no order of wrappers, error handler, merge or interleaving lets a value
\* past a policy (policy.ts, policies.ts).
GuardedAnswers ==
    \A c \in Calls :
        Main(c).at = "done" /\ IsValue(Main(c).out) /\ Main(c).out.from \cap BaseData # {} =>
            /\ GuardedAll(c)
            /\ objectOf[c] # None /\ ResolverOf(c) = "default" /\ "parent" \in Main(c).out.from
                  => GuardedAll(objectOf[c])

\* A request goes to an upstream only when the policies that are checked before the
\* resolver have allowed it, also from a thread that nobody awaits.
RequestAuthorized ==
    \A c \in sent :
        \/ ignorePolicies
        \/ \A p \in 1..Len(WrappersOf(c)) :
              IsPolicy(WrappersOf(c)[p]) /\ ~WrappersOf(c)[p].postResolve => Guarded(c, p)

\* A refusal reaches the client as an error, unless an error handler or a merging local
\* resolver is written after the policy.
RefusalReported ==
    \A c \in Calls : \A p \in validated[c] :
        Main(c).at = "done" /\ ~Guarded(c, p) =>
            \/ ~IsValue(Main(c).out)
            \/ \E q \in (p + 1)..Len(WrappersOf(c)) :
                  \/ WrappersOf(c)[q].name = "errorHandler" /\ WrappersOf(c)[q].catches
                  \/ WrappersOf(c)[q].name = "localResolver" /\ WrappersOf(c)[q].mergeStrategy = "Merge"

\* No refusal is lost.  When a call and all promises it dropped are over and the gateway
\* still runs, each policy that refused made the call fail, or stands below an error
\* handler that catches: what a merging @localResolver hides from the client is seen in
\* the exit on an unhandled rejection (local-resolver.ts, shutdown-handler.ts).
NoRefusalLost ==
    \A c \in Calls : \A p \in validated[c] :
        /\ ~crashed /\ Main(c).at = "done"
        /\ \A l \in Levels : thread[c][l].at \in {"idle", "done"}
        /\ ~Guarded(c, p)
        => \/ ~IsValue(Main(c).out)
           \/ \E q \in (p + 1)..Len(WrappersOf(c)) :
                 WrappersOf(c)[q].name = "errorHandler" /\ WrappersOf(c)[q].catches

\* With a base policy, a field answers with data of its resolver only when a policy
\* allowed it: the base policy, or a @policy of the field that overrides it.
AllowedByOne(c) ==
    \/ c \in baseAllowed
    \/ \E k \in OwnPolicies(c), p \in 1..Len(WrappersOf(c)) :
          /\ Declared(c)[k].policies \subseteq Overriding
          /\ WrappersOf(c)[p] = Declared(c)[k] /\ Guarded(c, p)
AnswersData(c) == Main(c).at = "done" /\ IsValue(Main(c).out) /\ Main(c).out.from \cap BaseData # {}

\* So it is where no resolver directive follows an overriding @policy: "The @policy
\* directive is required to be set the last" (docs/authorization.md), which nothing
\* enforces (base-policy.ts).
OverridesStay(c) ==
    \A k \in OwnPolicies(c), j \in DOMAIN Declared(c) :
        Declared(c)[k].policies \subseteq Overriding /\ j > k => Declared(c)[j].name \notin Resolvers
BaseOrOverride ==
    \A c \in Calls \ Objects :
        BasePolicy /\ ~ignorePolicies /\ AnswersData(c) /\ OverridesStay(c) => AllowedByOne(c)

\* Where one does, base-policy.ts counts a @policy that the resolver no longer has, and
\* the field is under neither policy: the code does not satisfy this.
AlwaysBaseOrOverride ==
    \A c \in Calls \ Objects : BasePolicy /\ ~ignorePolicies /\ AnswersData(c) => AllowedByOne(c)

\* docs/directives/local-resolver.md: with Merge and MergeDeep the original result and
\* the value are merged.
MergesOriginal ==
    \A c \in Calls : \A p \in 1..Len(WrappersOf(c)) :
        /\ p = Len(WrappersOf(c)) /\ WrappersOf(c)[p].name = "localResolver"
        /\ Main(c).at = "done" /\ IsValue(Main(c).out)
        /\ thread[c][p].at = "done" /\ IsValue(thread[c][p].out)
        => thread[c][p].out.from \subseteq Main(c).out.from

Spec == Init /\ [][Next]_vars
=============================================================================
