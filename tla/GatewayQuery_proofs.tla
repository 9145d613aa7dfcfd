------------------------ MODULE GatewayQuery_proofs ------------------------
(***************************************************************************)
(* Proofs about requests.  First about the resolution of fields            *)
(* (FieldResolution), for any calls, fields, directives in any order,      *)
(* policies and length of the wrappers:                                    *)
(*   - the typing invariant;                                               *)
(*   - an answer with data of the resolver passed every policy;            *)
(*   - a request to an upstream passed those that are checked before it;   *)
(*   - a refusal is reported to the client, and none is lost: where it     *)
(*     cannot be reported the gateway exits;                               *)
(*   - an answer without the base policy passed a policy that overrides    *)
(*     it, where resolver directives come before it.                       *)
(* Each invariant is proved over the shapes of a step, which forget what   *)
(* the directives do and keep how a thread moves.                          *)
(*                                                                         *)
(* Then about the schemas that the gateway composes (GatewayQuery), for    *)
(* any services and lists of directives, and any tree of calls:            *)
(*   - a request on such a schema is one of FieldResolution's, so that all *)
(*     of the above holds of it;                                           *)
(*   - the directives' visitors and the merge over the services keep each  *)
(*     policy around its resolver;                                         *)
(*   - an exported value is read from the nearest ancestor that exports    *)
(*     it;                                                                 *)
(*   - enums serialize a value to the one it was parsed from.              *)
(* The folds over lists and services are reasoned about with Folding, the  *)
(* calls above a call by the least closed set with it.                     *)
(***************************************************************************)
EXTENDS GatewayQuery, FiniteSetTheorems, SequenceTheorems, TLAPS


----------------------------------------------------------------------------
(* The invariant.  Each conjunct is about one call c, or one thread l of it. *)

\* Where a thread may be: a call has a thread at its own level, Top, and one at the level
\* of each wrapper that dropped a promise.
Placed(c, l) ==
    /\ thread[c][l].at # "idle" => l <= Top(c)
    /\ thread[c][l].at = "checked" => l = Top(c)
    /\ thread[c][l].at = "down" => thread[c][l].pos < l
    /\ thread[c][l].at = "sent" => thread[c][l].pos = 0
    /\ thread[c][l].at = "up" => thread[c][l].pos \in 1..l
TypeInv == TypeOK /\ \A c \in Calls, l \in Levels : Placed(c, l)

\* A wrapper that drops a promise: an asynchronous merge.
Drops(c, p) ==
    /\ p <= Len(WrappersOf(c))
    /\ WrappersOf(c)[p].name = "localResolver"
    /\ WrappersOf(c)[p].mergeStrategy # "Replace"
    /\ ~IsSync(c, p)

\* Threads of a call stay apart: those below have not begun while this one descends, waits
\* or carries data of the resolver, and those it has not passed yet never begin.
Idle(c, k) == thread[c][k].at = "idle"
Base(out) == IsValue(out) /\ out.from \cap BaseData # {}
Carries(c, l) == thread[c][l].at \in {"up", "done"} /\ Base(thread[c][l].out)
Alone(c, l) ==
    /\ thread[c][l].at \in {"checked", "down", "sent"} \/ Carries(c, l) \/ (Idle(c, l) /\ l = Top(c))
          => \A k \in Levels : k < l => Idle(c, k)
    /\ thread[c][l].at = "up" => \A k \in Levels : thread[c][l].pos <= k /\ k < l => Idle(c, k)
AloneInv == \A c \in Calls, l \in Levels : Alone(c, l)

\* The policies that are checked on the way down have allowed from the top to p, those
\* that are checked on the way up have allowed below p.
Wrap(c) == 1..Len(WrappersOf(c))
Pre(c, q) == IsPolicy(WrappersOf(c)[q]) /\ ~WrappersOf(c)[q].postResolve
Post(c, q) == IsPolicy(WrappersOf(c)[q]) /\ WrappersOf(c)[q].postResolve
PreGuarded(c, p) == ignorePolicies \/ \A q \in Wrap(c) : q > p /\ Pre(c, q) => Guarded(c, q)
PostGuarded(c, p) == ignorePolicies \/ \A q \in Wrap(c) : q < p /\ Post(c, q) => Guarded(c, q)
OfObject(c, out) ==
    objectOf[c] # None /\ ResolverOf(c) = "default" /\ "parent" \in out.from =>
        Main(objectOf[c]).at = "done" /\ Base(Main(objectOf[c]).out)
Passed(c, l) ==
    /\ thread[c][l].at \in {"down", "sent"} => PreGuarded(c, thread[c][l].pos)
    /\ thread[c][l].at \in {"down", "sent"} /\ objectOf[c] # None =>
          Main(objectOf[c]).at = "done" /\ IsValue(Main(objectOf[c]).out)
    /\ thread[c][l].at = "up" /\ Base(thread[c][l].out) =>
          PreGuarded(c, 0) /\ PostGuarded(c, thread[c][l].pos) /\ OfObject(c, thread[c][l].out)
    /\ thread[c][l].at = "done" /\ Base(thread[c][l].out) =>
          PreGuarded(c, 0) /\ PostGuarded(c, l) /\ OfObject(c, thread[c][l].out)
SentGuarded(c) ==
    c \in sent =>
        /\ PreGuarded(c, 0)
        /\ Main(c).at \notin {"idle", "checked"}
        /\ \A l \in Levels : thread[c][l].at # "down"
GuardInv == (\A c \in Calls, l \in Levels : Passed(c, l)) /\ (\A c \in Calls : SentGuarded(c))

\* What a refusal needs to stay unnoticed above position p.
Catches(c, q) == WrappersOf(c)[q].name = "errorHandler" /\ WrappersOf(c)[q].catches
Excuses(c, q) ==
    \/ Catches(c, q)
    \/ WrappersOf(c)[q].name = "localResolver" /\ WrappersOf(c)[q].mergeStrategy = "Merge"
Excused(c, from, to) == \E q \in Wrap(c) : from <= q /\ q <= to /\ Excuses(c, q)
Reach(c, l) == IF thread[c][l].at = "up" THEN thread[c][l].pos ELSE l
Reported(c, l) ==
    /\ thread[c][l].at \in {"down", "sent"} =>
          \A p \in validated[c] : p < l => p > thread[c][l].pos /\ Guarded(c, p)
    /\ thread[c][l].at \in {"up", "done"} =>
          \A p \in validated[c] : p < l /\ p >= Reach(c, l) => Guarded(c, p)
    /\ thread[c][l].at \in {"up", "done"} /\ IsValue(thread[c][l].out) =>
          /\ \A p \in validated[c] : p < Reach(c, l) /\ ~Guarded(c, p) => Excused(c, p + 1, Reach(c, l) - 1)
          /\ \A k \in Levels : k < Reach(c, l) /\ k < l /\ ~Idle(c, k) => Excused(c, k, Reach(c, l) - 1)
Validations(c) ==
    /\ \A p \in validated[c] : p \in Wrap(c) /\ IsPolicy(WrappersOf(c)[p])
    /\ Main(c).at \in {"idle", "checked"} => validated[c] = {}
ReportInv == (\A c \in Calls, l \in Levels : Reported(c, l)) /\ (\A c \in Calls : Validations(c))

\* The first thread above a refusal has the error, unless an error handler caught it, and
\* a promise that was dropped does not end with an error unnoticed.
Caught(c, from, to) == \E q \in Wrap(c) : from <= q /\ q <= to /\ Catches(c, q)
Noticed(c, l) ==
    \A p \in validated[c] :
        /\ thread[c][l].at \in {"up", "done"} /\ IsValue(thread[c][l].out)
        /\ p < Reach(c, l) /\ ~Guarded(c, p)
        /\ \A k \in Levels : p < k /\ k < l => Idle(c, k)
        => Caught(c, p + 1, Reach(c, l) - 1)
Loud(c, l) == thread[c][l].at = "done" /\ l # Top(c) /\ ~IsValue(thread[c][l].out) => crashed
LostInv == \A c \in Calls, l \in Levels : Noticed(c, l) /\ Loud(c, l)

----------------------------------------------------------------------------
(* The shapes of a step. *)

Only(c, l, t) ==
    /\ thread'[c][l] = t
    /\ \A d \in Calls, k \in Levels : d # c \/ k # l => thread'[d][k] = thread[d][k]
Unjudged == UNCHANGED <<validated, granted>>
Judged(c, p) ==
    /\ validated'[c] = validated[c] \cup {p}
    /\ \A d \in Calls : d # c => validated'[d] = validated[d]
    /\ \A d \in Calls, q \in Positions : d # c \/ q # p => granted'[d][q] = granted[d][q]

\* The starts of a call.
Checks(c) == Idle(c, Top(c)) /\ Only(c, Top(c), At("checked", 0, Null)) /\ Unjudged /\ UNCHANGED <<sent, crashed>>
Fails(c) ==
    /\ Main(c).at \in {"idle", "checked"}
    /\ \E out \in Out : ~IsValue(out) /\ Only(c, Top(c), At("done", 0, out))
    /\ Unjudged /\ UNCHANGED <<sent, crashed>>
Begins(c) ==
    /\ Main(c).at \in {"idle", "checked"}
    /\ Only(c, Top(c), At("down", Len(WrappersOf(c)), Null))
    /\ objectOf[c] # None => Main(objectOf[c]).at = "done" /\ IsValue(Main(objectOf[c]).out)
    /\ Unjudged /\ UNCHANGED <<sent, crashed>>

\* A thread that goes down.
DownAt(c, l) == thread[c][l].at = "down" /\ thread[c][l].pos \in Wrap(c)
Descends(c, l) ==
    /\ DownAt(c, l) /\ Only(c, l, At("down", thread[c][l].pos - 1, Null))
    /\ ignorePolicies \/ ~Pre(c, thread[c][l].pos)
    /\ Unjudged /\ UNCHANGED <<sent, crashed>>
Admits(c, l) ==
    /\ DownAt(c, l) /\ Only(c, l, At("down", thread[c][l].pos - 1, Null))
    /\ IsPolicy(WrappersOf(c)[thread[c][l].pos])
    /\ \E p \in Wrap(c) : p = thread[c][l].pos /\ Judged(c, p) /\ Guarded(c, p)'
    /\ UNCHANGED <<sent, crashed>>

\* A thread that turns: the sync resolver is called with the last wrapper or without.
Turns(c, l) ==
    /\ thread[c][l].at = "down"
    /\ \E out \in Out :
          /\ Only(c, l, At("up", thread[c][l].pos + 1, out))
          /\ Base(out) =>
                /\ \/ thread[c][l].pos = 0
                   \/ /\ thread[c][l].pos = 1 /\ 1 \in Wrap(c)
                      /\ WrappersOf(c)[1].name = "localResolver"
                /\ objectOf[c] # None /\ ResolverOf(c) = "default" /\ "parent" \in out.from =>
                      "parent" \in Main(objectOf[c]).out.from
    /\ Unjudged /\ UNCHANGED <<sent, crashed>>
Sends(c, l) ==
    /\ thread[c][l].at = "down" /\ thread[c][l].pos = 0
    /\ Only(c, l, At("sent", 0, Null))
    /\ sent' = sent \cup {c} /\ Unjudged /\ UNCHANGED crashed
Receives(c, l) ==
    /\ thread[c][l].at = "sent"
    /\ \E out \in Out : "parent" \notin out.from /\ Only(c, l, At("up", 1, out))
    /\ Unjudged /\ UNCHANGED <<sent, crashed>>
DropsPromise(c, l) ==
    /\ DownAt(c, l) /\ Drops(c, thread[c][l].pos)
    /\ \E out \in Out :
          /\ ~Base(out) /\ (IsValue(out) => Excuses(c, thread[c][l].pos))
          /\ thread'[c][l] = At("up", thread[c][l].pos + 1, out)
    /\ thread'[c][thread[c][l].pos] = At("down", thread[c][l].pos - 1, Null)
    /\ \A d \in Calls, k \in Levels :
          d # c \/ (k # l /\ k # thread[c][l].pos) => thread'[d][k] = thread[d][k]
    /\ Unjudged /\ UNCHANGED <<sent, crashed>>

\* A thread that goes up.
UpAt(c, l) == thread[c][l].at = "up" /\ thread[c][l].pos < l /\ thread[c][l].pos \in Wrap(c)
Ascends(c, l) ==
    /\ UpAt(c, l)
    /\ \E out \in Out :
          /\ Only(c, l, At("up", thread[c][l].pos + 1, out))
          /\ Base(out) => /\ out = thread[c][l].out
                          /\ ignorePolicies \/ ~Post(c, thread[c][l].pos)
          /\ IsValue(out) => IsValue(thread[c][l].out) \/ Catches(c, thread[c][l].pos)
    /\ Unjudged /\ UNCHANGED <<sent, crashed>>
AdmitsAnswer(c, l) ==
    /\ UpAt(c, l) /\ Only(c, l, At("up", thread[c][l].pos + 1, thread[c][l].out))
    /\ IsPolicy(WrappersOf(c)[thread[c][l].pos]) /\ IsValue(thread[c][l].out)
    /\ \E p \in Wrap(c) : p = thread[c][l].pos /\ Judged(c, p) /\ Guarded(c, p)'
    /\ UNCHANGED <<sent, crashed>>
Refuses(c, l) ==
    /\ DownAt(c, l) \/ UpAt(c, l)
    /\ \E out \in Out : ~IsValue(out) /\ Only(c, l, At("up", thread[c][l].pos + 1, out))
    /\ IsPolicy(WrappersOf(c)[thread[c][l].pos])
    /\ Judged(c, thread[c][l].pos)
    /\ thread[c][l].at = "up" => IsValue(thread[c][l].out) /\ Post(c, thread[c][l].pos)
    /\ UNCHANGED <<sent, crashed>>
Finishes(c, l) ==
    /\ thread[c][l].at = "up" /\ thread[c][l].pos = l
    /\ Only(c, l, At("done", l, thread[c][l].out))
    /\ crashed' <=> crashed \/ (l # Top(c) /\ ~IsValue(thread[c][l].out))
    /\ Unjudged /\ UNCHANGED sent

Moves(c, l) ==
    \/ Descends(c, l) \/ Admits(c, l) \/ Turns(c, l) \/ Sends(c, l) \/ Receives(c, l)
    \/ DropsPromise(c, l) \/ Ascends(c, l) \/ AdmitsAnswer(c, l) \/ Refuses(c, l) \/ Finishes(c, l)
Shape ==
    /\ UNCHANGED <<impl, ignorePolicies>> /\ TypeOK'
    /\ \/ \E c \in Calls : Checks(c) \/ Fails(c) \/ Begins(c)
       \/ \E c \in Calls, l \in Levels : Moves(c, l)

----------------------------------------------------------------------------
(* Types. *)

\* The wrappers of a call and its levels.
LEMMA Wrappers ==
  ASSUME TypeOK, NEW c \in Calls
  PROVE  /\ WrappersOf(c) \in Seq(Directives(WrapperNames))
         /\ Len(WrappersOf(c)) \in 0..MaxWrappers
         /\ Top(c) \in Levels /\ Top(c) = Len(WrappersOf(c)) + 1
         /\ Wrap(c) \subseteq Positions
         /\ \A q \in Wrap(c) : WrappersOf(c)[q] \in Directives(WrapperNames)
         /\ MaxWrappers \in Nat
         /\ fieldOf[c] \in Fields
<1>1. fieldOf[c] \in Fields /\ MaxWrappers \in Nat
  BY CallsAssumption, ImplsAssumption
<1>2. WellFormed(impl[fieldOf[c]])
  BY <1>1 DEF TypeOK
<1>3. /\ WrappersOf(c) \in Seq(Directives(WrapperNames))
      /\ Len(WrappersOf(c)) \in 0..MaxWrappers
  BY <1>1, <1>2 DEF WellFormed, WrappersOf
<1>4. \A q \in Wrap(c) : WrappersOf(c)[q] \in Directives(WrapperNames)
  BY <1>3 DEF Wrap
<1>5. QED
  BY <1>1, <1>3, <1>4 DEF Top, Levels, Positions, Wrap

\* A thread is a record of Thread.
LEMMA Threads ==
  ASSUME TypeOK, NEW c \in Calls, NEW l \in Levels
  PROVE  /\ thread[c][l] \in Thread /\ thread[c][l].out \in Out
         /\ thread[c][l].pos \in 0..(MaxWrappers + 1)
BY DEF TypeOK, Thread

\* The values that resolvers return.
LEMMA Outs ==
  /\ Null \in Out /\ IsValue(Null) /\ ~Base(Null)
  /\ \A kind \in {"unauthorized", "failed"} : Error(kind) \in Out /\ ~IsValue(Error(kind)) /\ ~Base(Error(kind))
  /\ Value({"local"}, "own") \in Out /\ ~Base(Value({"local"}, "own"))
  /\ Value({"handler"}, "handler") \in Out /\ ~Base(Value({"handler"}, "handler"))
  /\ Value({"remote"}, "own") \in Out /\ "parent" \notin Value({"remote"}, "own").from
  /\ \A out \in Out : "local" \in Origins /\ out.from \subseteq Origins
BY DEF Null, Value, Error, Out, Origins, IsValue, Base, BaseData

\* Put changes one thread.
LEMMA PutOnly ==
  ASSUME TypeOK, NEW c \in Calls, NEW l \in Levels, NEW t \in Thread, Put(c, l, t)
  PROVE  thread' \in [Calls -> [Levels -> Thread]] /\ Only(c, l, t)
BY DEF TypeOK, Put, Only

\* A position a thread can take.
LEMMA Placing ==
  ASSUME NEW at \in {"checked", "down", "sent", "up", "done"}, NEW pos \in 0..(MaxWrappers + 1), NEW out \in Out
  PROVE  At(at, pos, out) \in Thread
BY DEF At, Thread

\* A step that moves one thread and judges nothing keeps the types.
LEMMA MoveOnly ==
  ASSUME TypeOK, NEW c \in Calls, NEW l \in Levels,
         NEW at \in {"checked", "down", "sent", "up", "done"}, NEW pos \in 0..(MaxWrappers + 1), NEW out \in Out,
         Move(c, l, at, pos, out)
  PROVE  /\ TypeOK' /\ Only(c, l, At(at, pos, out))
         /\ UNCHANGED <<impl, ignorePolicies, constant, sent, validated, granted, crashed>>
<1>1. At(at, pos, out) \in Thread
  BY Placing
<1>2. Put(c, l, At(at, pos, out)) /\ UNCHANGED <<impl, ignorePolicies, constant, sent, ghosts, crashed>>
  BY DEF Move
<1>3. thread' \in [Calls -> [Levels -> Thread]] /\ Only(c, l, At(at, pos, out))
  BY <1>1, <1>2, PutOnly
<1>4. QED
  BY <1>2, <1>3 DEF TypeOK, ghosts, WellFormed

\* Where a descending or ascending thread stands.
LEMMA Standing ==
  ASSUME TypeInv, NEW c \in Calls, NEW l \in Levels
  PROVE  /\ thread[c][l].at = "down" =>
                /\ thread[c][l].pos < l /\ l <= Top(c)
                /\ thread[c][l].pos + 1 \in 0..(MaxWrappers + 1)
                /\ thread[c][l].pos = 0 \/ thread[c][l].pos \in Wrap(c)
         /\ thread[c][l].at = "up" /\ thread[c][l].pos < l =>
                /\ thread[c][l].pos \in Wrap(c)
                /\ thread[c][l].pos + 1 \in 0..(MaxWrappers + 1)
<1>1. Placed(c, l)
  BY DEF TypeInv
<1>2. TypeOK
  BY DEF TypeInv
<1>3. l \in Nat /\ MaxWrappers \in Nat /\ Top(c) = Len(WrappersOf(c)) + 1 /\ Len(WrappersOf(c)) \in 0..MaxWrappers
  BY <1>2, Wrappers DEF Levels
<1>4. thread[c][l].pos \in 0..(MaxWrappers + 1)
  BY <1>2, Threads
<1>5. QED
  BY <1>1, <1>3, <1>4 DEF Placed, Wrap, Levels

\* What the sync resolver returns.
LEMMA ReturnedOut ==
  ASSUME TypeOK, NEW c \in Calls, NEW out \in Returned(c)
  PROVE  /\ out \in Out
         /\ objectOf[c] # None /\ ResolverOf(c) = "default" /\ "parent" \in out.from =>
               "parent" \in Main(objectOf[c]).out.from
<1>1. CASE out = Null
  BY <1>1 DEF Null, Value, Out
<1>2. CASE out = Stored(c) /\ ResolverOf(c) = "stub"
  <2>1. constant[fieldOf[c]] \in SUBSET Origins
    BY Wrappers DEF TypeOK
  <2>2. QED
    BY <1>2, <2>1 DEF Stored, Value, Out
<1>3. CASE out = Stored(c) /\ ResolverOf(c) # "stub" /\ c \in Objects
  <2>1. objectOf[c] = None
    BY <1>3, CallsAssumption DEF Objects
  <2>2. QED
    BY <1>3, <2>1 DEF Stored, Value, Out, Origins
<1>4. CASE out = Stored(c) /\ ResolverOf(c) # "stub" /\ c \notin Objects /\ objectOf[c] = None
  BY <1>4 DEF Stored, Value, Out, Origins
<1>5. CASE out = Stored(c) /\ ResolverOf(c) # "stub" /\ c \notin Objects /\ objectOf[c] # None
  <2>1. objectOf[c] \in Calls
    BY <1>5, CallsAssumption
  <2>2. Main(objectOf[c]).out \in Out
    BY <2>1, Wrappers, Threads DEF Main
  <2>3. out = Null \/ out = Value(Main(objectOf[c]).out.from, "own")
    BY <1>5 DEF Stored
  <2>4. CASE out = Value(Main(objectOf[c]).out.from, "own")
    BY <2>2, <2>4 DEF Value, Out
  <2>5. QED
    BY <1>1, <2>3, <2>4
<1>6. out = Stored(c) \/ out = Null
  BY DEF Returned
<1>7. QED
  BY <1>1, <1>2, <1>3, <1>4, <1>5, <1>6

----------------------------------------------------------------------------
(* Each action has one of the shapes. *)

\* The base policy, the object of a field and the start of its resolver.
LEMMA StartShape ==
  ASSUME TypeInv, ~crashed, NEW c \in Calls, CheckBasePolicy(c) \/ ResolveObject(c) \/ Begin(c)
  PROVE  Shape
<1>1. TypeOK /\ Top(c) \in Levels /\ Len(WrappersOf(c)) \in 0..(MaxWrappers + 1) /\ 0 \in 0..(MaxWrappers + 1)
  BY Wrappers DEF TypeInv
<1>2. CASE CheckBasePolicy(c)
  <2>1. Idle(c, Top(c))
    BY <1>2 DEF CheckBasePolicy, Main, Idle
  <2>2. PICK outcome \in BaseOutcomes(c) :
              Put(c, Top(c), IF outcome \in {"none", "allowed"} THEN At("checked", 0, Null)
                             ELSE At("done", 0, Error(outcome)))
    BY <1>2 DEF CheckBasePolicy
  <2>3. outcome \in {"none", "allowed", "unauthorized", "failed"}
    BY DEF BaseOutcomes
  <2>4. UNCHANGED <<impl, ignorePolicies, constant, sent, validated, granted, crashed>>
        /\ (baseAllowed' = baseAllowed \cup {c} \/ baseAllowed' = baseAllowed)
    BY <1>2 DEF CheckBasePolicy
  <2>5. At("checked", 0, Null) \in Thread
        /\ \A kind \in {"unauthorized", "failed"} : At("done", 0, Error(kind)) \in Thread
    BY <1>1, Outs, Placing
  <2>6. CASE outcome \in {"none", "allowed"}
    <3>1. Put(c, Top(c), At("checked", 0, Null))
      BY <2>2, <2>6
    <3>2. thread' \in [Calls -> [Levels -> Thread]] /\ Only(c, Top(c), At("checked", 0, Null))
      BY <1>1, <2>5, <3>1, PutOnly
    <3>3. Checks(c)
      BY <2>1, <2>4, <3>2 DEF Checks, Unjudged
    <3>4. TypeOK'
      BY <1>1, <2>4, <3>2 DEF TypeOK, WellFormed
    <3>5. QED
      BY <2>4, <3>3, <3>4 DEF Shape
  <2>7. CASE outcome \in {"unauthorized", "failed"}
    <3>1. Put(c, Top(c), At("done", 0, Error(outcome)))
      BY <2>2, <2>7
    <3>2. thread' \in [Calls -> [Levels -> Thread]] /\ Only(c, Top(c), At("done", 0, Error(outcome)))
      BY <1>1, <2>5, <2>7, <3>1, PutOnly
    <3>3. Fails(c)
      BY <2>1, <2>4, <2>7, <3>2, Outs DEF Fails, Unjudged, Idle, Main
    <3>4. TypeOK'
      BY <1>1, <2>4, <3>2 DEF TypeOK, WellFormed
    <3>5. QED
      BY <2>4, <3>3, <3>4 DEF Shape
  <2>8. QED
    BY <2>3, <2>6, <2>7
<1>3. CASE ResolveObject(c)
  <2>1. Main(c).at = "idle" /\ Move(c, Top(c), "down", Len(WrappersOf(c)), Null)
    BY <1>3 DEF ResolveObject
  <2>2. objectOf[c] = None
    BY <1>3, CallsAssumption DEF ResolveObject
  <2>3. /\ TypeOK' /\ Only(c, Top(c), At("down", Len(WrappersOf(c)), Null))
        /\ UNCHANGED <<impl, ignorePolicies, constant, sent, validated, granted, crashed>>
    BY <1>1, <2>1, Outs, MoveOnly
  <2>4. Begins(c)
    BY <2>1, <2>2, <2>3 DEF Begins, Unjudged
  <2>5. QED
    BY <2>3, <2>4 DEF Shape
<1>4. CASE Begin(c)
  <2>1. Main(c).at = "checked"
    BY <1>4 DEF Begin
  <2>2. CASE /\ objectOf[c] # None => Main(objectOf[c]).at = "done" /\ IsValue(Main(objectOf[c]).out)
             /\ Move(c, Top(c), "down", Len(WrappersOf(c)), Null)
    <3>1. /\ TypeOK' /\ Only(c, Top(c), At("down", Len(WrappersOf(c)), Null))
          /\ UNCHANGED <<impl, ignorePolicies, constant, sent, validated, granted, crashed>>
      BY <1>1, <2>2, Outs, MoveOnly
    <3>2. Begins(c)
      BY <2>1, <2>2, <3>1 DEF Begins, Unjudged
    <3>3. QED
      BY <3>1, <3>2 DEF Shape
  <2>3. CASE /\ objectOf[c] # None /\ ~IsValue(Main(objectOf[c]).out)
             /\ Move(c, Top(c), "done", 0, Main(objectOf[c]).out)
    <3>1. objectOf[c] \in Calls
      BY <2>3, CallsAssumption
    <3>2. Main(objectOf[c]).out \in Out
      BY <1>1, <3>1, Wrappers, Threads DEF Main
    <3>3. /\ TypeOK' /\ Only(c, Top(c), At("done", 0, Main(objectOf[c]).out))
          /\ UNCHANGED <<impl, ignorePolicies, constant, sent, validated, granted, crashed>>
      BY <1>1, <2>3, <3>2, MoveOnly
    <3>4. Fails(c)
      BY <2>1, <2>3, <3>2, <3>3 DEF Fails, Unjudged
    <3>5. QED
      BY <3>3, <3>4 DEF Shape
  <2>4. QED
    BY <1>4, <2>2, <2>3 DEF Begin
<1>5. QED
  BY <1>2, <1>3, <1>4

\* A step of a thread that neither judges nor starts anything else.
LEMMA MoveShape ==
  ASSUME TypeInv, NEW c \in Calls, NEW l \in Levels, TypeOK', Moves(c, l), UNCHANGED <<impl, ignorePolicies>>
  PROVE  Shape
BY DEF Shape

\* Validate: the policies of the wrapper of a thread.
LEMMA ValidateShape ==
  ASSUME TypeInv, NEW c \in Calls, NEW l \in Levels, ~ignorePolicies,
         IsPolicy(Here(c, l)), DownAt(c, l) \/ UpAt(c, l), NEW p \in Wrap(c), p = thread[c][l].pos,
         NEW passedAt \in {"down", "up"}, NEW passedPos \in 0..(MaxWrappers + 1), NEW passed \in Out,
         Validate(c, l, passedAt, passedPos, passed)
  PROVE  /\ TypeOK' /\ UNCHANGED <<impl, ignorePolicies, sent, crashed>>
         /\ Judged(c, p)
         /\ \/ Only(c, l, At(passedAt, passedPos, passed)) /\ Guarded(c, p)'
            \/ \E out \in Out : ~IsValue(out) /\ Only(c, l, At("up", p + 1, out))
<1> DEFINE w == WrappersOf(c)[p]
<1>1. TypeOK
  BY DEF TypeInv
<1>2. p \in Wrap(c) /\ p \in Positions /\ p + 1 \in 0..(MaxWrappers + 1) /\ w \in Directives(WrapperNames)
  <2>1. p \in Positions /\ w \in Directives(WrapperNames) /\ MaxWrappers \in Nat
    BY <1>1, Wrappers
  <2>2. QED
    BY <2>1 DEF Positions
<1>3. w.policies \subseteq Policies
  BY <1>2 DEF Directives
<1>4. Here(c, l) = w
  BY DEF Here
<1>5. PICK allowed \in SUBSET (Here(c, l).policies \cap Defined), failed \in SUBSET Here(c, l).policies :
         /\ validated' = [validated EXCEPT ![c] = validated[c] \cup {thread[c][l].pos}]
         /\ granted' = [granted EXCEPT ![c] = [granted[c] EXCEPT ![thread[c][l].pos] = allowed]]
         /\ Put(c, l, IF Approves(Here(c, l), allowed) THEN At(passedAt, passedPos, passed)
                      ELSE At("up", thread[c][l].pos + 1, Error(IF failed = {} THEN "unauthorized" ELSE "failed")))
         /\ UNCHANGED <<impl, ignorePolicies, constant, sent, baseAllowed, crashed>>
  BY DEF Validate
<1>6. allowed \in SUBSET Policies
  BY <1>3, <1>4
<1>7. /\ validated' \in [Calls -> SUBSET Positions] /\ granted' \in [Calls -> [Positions -> SUBSET Policies]]
      /\ Judged(c, p) /\ granted'[c][p] = allowed
  BY <1>1, <1>2, <1>5, <1>6 DEF TypeOK, Judged
<1>8. At(passedAt, passedPos, passed) \in Thread
      /\ \A kind \in {"unauthorized", "failed"} : At("up", p + 1, Error(kind)) \in Thread
  BY <1>2, Outs, Placing
<1> HIDE DEF w
<1>9. CASE Approves(w, allowed)
  <2>1. Put(c, l, At(passedAt, passedPos, passed))
    BY <1>4, <1>5, <1>9
  <2>2. thread' \in [Calls -> [Levels -> Thread]] /\ Only(c, l, At(passedAt, passedPos, passed))
    BY <1>1, <1>8, <2>1, PutOnly
  <2>3. WrappersOf(c)' = WrappersOf(c)
    BY <1>5 DEF WrappersOf
  <2>4. IF w.relation = "AND" THEN \A x \in w.policies : x \in granted'[c][p]
        ELSE \E x \in w.policies : x \in granted'[c][p]
    BY <1>7, <1>9 DEF Approves
  <2>5. p \in validated'[c]
    BY <1>7 DEF Judged
  <2>6. /\ p \in validated'[c]
        /\ IF WrappersOf(c)'[p].relation = "AND"
           THEN \A x \in WrappersOf(c)'[p].policies : x \in granted'[c][p]
           ELSE \E x \in WrappersOf(c)'[p].policies : x \in granted'[c][p]
    BY <2>3, <2>4, <2>5 DEF w
  <2>7. Guarded(c, p)'
    BY <2>6 DEF Guarded
  <2>8. TypeOK'
    BY <1>1, <1>5, <1>7, <2>2 DEF TypeOK, WellFormed
  <2>9. QED
    BY <1>5, <1>7, <2>2, <2>7, <2>8
<1>10. CASE ~Approves(w, allowed)
  <2>1. PICK kind \in {"unauthorized", "failed"} : Put(c, l, At("up", p + 1, Error(kind)))
    BY <1>4, <1>5, <1>10
  <2>2. thread' \in [Calls -> [Levels -> Thread]] /\ Only(c, l, At("up", p + 1, Error(kind)))
    BY <1>1, <1>8, <2>1, PutOnly
  <2>3. TypeOK'
    BY <1>1, <1>5, <1>7, <2>2 DEF TypeOK, WellFormed
  <2>4. QED
    BY <1>5, <1>7, <2>2, <2>3, Outs
<1>11. QED
  BY <1>9, <1>10

\* A thread that goes down to the wrapper below, or to the resolver.
LEMMA BelowShape ==
  ASSUME TypeInv, NEW c \in Calls, NEW l \in Levels, Descending(c, l), Below(c, l),
         ignorePolicies \/ ~Pre(c, thread[c][l].pos)
  PROVE  Shape
<1>1. /\ TypeOK /\ thread[c][l].at = "down" /\ thread[c][l].pos \in Wrap(c)
      /\ thread[c][l].pos - 1 \in 0..(MaxWrappers + 1)
  <2>1. TypeOK /\ thread[c][l].at = "down" /\ thread[c][l].pos > 0
    BY DEF TypeInv, Descending
  <2>2. thread[c][l].pos \in 0..(MaxWrappers + 1) /\ MaxWrappers \in Nat
    BY <2>1, Threads, Wrappers
  <2>3. thread[c][l].pos \in Wrap(c)
    BY <2>1, Standing
  <2>4. QED
    BY <2>1, <2>2, <2>3
<1>2. /\ TypeOK' /\ Only(c, l, At("down", thread[c][l].pos - 1, Null))
      /\ UNCHANGED <<impl, ignorePolicies, constant, sent, validated, granted, crashed>>
  BY <1>1, Outs, MoveOnly DEF Below
<1>3. Descends(c, l)
  BY <1>1, <1>2 DEF Descends, DownAt, Unjudged
<1>4. QED
  BY <1>2, <1>3, MoveShape DEF Moves

\* A thread that goes up.
LEMMA AboveOnly ==
  ASSUME TypeInv, NEW c \in Calls, NEW l \in Levels, NEW out \in Out, Above(c, l, out),
         thread[c][l].at \in {"down", "sent"} \/ Ascending(c, l)
  PROVE  /\ TypeOK' /\ Only(c, l, At("up", thread[c][l].pos + 1, out)) /\ Unjudged
         /\ UNCHANGED <<impl, ignorePolicies, sent, crashed>>
<1>1. TypeOK /\ MaxWrappers \in Nat /\ thread[c][l].pos \in 0..(MaxWrappers + 1)
  BY Wrappers, Threads DEF TypeInv
<1>2. thread[c][l].pos + 1 \in 0..(MaxWrappers + 1)
  <2>1. CASE thread[c][l].at = "sent"
    BY <1>1, <2>1 DEF TypeInv, Placed
  <2>2. QED
    BY <2>1, Standing DEF Ascending
<1>3. /\ TypeOK' /\ Only(c, l, At("up", thread[c][l].pos + 1, out))
      /\ UNCHANGED <<impl, ignorePolicies, constant, sent, validated, granted, crashed>>
  BY <1>1, <1>2, MoveOnly DEF Above
<1>4. QED
  BY <1>3 DEF Unjudged

\* A wrapper that hands on what it got, or something else that is no data of the resolver.
LEMMA AscendShape ==
  ASSUME TypeInv, NEW c \in Calls, NEW l \in Levels, Ascending(c, l), NEW out \in Out, Above(c, l, out),
         Base(out) => out = thread[c][l].out /\ (ignorePolicies \/ ~Post(c, thread[c][l].pos)),
         IsValue(out) => IsValue(thread[c][l].out) \/ Catches(c, thread[c][l].pos)
  PROVE  Shape
<1>1. UpAt(c, l)
  BY Standing DEF UpAt, Ascending
<1>2. /\ TypeOK' /\ Only(c, l, At("up", thread[c][l].pos + 1, out)) /\ Unjudged
      /\ UNCHANGED <<impl, ignorePolicies, sent, crashed>>
  BY AboveOnly
<1>3. Ascends(c, l)
  BY <1>1, <1>2 DEF Ascends
<1>4. QED
  BY <1>2, <1>3, MoveShape DEF Moves

\* A thread that turns back with a value or an error.
LEMMA TurnShape ==
  ASSUME TypeInv, NEW c \in Calls, NEW l \in Levels, thread[c][l].at = "down", NEW out \in Out, Above(c, l, out),
         Base(out) =>
            /\ \/ thread[c][l].pos = 0
               \/ thread[c][l].pos = 1 /\ 1 \in Wrap(c) /\ WrappersOf(c)[1].name = "localResolver"
            /\ objectOf[c] # None /\ ResolverOf(c) = "default" /\ "parent" \in out.from =>
                  "parent" \in Main(objectOf[c]).out.from
  PROVE  Shape
<1>1. /\ TypeOK' /\ Only(c, l, At("up", thread[c][l].pos + 1, out)) /\ Unjudged
      /\ UNCHANGED <<impl, ignorePolicies, sent, crashed>>
  BY AboveOnly
<1>2. Turns(c, l)
  BY <1>1 DEF Turns
<1>3. QED
  BY <1>1, <1>2, MoveShape DEF Moves

\* @policy and @policies.
LEMMA PolicyShape ==
  ASSUME TypeInv, ~crashed, NEW c \in Calls, NEW l \in Levels, ValidateBefore(c, l) \/ ValidateAfter(c, l)
  PROVE  Shape
<1>1. TypeOK
  BY DEF TypeInv
<1>2. CASE ValidateBefore(c, l)
  <2>1. Descending(c, l) /\ IsPolicy(Here(c, l))
    BY <1>2 DEF ValidateBefore
  <2>2. CASE Below(c, l) /\ (Here(c, l).postResolve \/ ignorePolicies)
    BY <2>1, <2>2, BelowShape DEF Pre, Here
  <2>3. CASE ~ignorePolicies /\ Validate(c, l, "down", thread[c][l].pos - 1, Null)
    <3>1. DownAt(c, l) /\ thread[c][l].pos - 1 \in 0..(MaxWrappers + 1)
      <4>1. thread[c][l].at = "down" /\ thread[c][l].pos > 0
        BY <2>1 DEF Descending
      <4>2. thread[c][l].pos \in 0..(MaxWrappers + 1) /\ MaxWrappers \in Nat
        BY <1>1, Threads, Wrappers
      <4>3. QED
        BY <4>1, <4>2, Standing DEF DownAt
    <3>2. PICK p \in Wrap(c) : p = thread[c][l].pos
      BY <3>1 DEF DownAt
    <3>3. IsPolicy(WrappersOf(c)[p])
      BY <2>1, <3>2 DEF Here
    <3>4. /\ TypeOK' /\ UNCHANGED <<impl, ignorePolicies, sent, crashed>> /\ Judged(c, p)
          /\ \/ Only(c, l, At("down", thread[c][l].pos - 1, Null)) /\ Guarded(c, p)'
             \/ \E out \in Out : ~IsValue(out) /\ Only(c, l, At("up", p + 1, out))
      BY <2>1, <2>3, <3>1, <3>2, Outs, ValidateShape
    <3>5. CASE Only(c, l, At("down", thread[c][l].pos - 1, Null)) /\ Guarded(c, p)'
      <4>1. Admits(c, l)
        BY <3>1, <3>2, <3>3, <3>4, <3>5 DEF Admits
      <4>2. QED
        BY <3>4, <4>1, MoveShape DEF Moves
    <3>6. CASE \E out \in Out : ~IsValue(out) /\ Only(c, l, At("up", p + 1, out))
      <4>1. Refuses(c, l)
        BY <3>1, <3>2, <3>3, <3>4, <3>6 DEF Refuses, DownAt
      <4>2. QED
        BY <3>4, <4>1, MoveShape DEF Moves
    <3>7. QED
      BY <3>4, <3>5, <3>6
  <2>4. QED
    BY <1>2, <2>2, <2>3 DEF ValidateBefore
<1>3. CASE ValidateAfter(c, l)
  <2>1. Ascending(c, l) /\ IsPolicy(Here(c, l))
    BY <1>3 DEF ValidateAfter
  <2>2. thread[c][l].out \in Out
    BY <1>1, Threads
  <2>3. CASE /\ ~(IsValue(thread[c][l].out) /\ Here(c, l).postResolve /\ ~ignorePolicies)
             /\ Above(c, l, thread[c][l].out)
    BY <2>1, <2>2, <2>3, AscendShape DEF Base, Post, Here
  <2>4. CASE /\ IsValue(thread[c][l].out) /\ ~ignorePolicies /\ Here(c, l).postResolve
             /\ Validate(c, l, "up", thread[c][l].pos + 1, thread[c][l].out)
    <3>1. UpAt(c, l) /\ thread[c][l].pos + 1 \in 0..(MaxWrappers + 1)
      BY <2>1, Standing DEF UpAt, Ascending
    <3>2. PICK p \in Wrap(c) : p = thread[c][l].pos
      BY <3>1 DEF UpAt
    <3>3. IsPolicy(WrappersOf(c)[p])
      BY <2>1, <3>2 DEF Here
    <3>4. /\ TypeOK' /\ UNCHANGED <<impl, ignorePolicies, sent, crashed>> /\ Judged(c, p)
          /\ \/ Only(c, l, At("up", thread[c][l].pos + 1, thread[c][l].out)) /\ Guarded(c, p)'
             \/ \E out \in Out : ~IsValue(out) /\ Only(c, l, At("up", p + 1, out))
      BY <2>1, <2>2, <2>4, <3>1, <3>2, ValidateShape
    <3>5. CASE Only(c, l, At("up", thread[c][l].pos + 1, thread[c][l].out)) /\ Guarded(c, p)'
      <4>1. AdmitsAnswer(c, l)
        BY <2>4, <3>1, <3>2, <3>3, <3>4, <3>5 DEF AdmitsAnswer
      <4>2. QED
        BY <3>4, <4>1, MoveShape DEF Moves
    <3>6. CASE \E out \in Out : ~IsValue(out) /\ Only(c, l, At("up", p + 1, out))
      <4>1. Refuses(c, l)
        <5>1. Post(c, thread[c][l].pos)
          BY <2>4, <3>2, <3>3 DEF Post, Here
        <5>2. QED
          BY <2>4, <3>1, <3>2, <3>3, <3>4, <3>6, <5>1 DEF Refuses
      <4>2. QED
        BY <3>4, <4>1, MoveShape DEF Moves
    <3>7. QED
      BY <3>4, <3>5, <3>6
  <2>5. QED
    BY <1>3, <2>3, <2>4 DEF ValidateAfter
<1>4. QED
  BY <1>2, <1>3

\* @select, @errorHandler, and @localResolver on the way up.
LEMMA HandlerShape ==
  ASSUME TypeInv, ~crashed, NEW c \in Calls, NEW l \in Levels,
         Await(c, l) \/ Select(c, l) \/ HandleError(c, l) \/ PassLocal(c, l)
  PROVE  Shape
<1>1. thread[c][l].out \in Out
  BY Threads DEF TypeInv
<1>2. ASSUME Here(c, l).name \in {"select", "errorHandler", "localResolver"}
      PROVE  ~Pre(c, thread[c][l].pos) /\ ~Post(c, thread[c][l].pos)
  BY <1>2 DEF Pre, Post, IsPolicy, PolicyNames, Here
<1>3. CASE Await(c, l)
  BY <1>2, <1>3, BelowShape DEF Await
<1>4. CASE Select(c, l)
  <2>1. PICK out \in {thread[c][l].out, Null} :
              (~IsValue(thread[c][l].out) => out = thread[c][l].out) /\ Above(c, l, out)
    BY <1>4 DEF Select
  <2>2. out \in Out /\ (Base(out) => out = thread[c][l].out) /\ (IsValue(out) => IsValue(thread[c][l].out))
    BY <1>1, <2>1, Outs
  <2>3. QED
    BY <1>2, <1>4, <2>1, <2>2, AscendShape DEF Select
<1>5. CASE HandleError(c, l)
  <2> DEFINE caught == IF IsValue(thread[c][l].out) THEN {thread[c][l].out}
                       ELSE IF Here(c, l).catches THEN {Null, Value({"handler"}, "handler")} ELSE {}
  <2>1. PICK out \in caught \cup {thread[c][l].out} \cup
                     {e \in {Error("failed")} : Here(c, l).throws /\ caught # {}} : Above(c, l, out)
    BY <1>5 DEF HandleError
  <2>2. out \in Out /\ (Base(out) => out = thread[c][l].out)
    BY <1>1, Outs
  <2>3. IsValue(out) => IsValue(thread[c][l].out) \/ Here(c, l).catches
    BY Outs
  <2>4. Ascending(c, l) /\ Here(c, l).name = "errorHandler"
    BY <1>5 DEF HandleError
  <2>5. Here(c, l).catches => Catches(c, thread[c][l].pos)
    BY <2>4 DEF Catches, Here
  <2> HIDE DEF caught
  <2>6. QED
    BY <1>2, <2>1, <2>2, <2>3, <2>4, <2>5, AscendShape
<1>6. CASE PassLocal(c, l)
  BY <1>1, <1>2, <1>6, AscendShape DEF PassLocal
<1>7. QED
  BY <1>3, <1>4, <1>5, <1>6

\* The resolver: it returns, sends a request or receives a response.
LEMMA ResolverShape ==
  ASSUME TypeInv, ~crashed, NEW c \in Calls, NEW l \in Levels,
         Resolve(c, l) \/ SendRequest(c, l) \/ ReceiveResponse(c, l)
  PROVE  Shape
<1>1. TypeOK /\ MaxWrappers \in Nat
  BY Wrappers DEF TypeInv
<1>2. CASE Resolve(c, l)
  <2>1. PICK out \in Returned(c) : Above(c, l, out)
    BY <1>2 DEF Resolve
  <2>2. /\ out \in Out
        /\ objectOf[c] # None /\ ResolverOf(c) = "default" /\ "parent" \in out.from =>
              "parent" \in Main(objectOf[c]).out.from
    BY <1>1, ReturnedOut
  <2>3. thread[c][l].at = "down" /\ thread[c][l].pos = 0
    BY <1>2 DEF Resolve
  <2>4. QED
    BY <2>1, <2>2, <2>3, TurnShape
<1>3. CASE SendRequest(c, l)
  <2>1. thread[c][l].at = "down" /\ thread[c][l].pos = 0
    BY <1>3 DEF SendRequest
  <2>2. CASE Above(c, l, Error("failed"))
    BY <2>1, <2>2, Outs, TurnShape
  <2>3. CASE /\ sent' = sent \cup {c} /\ Put(c, l, At("sent", 0, Null))
             /\ UNCHANGED <<impl, ignorePolicies, constant, ghosts, crashed>>
    <3>1. At("sent", 0, Null) \in Thread
      <4>1. 0 \in 0..(MaxWrappers + 1) /\ Null \in Out
        BY <1>1, Outs
      <4>2. QED
        BY <4>1, Placing
    <3>2. thread' \in [Calls -> [Levels -> Thread]] /\ Only(c, l, At("sent", 0, Null))
      BY <1>1, <2>3, <3>1, PutOnly
    <3>3. TypeOK'
      BY <1>1, <2>3, <3>2 DEF TypeOK, WellFormed, ghosts
    <3>4. Sends(c, l)
      BY <2>1, <2>3, <3>2 DEF Sends, Unjudged, ghosts
    <3>5. QED
      BY <2>3, <3>3, <3>4, MoveShape DEF Moves
  <2>4. QED
    BY <1>3, <2>2, <2>3 DEF SendRequest
<1>4. CASE ReceiveResponse(c, l)
  <2>1. thread[c][l].at = "sent" /\ thread[c][l].pos = 0
    BY <1>4 DEF ReceiveResponse, TypeInv, Placed
  <2>2. PICK out \in {Value({"remote"}, "own"), Null, Error("failed")} : Above(c, l, out)
    BY <1>4 DEF ReceiveResponse
  <2>3. out \in Out /\ "parent" \notin out.from
    BY Outs DEF Null, Value, Error
  <2>4. /\ TypeOK' /\ Only(c, l, At("up", 1, out)) /\ Unjudged
        /\ UNCHANGED <<impl, ignorePolicies, sent, crashed>>
    BY <2>1, <2>2, <2>3, AboveOnly
  <2>5. Receives(c, l)
    BY <2>1, <2>3, <2>4 DEF Receives
  <2>6. QED
    BY <2>4, <2>5, MoveShape DEF Moves
<1>5. QED
  BY <1>2, <1>3, <1>4

\* The promise of what @localResolver wraps is dropped.
LEMMA DropShape ==
  ASSUME TypeInv, ~crashed, NEW c \in Calls, NEW l \in Levels, Descending(c, l),
         NEW p \in Wrap(c), p = thread[c][l].pos, Drops(c, p),
         NEW out \in Out, ~Base(out), IsValue(out) => Excuses(c, p),
         thread' = [thread EXCEPT ![c] = [thread[c] EXCEPT ![l] = At("up", p + 1, out),
                                                           ![p] = At("down", p - 1, Null)]],
         UNCHANGED <<impl, ignorePolicies, constant, sent, ghosts, crashed>>
  PROVE  Shape
<1>1. TypeOK /\ thread[c][l].at = "down" /\ p < l /\ p + 1 \in 0..(MaxWrappers + 1)
  BY Standing DEF TypeInv, Descending
<1>2. p \in Levels /\ p - 1 \in 0..(MaxWrappers + 1)
  BY <1>1, Wrappers DEF Wrap, Levels
<1>3. At("up", p + 1, out) \in Thread /\ At("down", p - 1, Null) \in Thread
  BY <1>1, <1>2, Outs, Placing
<1>4. thread' \in [Calls -> [Levels -> Thread]]
  BY <1>1, <1>2, <1>3 DEF TypeOK
<1>5. /\ thread'[c][l] = At("up", p + 1, out) /\ thread'[c][p] = At("down", p - 1, Null)
      /\ \A d \in Calls, k \in Levels : d # c \/ (k # l /\ k # p) => thread'[d][k] = thread[d][k]
  <2>1. p # l /\ thread \in [Calls -> [Levels -> Thread]]
    BY <1>1, <1>2 DEF TypeOK, Levels
  <2>2. thread'[c] = [thread[c] EXCEPT ![l] = At("up", p + 1, out), ![p] = At("down", p - 1, Null)]
    BY <2>1
  <2>3. \A d \in Calls : d # c => thread'[d] = thread[d]
    BY <2>1
  <2>4. thread[c] \in [Levels -> Thread]
    BY <2>1
  <2>5. thread'[c][l] = At("up", p + 1, out) /\ thread'[c][p] = At("down", p - 1, Null)
    BY <1>2, <2>1, <2>2, <2>4
  <2>6. \A k \in Levels : k # l /\ k # p => thread'[c][k] = thread[c][k]
    BY <2>2, <2>4
  <2>7. QED
    BY <2>3, <2>5, <2>6
<1>6. TypeOK'
  BY <1>1, <1>4 DEF TypeOK, WellFormed, ghosts
<1>7. DropsPromise(c, l)
  BY <1>1, <1>5 DEF DropsPromise, DownAt, Unjudged, ghosts
<1>8. QED
  BY <1>6, <1>7, MoveShape DEF Moves

\* @localResolver on the way down.
LEMMA LocalShape ==
  ASSUME TypeInv, ~crashed, NEW c \in Calls, NEW l \in Levels, LocalResolver(c, l)
  PROVE  Shape
<1> DEFINE local == Value({"local"}, "own")
           strategy == Here(c, l).mergeStrategy
<1>1. Descending(c, l) /\ Here(c, l).name = "localResolver"
  BY DEF LocalResolver
<1>2. TypeOK /\ thread[c][l].at = "down" /\ thread[c][l].pos > 0 /\ thread[c][l].pos \in Wrap(c)
      /\ thread[c][l].pos \in 0..(MaxWrappers + 1) /\ MaxWrappers \in Nat
  BY <1>1, Standing, Threads, Wrappers DEF TypeInv, Descending
<1>3. PICK p \in Wrap(c) : p = thread[c][l].pos
  BY <1>2
<1>4. Here(c, l) = WrappersOf(c)[p]
  BY <1>3 DEF Here
<1>5. ~Pre(c, thread[c][l].pos)
  BY <1>1, <1>3, <1>4 DEF Pre, IsPolicy, PolicyNames
<1>6. CASE Below(c, l)
  BY <1>1, <1>5, <1>6, BelowShape
<1>7. CASE strategy = "Replace" /\ \E out \in {local, Null} : Above(c, l, out)
  BY <1>2, <1>7, Outs, TurnShape
<1>8. CASE strategy # "Replace" /\ IsSync(c, p) /\
           \E original \in Returned(c) :
              \/ Above(c, l, Error("failed"))
              \/ original = Null /\ Above(c, l, local)
              \/ /\ original # Null /\ strategy = "Merge"
                 /\ Above(c, l, Value(original.from \cup {"local"}, "own"))
              \/ /\ original # Null /\ strategy = "MergeDeep"
                 /\ Put(c, l, At("up", p + 1, Value(original.from \cup {"local"}, original.object)))
                 /\ constant' = IF original.object = "stub"
                                THEN [constant EXCEPT ![fieldOf[c]] = constant[fieldOf[c]] \cup {"local"}]
                                ELSE constant
                 /\ UNCHANGED <<impl, ignorePolicies, sent, ghosts, crashed>>
  <2>1. PICK original \in Returned(c) :
              \/ Above(c, l, Error("failed"))
              \/ original = Null /\ Above(c, l, local)
              \/ /\ original # Null /\ strategy = "Merge"
                 /\ Above(c, l, Value(original.from \cup {"local"}, "own"))
              \/ /\ original # Null /\ strategy = "MergeDeep"
                 /\ Put(c, l, At("up", p + 1, Value(original.from \cup {"local"}, original.object)))
                 /\ constant' = IF original.object = "stub"
                                THEN [constant EXCEPT ![fieldOf[c]] = constant[fieldOf[c]] \cup {"local"}]
                                ELSE constant
                 /\ UNCHANGED <<impl, ignorePolicies, sent, ghosts, crashed>>
    BY <1>8
  <2>2. /\ original \in Out
        /\ objectOf[c] # None /\ ResolverOf(c) = "default" /\ "parent" \in original.from =>
              "parent" \in Main(objectOf[c]).out.from
    BY <1>2, ReturnedOut
  <2>3. thread[c][l].pos = 1 /\ 1 \in Wrap(c) /\ WrappersOf(c)[1].name = "localResolver"
    BY <1>1, <1>3, <1>4, <1>8 DEF IsSync
  <2>4. \A object \in {"own", original.object} :
           LET out == Value(original.from \cup {"local"}, object)
           IN  /\ out \in Out
               /\ objectOf[c] # None /\ ResolverOf(c) = "default" /\ "parent" \in out.from =>
                     "parent" \in Main(objectOf[c]).out.from
    BY <2>2 DEF Out, Value, Origins
  <2>5. CASE Above(c, l, Error("failed"))
    BY <1>2, <2>5, Outs, TurnShape
  <2>6. CASE Above(c, l, local)
    BY <1>2, <2>6, Outs, TurnShape
  <2>7. CASE Above(c, l, Value(original.from \cup {"local"}, "own"))
    BY <1>2, <2>3, <2>4, <2>7, TurnShape
  <2>8. CASE /\ Put(c, l, At("up", p + 1, Value(original.from \cup {"local"}, original.object)))
             /\ constant' = IF original.object = "stub"
                            THEN [constant EXCEPT ![fieldOf[c]] = constant[fieldOf[c]] \cup {"local"}]
                            ELSE constant
             /\ UNCHANGED <<impl, ignorePolicies, sent, ghosts, crashed>>
    <3> DEFINE out == Value(original.from \cup {"local"}, original.object)
    <3>1. out \in Out
      BY <2>4
    <3>2. p + 1 \in 0..(MaxWrappers + 1)
      BY <1>2, <1>3, Standing
    <3>3. At("up", p + 1, out) \in Thread
      BY <3>1, <3>2, Placing
    <3>4. thread' \in [Calls -> [Levels -> Thread]] /\ Only(c, l, At("up", p + 1, out))
      BY <1>2, <2>8, <3>3, PutOnly
    <3>5. constant' \in [Fields -> SUBSET Origins]
      BY <1>2, <2>8, Wrappers, Outs DEF TypeOK, Origins
    <3>6. TypeOK'
      BY <1>2, <2>8, <3>4, <3>5 DEF TypeOK, WellFormed, ghosts
    <3>7. /\ objectOf[c] # None /\ ResolverOf(c) = "default" /\ "parent" \in out.from =>
                "parent" \in Main(objectOf[c]).out.from
      BY <2>4
    <3> HIDE DEF out
    <3>8. Turns(c, l)
      BY <1>2, <1>3, <2>3, <2>8, <3>1, <3>4, <3>7 DEF Turns, Unjudged, ghosts
    <3>9. QED
      BY <2>8, <3>6, <3>8, MoveShape DEF Moves
  <2>9. QED
    BY <2>1, <2>5, <2>6, <2>7, <2>8
<1>9. CASE /\ strategy # "Replace" /\ ~IsSync(c, p)
           /\ \E out \in {Error("failed")} \cup {v \in {local} : strategy = "Merge"} :
                 thread' = [thread EXCEPT ![c] = [thread[c] EXCEPT ![l] = At("up", p + 1, out),
                                                                   ![p] = At("down", p - 1, Null)]]
           /\ UNCHANGED <<impl, ignorePolicies, constant, sent, ghosts, crashed>>
  <2>1. PICK out \in {Error("failed")} \cup {v \in {local} : strategy = "Merge"} :
                 thread' = [thread EXCEPT ![c] = [thread[c] EXCEPT ![l] = At("up", p + 1, out),
                                                                   ![p] = At("down", p - 1, Null)]]
    BY <1>9
  <2>2. out \in Out /\ ~Base(out) /\ (IsValue(out) => strategy = "Merge")
    BY Outs
  <2>3. Drops(c, p) /\ (strategy = "Merge" => Excuses(c, p))
    BY <1>1, <1>4, <1>9 DEF Drops, Excuses, Wrap
  <2>4. QED
    BY <1>1, <1>3, <1>9, <2>1, <2>2, <2>3, DropShape
<1>10. QED
  BY <1>3, <1>6, <1>7, <1>8, <1>9 DEF LocalResolver

\* The end of a thread.
LEMMA FinishShape ==
  ASSUME TypeInv, ~crashed, NEW c \in Calls, NEW l \in Levels, Finish(c, l)
  PROVE  Shape
<1>1. TypeOK /\ thread[c][l] \in Thread /\ thread[c][l].at = "up" /\ thread[c][l].pos = l
  BY Threads DEF TypeInv, Finish
<1>2. [thread[c][l] EXCEPT !.at = "done"] = At("done", l, thread[c][l].out)
      /\ At("done", l, thread[c][l].out) \in Thread
  BY <1>1 DEF Thread, At
<1>3. Put(c, l, At("done", l, thread[c][l].out))
  BY <1>2 DEF Finish
<1>4. thread' \in [Calls -> [Levels -> Thread]] /\ Only(c, l, At("done", l, thread[c][l].out))
  BY <1>1, <1>2, <1>3, PutOnly
<1>5. /\ UNCHANGED <<impl, ignorePolicies, constant, sent, validated, granted, baseAllowed>>
      /\ crashed' = (l # Top(c) /\ ~IsValue(thread[c][l].out))
  BY DEF Finish, ghosts
<1>6. crashed' \in BOOLEAN /\ (crashed' <=> crashed \/ (l # Top(c) /\ ~IsValue(thread[c][l].out)))
  BY <1>5
<1>7. TypeOK'
  BY <1>1, <1>4, <1>5, <1>6 DEF TypeOK, WellFormed
<1>8. Finishes(c, l)
  BY <1>1, <1>4, <1>5, <1>6 DEF Finishes, Unjudged
<1>9. QED
  BY <1>5, <1>7, <1>8, MoveShape DEF Moves

\* Every step has a shape.
LEMMA Shapes ==
  ASSUME TypeInv, Step
  PROVE  Shape
<1>1. PICK c \in Calls : \/ CheckBasePolicy(c) \/ ResolveObject(c) \/ Begin(c)
                         \/ \E l \in Levels : Run(c, l)
  BY DEF Step
<1>2. ~crashed
  BY DEF Step
<1>3. ASSUME NEW l \in Levels, Run(c, l)
      PROVE  Shape
  BY <1>2, <1>3, PolicyShape, HandlerShape, ResolverShape, LocalShape, FinishShape DEF Run
<1>4. QED
  BY <1>1, <1>2, <1>3, StartShape

----------------------------------------------------------------------------
(* The typing invariant. *)

\* A step leaves the wrappers of every call alone.
LEMMA Same ==
  ASSUME UNCHANGED <<impl, ignorePolicies>>, NEW c \in Calls
  PROVE  /\ WrappersOf(c)' = WrappersOf(c) /\ Top(c)' = Top(c) /\ Wrap(c)' = Wrap(c)
         /\ ResolverOf(c)' = ResolverOf(c)
         /\ \A q \in Nat : /\ Pre(c, q)' <=> Pre(c, q)
                           /\ Post(c, q)' <=> Post(c, q)
                           /\ Excuses(c, q)' <=> Excuses(c, q)
                           /\ Catches(c, q)' <=> Catches(c, q)
                           /\ Drops(c, q)' <=> Drops(c, q)
<1>1. /\ WrappersOf(c)' = WrappersOf(c) /\ ResolverOf(c)' = ResolverOf(c)
  BY DEF WrappersOf, ResolverOf
<1>2. QED
  BY <1>1 DEF Top, Wrap, Pre, Post, Excuses, Catches, Drops, IsSync

\* The fields of a thread, and the numbers that positions and levels are.
LEMMA ThreadFields ==
  ASSUME NEW at, NEW pos, NEW out
  PROVE  At(at, pos, out).at = at /\ At(at, pos, out).pos = pos /\ At(at, pos, out).out = out
BY DEF At

\* Levels, positions and lengths are numbers.
LEMMA Numbers ==
  ASSUME TypeInv, NEW c \in Calls, NEW l \in Levels
  PROVE  /\ l \in Nat /\ l >= 1 /\ Top(c) \in Nat /\ Top(c) \in Levels /\ Top(c) = Len(WrappersOf(c)) + 1
         /\ thread[c][l].pos \in Nat /\ MaxWrappers \in Nat
         /\ Len(WrappersOf(c)) \in Nat /\ Top(c) <= MaxWrappers + 1
         /\ Wrap(c) = {k \in Levels : k < Top(c)}
<1>1. TypeOK
  BY DEF TypeInv
<1>2. thread[c][l].pos \in 0..(MaxWrappers + 1)
  BY <1>1, Threads
<1>3. /\ Len(WrappersOf(c)) \in 0..MaxWrappers /\ MaxWrappers \in Nat
      /\ Top(c) \in Levels /\ Top(c) = Len(WrappersOf(c)) + 1
  BY <1>1, Wrappers
<1>4. QED
  BY <1>2, <1>3 DEF Levels, Wrap

\* A thread has come back no further than it may stand.
LEMMA ReachBound ==
  ASSUME TypeInv, NEW c \in Calls, NEW l \in Levels
  PROVE  Reach(c, l) \in Nat /\ Reach(c, l) <= l
<1>1. l \in Nat /\ thread[c][l].pos \in Nat
  BY Numbers
<1>2. thread[c][l].at = "up" => thread[c][l].pos <= l
  <2>1. Placed(c, l)
    BY DEF TypeInv
  <2>2. thread[c][l].at = "up" => thread[c][l].pos \in 1..l
    BY <2>1 DEF Placed
  <2>3. QED
    BY <1>1, <2>2
<1>3. QED
  BY <1>1, <1>2 DEF Reach

\* A step that puts one thread where it may be keeps all threads where they may be.
LEMMA PlacedOnly ==
  ASSUME TypeInv, UNCHANGED <<impl, ignorePolicies>>, TypeOK',
         NEW c \in Calls, NEW l \in Levels, NEW at, NEW pos, NEW out,
         Only(c, l, At(at, pos, out)), l <= Top(c),
         at = "checked" => l = Top(c), at = "down" => pos < l,
         at = "sent" => pos = 0, at = "up" => pos \in 1..l
  PROVE  TypeInv'
<1>1. SUFFICES ASSUME NEW d \in Calls, NEW k \in Levels
               PROVE  Placed(d, k)'
  BY DEF TypeInv
<1>2. Top(d)' = Top(d)
  BY Same
<1>3. Placed(d, k)
  BY DEF TypeInv
<1>4. CASE d = c /\ k = l
  <2>1. thread'[d][k].at = at /\ thread'[d][k].pos = pos
    BY <1>4, ThreadFields DEF Only
  <2>2. QED
    BY <1>2, <1>4, <2>1 DEF Placed
<1>5. CASE ~(d = c /\ k = l)
  BY <1>2, <1>3, <1>5 DEF Only, Placed
<1>6. QED
  BY <1>4, <1>5

\* Every step keeps the types and the places of the threads.
LEMMA TypeStep ==
  ASSUME TypeInv, Shape
  PROVE  TypeInv'
<1>1. UNCHANGED <<impl, ignorePolicies>> /\ TypeOK'
  BY DEF Shape
<1>2. ASSUME NEW c \in Calls, Checks(c) \/ Fails(c) \/ Begins(c)
      PROVE  TypeInv'
  <2>1. Top(c) \in Levels /\ Len(WrappersOf(c)) < Top(c) /\ Top(c) <= Top(c)
    BY Wrappers DEF TypeInv, Levels
  <2>2. CASE Checks(c)
    BY <1>1, <2>1, <2>2, PlacedOnly DEF Checks
  <2>3. CASE Fails(c)
    <3>1. PICK out \in Out : Only(c, Top(c), At("done", 0, out))
      BY <2>3 DEF Fails
    <3>2. QED
      BY <1>1, <2>1, <3>1, PlacedOnly
  <2>4. CASE Begins(c)
    BY <1>1, <2>1, <2>4, PlacedOnly DEF Begins
  <2>5. QED
    BY <1>2, <2>2, <2>3, <2>4
<1>3. ASSUME NEW c \in Calls, NEW l \in Levels, Moves(c, l)
      PROVE  TypeInv'
  <2> DEFINE p == thread[c][l].pos
  <2>1. Placed(c, l) /\ l \in Nat /\ Top(c) \in Nat /\ p \in Nat /\ Len(WrappersOf(c)) = Top(c) - 1
    BY Numbers DEF TypeInv
  <2> HIDE DEF p
  <2>2. CASE Descends(c, l) \/ Admits(c, l)
    <3>1. Only(c, l, At("down", p - 1, Null)) /\ thread[c][l].at = "down"
      BY <2>2 DEF Descends, Admits, DownAt, p
    <3>2. p < l /\ l <= Top(c)
      BY <2>1, <3>1 DEF Placed, p
    <3>3. p - 1 < l
      BY <2>1, <3>2
    <3>4. QED
      BY <1>1, <3>1, <3>2, <3>3, PlacedOnly
  <2>3. CASE Turns(c, l)
    <3>1. thread[c][l].at = "down"
      BY <2>3 DEF Turns
    <3>2. PICK out \in Out : Only(c, l, At("up", p + 1, out))
      BY <2>3 DEF Turns, p
    <3>3. l <= Top(c) /\ p + 1 \in 1..l
      BY <2>1, <3>1 DEF Placed, p
    <3>4. QED
      BY <1>1, <3>2, <3>3, PlacedOnly
  <2>4. CASE Sends(c, l)
    <3>1. Only(c, l, At("sent", 0, Null)) /\ l <= Top(c)
      BY <2>1, <2>4 DEF Sends, Placed
    <3>2. QED
      BY <1>1, <3>1, PlacedOnly
  <2>5. CASE Receives(c, l)
    <3>1. PICK out \in Out : Only(c, l, At("up", 1, out))
      BY <2>5 DEF Receives
    <3>2. l <= Top(c) /\ 1 \in 1..l
      BY <2>1, <2>5, Numbers DEF Receives, Placed
    <3>3. QED
      BY <1>1, <3>1, <3>2, PlacedOnly
  <2>6. CASE DropsPromise(c, l)
    <3>1. /\ thread[c][l].at = "down" /\ p \in Wrap(c)
          /\ \E out \in Out : thread'[c][l] = At("up", p + 1, out)
          /\ thread'[c][p] = At("down", p - 1, Null)
          /\ \A d \in Calls, k \in Levels : d # c \/ (k # l /\ k # p) => thread'[d][k] = thread[d][k]
      BY <2>6 DEF DropsPromise, DownAt, p
    <3>2. /\ p < l /\ l <= Top(c) /\ p + 1 \in 1..l /\ p < Top(c)
      BY <2>1, <3>1 DEF Placed, p
    <3>3. SUFFICES ASSUME NEW d \in Calls, NEW k \in Levels
                   PROVE  Placed(d, k)'
      BY <1>1 DEF TypeInv
    <3>4. Top(d)' = Top(d) /\ Placed(d, k)
      BY <1>1, Same DEF TypeInv
    <3>5. CASE d = c /\ k = l
      <4>1. thread'[d][k].at = "up" /\ thread'[d][k].pos = p + 1
        BY <3>1, <3>5, ThreadFields
      <4>2. QED
        BY <3>2, <3>4, <3>5, <4>1 DEF Placed
    <3>6. CASE d = c /\ k = p /\ k # l
      <4>1. thread'[d][k].at = "down" /\ thread'[d][k].pos = p - 1
        BY <3>1, <3>6, ThreadFields
      <4>2. k <= Top(d)' /\ p - 1 < k
        BY <2>1, <3>2, <3>4, <3>6
      <4>3. QED
        BY <4>1, <4>2 DEF Placed
    <3>7. CASE d # c \/ (k # l /\ k # p)
      BY <3>1, <3>4, <3>7 DEF Placed
    <3>8. QED
      BY <3>5, <3>6, <3>7
  <2>7. CASE Ascends(c, l) \/ AdmitsAnswer(c, l)
    <3>1. UpAt(c, l) /\ \E out \in Out : Only(c, l, At("up", p + 1, out))
      <4>1. thread[c][l].out \in Out
        BY Threads DEF TypeInv
      <4>2. QED
        BY <2>7, <4>1 DEF Ascends, AdmitsAnswer, p
    <3>2. PICK out \in Out : Only(c, l, At("up", p + 1, out))
      BY <3>1
    <3>3. l <= Top(c) /\ p + 1 \in 1..l
      BY <2>1, <3>1 DEF UpAt, Placed, p
    <3>4. QED
      BY <1>1, <3>2, <3>3, PlacedOnly
  <2>8. CASE Refuses(c, l)
    <3>1. PICK out \in Out : Only(c, l, At("up", p + 1, out))
      BY <2>8 DEF Refuses, p
    <3>2. l <= Top(c) /\ p + 1 \in 1..l
      BY <2>1, <2>8 DEF Refuses, DownAt, UpAt, Placed, p
    <3>3. QED
      BY <1>1, <3>1, <3>2, PlacedOnly
  <2>9. CASE Finishes(c, l)
    <3>1. Only(c, l, At("done", l, thread[c][l].out)) /\ l <= Top(c)
      BY <2>1, <2>9 DEF Finishes, Placed
    <3>2. QED
      BY <1>1, <3>1, PlacedOnly
  <2>10. QED
    BY <1>3, <2>2, <2>3, <2>4, <2>5, <2>6, <2>7, <2>8, <2>9 DEF Moves
<1>4. QED
  BY <1>2, <1>3 DEF Shape

\* The first state, and a step that changes nothing.
LEMMA InitInv ==
  ASSUME Init
  PROVE  TypeInv /\ AloneInv /\ GuardInv /\ ReportInv /\ LostInv
<1>1. \A f \in Fields : impl[f] \in Impls
  BY DEF Init
<1>2. /\ ignorePolicies \in BOOLEAN /\ thread \in [Calls -> [Levels -> {NoThread}]]
      /\ constant = [f \in Fields |-> {"stub"}] /\ sent = {} /\ validated = [c \in Calls |-> {}]
      /\ granted = [c \in Calls |-> [p \in Positions |-> {}]] /\ baseAllowed = {} /\ crashed = FALSE
  BY DEF Init, InitCalls
<1>3. NoThread \in Thread /\ NoThread.at = "idle"
  <2>1. 0 \in 0..(MaxWrappers + 1)
    BY ImplsAssumption
  <2>2. QED
    BY <2>1, Outs DEF NoThread, Thread
<1>4. \A c \in Calls, l \in Levels : thread[c][l] = NoThread
  BY <1>2
<1>5. thread \in [Calls -> [Levels -> Thread]] /\ constant \in [Fields -> SUBSET Origins]
  BY <1>2, <1>3 DEF Origins
<1>6. \A f \in Fields : WellFormed(impl[f])
  BY <1>1, ImplsAssumption
<1>7. DOMAIN impl = Fields
  BY DEF Init
<1>8. TypeOK
  BY <1>2, <1>5, <1>6, <1>7 DEF TypeOK
<1>9. \A c \in Calls : Top(c) \in Levels /\ Main(c).at = "idle"
  BY <1>3, <1>4, <1>8, Wrappers DEF Main
<1>10. TypeInv
  BY <1>3, <1>4, <1>8 DEF TypeInv, Placed
<1>11. LostInv
  BY <1>2, <1>3, <1>4 DEF LostInv, Noticed, Loud
<1>12. AloneInv
  BY <1>3, <1>4 DEF AloneInv, Alone, Idle
<1>13. GuardInv
  BY <1>2, <1>3, <1>4 DEF GuardInv, Passed, SentGuarded
<1>14. ReportInv
  BY <1>2, <1>3, <1>4 DEF ReportInv, Reported, Validations
<1>15. QED
  BY <1>10, <1>11, <1>12, <1>13, <1>14

\* So does a step that changes nothing.
LEMMA TypeStutter ==
  ASSUME TypeInv, UNCHANGED vars
  PROVE  TypeInv'
BY DEF vars, ghosts, TypeInv, TypeOK, WellFormed, Placed, Top, WrappersOf

\* The types of the state, and where threads may be, for any calls and fields.
THEOREM TypeCorrect == Spec => []TypeOK
<1>1. Init => TypeInv
  BY InitInv
<1>2. TypeInv /\ [Next]_vars => TypeInv'
  BY Shapes, TypeStep, TypeStutter DEF Next
<1>3. TypeInv => TypeOK
  BY DEF TypeInv
<1>4. QED
  BY <1>1, <1>2, <1>3, PTL DEF Spec

----------------------------------------------------------------------------
(* The threads of a call stay apart. *)

\* A step that moves one thread keeps the others apart if that thread itself is apart.
LEMMA AloneOnly ==
  ASSUME TypeInv, AloneInv, UNCHANGED <<impl, ignorePolicies>>,
         NEW c \in Calls, NEW l \in Levels, NEW at, NEW pos, NEW out,
         Only(c, l, At(at, pos, out)), thread[c][l].at # "idle" \/ l = Top(c), at # "idle",
         at \in {"checked", "down", "sent"} \/ (at \in {"up", "done"} /\ Base(out))
            => \A k \in Levels : k < l => Idle(c, k),
         at = "up" => \A k \in Levels : pos <= k /\ k < l => Idle(c, k)
  PROVE  AloneInv'
<1>1. SUFFICES ASSUME NEW d \in Calls, NEW j \in Levels
               PROVE  Alone(d, j)'
  BY DEF AloneInv
<1>2. Top(d)' = Top(d) /\ Alone(d, j) /\ Placed(d, j)
  BY Same DEF AloneInv, TypeInv
<1>3. \A k \in Levels : k \in Nat
  BY DEF Levels
<1>4. CASE d # c
  <2>1. \A k \in Levels : thread'[d][k] = thread[d][k]
    BY <1>4 DEF Only
  <2>2. QED
    BY <1>2, <2>1 DEF Alone, Idle, Carries
<1>5. CASE d = c /\ j = l
  <2>1. thread'[d][j].at = at /\ thread'[d][j].pos = pos /\ thread'[d][j].out = out
    BY <1>5, ThreadFields DEF Only
  <2>2. \A k \in Levels : k < l => thread'[d][k] = thread[d][k]
    BY <1>3, <1>5 DEF Only
  <2>3. QED
    BY <1>5, <2>1, <2>2 DEF Alone, Idle, Carries
<1>6. CASE d = c /\ j # l /\ ~(l < j)
  <2>1. /\ thread'[d][j] = thread[d][j]
        /\ \A k \in Levels : k < j => thread'[d][k] = thread[d][k]
    BY <1>3, <1>6 DEF Only
  <2>2. QED
    BY <1>2, <2>1 DEF Alone, Idle, Carries
<1>7. CASE d = c /\ l < j
  <2>1. /\ thread'[d][j] = thread[d][j]
        /\ \A k \in Levels : k # l => thread'[d][k] = thread[d][k]
    BY <1>3, <1>7 DEF Only
  <2>2. CASE l = Top(c)
    <3>1. thread[d][j].at = "idle" /\ j # Top(d)
      BY <1>2, <1>3, <1>7, <2>2, Numbers DEF Placed
    <3>2. QED
      BY <1>2, <2>1, <3>1 DEF Alone, Idle, Carries
  <2>3. CASE thread[c][l].at # "idle"
    <3>1. ~Idle(d, l)
      BY <1>7, <2>3 DEF Idle
    <3>2. ~(thread[d][j].at \in {"checked", "down", "sent"} \/ Carries(d, j) \/ (Idle(d, j) /\ j = Top(d)))
      BY <1>2, <1>7, <3>1 DEF Alone
    <3>3. thread[d][j].at = "up" => ~(thread[d][j].pos <= l)
      BY <1>2, <1>7, <3>1 DEF Alone
    <3>4. QED
      BY <1>2, <1>7, <2>1, <3>2, <3>3 DEF Alone, Idle, Carries
  <2>4. QED
    BY <2>2, <2>3
<1>8. QED
  BY <1>3, <1>4, <1>5, <1>6, <1>7

\* Every step keeps the threads of a call apart.
LEMMA AloneStep ==
  ASSUME TypeInv, AloneInv, Shape
  PROVE  AloneInv'
<1>1. UNCHANGED <<impl, ignorePolicies>>
  BY DEF Shape
<1>2. ASSUME NEW c \in Calls, Checks(c) \/ Fails(c) \/ Begins(c)
      PROVE  AloneInv'
  <2>1. Top(c) \in Levels /\ Alone(c, Top(c))
    BY Wrappers DEF TypeInv, AloneInv
  <2>2. Main(c).at \in {"idle", "checked"}
    BY <1>2 DEF Checks, Fails, Begins, Idle, Main
  <2>3. \A k \in Levels : k < Top(c) => Idle(c, k)
    BY <2>1, <2>2 DEF Alone, Main, Idle
  <2>4. CASE Checks(c)
    BY <1>1, <2>1, <2>3, <2>4, AloneOnly DEF Checks
  <2>5. CASE Fails(c)
    <3>1. PICK out \in Out : ~IsValue(out) /\ Only(c, Top(c), At("done", 0, out))
      BY <2>5 DEF Fails
    <3>2. QED
      BY <1>1, <2>1, <3>1, AloneOnly DEF Base
  <2>6. CASE Begins(c)
    BY <1>1, <2>1, <2>3, <2>6, AloneOnly DEF Begins
  <2>7. QED
    BY <1>2, <2>4, <2>5, <2>6
<1>3. ASSUME NEW c \in Calls, NEW l \in Levels, Moves(c, l)
      PROVE  AloneInv'
  <2> DEFINE p == thread[c][l].pos
  <2>1. Alone(c, l) /\ l \in Nat /\ p \in Nat /\ \A k \in Levels : k \in Nat
    BY Numbers DEF AloneInv, Levels
  <2>2. ASSUME thread[c][l].at = "down" \/ thread[c][l].at = "sent"
        PROVE  \A k \in Levels : k < l => Idle(c, k)
    BY <2>1, <2>2 DEF Alone
  <2>3. ASSUME thread[c][l].at = "up" /\ Base(thread[c][l].out)
        PROVE  \A k \in Levels : k < l => Idle(c, k)
    BY <2>1, <2>3 DEF Alone, Carries
  <2>4. ASSUME thread[c][l].at = "up"
        PROVE  \A k \in Levels : p + 1 <= k /\ k < l => Idle(c, k)
    <3>1. \A k \in Levels : p + 1 <= k => p <= k
      BY <2>1
    <3>2. QED
      BY <2>1, <2>4, <3>1 DEF Alone
  <2> HIDE DEF p
  <2>5. CASE Descends(c, l) \/ Admits(c, l)
    <3>1. Only(c, l, At("down", p - 1, Null)) /\ thread[c][l].at = "down"
      BY <2>5 DEF Descends, Admits, DownAt, p
    <3>2. QED
      BY <1>1, <2>2, <3>1, AloneOnly
  <2>6. CASE Turns(c, l)
    <3>1. thread[c][l].at = "down" /\ \E out \in Out : Only(c, l, At("up", p + 1, out))
      BY <2>6 DEF Turns, p
    <3>2. PICK out \in Out : Only(c, l, At("up", p + 1, out))
      BY <3>1
    <3>3. QED
      BY <1>1, <2>2, <3>1, <3>2, AloneOnly
  <2>7. CASE Sends(c, l)
    BY <1>1, <2>2, <2>7, AloneOnly DEF Sends
  <2>8. CASE Receives(c, l)
    <3>1. PICK out \in Out : Only(c, l, At("up", 1, out))
      BY <2>8 DEF Receives
    <3>2. thread[c][l].at = "sent"
      BY <2>8 DEF Receives
    <3>3. QED
      BY <1>1, <2>2, <3>1, <3>2, AloneOnly
  <2>9. CASE Ascends(c, l) \/ AdmitsAnswer(c, l)
    <3>1. thread[c][l].at = "up" /\ thread[c][l].out \in Out
      BY <2>9, Threads DEF Ascends, AdmitsAnswer, UpAt, TypeInv
    <3>2. \E out \in Out : Only(c, l, At("up", p + 1, out)) /\ (Base(out) => out = thread[c][l].out)
      BY <2>9, <3>1 DEF Ascends, AdmitsAnswer, p
    <3>3. PICK out \in Out : Only(c, l, At("up", p + 1, out)) /\ (Base(out) => out = thread[c][l].out)
      BY <3>2
    <3>4. Base(out) => \A k \in Levels : k < l => Idle(c, k)
      BY <2>3, <3>1, <3>3
    <3>5. QED
      BY <1>1, <2>4, <3>1, <3>3, <3>4, AloneOnly
  <2>10. CASE Refuses(c, l)
    <3>1. thread[c][l].at \in {"down", "up"}
      BY <2>10 DEF Refuses, DownAt, UpAt
    <3>2. PICK out \in Out : ~IsValue(out) /\ Only(c, l, At("up", p + 1, out))
      BY <2>10 DEF Refuses, p
    <3>3. \A k \in Levels : p + 1 <= k /\ k < l => Idle(c, k)
      BY <2>2, <2>4, <3>1
    <3>4. QED
      BY <1>1, <3>1, <3>2, <3>3, AloneOnly DEF Base
  <2>11. CASE Finishes(c, l)
    <3>1. thread[c][l].at = "up" /\ Only(c, l, At("done", l, thread[c][l].out))
      BY <2>11 DEF Finishes
    <3>2. QED
      BY <1>1, <2>3, <3>1, AloneOnly
  <2>12. CASE DropsPromise(c, l)
    <3>1. /\ thread[c][l].at = "down" /\ p \in Wrap(c) /\ Alone(c, p)
          /\ thread'[c][p] = At("down", p - 1, Null)
          /\ \A d \in Calls, k \in Levels : d # c \/ (k # l /\ k # p) => thread'[d][k] = thread[d][k]
      BY <2>12, Numbers DEF DropsPromise, DownAt, p, AloneInv
    <3>2. PICK out \in Out : ~Base(out) /\ thread'[c][l] = At("up", p + 1, out)
      BY <2>12 DEF DropsPromise, p
    <3>3. p < l /\ p \in Levels /\ (\A k \in Levels : k < l => Idle(c, k)) /\ l <= Top(c)
      BY <2>2, <3>1, Standing, Numbers DEF p, Levels
    <3>4. SUFFICES ASSUME NEW d \in Calls, NEW j \in Levels
                   PROVE  Alone(d, j)'
      BY DEF AloneInv
    <3>5. Top(d)' = Top(d) /\ Alone(d, j) /\ Placed(d, j)
      BY <1>1, Same DEF AloneInv, TypeInv
    <3>6. CASE d # c
      <4>1. \A k \in Levels : thread'[d][k] = thread[d][k]
        BY <3>1, <3>6
      <4>2. QED
        BY <3>5, <4>1 DEF Alone, Idle, Carries
    <3>7. CASE d = c /\ j = l
      <4>1. thread'[d][j].at = "up" /\ thread'[d][j].pos = p + 1 /\ thread'[d][j].out = out
        BY <3>2, <3>7, ThreadFields
      <4>2. \A k \in Levels : p + 1 <= k /\ k < l => thread'[d][k] = thread[d][k]
        BY <2>1, <3>1, <3>7
      <4>3. QED
        BY <2>1, <3>2, <3>3, <3>7, <4>1, <4>2 DEF Alone, Idle, Carries
    <3>8. CASE d = c /\ j = p
      <4>1. thread'[d][j].at = "down" /\ thread'[d][j].pos = p - 1
        BY <3>1, <3>8, ThreadFields
      <4>2. \A k \in Levels : k < p => thread'[d][k] = thread[d][k] /\ Idle(d, k)
        BY <2>1, <3>1, <3>3, <3>8
      <4>3. QED
        BY <3>8, <4>1, <4>2 DEF Alone, Idle, Carries
    <3>9. CASE d = c /\ j < l /\ j # p
      <4>1. thread'[d][j] = thread[d][j] /\ thread[d][j].at = "idle" /\ j # Top(d)
        <5>1. j # l /\ Top(c) \in Nat /\ j \in Nat
          BY <2>1, <3>9, Numbers
        <5>2. thread'[d][j] = thread[d][j]
          BY <3>1, <3>9, <5>1
        <5>3. Idle(c, j)
          BY <3>3, <3>9
        <5>4. j # Top(d)
          BY <2>1, <3>3, <3>9, <5>1
        <5>5. QED
          BY <3>9, <5>2, <5>3, <5>4 DEF Idle
      <4>2. QED
        BY <3>5, <4>1 DEF Alone, Idle, Carries
    <3>10. CASE d = c /\ l < j
      <4>1. thread'[d][j] = thread[d][j] /\ ~Idle(d, l)
        <5>1. j # l /\ j # p
          BY <2>1, <3>3, <3>10
        <5>2. QED
          BY <3>1, <3>10, <5>1 DEF Idle
      <4>2. ~(thread[d][j].at \in {"checked", "down", "sent"} \/ Carries(d, j) \/ (Idle(d, j) /\ j = Top(d)))
        BY <3>5, <3>10, <4>1 DEF Alone
      <4>3. thread[d][j].at = "up" => l < thread[d][j].pos
        <5>1. thread[d][j].pos \in Nat
          BY Numbers
        <5>2. thread[d][j].at = "up" => ~(thread[d][j].pos <= l)
          BY <3>5, <3>10, <4>1 DEF Alone
        <5>3. QED
          BY <2>1, <5>1, <5>2
      <4>4. thread[d][j].at = "up" => \A k \in Levels : thread[d][j].pos <= k => thread'[d][k] = thread[d][k]
        <5>1. thread[d][j].pos \in Nat
          BY Numbers
        <5>2. ASSUME thread[d][j].at = "up", NEW k \in Levels, thread[d][j].pos <= k
              PROVE  k # l /\ k # p
          BY <2>1, <3>3, <4>3, <5>1, <5>2
        <5>3. QED
          BY <3>1, <5>2
      <4>5. QED
        BY <3>5, <4>1, <4>2, <4>4 DEF Alone, Idle, Carries
    <3>11. QED
      BY <2>1, <3>6, <3>7, <3>8, <3>9, <3>10
  <2>13. QED
    BY <1>3, <2>5, <2>6, <2>7, <2>8, <2>9, <2>10, <2>11, <2>12 DEF Moves
<1>4. QED
  BY <1>2, <1>3 DEF Shape

\* So does a step that changes nothing.
LEMMA AloneStutter ==
  ASSUME AloneInv, UNCHANGED vars
  PROVE  AloneInv'
BY DEF vars, ghosts, AloneInv, Alone, Idle, Carries, Top, WrappersOf

----------------------------------------------------------------------------
(* Policies guard answers and requests. *)

\* The threads above one that has begun have dropped its promise, or one above it.
LEMMA Outer ==
  ASSUME TypeInv, AloneInv, NEW c \in Calls, NEW l \in Levels, NEW j \in Levels, l < j, ~Idle(c, l)
  PROVE  /\ thread[c][j].at \in {"idle", "up", "done"} /\ ~Carries(c, j) /\ ~(Idle(c, j) /\ j = Top(c))
         /\ l < Reach(c, j)
<1>1. thread[c][j] \in Thread /\ thread[c][j].pos \in Nat /\ l \in Nat /\ j \in Nat
  BY Threads, Numbers DEF TypeInv
<1>2. Alone(c, j)
  BY DEF AloneInv
<1>3. ~(thread[c][j].at \in {"checked", "down", "sent"} \/ Carries(c, j) \/ (Idle(c, j) /\ j = Top(c)))
  BY <1>2 DEF Alone
<1>4. thread[c][j].at = "up" => ~(thread[c][j].pos <= l)
  BY <1>2 DEF Alone
<1>5. QED
  BY <1>1, <1>3, <1>4 DEF Thread, Reach

\* A thread that is done stays as it is.
LEMMA DoneStays ==
  ASSUME TypeInv, AloneInv, Shape, NEW d \in Calls, NEW k \in Levels, thread[d][k].at = "done"
  PROVE  thread'[d][k] = thread[d][k]
<1>1. ASSUME NEW c \in Calls, Checks(c) \/ Fails(c) \/ Begins(c)
      PROVE  thread'[d][k] = thread[d][k]
  <2>1. thread[c][Top(c)].at \in {"idle", "checked"} /\ \E t : Only(c, Top(c), t)
    BY <1>1 DEF Checks, Fails, Begins, Idle, Main
  <2>2. QED
    BY <2>1 DEF Only
<1>2. ASSUME NEW c \in Calls, NEW l \in Levels, Moves(c, l)
      PROVE  thread'[d][k] = thread[d][k]
  <2>1. CASE DropsPromise(c, l)
    <3> DEFINE p == thread[c][l].pos
    <3>1. /\ thread[c][l].at = "down" /\ p \in Wrap(c)
          /\ \A e \in Calls, j \in Levels : e # c \/ (j # l /\ j # p) => thread'[e][j] = thread[e][j]
      BY <2>1 DEF DropsPromise, DownAt
    <3>2. Alone(c, l) /\ p < l /\ p \in Levels
      BY <3>1, Standing, Numbers DEF AloneInv, Levels
    <3>3. thread[c][p].at = "idle"
      BY <3>1, <3>2 DEF Alone, Idle
    <3> HIDE DEF p
    <3>4. QED
      BY <3>1, <3>3
  <2>2. CASE ~DropsPromise(c, l)
    <3>1. thread[c][l].at # "done" /\ \E t : Only(c, l, t)
      BY <1>2, <2>2 DEF Moves, Descends, Admits, Turns, Sends, Receives, Ascends, AdmitsAnswer, Refuses, Finishes, DownAt, UpAt
    <3>2. QED
      BY <3>1 DEF Only
  <2>3. QED
    BY <2>1, <2>2
<1>3. QED
  BY <1>1, <1>2 DEF Shape

\* What a step changes about the policies that allowed.
LEMMA Kept ==
  ASSUME TypeInv, UNCHANGED <<impl, ignorePolicies>>, Unjudged, NEW d \in Calls, NEW q \in Positions
  PROVE  Guarded(d, q)' <=> Guarded(d, q)
<1>1. WrappersOf(d)' = WrappersOf(d)
  BY Same
<1>2. QED
  BY <1>1 DEF Unjudged, Guarded

\* A wrapper that evaluates its policies changes nothing about the others.
LEMMA KeptOthers ==
  ASSUME TypeInv, UNCHANGED <<impl, ignorePolicies>>, NEW c \in Calls, NEW p \in Positions, Judged(c, p),
         NEW d \in Calls, NEW q \in Positions, d # c \/ q # p
  PROVE  Guarded(d, q)' <=> Guarded(d, q)
<1>1. WrappersOf(d)' = WrappersOf(d)
  BY Same
<1>2. q \in validated'[d] <=> q \in validated[d]
  BY DEF Judged
<1>3. granted'[d][q] = granted[d][q]
  BY DEF Judged
<1>4. QED
  BY <1>1, <1>2, <1>3 DEF Guarded

\* The policies above or below a position keep allowing when each of them does.
LEMMA GuardsKept ==
  ASSUME TypeInv, UNCHANGED <<impl, ignorePolicies>>, NEW d \in Calls, NEW x
  PROVE  /\ PreGuarded(d, x) /\ (\A q \in Wrap(d) : q > x /\ Pre(d, q) /\ Guarded(d, q) => Guarded(d, q)')
               => PreGuarded(d, x)'
         /\ PostGuarded(d, x) /\ (\A q \in Wrap(d) : q < x /\ Post(d, q) /\ Guarded(d, q) => Guarded(d, q)')
               => PostGuarded(d, x)'
<1>1. Wrap(d)' = Wrap(d) /\ \A q \in Wrap(d) : (Pre(d, q)' <=> Pre(d, q)) /\ (Post(d, q)' <=> Post(d, q))
  BY Same DEF Wrap
<1>2. QED
  BY <1>1 DEF PreGuarded, PostGuarded

\* A thread that stands still keeps what it passed when its policies keep allowing.
LEMMA PassedKept ==
  ASSUME TypeInv, UNCHANGED <<impl, ignorePolicies>>, NEW d \in Calls, NEW k \in Levels, Passed(d, k),
         \A o \in Calls : Main(o).at = "done" => thread'[o][Top(o)] = thread[o][Top(o)],
         thread'[d][k] = thread[d][k],
         thread[d][k].at \in {"down", "sent"} \/ (thread[d][k].at \in {"up", "done"} /\ Base(thread[d][k].out)) =>
            /\ \A q \in Wrap(d) : Pre(d, q) /\ Guarded(d, q) => Guarded(d, q)'
            /\ \A q \in Wrap(d) : Post(d, q) /\ q < Reach(d, k) /\ Guarded(d, q) => Guarded(d, q)'
  PROVE  Passed(d, k)'
<1> DEFINE t == thread[d][k]
<1>1. /\ \A o \in Calls : Top(o)' = Top(o)
      /\ ResolverOf(d)' = ResolverOf(d)
  BY Same
<1>2. objectOf[d] # None => objectOf[d] \in Calls
  BY CallsAssumption
<1>3. PICK x : x = t.pos
  OBVIOUS
<1>4. ASSUME t.at \in {"down", "sent"}
      PROVE  /\ PreGuarded(d, x)'
             /\ objectOf[d] # None => Main(objectOf[d])'.at = "done" /\ IsValue(Main(objectOf[d])'.out)
  <2>1. PreGuarded(d, x)
    BY <1>3, <1>4 DEF Passed
  <2>2. PreGuarded(d, x)'
    BY <1>4, <2>1, GuardsKept
  <2>3. objectOf[d] # None => Main(objectOf[d]).at = "done" /\ IsValue(Main(objectOf[d]).out)
    BY <1>4 DEF Passed
  <2>4. objectOf[d] # None => Main(objectOf[d])' = Main(objectOf[d])
    BY <1>1, <1>2, <2>3 DEF Main
  <2>5. QED
    BY <2>2, <2>3, <2>4
<1>5. ASSUME t.at \in {"up", "done"}, Base(t.out), NEW y, y = Reach(d, k)
      PROVE  /\ PreGuarded(d, 0)' /\ PostGuarded(d, y)'
             /\ objectOf[d] # None /\ ResolverOf(d) = "default" /\ "parent" \in t.out.from =>
                   Main(objectOf[d])'.at = "done" /\ Base(Main(objectOf[d])'.out)
  <2>1. PreGuarded(d, 0) /\ PostGuarded(d, y) /\ OfObject(d, t.out)
    BY <1>5 DEF Passed, Reach
  <2>2. PreGuarded(d, 0)' /\ PostGuarded(d, y)'
    BY <1>5, <2>1, GuardsKept
  <2>3. objectOf[d] # None /\ Main(objectOf[d]).at = "done" => Main(objectOf[d])' = Main(objectOf[d])
    BY <1>1, <1>2 DEF Main
  <2>4. QED
    BY <2>1, <2>2, <2>3 DEF OfObject
<1>6. QED
  BY <1>1, <1>3, <1>4, <1>5 DEF Passed, OfObject, PreGuarded, PostGuarded, Reach, Base, IsValue

\* A step of one call leaves what the others passed.
LEMMA GuardKeep ==
  ASSUME TypeInv, AloneInv, GuardInv, Shape, NEW c \in Calls,
         \A d \in Calls, k \in Levels : d # c => thread'[d][k] = thread[d][k],
         \A d \in Calls, q \in Positions : d # c => (Guarded(d, q)' <=> Guarded(d, q)),
         \A d \in Calls : d # c /\ d \in sent' => d \in sent,
         \A k \in Levels : Passed(c, k)', SentGuarded(c)'
  PROVE  GuardInv'
<1>1. UNCHANGED <<impl, ignorePolicies>>
  BY DEF Shape
<1>2. \A o \in Calls : Main(o).at = "done" => thread'[o][Top(o)] = thread[o][Top(o)]
  <2>1. \A o \in Calls : Top(o) \in Levels
    BY Wrappers DEF TypeInv
  <2>2. QED
    BY <2>1, DoneStays DEF Main
<1>3. ASSUME NEW d \in Calls, d # c
      PROVE  (\A k \in Levels : Passed(d, k)') /\ SentGuarded(d)'
  <2>1. \A q \in Wrap(d) : Guarded(d, q)' <=> Guarded(d, q)
    BY <1>3, Wrappers DEF TypeInv
  <2>2. \A k \in Levels : Passed(d, k)'
    BY <1>1, <1>2, <1>3, <2>1, PassedKept DEF GuardInv
  <2>3. SentGuarded(d)'
    <3>1. SentGuarded(d) /\ (d \in sent' => d \in sent)
      BY <1>3 DEF GuardInv
    <3>2. Main(d)' = Main(d) /\ \A k \in Levels : thread'[d][k] = thread[d][k]
      BY <1>1, <1>3, Same, Wrappers DEF Main, TypeInv
    <3>3. PreGuarded(d, 0) => PreGuarded(d, 0)'
      BY <1>1, <2>1, GuardsKept
    <3>4. QED
      BY <3>1, <3>2, <3>3 DEF SentGuarded
  <2>4. QED
    BY <2>2, <2>3
<1>4. QED
  BY <1>3 DEF GuardInv

\* A step of one thread that loses no policy.
LEMMA GuardOnly ==
  ASSUME TypeInv, AloneInv, GuardInv, Shape, NEW c \in Calls, NEW l \in Levels, NEW t, Only(c, l, t),
         \A d \in Calls, q \in Positions : d # c => (Guarded(d, q)' <=> Guarded(d, q)),
         \A q \in Positions : Guarded(c, q) => Guarded(c, q)',
         \A d \in Calls : d \in sent' => d \in sent,
         Passed(c, l)', t.at \in {"down", "up", "done"},
         t.at = "down" => thread[c][l].at = "down" \/ (l = Top(c) /\ thread[c][l].at \in {"idle", "checked"})
  PROVE  GuardInv'
<1>1. UNCHANGED <<impl, ignorePolicies>>
  BY DEF Shape
<1>2. \A d \in Calls, k \in Levels : d # c => thread'[d][k] = thread[d][k]
  BY DEF Only
<1>3. \A o \in Calls : Main(o).at = "done" => thread'[o][Top(o)] = thread[o][Top(o)]
  <2>1. \A o \in Calls : Top(o) \in Levels
    BY Wrappers DEF TypeInv
  <2>2. QED
    BY <2>1, DoneStays DEF Main
<1>4. \A q \in Wrap(c) : q \in Positions
  BY Wrappers DEF TypeInv
<1>5. ASSUME NEW k \in Levels, k # l
      PROVE  Passed(c, k)'
  <2>1. thread'[c][k] = thread[c][k] /\ Passed(c, k)
    BY <1>5 DEF Only, GuardInv
  <2>2. QED
    BY <1>1, <1>3, <1>4, <2>1, PassedKept
<1>6. SentGuarded(c)'
  <2>1. SUFFICES ASSUME c \in sent'
                 PROVE  PreGuarded(c, 0)' /\ Main(c)'.at \notin {"idle", "checked"}
                        /\ \A k \in Levels : thread'[c][k].at # "down"
    BY DEF SentGuarded
  <2>2. PreGuarded(c, 0) /\ Main(c).at \notin {"idle", "checked"} /\ \A k \in Levels : thread[c][k].at # "down"
    BY <2>1 DEF GuardInv, SentGuarded
  <2>3. PreGuarded(c, 0)'
    BY <1>1, <1>4, <2>2, GuardsKept
  <2>4. t.at # "down"
    BY <2>2 DEF Main
  <2>5. Top(c)' = Top(c) /\ Top(c) \in Levels
    BY <1>1, Same, Wrappers DEF TypeInv
  <2>6. \A k \in Levels : thread'[c][k] = t \/ thread'[c][k] = thread[c][k]
    BY DEF Only
  <2>7. QED
    BY <2>2, <2>3, <2>4, <2>5, <2>6 DEF Main
<1>7. QED
  BY <1>2, <1>5, <1>6, GuardKeep

\* What a thread has passed where a step puts it.
LEMMA PassedAt ==
  ASSUME TypeInv, UNCHANGED <<impl, ignorePolicies>>,
         NEW c \in Calls, NEW l \in Levels, NEW at, NEW pos, NEW out, Only(c, l, At(at, pos, out)),
         at \in {"down", "sent"} =>
            /\ PreGuarded(c, pos)'
            /\ objectOf[c] # None => Main(objectOf[c])'.at = "done" /\ IsValue(Main(objectOf[c])'.out),
         at \in {"up", "done"} /\ Base(out) =>
            /\ PreGuarded(c, 0)' /\ (at = "up" => PostGuarded(c, pos)') /\ (at = "done" => PostGuarded(c, l)')
            /\ objectOf[c] # None /\ ResolverOf(c) = "default" /\ "parent" \in out.from =>
                  Main(objectOf[c])'.at = "done" /\ Base(Main(objectOf[c])'.out)
  PROVE  Passed(c, l)'
<1>1. thread'[c][l].at = at /\ thread'[c][l].pos = pos /\ thread'[c][l].out = out
  BY ThreadFields DEF Only
<1>2. ResolverOf(c)' = ResolverOf(c)
  BY Same
<1>3. QED
  BY <1>1, <1>2 DEF Passed, OfObject, PreGuarded, PostGuarded, Base, IsValue

\* The object of a call stays as it is once it is resolved.
LEMMA ObjectStays ==
  ASSUME TypeInv, AloneInv, Shape, NEW c \in Calls, objectOf[c] # None, Main(objectOf[c]).at = "done"
  PROVE  Main(objectOf[c])' = Main(objectOf[c])
<1>1. objectOf[c] \in Calls
  BY CallsAssumption
<1>2. Top(objectOf[c]) \in Levels /\ Top(objectOf[c])' = Top(objectOf[c])
  BY <1>1, Same, Wrappers DEF TypeInv, Shape
<1>3. QED
  BY <1>1, <1>2, DoneStays DEF Main

\* A step that judges nothing loses no policy.
LEMMA KeptAll ==
  ASSUME TypeInv, UNCHANGED <<impl, ignorePolicies>>, NEW c \in Calls,
         Unjudged \/ \E p \in Wrap(c) : Judged(c, p) /\ Guarded(c, p)'
  PROVE  /\ \A d \in Calls, q \in Positions : d # c => (Guarded(d, q)' <=> Guarded(d, q))
         /\ \A q \in Positions : Guarded(c, q) => Guarded(c, q)'
         /\ \A q \in Wrap(c) : q \in Positions
<1>1. \A q \in Wrap(c) : q \in Positions
  BY Wrappers DEF TypeInv
<1>2. CASE Unjudged
  BY <1>1, <1>2, Kept
<1>3. CASE \E p \in Wrap(c) : Judged(c, p) /\ Guarded(c, p)'
  <2>1. PICK p \in Wrap(c) : Judged(c, p) /\ Guarded(c, p)'
    BY <1>3
  <2>2. p \in Positions
    BY <1>1
  <2>3. \A q \in Positions : q # p => (Guarded(c, q)' <=> Guarded(c, q))
    BY <2>1, <2>2, KeptOthers
  <2>4. \A d \in Calls, q \in Positions : d # c => (Guarded(d, q)' <=> Guarded(d, q))
    BY <2>1, <2>2, KeptOthers
  <2>5. \A q \in Positions : Guarded(c, q) => Guarded(c, q)'
    BY <2>1, <2>3
  <2>6. QED
    BY <1>1, <2>4, <2>5
<1>4. QED
  BY <1>2, <1>3

\* The start of a call passes nothing.
LEMMA GuardStart ==
  ASSUME TypeInv, AloneInv, GuardInv, Shape, NEW c \in Calls, Checks(c) \/ Fails(c) \/ Begins(c)
  PROVE  GuardInv'
<1>1. UNCHANGED <<impl, ignorePolicies, sent>> /\ Unjudged
  BY DEF Shape, Checks, Fails, Begins
<1>2. /\ \A d \in Calls, q \in Positions : d # c => (Guarded(d, q)' <=> Guarded(d, q))
      /\ \A q \in Positions : Guarded(c, q) => Guarded(c, q)'
      /\ \A q \in Wrap(c) : q \in Positions
  BY <1>1, KeptAll
<1>3. Top(c) \in Levels /\ thread[c][Top(c)].at \in {"idle", "checked"}
  BY Wrappers DEF TypeInv, Checks, Fails, Begins, Idle, Main
<1> PICK l \in Levels : l = Top(c)
  BY <1>3
<1>4. CASE Checks(c)
  <2>1. Only(c, l, At("checked", 0, Null))
    BY <1>4 DEF Checks
  <2>2. \A d \in Calls, k \in Levels : d # c => thread'[d][k] = thread[d][k]
    BY <2>1 DEF Only
  <2>3. \A o \in Calls : Main(o).at = "done" => thread'[o][Top(o)] = thread[o][Top(o)]
    <3>1. \A o \in Calls : Top(o) \in Levels
      BY Wrappers DEF TypeInv
    <3>2. QED
      BY <3>1, DoneStays DEF Main
  <2>4. ASSUME NEW k \in Levels
        PROVE  Passed(c, k)'
    <3>1. CASE k = l
      BY <1>1, <1>3, <2>1, <3>1, PassedAt
    <3>2. CASE k # l
      <4>1. thread'[c][k] = thread[c][k] /\ Passed(c, k)
        BY <1>3, <2>1, <3>2 DEF Only, GuardInv
      <4>2. QED
        BY <1>1, <1>2, <2>3, <4>1, PassedKept
    <3>3. QED
      BY <3>1, <3>2
  <2>5. c \notin sent'
    BY <1>1, <1>3 DEF GuardInv, SentGuarded, Main
  <2>6. SentGuarded(c)'
    BY <2>5 DEF SentGuarded
  <2>7. QED
    BY <1>1, <1>2, <2>2, <2>4, <2>6, GuardKeep
<1>5. CASE Fails(c)
  <2>1. PICK out \in Out : ~IsValue(out) /\ Only(c, l, At("done", 0, out))
    BY <1>5 DEF Fails
  <2>2. Passed(c, l)'
    BY <1>1, <1>3, <2>1, PassedAt DEF Base
  <2>3. QED
    BY <1>1, <1>2, <1>3, <2>1, <2>2, GuardOnly, ThreadFields
<1>6. CASE Begins(c)
  <2>1. PICK n : n = Len(WrappersOf(c))
    OBVIOUS
  <2>2. Only(c, l, At("down", n, Null))
    BY <1>6, <2>1 DEF Begins
  <2>3. PreGuarded(c, n)'
    <3>1. PreGuarded(c, n)
      BY <1>3, <2>1, Numbers DEF PreGuarded, Wrap
    <3>2. QED
      BY <1>1, <1>2, <3>1, GuardsKept
  <2>4. objectOf[c] # None => Main(objectOf[c])'.at = "done" /\ IsValue(Main(objectOf[c])'.out)
    BY <1>6, ObjectStays DEF Begins
  <2>5. Passed(c, l)'
    BY <1>1, <1>3, <2>2, <2>3, <2>4, PassedAt
  <2>6. QED
    BY <1>1, <1>2, <1>3, <2>2, <2>5, GuardOnly, ThreadFields
<1>7. QED
  BY <1>4, <1>5, <1>6

\* On the way down: the policy of the wrapper allowed, or it has none to check.
LEMMA GuardDown ==
  ASSUME TypeInv, AloneInv, GuardInv, Shape, NEW c \in Calls, NEW l \in Levels, Descends(c, l) \/ Admits(c, l)
  PROVE  GuardInv'
<1>1. UNCHANGED <<impl, ignorePolicies, sent>> /\ DownAt(c, l)
  BY DEF Shape, Descends, Admits
<1>2. PICK p \in Wrap(c) : p = thread[c][l].pos
  BY <1>1 DEF DownAt
<1>3. Only(c, l, At("down", p - 1, Null)) /\ thread[c][l].at = "down"
  BY <1>1, <1>2 DEF Descends, Admits, DownAt
<1>4. /\ \A d \in Calls, q \in Positions : d # c => (Guarded(d, q)' <=> Guarded(d, q))
      /\ \A q \in Positions : Guarded(c, q) => Guarded(c, q)'
      /\ \A q \in Wrap(c) : q \in Positions
  BY <1>1, KeptAll DEF Descends, Admits
<1>5. PreGuarded(c, p) /\ (objectOf[c] # None => Main(objectOf[c]).at = "done" /\ IsValue(Main(objectOf[c]).out))
  BY <1>2, <1>3 DEF GuardInv, Passed
<1>6. ignorePolicies \/ ~Pre(c, p) \/ Guarded(c, p)'
  BY <1>2 DEF Descends, Admits
<1>7. PreGuarded(c, p - 1)'
  <2>1. Wrap(c)' = Wrap(c) /\ \A q \in Wrap(c) : (Pre(c, q)' <=> Pre(c, q))
    BY <1>1, Same DEF Wrap
  <2>2. \A q \in Wrap(c) : q \in Nat /\ (q > p - 1 <=> (q = p \/ q > p))
    BY <1>2 DEF Wrap
  <2>3. QED
    BY <1>1, <1>4, <1>5, <1>6, <2>1, <2>2 DEF PreGuarded
<1>8. objectOf[c] # None => Main(objectOf[c])'.at = "done" /\ IsValue(Main(objectOf[c])'.out)
  BY <1>5, ObjectStays
<1>9. Passed(c, l)'
  BY <1>1, <1>3, <1>7, <1>8, PassedAt
<1>10. QED
  BY <1>1, <1>3, <1>4, <1>9, GuardOnly, ThreadFields

\* The value that a thread turns back with passed every policy on the way down.
LEMMA GuardTurn ==
  ASSUME TypeInv, AloneInv, GuardInv, Shape, NEW c \in Calls, NEW l \in Levels, Turns(c, l) \/ Receives(c, l)
  PROVE  GuardInv'
<1>1. UNCHANGED <<impl, ignorePolicies, sent>> /\ Unjudged
  BY DEF Shape, Turns, Receives
<1>2. /\ \A d \in Calls, q \in Positions : d # c => (Guarded(d, q)' <=> Guarded(d, q))
      /\ \A q \in Positions : Guarded(c, q) => Guarded(c, q)'
      /\ \A q \in Wrap(c) : q \in Positions /\ q \in Nat /\ q >= 1
  BY <1>1, KeptAll DEF Wrap
<1>3. PICK p : p = thread[c][l].pos
  OBVIOUS
<1>4. thread[c][l].at \in {"down", "sent"} /\ p \in Nat /\ Placed(c, l)
  BY <1>3, Numbers DEF Turns, Receives, TypeInv
<1>5. PreGuarded(c, p) /\ (objectOf[c] # None => Main(objectOf[c]).at = "done" /\ IsValue(Main(objectOf[c]).out))
  BY <1>3, <1>4 DEF GuardInv, Passed
<1>6. \E out \in Out :
         /\ Only(c, l, At("up", p + 1, out))
         /\ Base(out) => /\ p = 0 \/ (p = 1 /\ 1 \in Wrap(c) /\ WrappersOf(c)[1].name = "localResolver")
                         /\ objectOf[c] # None /\ ResolverOf(c) = "default" /\ "parent" \in out.from =>
                               "parent" \in Main(objectOf[c]).out.from
  <2>1. CASE Turns(c, l)
    BY <1>3, <2>1 DEF Turns
  <2>2. CASE Receives(c, l)
    <3>1. p = 0
      BY <1>3, <1>4, <2>2 DEF Receives, Placed
    <3>2. PICK out \in Out : "parent" \notin out.from /\ Only(c, l, At("up", 1, out))
      BY <2>2 DEF Receives
    <3>3. p + 1 = 1
      BY <3>1
    <3>4. QED
      BY <3>1, <3>2, <3>3
  <2>3. QED
    BY <2>1, <2>2
<1>7. PICK out \in Out :
         /\ Only(c, l, At("up", p + 1, out))
         /\ Base(out) => /\ p = 0 \/ (p = 1 /\ 1 \in Wrap(c) /\ WrappersOf(c)[1].name = "localResolver")
                         /\ objectOf[c] # None /\ ResolverOf(c) = "default" /\ "parent" \in out.from =>
                               "parent" \in Main(objectOf[c]).out.from
  BY <1>6
<1>8. ASSUME Base(out)
      PROVE  PreGuarded(c, 0)' /\ PostGuarded(c, p + 1)'
  <2>1. p = 0 \/ (p = 1 /\ ~Pre(c, 1) /\ ~Post(c, 1))
    BY <1>7, <1>8 DEF Pre, Post, IsPolicy, PolicyNames
  <2>2. PreGuarded(c, 0) /\ PostGuarded(c, p + 1)
    <3>1. CASE p = 0
      BY <1>2, <1>5, <3>1 DEF PreGuarded, PostGuarded
    <3>2. CASE p = 1 /\ ~Pre(c, 1) /\ ~Post(c, 1)
      <4>1. \A q \in Wrap(c) : q > 0 => q = 1 \/ q > p
        BY <1>2, <3>2
      <4>2. \A q \in Wrap(c) : q < p + 1 => q = 1
        BY <1>2, <3>2
      <4>3. QED
        BY <1>5, <3>2, <4>1, <4>2 DEF PreGuarded, PostGuarded
    <3>3. QED
      BY <2>1, <3>1, <3>2
  <2>3. QED
    BY <1>1, <1>2, <2>2, GuardsKept
<1>9. ASSUME objectOf[c] # None, "parent" \in Main(objectOf[c]).out.from
      PROVE  Main(objectOf[c])'.at = "done" /\ Base(Main(objectOf[c])'.out)
  BY <1>5, <1>9, ObjectStays DEF Base, BaseData
<1>10. Passed(c, l)'
  BY <1>1, <1>7, <1>8, <1>9, PassedAt
<1>11. QED
  BY <1>1, <1>2, <1>7, <1>10, GuardOnly, ThreadFields

\* On the way up: the policy of the wrapper allowed, or it has none to check.
LEMMA GuardUp ==
  ASSUME TypeInv, AloneInv, GuardInv, Shape, NEW c \in Calls, NEW l \in Levels,
         Ascends(c, l) \/ AdmitsAnswer(c, l) \/ Finishes(c, l)
  PROVE  GuardInv'
<1>1. UNCHANGED <<impl, ignorePolicies, sent>> /\ thread[c][l].at = "up"
  BY DEF Shape, Ascends, AdmitsAnswer, Finishes, UpAt
<1>2. /\ \A d \in Calls, q \in Positions : d # c => (Guarded(d, q)' <=> Guarded(d, q))
      /\ \A q \in Positions : Guarded(c, q) => Guarded(c, q)'
      /\ \A q \in Wrap(c) : q \in Positions /\ q \in Nat
  BY <1>1, KeptAll DEF Ascends, AdmitsAnswer, Finishes, Wrap
<1>3. PICK p : p = thread[c][l].pos
  OBVIOUS
<1>4. thread[c][l].out \in Out /\ p \in Nat
  BY <1>3, Threads, Numbers DEF TypeInv
<1>5. ASSUME Base(thread[c][l].out)
      PROVE  /\ PreGuarded(c, 0)' /\ PostGuarded(c, p) /\ PostGuarded(c, p)'
             /\ objectOf[c] # None /\ ResolverOf(c) = "default" /\ "parent" \in thread[c][l].out.from =>
                   Main(objectOf[c])'.at = "done" /\ Base(Main(objectOf[c])'.out)
  <2>1. PreGuarded(c, 0) /\ PostGuarded(c, p) /\ OfObject(c, thread[c][l].out)
    BY <1>1, <1>3, <1>5 DEF GuardInv, Passed
  <2>2. PreGuarded(c, 0)' /\ PostGuarded(c, p)'
    BY <1>1, <1>2, <2>1, GuardsKept
  <2>3. QED
    BY <2>1, <2>2, ObjectStays DEF OfObject
<1>6. CASE Finishes(c, l)
  <2>1. p = l /\ Only(c, l, At("done", l, thread[c][l].out))
    BY <1>3, <1>6 DEF Finishes
  <2>2. PICK out \in Out : out = thread[c][l].out
    BY <1>4
  <2>3. Only(c, l, At("done", l, out))
    BY <2>1, <2>2
  <2>4. Passed(c, l)'
    BY <1>1, <1>5, <2>1, <2>2, <2>3, PassedAt
  <2>5. QED
    BY <1>1, <1>2, <2>3, <2>4, GuardOnly, ThreadFields
<1>7. CASE Ascends(c, l) \/ AdmitsAnswer(c, l)
  <2>1. /\ p \in Wrap(c)
        /\ \E out \in Out : /\ Only(c, l, At("up", p + 1, out))
                            /\ Base(out) => out = thread[c][l].out /\ (ignorePolicies \/ ~Post(c, p) \/ Guarded(c, p)')
    BY <1>3, <1>4, <1>7 DEF Ascends, AdmitsAnswer, UpAt
  <2>2. PICK out \in Out : /\ Only(c, l, At("up", p + 1, out))
                           /\ Base(out) => out = thread[c][l].out /\ (ignorePolicies \/ ~Post(c, p) \/ Guarded(c, p)')
    BY <2>1
  <2>3. ASSUME Base(out)
        PROVE  PostGuarded(c, p + 1)'
    <3>1. Wrap(c)' = Wrap(c) /\ \A q \in Wrap(c) : (Post(c, q)' <=> Post(c, q))
      BY <1>1, Same DEF Wrap
    <3>2. \A q \in Wrap(c) : q < p + 1 => q = p \/ q < p
      BY <1>2, <1>4
    <3>3. PostGuarded(c, p)' /\ (ignorePolicies \/ ~Post(c, p) \/ Guarded(c, p)')
      BY <1>5, <2>2, <2>3
    <3>4. QED
      BY <1>1, <2>1, <3>1, <3>2, <3>3 DEF PostGuarded
  <2>4. Passed(c, l)'
    BY <1>1, <1>5, <2>2, <2>3, PassedAt
  <2>5. QED
    BY <1>1, <1>2, <2>2, <2>4, GuardOnly, ThreadFields
<1>8. QED
  BY <1>6, <1>7

\* The request of a thread passed every policy on the way down.
LEMMA GuardSend ==
  ASSUME TypeInv, AloneInv, GuardInv, Shape, NEW c \in Calls, NEW l \in Levels, Sends(c, l)
  PROVE  GuardInv'
<1>1. /\ UNCHANGED <<impl, ignorePolicies>> /\ Unjudged /\ sent' = sent \cup {c}
      /\ thread[c][l].at = "down" /\ thread[c][l].pos = 0 /\ Only(c, l, At("sent", 0, Null))
  BY DEF Shape, Sends
<1>2. /\ \A d \in Calls, q \in Positions : d # c => (Guarded(d, q)' <=> Guarded(d, q))
      /\ \A q \in Positions : Guarded(c, q) => Guarded(c, q)'
      /\ \A q \in Wrap(c) : q \in Positions
  BY <1>1, KeptAll
<1>3. PreGuarded(c, 0) /\ (objectOf[c] # None => Main(objectOf[c]).at = "done" /\ IsValue(Main(objectOf[c]).out))
  BY <1>1 DEF GuardInv, Passed
<1>4. PreGuarded(c, 0)'
  BY <1>1, <1>2, <1>3, GuardsKept
<1>5. \A o \in Calls : Main(o).at = "done" => thread'[o][Top(o)] = thread[o][Top(o)]
  <2>1. \A o \in Calls : Top(o) \in Levels
    BY Wrappers DEF TypeInv
  <2>2. QED
    BY <2>1, DoneStays DEF Main
<1>6. ASSUME NEW k \in Levels
      PROVE  Passed(c, k)'
  <2>1. CASE k = l
    <3>1. objectOf[c] # None => Main(objectOf[c])'.at = "done" /\ IsValue(Main(objectOf[c])'.out)
      BY <1>3, ObjectStays
    <3>2. QED
      BY <1>1, <1>4, <2>1, <3>1, PassedAt
  <2>2. CASE k # l
    <3>1. thread'[c][k] = thread[c][k] /\ Passed(c, k)
      BY <1>1, <2>2 DEF Only, GuardInv
    <3>2. QED
      BY <1>1, <1>2, <1>5, <3>1, PassedKept
  <2>3. QED
    BY <2>1, <2>2
<1>7. \A k \in Levels : thread'[c][k].at # "down"
  <2>1. SUFFICES ASSUME NEW k \in Levels, k # l
                 PROVE  thread[c][k].at # "down"
    BY <1>1, ThreadFields DEF Only
  <2>2. CASE k < l
    BY <1>1, <2>2 DEF AloneInv, Alone, Idle
  <2>3. CASE l < k
    BY <1>1, <2>3, Outer DEF Idle
  <2>4. QED
    BY <2>1, <2>2, <2>3, Numbers
<1>8. Main(c)'.at \notin {"idle", "checked"}
  <2>1. Top(c)' = Top(c) /\ Top(c) \in Levels /\ l <= Top(c) /\ l \in Nat /\ Top(c) \in Nat
    BY <1>1, Same, Standing, Numbers
  <2>2. CASE l = Top(c)
    BY <1>1, <2>1, <2>2, ThreadFields DEF Main, Only
  <2>3. CASE l < Top(c)
    <3>1. thread[c][Top(c)].at \in {"up", "done"}
      BY <1>1, <2>1, <2>3, Outer DEF Idle
    <3>2. thread'[c][Top(c)] = thread[c][Top(c)]
      BY <1>1, <2>1, <2>3 DEF Only
    <3>3. QED
      BY <2>1, <3>1, <3>2 DEF Main
  <2>4. QED
    BY <2>1, <2>2, <2>3
<1>9. SentGuarded(c)'
  BY <1>4, <1>7, <1>8 DEF SentGuarded, PreGuarded
<1>10. \A d \in Calls, k \in Levels : d # c => thread'[d][k] = thread[d][k]
  BY <1>1 DEF Only
<1>11. QED
  BY <1>1, <1>2, <1>6, <1>9, <1>10, GuardKeep

\* A refusal loses the policies of its wrapper: no other thread relies on them.
LEMMA GuardRefuse ==
  ASSUME TypeInv, AloneInv, GuardInv, Shape, NEW c \in Calls, NEW l \in Levels, Refuses(c, l)
  PROVE  GuardInv'
<1>1. UNCHANGED <<impl, ignorePolicies, sent>> /\ (DownAt(c, l) \/ UpAt(c, l))
  BY DEF Shape, Refuses
<1>2. PICK p \in Wrap(c) : p = thread[c][l].pos
  BY <1>1 DEF DownAt, UpAt
<1>3. /\ Judged(c, p) /\ (thread[c][l].at = "up" => Post(c, p))
      /\ \E out \in Out : ~IsValue(out) /\ Only(c, l, At("up", p + 1, out))
  BY <1>2 DEF Refuses
<1>4. PICK out \in Out : ~IsValue(out) /\ Only(c, l, At("up", p + 1, out))
  BY <1>3
<1>5. \A q \in Wrap(c) : q \in Positions /\ q \in Nat
  BY Wrappers DEF TypeInv, Wrap
<1>6. /\ \A d \in Calls, q \in Positions : d # c => (Guarded(d, q)' <=> Guarded(d, q))
      /\ \A q \in Positions : q # p => (Guarded(c, q)' <=> Guarded(c, q))
  BY <1>1, <1>3, <1>5, KeptOthers
<1>7. \A o \in Calls : Main(o).at = "done" => thread'[o][Top(o)] = thread[o][Top(o)]
  <2>1. \A o \in Calls : Top(o) \in Levels
    BY Wrappers DEF TypeInv
  <2>2. QED
    BY <2>1, DoneStays DEF Main
<1>8. thread[c][l].at \in {"down", "up"} /\ ~Idle(c, l)
  BY <1>1 DEF DownAt, UpAt, Idle
<1>9. ASSUME NEW k \in Levels, k # l
      PROVE  Passed(c, k)'
  <2>1. thread'[c][k] = thread[c][k] /\ Passed(c, k) /\ k \in Nat /\ l \in Nat
    BY <1>4, <1>9, Numbers DEF Only, GuardInv
  <2>2. CASE Idle(c, k) \/ (thread[c][k].at \in {"idle", "up", "done"} /\ ~Carries(c, k))
    BY <1>1, <1>7, <2>1, <2>2, PassedKept DEF Idle, Carries
  <2>3. CASE l < k
    BY <1>8, <2>2, <2>3, Outer
  <2>4. CASE k < l /\ thread[c][l].at = "down"
    <3>1. Idle(c, k)
      BY <2>4 DEF AloneInv, Alone
    <3>2. QED
      BY <2>2, <3>1
  <2>5. CASE k < l /\ thread[c][l].at = "up" /\ ~Idle(c, k)
    <3>1. ~(p <= k)
      BY <1>2, <2>5 DEF AloneInv, Alone
    <3>2. Reach(c, k) <= k /\ Reach(c, k) \in Nat
      BY <2>1, ReachBound DEF TypeInv
    <3>3. \A q \in Wrap(c) : q < Reach(c, k) => q # p
      BY <1>5, <2>1, <3>1, <3>2
    <3>4. \A q \in Wrap(c) : Pre(c, q) => q # p
      BY <1>3, <2>5 DEF Pre, Post
    <3>5. QED
      BY <1>1, <1>5, <1>6, <1>7, <2>1, <3>3, <3>4, PassedKept
  <2>6. QED
    BY <1>8, <1>9, <2>1, <2>2, <2>3, <2>4, <2>5
<1>10. Passed(c, l)'
  BY <1>1, <1>4, PassedAt DEF Base
<1>11. SentGuarded(c)'
  <2>1. SUFFICES ASSUME c \in sent
                 PROVE  PreGuarded(c, 0)' /\ Main(c)'.at \notin {"idle", "checked"}
                        /\ \A k \in Levels : thread'[c][k].at # "down"
    BY <1>1 DEF SentGuarded
  <2>2. PreGuarded(c, 0) /\ Main(c).at \notin {"idle", "checked"} /\ \A k \in Levels : thread[c][k].at # "down"
    BY <2>1 DEF GuardInv, SentGuarded
  <2>3. \A q \in Wrap(c) : Pre(c, q) => q # p
    BY <1>3, <1>8, <2>2 DEF Pre, Post
  <2>4. PreGuarded(c, 0)'
    BY <1>1, <1>5, <1>6, <2>2, <2>3, GuardsKept
  <2>5. Top(c)' = Top(c) /\ Top(c) \in Levels
    BY <1>1, Same, Wrappers DEF TypeInv
  <2>6. \A k \in Levels : thread'[c][k].at = "up" \/ thread'[c][k] = thread[c][k]
    BY <1>4, ThreadFields DEF Only
  <2>7. QED
    BY <2>2, <2>4, <2>5, <2>6 DEF Main
<1>12. \A d \in Calls, k \in Levels : d # c => thread'[d][k] = thread[d][k]
  BY <1>4 DEF Only
<1>13. QED
  BY <1>1, <1>6, <1>9, <1>10, <1>11, <1>12, GuardKeep

\* The thread whose promise is dropped passed what the one that dropped it has.
LEMMA GuardDrop ==
  ASSUME TypeInv, AloneInv, GuardInv, Shape, NEW c \in Calls, NEW l \in Levels, DropsPromise(c, l)
  PROVE  GuardInv'
<1>1. /\ UNCHANGED <<impl, ignorePolicies, sent>> /\ Unjudged /\ thread[c][l].at = "down"
      /\ thread[c][l].pos \in Wrap(c)
  BY DEF Shape, DropsPromise, DownAt
<1>2. PICK p \in Wrap(c) : p = thread[c][l].pos
  BY <1>1
<1>3. /\ Drops(c, p) /\ thread'[c][p] = At("down", p - 1, Null)
      /\ \E out \in Out : ~Base(out) /\ thread'[c][l] = At("up", p + 1, out)
      /\ \A d \in Calls, k \in Levels : d # c \/ (k # l /\ k # p) => thread'[d][k] = thread[d][k]
  BY <1>2 DEF DropsPromise
<1>4. PICK out \in Out : ~Base(out) /\ thread'[c][l] = At("up", p + 1, out)
  BY <1>3
<1>5. /\ \A d \in Calls, q \in Positions : d # c => (Guarded(d, q)' <=> Guarded(d, q))
      /\ \A q \in Positions : Guarded(c, q) => Guarded(c, q)'
      /\ \A q \in Wrap(c) : q \in Positions /\ q \in Nat
  BY <1>1, KeptAll DEF Wrap
<1>6. \A o \in Calls : Main(o).at = "done" => thread'[o][Top(o)] = thread[o][Top(o)]
  <2>1. \A o \in Calls : Top(o) \in Levels
    BY Wrappers DEF TypeInv
  <2>2. QED
    BY <2>1, DoneStays DEF Main
<1>7. PreGuarded(c, p) /\ (objectOf[c] # None => Main(objectOf[c]).at = "done" /\ IsValue(Main(objectOf[c]).out))
  BY <1>1, <1>2 DEF GuardInv, Passed
<1>8. PreGuarded(c, p - 1)'
  <2>1. Wrap(c)' = Wrap(c) /\ \A q \in Wrap(c) : (Pre(c, q)' <=> Pre(c, q))
    BY <1>1, Same DEF Wrap
  <2>2. ~Pre(c, p)
    BY <1>3 DEF Drops, Pre, IsPolicy, PolicyNames
  <2>3. \A q \in Wrap(c) : q > p - 1 => q = p \/ q > p
    BY <1>5
  <2>4. QED
    BY <1>1, <1>5, <1>7, <2>1, <2>2, <2>3 DEF PreGuarded
<1>9. objectOf[c] # None => Main(objectOf[c])'.at = "done" /\ IsValue(Main(objectOf[c])'.out)
  BY <1>7, ObjectStays
<1>10. p < l /\ p \in Levels /\ p # l
  BY <1>1, <1>2, Standing, Numbers DEF Levels
<1>11. Passed(c, p)'
  <2>1. thread'[c][p].at = "down" /\ thread'[c][p].pos = p - 1
    BY <1>3, ThreadFields
  <2>2. QED
    BY <1>8, <1>9, <2>1 DEF Passed, PreGuarded
<1>12. Passed(c, l)'
  <2>1. thread'[c][l].at = "up" /\ thread'[c][l].out = out
    BY <1>4, ThreadFields
  <2>2. QED
    BY <1>4, <2>1 DEF Passed, Base, IsValue
<1>13. ASSUME NEW k \in Levels, k # l, k # p
       PROVE  Passed(c, k)'
  <2>1. thread'[c][k] = thread[c][k] /\ Passed(c, k)
    BY <1>3, <1>13 DEF GuardInv
  <2>2. QED
    BY <1>1, <1>5, <1>6, <2>1, PassedKept
<1>14. c \notin sent'
  BY <1>1 DEF GuardInv, SentGuarded
<1>15. SentGuarded(c)'
  BY <1>14 DEF SentGuarded
<1>16. \A d \in Calls, k \in Levels : d # c => thread'[d][k] = thread[d][k]
  BY <1>3
<1>17. QED
  BY <1>1, <1>5, <1>11, <1>12, <1>13, <1>15, <1>16, GuardKeep

\* Every step keeps the guards.
LEMMA GuardStep ==
  ASSUME TypeInv, AloneInv, GuardInv, Shape
  PROVE  GuardInv'
<1>1. ASSUME NEW c \in Calls, NEW l \in Levels, Moves(c, l)
      PROVE  GuardInv'
  BY <1>1, GuardDown, GuardTurn, GuardUp, GuardSend, GuardRefuse, GuardDrop DEF Moves
<1>2. QED
  BY <1>1, GuardStart DEF Shape

\* So does a step that changes nothing.
LEMMA GuardStutter ==
  ASSUME TypeInv, GuardInv, UNCHANGED vars
  PROVE  GuardInv'
<1>1. UNCHANGED <<impl, ignorePolicies, thread, sent>> /\ Unjudged
  BY DEF vars, ghosts, Unjudged
<1>2. \A d \in Calls : Top(d)' = Top(d)
  BY <1>1, Same
<1>3. ASSUME NEW d \in Calls
      PROVE  (\A k \in Levels : Passed(d, k)') /\ SentGuarded(d)'
  <2>1. \A q \in Wrap(d) : Guarded(d, q)' <=> Guarded(d, q)
    BY <1>1, Kept, Wrappers DEF TypeInv
  <2>2. ASSUME NEW k \in Levels
        PROVE  Passed(d, k)'
    BY <1>1, <2>1, PassedKept DEF GuardInv
  <2>3. PreGuarded(d, 0) => PreGuarded(d, 0)'
    BY <1>1, <2>1, GuardsKept
  <2>4. SentGuarded(d)'
    BY <1>1, <1>2, <2>3 DEF GuardInv, SentGuarded, Main
  <2>5. QED
    BY <2>2, <2>4
<1>4. QED
  BY <1>3 DEF GuardInv

\* The invariant of the guards, with what it rests on.
LEMMA GuardInvariant == Spec => [](TypeInv /\ AloneInv /\ GuardInv)
<1>1. Init => TypeInv /\ AloneInv /\ GuardInv
  BY InitInv
<1>2. TypeInv /\ AloneInv /\ GuardInv /\ [Next]_vars => TypeInv' /\ AloneInv' /\ GuardInv'
  BY Shapes, TypeStep, TypeStutter, AloneStep, AloneStutter, GuardStep, GuardStutter DEF Next
<1>3. QED
  BY <1>1, <1>2, PTL DEF Spec

\* An answer with data of the resolver has passed the policies of its call.
LEMMA AnswerGuarded ==
  ASSUME TypeInv, GuardInv, NEW d \in Calls, Main(d).at = "done", Base(Main(d).out)
  PROVE  GuardedAll(d) /\ OfObject(d, Main(d).out)
<1>1. Top(d) \in Levels /\ Passed(d, Top(d))
  BY Wrappers DEF TypeInv, GuardInv
<1>2. PreGuarded(d, 0) /\ PostGuarded(d, Top(d)) /\ OfObject(d, Main(d).out)
  BY <1>1 DEF Passed, Main
<1>3. \A q \in 1..Len(WrappersOf(d)) : q \in Wrap(d) /\ q > 0 /\ q < Top(d)
  BY <1>1, Numbers DEF Wrap
<1>4. QED
  BY <1>2, <1>3 DEF PreGuarded, PostGuarded, GuardedAll, Pre, Post

\* No order of wrappers, error handler, merge or interleaving lets a value of the resolver
\* past a policy of the field or of its object (policy.ts, policies.ts).
THEOREM GuardedAnswersHolds == Spec => []GuardedAnswers
<1>1. TypeInv /\ AloneInv /\ GuardInv => GuardedAnswers
  <2>1. SUFFICES ASSUME TypeInv, GuardInv, NEW c \in Calls, Main(c).at = "done", Base(Main(c).out)
                 PROVE  /\ GuardedAll(c)
                        /\ objectOf[c] # None /\ ResolverOf(c) = "default" /\ "parent" \in Main(c).out.from
                              => GuardedAll(objectOf[c])
    BY DEF GuardedAnswers, Base
  <2>2. objectOf[c] # None => objectOf[c] \in Calls
    BY CallsAssumption
  <2>3. QED
    BY <2>1, <2>2, AnswerGuarded DEF OfObject
<1>2. QED
  BY <1>1, GuardInvariant, PTL

\* A request goes to an upstream only after the policies that are checked before the
\* resolver, also from a thread that nobody awaits (rest.ts, gql.ts, local-resolver.ts).
THEOREM RequestAuthorizedHolds == Spec => []RequestAuthorized
<1>1. TypeInv /\ AloneInv /\ GuardInv => RequestAuthorized
  <2>1. SUFFICES ASSUME TypeInv, GuardInv, NEW c \in sent, ~ignorePolicies,
                        NEW p \in 1..Len(WrappersOf(c)), IsPolicy(WrappersOf(c)[p]), ~WrappersOf(c)[p].postResolve
                 PROVE  Guarded(c, p)
    BY DEF RequestAuthorized
  <2>2. c \in Calls
    BY <2>1 DEF TypeInv, TypeOK
  <2>3. PreGuarded(c, 0)
    BY <2>1, <2>2 DEF GuardInv, SentGuarded
  <2>4. p \in Wrap(c) /\ p > 0 /\ Pre(c, p)
    BY <2>1 DEF Wrap, Pre
  <2>5. QED
    BY <2>1, <2>3, <2>4 DEF PreGuarded
<1>2. QED
  BY <1>1, GuardInvariant, PTL

----------------------------------------------------------------------------
(* Refusals are reported. *)

\* The claims of one thread about the policies that were evaluated.
LEMMA ReportedKept ==
  ASSUME TypeInv, UNCHANGED <<impl, ignorePolicies>>, NEW d \in Calls, NEW k \in Levels, Reported(d, k),
         thread'[d][k] = thread[d][k],
         \A q \in validated'[d] : q \in validated[d] /\ (Guarded(d, q) => Guarded(d, q)'),
         \A j \in Levels : j < k => (Idle(d, j)' <=> Idle(d, j))
  PROVE  Reported(d, k)'
<1>1. Wrap(d)' = Wrap(d) /\ \A q \in Wrap(d) : Excuses(d, q)' <=> Excuses(d, q)
  BY Same DEF Wrap
<1>2. \A x, y : Excused(d, x, y)' <=> Excused(d, x, y)
  BY <1>1 DEF Excused
<1>3. Reach(d, k)' = Reach(d, k)
  BY DEF Reach
<1>4. PICK r : r = Reach(d, k)
  OBVIOUS
<1>5. QED
  BY <1>1, <1>3, <1>4 DEF Reported, Excused, Reach

\* A step of one call leaves what the others reported.
LEMMA ReportKeep ==
  ASSUME TypeInv, ReportInv, UNCHANGED <<impl, ignorePolicies>>, NEW c \in Calls,
         \A d \in Calls, k \in Levels : d # c => thread'[d][k] = thread[d][k],
         \A d \in Calls : d # c => validated'[d] = validated[d],
         \A d \in Calls, q \in Positions : d # c => (Guarded(d, q)' <=> Guarded(d, q)),
         \A k \in Levels : Reported(c, k)', Validations(c)'
  PROVE  ReportInv'
<1>1. ASSUME NEW d \in Calls, d # c
      PROVE  (\A k \in Levels : Reported(d, k)') /\ Validations(d)'
  <2>1. Validations(d) /\ validated'[d] = validated[d] /\ \A k \in Levels : Reported(d, k)
    BY <1>1 DEF ReportInv
  <2>2. \A q \in validated[d] : q \in Positions
    BY DEF TypeInv, TypeOK
  <2>3. \A k \in Levels : thread'[d][k] = thread[d][k] /\ (Idle(d, k)' <=> Idle(d, k))
    BY <1>1 DEF Idle
  <2>4. \A k \in Levels : Reported(d, k)'
    BY <1>1, <2>1, <2>2, <2>3, ReportedKept
  <2>5. Wrap(d)' = Wrap(d) /\ WrappersOf(d)' = WrappersOf(d) /\ Main(d)' = Main(d)
    BY <2>3, Same, Wrappers DEF Main, TypeInv
  <2>6. Validations(d)'
    BY <2>1, <2>5 DEF Validations
  <2>7. QED
    BY <2>4, <2>6
<1>2. QED
  BY <1>1 DEF ReportInv

\* A step changes no excuse.
LEMMA ExcusedSame ==
  ASSUME UNCHANGED <<impl, ignorePolicies>>, NEW c \in Calls, NEW x, NEW y
  PROVE  Excused(c, x, y)' <=> Excused(c, x, y)
<1>1. Wrap(c)' = Wrap(c) /\ \A q \in Wrap(c) : Excuses(c, q)' <=> Excuses(c, q)
  BY Same DEF Wrap
<1>2. QED
  BY <1>1 DEF Excused

\* What a thread must have reported where a step puts it.
LEMMA ReportedAt ==
  ASSUME TypeInv, UNCHANGED <<impl, ignorePolicies>>,
         NEW c \in Calls, NEW l \in Levels, NEW at, NEW pos, NEW out, thread'[c][l] = At(at, pos, out),
         NEW r, r = IF at = "up" THEN pos ELSE l,
         at \in {"down", "sent"} => \A q \in validated'[c] : q < l => q > pos /\ Guarded(c, q)',
         at \in {"up", "done"} => \A q \in validated'[c] : q < l /\ q >= r => Guarded(c, q)',
         at \in {"up", "done"} /\ IsValue(out) =>
            /\ \A q \in validated'[c] : q < r /\ ~Guarded(c, q)' => Excused(c, q + 1, r - 1)
            /\ \A k \in Levels : k < r /\ k < l /\ ~Idle(c, k)' => Excused(c, k, r - 1)
  PROVE  Reported(c, l)'
<1>1. thread'[c][l].at = at /\ thread'[c][l].pos = pos /\ thread'[c][l].out = out
  BY ThreadFields
<1>2. Wrap(c)' = Wrap(c) /\ \A q \in Wrap(c) : Excuses(c, q)' <=> Excuses(c, q)
  BY Same DEF Wrap
<1>3. at \in {"up", "done"} /\ IsValue(out) =>
         /\ \A q \in validated'[c] : q < r /\ ~Guarded(c, q)' => Excused(c, q + 1, r - 1)'
         /\ \A k \in Levels : k < r /\ k < l /\ ~Idle(c, k)' => Excused(c, k, r - 1)'
  BY <1>2 DEF Excused
<1>4. Reach(c, l)' = r
  BY <1>1 DEF Reach
<1>5. QED
  BY <1>1, <1>3, <1>4 DEF Reported, Reach, Excused, IsValue

\* The threads above one that evaluates a policy, or drops a promise, have an excuse.
LEMMA ReportedOuter ==
  ASSUME TypeInv, AloneInv, ReportInv, UNCHANGED <<impl, ignorePolicies>>,
         NEW c \in Calls, NEW l \in Levels, NEW k \in Levels, l < k, ~Idle(c, l), thread'[c][k] = thread[c][k],
         NEW p \in Wrap(c), p < l, \A q \in validated'[c] : q = p \/ q \in validated[c],
         \A q \in Positions : q # p /\ Guarded(c, q) => Guarded(c, q)',
         \A j \in Levels : j < k /\ j # p => (Idle(c, j)' <=> Idle(c, j))
  PROVE  Reported(c, k)'
<1>1. PICK r : r = Reach(c, k)
  OBVIOUS
<1>2. /\ thread[c][k].at \in {"idle", "up", "done"} /\ l < r
      /\ r \in Nat /\ l \in Nat /\ k \in Nat /\ p \in Nat /\ Reported(c, k)
  <2>1. Reach(c, k) \in Nat /\ l \in Nat /\ k \in Nat
    BY Numbers DEF Reach
  <2>2. QED
    BY <1>1, <2>1, Outer DEF Wrap, ReportInv
<1>3. \A q \in validated'[c] : q # p => q \in validated[c] /\ q \in Positions /\ q \in Nat
  BY DEF TypeInv, TypeOK, Positions
<1>4. PICK at, pos, out : thread[c][k] = At(at, pos, out)
  BY Threads DEF TypeInv, Thread, At
<1>5. thread[c][k].at = at /\ thread[c][k].pos = pos /\ thread[c][k].out = out
  BY <1>4, ThreadFields
<1>6. ASSUME at \in {"up", "done"}
      PROVE  r = (IF at = "up" THEN pos ELSE k)
  BY <1>1, <1>5, <1>6 DEF Reach
<1>7. ASSUME at \in {"up", "done"}
      PROVE  /\ \A q \in validated[c] : q < k /\ q >= r => Guarded(c, q)
             /\ IsValue(out) =>
                   /\ \A q \in validated[c] : q < r /\ ~Guarded(c, q) => Excused(c, q + 1, r - 1)
                   /\ \A j \in Levels : j < r /\ j < k /\ ~Idle(c, j) => Excused(c, j, r - 1)
  BY <1>1, <1>2, <1>5, <1>7 DEF Reported
<1>8. ASSUME at \in {"up", "done"}
      PROVE  \A q \in validated'[c] : q < k /\ q >= r => Guarded(c, q)'
  BY <1>2, <1>3, <1>7, <1>8
<1>9. ASSUME at \in {"up", "done"}, IsValue(out)
      PROVE  /\ \A q \in validated'[c] : q < r /\ ~Guarded(c, q)' => Excused(c, q + 1, r - 1)
             /\ \A j \in Levels : j < r /\ j < k /\ ~Idle(c, j)' => Excused(c, j, r - 1)
  <2>1. Excused(c, l, r - 1)
    BY <1>2, <1>7, <1>9
  <2>2. Excused(c, p + 1, r - 1) /\ Excused(c, p, r - 1)
    <3>1. \A q \in Wrap(c) : l <= q => p + 1 <= q /\ p <= q
      BY <1>2 DEF Wrap
    <3>2. QED
      BY <2>1, <3>1 DEF Excused
  <2>3. \A q \in validated'[c] : q < r /\ ~Guarded(c, q)' => Excused(c, q + 1, r - 1)
    BY <1>3, <1>7, <1>9, <2>2
  <2>4. \A j \in Levels : j < r /\ j < k /\ ~Idle(c, j)' => Excused(c, j, r - 1)
    BY <1>7, <1>9, <2>2
  <2>5. QED
    BY <2>3, <2>4
<1>10. CASE at \in {"up", "done"}
  BY <1>4, <1>6, <1>8, <1>9, <1>10, ReportedAt
<1>11. CASE at = "idle"
  BY <1>4, <1>5, <1>11 DEF Reported
<1>12. QED
  BY <1>2, <1>5, <1>10, <1>11

\* A thread below a policy says nothing about it.
LEMMA ReportedInner ==
  ASSUME TypeInv, ReportInv, UNCHANGED <<impl, ignorePolicies>>,
         NEW c \in Calls, NEW k \in Levels, thread'[c][k] = thread[c][k],
         NEW p \in Wrap(c), k < p, \A q \in validated'[c] : q = p \/ q \in validated[c],
         \A q \in Positions : q # p /\ Guarded(c, q) => Guarded(c, q)',
         \A j \in Levels : j < k => (Idle(c, j)' <=> Idle(c, j))
  PROVE  Reported(c, k)'
<1>1. PICK r : r = Reach(c, k)
  OBVIOUS
<1>2. /\ r \in Nat /\ k \in Nat /\ p \in Nat /\ Reported(c, k)
      /\ thread[c][k].at \in {"up", "done"} => r <= k
  BY <1>1, Numbers DEF Wrap, ReportInv, Reach, TypeInv, Placed
<1>3. \A q \in validated'[c] : q < k => q \in validated[c] /\ q \in Positions /\ q \in Nat /\ q # p
  BY <1>2 DEF TypeInv, TypeOK, Positions
<1>4. PICK at, pos, out : thread[c][k] = At(at, pos, out)
  BY Threads DEF TypeInv, Thread, At
<1>5. thread[c][k].at = at /\ thread[c][k].pos = pos /\ thread[c][k].out = out
  BY <1>4, ThreadFields
<1>6. CASE at \in {"down", "sent"}
  <2>1. \A q \in validated[c] : q < k => q > pos /\ Guarded(c, q)
    BY <1>2, <1>5, <1>6 DEF Reported
  <2>2. \A q \in validated'[c] : q < k => q > pos /\ Guarded(c, q)'
    BY <1>3, <2>1
  <2>3. QED
    BY <1>4, <1>6, <2>2, ReportedAt
<1>7. CASE at \in {"up", "done"}
  <2>1. r = IF at = "up" THEN pos ELSE k
    BY <1>1, <1>5 DEF Reach
  <2>2. /\ \A q \in validated[c] : q < k /\ q >= r => Guarded(c, q)
        /\ IsValue(out) =>
              /\ \A q \in validated[c] : q < r /\ ~Guarded(c, q) => Excused(c, q + 1, r - 1)
              /\ \A j \in Levels : j < r /\ j < k /\ ~Idle(c, j) => Excused(c, j, r - 1)
    BY <1>1, <1>2, <1>5, <1>7 DEF Reported
  <2>3. \A q \in validated'[c] : q < k /\ q >= r => Guarded(c, q)'
    BY <1>3, <2>2
  <2>4. ASSUME NEW q \in validated'[c], q < r
        PROVE  q < k /\ q \in validated[c] /\ q \in Positions /\ q # p
    <3>1. q \in Nat
      BY <1>2 DEF TypeInv, TypeOK, Positions
    <3>2. q < k
      BY <1>2, <1>5, <1>7, <2>4, <3>1
    <3>3. QED
      BY <1>3, <3>2
  <2>5. IsValue(out) =>
              /\ \A q \in validated'[c] : q < r /\ ~Guarded(c, q)' => Excused(c, q + 1, r - 1)
              /\ \A j \in Levels : j < r /\ j < k /\ ~Idle(c, j)' => Excused(c, j, r - 1)
    BY <2>2, <2>4
  <2>6. QED
    BY <1>4, <1>7, <2>1, <2>3, <2>5, ReportedAt
<1>8. CASE at \notin {"down", "sent", "up", "done"}
  BY <1>5, <1>8 DEF Reported
<1>9. QED
  BY <1>6, <1>7, <1>8

\* A step of one thread that judges nothing.
LEMMA ReportOnly ==
  ASSUME TypeInv, ReportInv, UNCHANGED <<impl, ignorePolicies>>, Unjudged,
         NEW c \in Calls, NEW l \in Levels, NEW t, Only(c, l, t),
         thread[c][l].at # "idle" \/ (l = Top(c) /\ thread[c][l].at = "idle"), t.at # "idle",
         t.at = "checked" => thread[c][l].at = "idle" /\ l = Top(c), Reported(c, l)'
  PROVE  ReportInv'
<1>1. /\ \A d \in Calls, q \in Positions : Guarded(d, q)' <=> Guarded(d, q)
      /\ validated' = validated
      /\ \A d \in Calls : \A q \in validated[d] : q \in Positions
  BY Kept DEF Unjudged, TypeInv, TypeOK
<1>2. l \in Nat /\ Top(c) \in Nat /\ Top(c) \in Levels /\ Top(c)' = Top(c) /\ WrappersOf(c)' = WrappersOf(c)
      /\ Wrap(c)' = Wrap(c) /\ \A k \in Levels : k \in Nat
  BY Numbers, Same DEF Levels
<1>3. ASSUME NEW k \in Levels, k # l
      PROVE  Reported(c, k)'
  <2>1. thread'[c][k] = thread[c][k] /\ Reported(c, k) /\ Placed(c, k)
    BY <1>3 DEF Only, ReportInv, TypeInv
  <2>2. CASE thread[c][k].at = "idle"
    BY <2>1, <2>2 DEF Reported
  <2>3. CASE thread[c][k].at # "idle"
    <3>1. \A j \in Levels : j < k => (Idle(c, j)' <=> Idle(c, j))
      <4>1. SUFFICES ASSUME NEW j \in Levels, j < k
                     PROVE  Idle(c, j)' <=> Idle(c, j)
        OBVIOUS
      <4>2. k <= Top(c)
        BY <2>1, <2>3 DEF Placed
      <4>3. CASE j = l
        <5>1. l # Top(c)
          BY <1>2, <4>1, <4>2, <4>3
        <5>2. QED
          BY <4>3, <5>1 DEF Only, Idle
      <4>4. CASE j # l
        BY <4>4 DEF Only, Idle
      <4>5. QED
        BY <4>3, <4>4
    <3>2. QED
      BY <1>1, <2>1, <3>1, ReportedKept
  <2>4. QED
    BY <2>2, <2>3
<1>4. Validations(c)'
  <2>1. Validations(c)
    BY DEF ReportInv
  <2>2. Main(c)'.at \in {"idle", "checked"} => Main(c).at \in {"idle", "checked"}
    BY <1>2 DEF Main, Only
  <2>3. QED
    BY <1>1, <1>2, <2>1, <2>2 DEF Validations
<1>5. \A d \in Calls, k \in Levels : d # c => thread'[d][k] = thread[d][k]
  BY DEF Only
<1>6. \A k \in Levels : Reported(c, k)'
  BY <1>3
<1>7. QED
  BY <1>1, <1>4, <1>5, <1>6, ReportKeep

\* The start of a call: nothing was evaluated yet.
LEMMA ReportStart ==
  ASSUME TypeInv, AloneInv, ReportInv, Shape, NEW c \in Calls, Checks(c) \/ Fails(c) \/ Begins(c)
  PROVE  ReportInv'
<1>1. UNCHANGED <<impl, ignorePolicies>> /\ Unjudged /\ Main(c).at \in {"idle", "checked"}
  BY DEF Shape, Checks, Fails, Begins, Idle, Main
<1>2. Top(c) \in Levels
  BY Wrappers DEF TypeInv
<1>3. PICK l \in Levels : l = Top(c)
  BY <1>2
<1>4. validated'[c] = {} /\ thread[c][l].at \in {"idle", "checked"} /\ l \in Nat
  BY <1>1, <1>3, Numbers DEF ReportInv, Validations, Unjudged, Main
<1>5. CASE Checks(c)
  <2>1. Only(c, l, At("checked", 0, Null)) /\ thread[c][l].at = "idle"
    BY <1>3, <1>5 DEF Checks, Idle
  <2>2. thread'[c][l].at = "checked"
    BY <2>1, ThreadFields DEF Only
  <2>3. Reported(c, l)'
    BY <2>2 DEF Reported
  <2>4. QED
    BY <1>1, <1>3, <2>1, <2>3, ReportOnly, ThreadFields
<1>6. CASE Fails(c)
  <2>1. PICK out \in Out : ~IsValue(out) /\ Only(c, l, At("done", 0, out))
    BY <1>3, <1>6 DEF Fails
  <2>2. Reported(c, l)'
    BY <1>1, <1>4, <2>1, ReportedAt DEF Only
  <2>3. QED
    BY <1>1, <1>3, <1>4, <2>1, <2>2, ReportOnly, ThreadFields
<1>7. CASE Begins(c)
  <2>1. PICK n : n = Len(WrappersOf(c))
    OBVIOUS
  <2>2. Only(c, l, At("down", n, Null))
    BY <1>3, <1>7, <2>1 DEF Begins
  <2>3. Reported(c, l)'
    BY <1>1, <1>4, <2>2, ReportedAt DEF Only
  <2>4. QED
    BY <1>1, <1>3, <1>4, <2>2, <2>3, ReportOnly, ThreadFields
<1>8. QED
  BY <1>5, <1>6, <1>7

\* On the way down, and when a thread turns, nothing was refused yet.
LEMMA ReportDown ==
  ASSUME TypeInv, AloneInv, ReportInv, Shape, NEW c \in Calls, NEW l \in Levels,
         Descends(c, l) \/ Turns(c, l) \/ Sends(c, l) \/ Receives(c, l)
  PROVE  ReportInv'
<1>1. UNCHANGED <<impl, ignorePolicies>> /\ Unjudged /\ thread[c][l].at \in {"down", "sent"}
  BY DEF Shape, Descends, Turns, Sends, Receives, DownAt
<1>2. PICK p : p = thread[c][l].pos
  OBVIOUS
<1>3. /\ p \in Nat /\ l \in Nat /\ (thread[c][l].at = "sent" => p = 0)
      /\ \A q \in validated[c] : q \in Positions /\ q \in Nat
      /\ \A k \in Levels : k \in Nat /\ k >= 1
  BY <1>2, Numbers DEF TypeInv, TypeOK, Placed, Positions, Levels
<1>4. /\ \A q \in Positions : Guarded(c, q)' <=> Guarded(c, q)
      /\ validated'[c] = validated[c]
  BY <1>1, Kept DEF Unjudged
<1>5. \A q \in validated'[c] : q < l => q > p /\ Guarded(c, q)' /\ q \in Nat
  BY <1>1, <1>2, <1>3, <1>4 DEF ReportInv, Reported
<1>6. \A k \in Levels : k < l => Idle(c, k)
  BY <1>1 DEF AloneInv, Alone
<1>7. CASE Descends(c, l)
  <2>1. Only(c, l, At("down", p - 1, Null))
    BY <1>2, <1>7 DEF Descends
  <2>2. \A q \in validated'[c] : q < l => q > p - 1 /\ Guarded(c, q)'
    BY <1>3, <1>5
  <2>3. Reported(c, l)'
    BY <1>1, <2>1, <2>2, ReportedAt DEF Only
  <2>4. QED
    BY <1>1, <2>1, <2>3, ReportOnly, ThreadFields
<1>8. CASE Sends(c, l)
  <2>1. Only(c, l, At("sent", 0, Null)) /\ p = 0
    BY <1>2, <1>8 DEF Sends
  <2>2. Reported(c, l)'
    BY <1>1, <1>5, <2>1, ReportedAt DEF Only
  <2>3. QED
    BY <1>1, <2>1, <2>2, ReportOnly, ThreadFields
<1>9. CASE Turns(c, l) \/ Receives(c, l)
  <2>1. \E out \in Out : Only(c, l, At("up", p + 1, out))
    <3>1. CASE Turns(c, l)
      BY <1>2, <3>1 DEF Turns
    <3>2. CASE Receives(c, l)
      <4>1. p + 1 = 1
        BY <1>3, <3>2 DEF Receives
      <4>2. QED
        BY <3>2, <4>1 DEF Receives
    <3>3. QED
      BY <1>9, <3>1, <3>2
  <2>2. PICK out \in Out : Only(c, l, At("up", p + 1, out))
    BY <2>1
  <2>3. PICK r : r = p + 1
    OBVIOUS
  <2>4. p < l
    BY <1>1, <1>2, <1>3, Standing
  <2>5. \A q \in validated'[c] : q < r => FALSE
    BY <1>3, <1>4, <1>5, <2>3, <2>4
  <2>6. \A k \in Levels : k < r /\ k < l /\ ~Idle(c, k)' => FALSE
    BY <1>3, <1>6, <2>2 DEF Only, Idle
  <2>7. Reported(c, l)'
    BY <1>1, <1>5, <2>2, <2>3, <2>5, <2>6, ReportedAt DEF Only
  <2>8. QED
    BY <1>1, <2>2, <2>7, ReportOnly, ThreadFields
<1>10. QED
  BY <1>7, <1>8, <1>9

\* On the way up: a value comes from a value below, or the wrapper is an excuse.
LEMMA ReportUp ==
  ASSUME TypeInv, AloneInv, ReportInv, Shape, NEW c \in Calls, NEW l \in Levels, Ascends(c, l) \/ Finishes(c, l)
  PROVE  ReportInv'
<1>1. UNCHANGED <<impl, ignorePolicies>> /\ Unjudged /\ thread[c][l].at = "up"
  BY DEF Shape, Ascends, Finishes, UpAt
<1>2. PICK p : p = thread[c][l].pos
  OBVIOUS
<1>3. /\ p \in Nat /\ l \in Nat /\ Reach(c, l) = p
      /\ \A q \in validated[c] : q \in Positions /\ q \in Nat
      /\ \A k \in Levels : k \in Nat
  BY <1>1, <1>2, Numbers DEF TypeInv, TypeOK, Positions, Levels, Reach
<1>4. /\ \A q \in Positions : Guarded(c, q)' <=> Guarded(c, q)
      /\ validated'[c] = validated[c]
  BY <1>1, Kept DEF Unjudged
<1>5. /\ \A q \in validated'[c] : q < l /\ q >= p => Guarded(c, q)'
      /\ IsValue(thread[c][l].out) =>
            /\ \A q \in validated'[c] : q < p /\ ~Guarded(c, q)' => Excused(c, q + 1, p - 1)
            /\ \A k \in Levels : k < p /\ k < l /\ ~Idle(c, k) => Excused(c, k, p - 1)
  BY <1>1, <1>3, <1>4 DEF ReportInv, Reported
<1>6. CASE Finishes(c, l)
  <2>1. PICK out : out = thread[c][l].out
    OBVIOUS
  <2>2. p = l /\ Only(c, l, At("done", l, out))
    BY <1>2, <1>6, <2>1 DEF Finishes
  <2>3. \A k \in Levels : k < l => (Idle(c, k)' <=> Idle(c, k))
    BY <1>3, <2>2 DEF Only, Idle
  <2>4. Reported(c, l)'
    BY <1>1, <1>5, <2>1, <2>2, <2>3, ReportedAt DEF Only
  <2>5. QED
    BY <1>1, <2>2, <2>4, ReportOnly, ThreadFields
<1>7. CASE Ascends(c, l)
  <2>1. p \in Wrap(c) /\ p < l
    BY <1>2, <1>7 DEF Ascends, UpAt
  <2>2. PICK out \in Out : /\ Only(c, l, At("up", p + 1, out))
                           /\ IsValue(out) => IsValue(thread[c][l].out) \/ Excuses(c, p)
    BY <1>2, <1>7 DEF Ascends, Excuses
  <2>3. PICK r : r = p + 1
    OBVIOUS
  <2>4. \A k \in Levels : k < l => (Idle(c, k)' <=> Idle(c, k))
    BY <1>3, <2>2 DEF Only, Idle
  <2>5. \A q \in validated'[c] : q < l /\ q >= r => Guarded(c, q)'
    BY <1>3, <1>4, <1>5, <2>3
  <2>6. \A x \in Nat : x <= p /\ (Excused(c, x, p - 1) \/ Excuses(c, p)) => Excused(c, x, r - 1)
    <3>1. r - 1 = p /\ \A q \in Wrap(c) : q \in Nat /\ (q <= p - 1 => q <= p)
      BY <1>3, <2>3 DEF Wrap
    <3>2. ASSUME NEW x \in Nat, x <= p, Excused(c, x, p - 1)
          PROVE  Excused(c, x, r - 1)
      BY <3>1, <3>2 DEF Excused
    <3>3. ASSUME NEW x \in Nat, x <= p, Excuses(c, p)
          PROVE  Excused(c, x, r - 1)
      <4>1. x <= p /\ p <= r - 1
        BY <1>3, <3>1, <3>3
      <4>2. QED
        BY <2>1, <3>3, <4>1 DEF Excused
    <3>4. QED
      BY <3>2, <3>3
  <2>7. ASSUME IsValue(out)
        PROVE  \A q \in validated'[c] : q < r /\ ~Guarded(c, q)' => Excused(c, q + 1, r - 1)
    <3>1. SUFFICES ASSUME NEW q \in validated'[c], q < r, ~Guarded(c, q)'
                   PROVE  Excused(c, q + 1, r - 1)
      OBVIOUS
    <3>2. q \in Nat /\ q < p /\ q + 1 \in Nat /\ q + 1 <= p
      BY <1>3, <1>4, <1>5, <2>1, <2>3, <3>1
    <3>3. Excused(c, q + 1, p - 1) \/ Excuses(c, p)
      BY <1>5, <2>2, <2>7, <3>1, <3>2
    <3>4. QED
      BY <2>6, <3>2, <3>3
  <2>8. ASSUME IsValue(out)
        PROVE  \A k \in Levels : k < r /\ k < l /\ ~Idle(c, k)' => Excused(c, k, r - 1)
    <3>1. SUFFICES ASSUME NEW k \in Levels, k < r, k < l, ~Idle(c, k)
                   PROVE  Excused(c, k, r - 1)
      BY <2>4
    <3>2. k \in Nat /\ k < p
      <4>1. ~(p <= k)
        BY <1>1, <1>2, <3>1 DEF AloneInv, Alone
      <4>2. k \in Nat /\ p \in Nat
        BY <1>3, Numbers
      <4>3. QED
        BY <4>1, <4>2
    <3>3. Excused(c, k, p - 1) \/ Excuses(c, p)
      <4>1. CASE IsValue(thread[c][l].out)
        BY <1>5, <3>1, <3>2, <4>1
      <4>2. QED
        BY <2>2, <2>8, <4>1
    <3>4. QED
      BY <1>3, <2>6, <3>2, <3>3
  <2>9. Reported(c, l)'
    BY <1>1, <2>2, <2>3, <2>5, <2>7, <2>8, ReportedAt DEF Only
  <2>10. QED
    BY <1>1, <2>2, <2>9, ReportOnly, ThreadFields
<1>8. QED
  BY <1>6, <1>7

\* A wrapper evaluates its policies.
LEMMA ReportJudge ==
  ASSUME TypeInv, AloneInv, ReportInv, Shape, NEW c \in Calls, NEW l \in Levels,
         Admits(c, l) \/ AdmitsAnswer(c, l) \/ Refuses(c, l)
  PROVE  ReportInv'
<1>1. /\ UNCHANGED <<impl, ignorePolicies>> /\ (DownAt(c, l) \/ UpAt(c, l)) /\ thread[c][l].pos \in Wrap(c)
      /\ IsPolicy(WrappersOf(c)[thread[c][l].pos])
  BY DEF Shape, Admits, AdmitsAnswer, Refuses, DownAt, UpAt
<1>2. PICK p \in Wrap(c) : p = thread[c][l].pos
  BY <1>1
<1>3. /\ thread[c][l].at \in {"down", "up"} /\ ~Idle(c, l) /\ p < l /\ p \in Nat /\ l \in Nat /\ l <= Top(c)
      /\ p \in Positions
      /\ \A q \in validated[c] : q \in Positions /\ q \in Nat
      /\ \A k \in Levels : k \in Nat
  <2>1. Placed(c, l) /\ p \in Positions
    BY Wrappers DEF TypeInv
  <2>2. thread[c][l].at \in {"down", "up"} /\ ~Idle(c, l)
    BY <1>1 DEF DownAt, UpAt, Idle
  <2>3. p < l /\ l \in Nat /\ l <= Top(c)
    <3>1. l \in Nat /\ l <= Top(c)
      BY <2>1, <2>2, Numbers DEF Placed
    <3>2. thread[c][l].pos < l
      BY <1>1, Standing DEF DownAt, UpAt
    <3>3. QED
      BY <1>2, <3>1, <3>2
  <2>4. p \in Nat /\ \A k \in Levels : k \in Nat
    BY DEF Wrap, Levels
  <2>5. \A q \in validated[c] : q \in Positions /\ q \in Nat
    BY DEF TypeInv, TypeOK, Positions
  <2>6. QED
    BY <2>1, <2>2, <2>3, <2>4, <2>5
<1>4. Judged(c, p)
  BY <1>2 DEF Admits, AdmitsAnswer, Refuses
<1>5. /\ validated'[c] = validated[c] \cup {p}
      /\ \A d \in Calls : d # c => validated'[d] = validated[d]
      /\ \A q \in Positions : q # p => (Guarded(c, q)' <=> Guarded(c, q))
      /\ \A d \in Calls, q \in Positions : d # c => (Guarded(d, q)' <=> Guarded(d, q))
  BY <1>1, <1>3, <1>4, KeptOthers DEF Judged
<1>6. \E at, pos, out : /\ Only(c, l, At(at, pos, out))
                        /\ \/ at = "down" /\ pos = p - 1 /\ Guarded(c, p)' /\ thread[c][l].at = "down"
                           \/ /\ at = "up" /\ pos = p + 1 /\ thread[c][l].at = "up" /\ IsValue(thread[c][l].out)
                              /\ Guarded(c, p)'
                           \/ at = "up" /\ pos = p + 1 /\ ~IsValue(out)
  <2>1. CASE Admits(c, l)
    <3>1. Only(c, l, At("down", p - 1, Null)) /\ Guarded(c, p)' /\ thread[c][l].at = "down"
      BY <1>2, <2>1 DEF Admits, DownAt
    <3>2. QED
      BY <3>1
  <2>2. CASE AdmitsAnswer(c, l)
    <3>1. /\ Only(c, l, At("up", p + 1, thread[c][l].out)) /\ Guarded(c, p)'
          /\ thread[c][l].at = "up" /\ IsValue(thread[c][l].out)
      BY <1>2, <2>2 DEF AdmitsAnswer, UpAt
    <3>2. QED
      BY <3>1
  <2>3. CASE Refuses(c, l)
    <3>1. PICK out \in Out : ~IsValue(out) /\ Only(c, l, At("up", p + 1, out))
      BY <1>2, <2>3 DEF Refuses
    <3>2. QED
      BY <3>1
  <2>4. QED
    BY <2>1, <2>2, <2>3
<1>7. PICK at, pos, out :
         /\ Only(c, l, At(at, pos, out))
         /\ \/ at = "down" /\ pos = p - 1 /\ Guarded(c, p)' /\ thread[c][l].at = "down"
            \/ /\ at = "up" /\ pos = p + 1 /\ thread[c][l].at = "up" /\ IsValue(thread[c][l].out)
               /\ Guarded(c, p)'
            \/ at = "up" /\ pos = p + 1 /\ ~IsValue(out)
  BY <1>6
<1>8. \A k \in Levels : Idle(c, k)' <=> Idle(c, k)
  <2>1. at # "idle"
    BY <1>7
  <2>2. QED
    BY <1>3, <1>7, <2>1, ThreadFields DEF Only, Idle
<1>9. ASSUME NEW k \in Levels, k # l
      PROVE  Reported(c, k)'
  <2>1. thread'[c][k] = thread[c][k] /\ Reported(c, k)
    BY <1>7, <1>9 DEF Only, ReportInv
  <2>2. CASE Idle(c, k)
    BY <2>1, <2>2 DEF Reported, Idle
  <2>3. CASE l < k
    BY <1>1, <1>3, <1>5, <1>8, <2>1, <2>3, ReportedOuter
  <2>4. CASE k < l /\ ~Idle(c, k)
    <3>1. thread[c][l].at = "up"
      BY <1>3, <2>4 DEF AloneInv, Alone
    <3>2. ~(p <= k)
      BY <1>2, <2>4, <3>1 DEF AloneInv, Alone
    <3>3. k < p
      <4>1. k \in Nat /\ p \in Nat
        BY <1>3
      <4>2. QED
        BY <3>2, <4>1
    <3>4. QED
      BY <1>1, <1>5, <1>8, <2>1, <3>3, ReportedInner
  <2>5. QED
    BY <1>3, <1>9, <2>2, <2>3, <2>4
<1>10. Reported(c, l)'
  <2>1. thread'[c][l] = At(at, pos, out)
    BY <1>7 DEF Only
  <2>2. CASE thread[c][l].at = "down"
    <3>1. \A q \in validated[c] : q < l => q > p /\ Guarded(c, q)
      BY <1>2, <2>2 DEF ReportInv, Reported
    <3>2. \A q \in validated'[c] : q = p \/ (q < l => q > p /\ q # p /\ Guarded(c, q)')
      BY <1>3, <1>5, <3>1
    <3>3. CASE at = "down" /\ pos = p - 1 /\ Guarded(c, p)'
      <4>1. \A q \in validated'[c] : q < l => q > pos /\ Guarded(c, q)'
        BY <1>3, <1>5, <3>2, <3>3
      <4>2. QED
        BY <1>1, <2>1, <3>3, <4>1, ReportedAt
    <3>4. CASE at = "up" /\ pos = p + 1 /\ ~IsValue(out)
      <4>1. \A q \in validated'[c] : q < l /\ q >= pos => Guarded(c, q)'
        BY <1>3, <1>5, <3>2, <3>4
      <4>2. QED
        BY <1>1, <2>1, <3>4, <4>1, ReportedAt
    <3>5. QED
      BY <1>7, <2>2, <3>3, <3>4
  <2>3. CASE thread[c][l].at = "up"
    <3>1. pos = p + 1 /\ at = "up" /\ Reach(c, l) = p
      BY <1>2, <1>7, <2>3 DEF Reach
    <3>2. /\ \A q \in validated[c] : q < l /\ q >= p => Guarded(c, q)
          /\ IsValue(thread[c][l].out) =>
                /\ \A q \in validated[c] : q < p /\ ~Guarded(c, q) => Excused(c, q + 1, p - 1)
                /\ \A k \in Levels : k < p /\ k < l /\ ~Idle(c, k) => Excused(c, k, p - 1)
      BY <2>3, <3>1 DEF ReportInv, Reported
    <3>3. \A q \in validated'[c] : q < l /\ q >= pos => Guarded(c, q)'
      BY <1>3, <1>5, <3>1, <3>2
    <3>4. \A x \in Nat : x <= p /\ Excused(c, x, p - 1) => Excused(c, x, pos - 1)
      <4>1. pos - 1 = p /\ \A q \in Wrap(c) : q \in Nat /\ (q <= p - 1 => q <= p)
        BY <1>3, <3>1 DEF Wrap
      <4>2. QED
        BY <1>3, <4>1 DEF Excused
    <3>5. ASSUME IsValue(out)
          PROVE  /\ \A q \in validated'[c] : q < pos /\ ~Guarded(c, q)' => Excused(c, q + 1, pos - 1)
                 /\ \A k \in Levels : k < pos /\ k < l /\ ~Idle(c, k)' => Excused(c, k, pos - 1)
      <4>1. Guarded(c, p)' /\ IsValue(thread[c][l].out)
        BY <1>7, <2>3, <3>1, <3>5
      <4>2. ASSUME NEW q \in validated'[c], q < pos, ~Guarded(c, q)'
            PROVE  Excused(c, q + 1, pos - 1)
        <5>1. q \in validated[c] /\ q # p
          BY <1>5, <4>1, <4>2
        <5>2. q \in Nat /\ q < p /\ ~Guarded(c, q) /\ q + 1 \in Nat /\ q + 1 <= p
          BY <1>3, <1>5, <3>1, <4>2, <5>1
        <5>3. QED
          BY <3>2, <3>4, <4>1, <5>1, <5>2
      <4>3. ASSUME NEW k \in Levels, k < pos, k < l, ~Idle(c, k)
            PROVE  Excused(c, k, pos - 1)
        <5>1. ~(p <= k)
          BY <1>2, <2>3, <4>3 DEF AloneInv, Alone
        <5>2. k \in Nat /\ k < p /\ k <= p
          BY <1>3, <5>1
        <5>3. QED
          BY <3>2, <3>4, <4>1, <4>3, <5>2
      <4>4. QED
        BY <1>8, <4>2, <4>3
    <3>6. QED
      BY <1>1, <2>1, <3>1, <3>3, <3>5, ReportedAt
  <2>4. QED
    BY <1>3, <2>2, <2>3
<1>11. Validations(c)'
  <2>1. Validations(c) /\ Wrap(c)' = Wrap(c) /\ WrappersOf(c)' = WrappersOf(c) /\ Top(c)' = Top(c)
        /\ Top(c) \in Levels
    BY <1>1, Same, Wrappers DEF ReportInv, TypeInv
  <2>2. \A q \in validated'[c] : q \in Wrap(c) /\ IsPolicy(WrappersOf(c)[q])
    BY <1>1, <1>2, <1>5, <2>1 DEF Validations
  <2>3. Main(c)'.at \notin {"idle", "checked"}
    <3>1. CASE l = Top(c)
      <4>1. Main(c)' = At(at, pos, out)
        BY <1>7, <2>1, <3>1 DEF Main, Only
      <4>2. QED
        BY <1>7, <4>1, ThreadFields
    <3>2. CASE l < Top(c)
      <4>1. thread[c][Top(c)].at \in {"up", "done"}
        BY <1>3, <2>1, <3>2, Outer DEF Idle
      <4>2. thread'[c][Top(c)] = thread[c][Top(c)]
        <5>1. Top(c) # l
          BY <1>3, <2>1, <3>2
        <5>2. QED
          BY <1>7, <2>1, <5>1 DEF Only
      <4>3. QED
        BY <2>1, <4>1, <4>2 DEF Main
    <3>3. QED
      BY <1>3, <2>1, <3>1, <3>2
  <2>4. QED
    BY <2>1, <2>2, <2>3 DEF Validations
<1>12. \A d \in Calls, k \in Levels : d # c => thread'[d][k] = thread[d][k]
  BY <1>7 DEF Only
<1>13. \A k \in Levels : Reported(c, k)'
  BY <1>9, <1>10
<1>14. QED
  BY <1>1, <1>5, <1>11, <1>12, <1>13, ReportKeep

\* A thread whose promise is dropped.
LEMMA ReportDrop ==
  ASSUME TypeInv, AloneInv, ReportInv, Shape, NEW c \in Calls, NEW l \in Levels, DropsPromise(c, l)
  PROVE  ReportInv'
<1>1. /\ UNCHANGED <<impl, ignorePolicies>> /\ Unjudged /\ thread[c][l].at = "down"
      /\ thread[c][l].pos \in Wrap(c)
  BY DEF Shape, DropsPromise, DownAt
<1>2. PICK p \in Wrap(c) : p = thread[c][l].pos
  BY <1>1
<1>3. /\ thread'[c][p] = At("down", p - 1, Null)
      /\ \E out \in Out : (IsValue(out) => Excuses(c, p)) /\ thread'[c][l] = At("up", p + 1, out)
      /\ \A d \in Calls, k \in Levels : d # c \/ (k # l /\ k # p) => thread'[d][k] = thread[d][k]
  BY <1>2 DEF DropsPromise
<1>4. PICK out \in Out : (IsValue(out) => Excuses(c, p)) /\ thread'[c][l] = At("up", p + 1, out)
  BY <1>3
<1>5. /\ p < l /\ p \in Levels /\ p \in Nat /\ l \in Nat /\ l <= Top(c) /\ ~Idle(c, l)
      /\ \A q \in validated[c] : q \in Positions /\ q \in Nat
      /\ \A k \in Levels : k \in Nat
  <2>1. p < l /\ p \in Levels /\ l \in Nat /\ l <= Top(c)
    BY <1>1, <1>2, Standing, Numbers
  <2>2. QED
    BY <1>1, <2>1 DEF TypeInv, TypeOK, Positions, Levels, Idle
<1>6. /\ \A d \in Calls, q \in Positions : Guarded(d, q)' <=> Guarded(d, q)
      /\ validated' = validated
  BY <1>1, Kept DEF Unjudged
<1>7. \A k \in Levels : k < l => Idle(c, k)
  BY <1>1 DEF AloneInv, Alone
<1>8. \A q \in validated'[c] : q < l => q > p /\ Guarded(c, q)'
  BY <1>1, <1>2, <1>5, <1>6 DEF ReportInv, Reported
<1>9. \A k \in Levels : k # p => (Idle(c, k)' <=> Idle(c, k))
  <2>1. thread'[c][l].at = "up"
    BY <1>4, ThreadFields
  <2>2. QED
    BY <1>3, <1>5, <2>1 DEF Idle
<1>10. ASSUME NEW k \in Levels, k # l, k # p
       PROVE  Reported(c, k)'
  <2>1. thread'[c][k] = thread[c][k]
    BY <1>3, <1>10
  <2>2. CASE k < l
    BY <1>7, <2>1, <2>2 DEF Reported, Idle
  <2>3. CASE l < k
    BY <1>1, <1>5, <1>6, <1>9, <2>1, <2>3, ReportedOuter
  <2>4. QED
    BY <1>5, <1>10, <2>2, <2>3
<1>11. Reported(c, p)'
  <2>1. PICK pos : pos = p - 1
    OBVIOUS
  <2>2. \A q \in validated'[c] : q < p => FALSE
    BY <1>5, <1>6, <1>8
  <2>3. QED
    BY <1>1, <1>3, <1>5, <2>1, <2>2, ReportedAt
<1>12. Reported(c, l)'
  <2>1. PICK r : r = p + 1
    OBVIOUS
  <2>2. \A q \in validated'[c] : q < r => FALSE
    BY <1>5, <1>6, <1>8, <2>1
  <2>3. ASSUME NEW k \in Levels, k < r, k < l, ~Idle(c, k)', IsValue(out)
        PROVE  Excused(c, k, r - 1)
    <3>1. k = p
      BY <1>7, <1>9, <2>3
    <3>2. p <= p /\ p <= r - 1
      BY <1>5, <2>1
    <3>3. QED
      BY <1>4, <2>3, <3>1, <3>2 DEF Excused
  <2>4. QED
    BY <1>1, <1>4, <1>8, <2>1, <2>2, <2>3, ReportedAt
<1>13. Validations(c)'
  <2>1. Validations(c) /\ Wrap(c)' = Wrap(c) /\ WrappersOf(c)' = WrappersOf(c) /\ Top(c)' = Top(c)
        /\ Top(c) \in Levels
    BY <1>1, Same, Wrappers DEF ReportInv, TypeInv
  <2>2. Main(c)'.at \notin {"idle", "checked"}
    <3>1. CASE l = Top(c)
      BY <1>4, <2>1, <3>1, ThreadFields DEF Main
    <3>2. CASE l < Top(c)
      <4>1. thread[c][Top(c)].at \in {"up", "done"} /\ Top(c) # l /\ Top(c) # p
        BY <1>5, <2>1, <3>2, Outer DEF Idle
      <4>2. QED
        BY <1>3, <2>1, <4>1 DEF Main
    <3>3. l = Top(c) \/ l < Top(c)
      <4>1. Top(c) \in Nat /\ l \in Nat /\ l <= Top(c)
        BY <1>5, Numbers
      <4>2. QED
        BY <4>1
    <3>4. QED
      BY <3>1, <3>2, <3>3
  <2>3. QED
    BY <1>6, <2>1, <2>2 DEF Validations
<1>14. \A d \in Calls, k \in Levels : d # c => thread'[d][k] = thread[d][k]
  BY <1>3
<1>15. \A k \in Levels : Reported(c, k)'
  BY <1>10, <1>11, <1>12
<1>16. QED
  BY <1>1, <1>6, <1>13, <1>14, <1>15, ReportKeep

\* Every step keeps the reports.
LEMMA ReportStep ==
  ASSUME TypeInv, AloneInv, ReportInv, Shape
  PROVE  ReportInv'
<1>1. ASSUME NEW c \in Calls, NEW l \in Levels, Moves(c, l)
      PROVE  ReportInv'
  BY <1>1, ReportDown, ReportUp, ReportJudge, ReportDrop DEF Moves
<1>2. QED
  BY <1>1, ReportStart DEF Shape

\* So does a step that changes nothing.
LEMMA ReportStutter ==
  ASSUME TypeInv, ReportInv, UNCHANGED vars
  PROVE  ReportInv'
<1>1. UNCHANGED <<impl, ignorePolicies, thread, validated>> /\ Unjudged
  BY DEF vars, ghosts, Unjudged
<1>2. ASSUME NEW c \in Calls
      PROVE  (\A k \in Levels : Reported(c, k)') /\ Validations(c)'
  <2>1. \A q \in validated'[c] : q \in validated[c] /\ (Guarded(c, q) => Guarded(c, q)')
    BY <1>1, Kept DEF TypeInv, TypeOK
  <2>2. \A k \in Levels : Reported(c, k)'
    BY <1>1, <2>1, ReportedKept DEF ReportInv, Idle
  <2>3. Wrap(c)' = Wrap(c) /\ WrappersOf(c)' = WrappersOf(c) /\ Main(c)' = Main(c)
    BY <1>1, Same DEF Main
  <2>4. QED
    BY <1>1, <2>2, <2>3 DEF ReportInv, Validations
<1>3. QED
  BY <1>2 DEF ReportInv

\* A refusal reaches the client as an error, unless an error handler or a merging local
\* resolver is written after the policy (policy.ts, error-handler.ts, local-resolver.ts).
THEOREM RefusalReportedHolds == Spec => []RefusalReported
<1>1. Init => TypeInv /\ AloneInv /\ ReportInv
  BY InitInv
<1>2. TypeInv /\ AloneInv /\ ReportInv /\ [Next]_vars => TypeInv' /\ AloneInv' /\ ReportInv'
  BY Shapes, TypeStep, TypeStutter, AloneStep, AloneStutter, ReportStep, ReportStutter DEF Next
<1>3. TypeInv /\ AloneInv /\ ReportInv => RefusalReported
  <2>1. SUFFICES ASSUME TypeInv, ReportInv, NEW c \in Calls, NEW p \in validated[c],
                        Main(c).at = "done", ~Guarded(c, p), IsValue(Main(c).out)
                 PROVE  \E q \in (p + 1)..Len(WrappersOf(c)) : Excuses(c, q)
    BY DEF RefusalReported, Excuses, Catches
  <2>2. Top(c) \in Levels /\ Reported(c, Top(c)) /\ p \in Wrap(c) /\ Top(c) = Len(WrappersOf(c)) + 1
        /\ Len(WrappersOf(c)) \in Nat
    BY <2>1, Wrappers, Numbers DEF ReportInv, Validations, TypeInv
  <2>3. Reach(c, Top(c)) = Top(c)
    BY <2>1 DEF Reach, Main
  <2>4. p \in Nat /\ p < Top(c)
    BY <2>2 DEF Wrap
  <2>5. Excused(c, p + 1, Top(c) - 1)
    BY <2>1, <2>2, <2>3, <2>4 DEF Reported, Main
  <2>6. PICK q \in Wrap(c) : p + 1 <= q /\ q <= Top(c) - 1 /\ Excuses(c, q)
    BY <2>5 DEF Excused
  <2>7. q \in (p + 1)..Len(WrappersOf(c))
    BY <2>2, <2>4, <2>6 DEF Wrap
  <2>8. QED
    BY <2>6, <2>7
<1>4. QED
  BY <1>1, <1>2, <1>3, PTL DEF Spec
----------------------------------------------------------------------------
(* No refusal is lost. *)

\* Folding has the least of some levels.
Keeps == INSTANCE Folding WITH Op <- Keep

\* What a step leaves of the threads it does not move.
LEMMA NoticedKept ==
  ASSUME TypeInv, UNCHANGED <<impl, ignorePolicies>>, NEW c \in Calls, NEW k \in Levels, Noticed(c, k),
         thread'[c][k] = thread[c][k], \A j \in Levels : ~Idle(c, j) => ~Idle(c, j)',
         ASSUME thread[c][k].at \in {"up", "done"}, NEW q \in validated'[c], q < Reach(c, k), ~Guarded(c, q)',
                \A j \in Levels : q < j /\ j < k => Idle(c, j)'
         PROVE  q \in validated[c] /\ ~Guarded(c, q)
  PROVE  Noticed(c, k)'
<1>1. Wrap(c)' = Wrap(c) /\ \A q \in Wrap(c) : Catches(c, q)' <=> Catches(c, q)
  BY Same DEF Wrap
<1>2. PICK r : r = Reach(c, k)
  OBVIOUS
<1>3. Reach(c, k)' = r
  BY <1>2 DEF Reach
<1>4. SUFFICES ASSUME NEW q \in validated'[c], thread[c][k].at \in {"up", "done"}, IsValue(thread[c][k].out),
                      q < r, ~Guarded(c, q)', \A j \in Levels : q < j /\ j < k => Idle(c, j)'
               PROVE  Caught(c, q + 1, r - 1)
  BY <1>1, <1>3 DEF Noticed, Caught, IsValue
<1>5. q \in validated[c] /\ ~Guarded(c, q)
  BY <1>2, <1>4
<1>6. \A j \in Levels : q < j /\ j < k => Idle(c, j)
  BY <1>4
<1>7. QED
  BY <1>2, <1>4, <1>5, <1>6 DEF Noticed

\* What a thread must have noticed where a step puts it.
LEMMA NoticedAt ==
  ASSUME UNCHANGED <<impl, ignorePolicies>>,
         NEW c \in Calls, NEW l \in Levels, NEW at, NEW pos, NEW out, thread'[c][l] = At(at, pos, out),
         NEW r, r = IF at = "up" THEN pos ELSE l,
         ASSUME at \in {"up", "done"}, IsValue(out), NEW q \in validated'[c], q < r, ~Guarded(c, q)',
                \A k \in Levels : q < k /\ k < l => Idle(c, k)'
         PROVE  Caught(c, q + 1, r - 1)
  PROVE  Noticed(c, l)'
<1>1. thread'[c][l].at = at /\ thread'[c][l].pos = pos /\ thread'[c][l].out = out
  BY ThreadFields
<1>2. Wrap(c)' = Wrap(c) /\ \A q \in Wrap(c) : Catches(c, q)' <=> Catches(c, q)
  BY Same DEF Wrap
<1>3. Reach(c, l)' = r
  BY <1>1 DEF Reach
<1>4. QED
  BY <1>1, <1>2, <1>3 DEF Noticed, Caught, IsValue

\* A step that judges nothing, by the threads it moves.
LEMMA LostMoved ==
  ASSUME TypeInv, LostInv, UNCHANGED <<impl, ignorePolicies>>, Unjudged, crashed => crashed',
         \A d \in Calls, k \in Levels :
            thread'[d][k] = thread[d][k] \/ (Noticed(d, k)' /\ Loud(d, k)' /\ ~Idle(d, k)')
  PROVE  LostInv'
<1>1. SUFFICES ASSUME NEW d \in Calls, NEW k \in Levels, thread'[d][k] = thread[d][k]
               PROVE  Noticed(d, k)' /\ Loud(d, k)'
  BY DEF LostInv
<1>2. Noticed(d, k) /\ Loud(d, k) /\ Top(d)' = Top(d)
  BY Same DEF LostInv
<1>3. Loud(d, k)'
  BY <1>1, <1>2 DEF Loud, IsValue
<1>4. \A q \in validated'[d] : q \in validated[d] /\ q \in Positions /\ (Guarded(d, q)' <=> Guarded(d, q))
  BY Kept DEF Unjudged, TypeInv, TypeOK
<1>5. \A j \in Levels : ~Idle(d, j) => ~Idle(d, j)'
  BY DEF Idle
<1>6. Noticed(d, k)'
  BY <1>1, <1>2, <1>4, <1>5, NoticedKept
<1>7. QED
  BY <1>3, <1>6

\* A step of one thread that judges nothing.
LEMMA LostOnly ==
  ASSUME TypeInv, LostInv, UNCHANGED <<impl, ignorePolicies>>, Unjudged, crashed => crashed',
         NEW c \in Calls, NEW l \in Levels, NEW t, Only(c, l, t), t.at # "idle", Noticed(c, l)', Loud(c, l)'
  PROVE  LostInv'
<1>1. ~Idle(c, l)'
  BY DEF Only, Idle
<1>2. \A d \in Calls, k \in Levels :
         thread'[d][k] = thread[d][k] \/ (Noticed(d, k)' /\ Loud(d, k)' /\ ~Idle(d, k)')
  BY <1>1 DEF Only
<1>3. QED
  BY <1>2, LostMoved

\* The start of a call has no value yet.
LEMMA LostStart ==
  ASSUME TypeInv, LostInv, Shape, NEW c \in Calls, Checks(c) \/ Fails(c) \/ Begins(c)
  PROVE  LostInv'
<1>1. UNCHANGED <<impl, ignorePolicies>> /\ Unjudged /\ UNCHANGED crashed
  BY DEF Shape, Checks, Fails, Begins
<1>2. Top(c) \in Levels /\ Top(c)' = Top(c)
  BY <1>1, Wrappers, Same DEF TypeInv
<1>3. PICK l \in Levels : l = Top(c)
  BY <1>2
<1>4. \E at, pos, out : Only(c, l, At(at, pos, out)) /\ at \in {"checked", "down", "done"}
                        /\ (at = "done" => ~IsValue(out))
  BY <1>3 DEF Checks, Fails, Begins
<1>5. PICK at, pos, out : Only(c, l, At(at, pos, out)) /\ at \in {"checked", "down", "done"}
                          /\ (at = "done" => ~IsValue(out))
  BY <1>4
<1>6. Noticed(c, l)'
  BY <1>1, <1>5, NoticedAt DEF Only
<1>7. Loud(c, l)'
  BY <1>2, <1>3 DEF Loud
<1>8. QED
  BY <1>1, <1>5, <1>6, <1>7, ThreadFields, LostOnly

\* A thread that goes down, or turns, has met no policy yet.
LEMMA LostDown ==
  ASSUME TypeInv, ReportInv, LostInv, Shape, NEW c \in Calls, NEW l \in Levels,
         Descends(c, l) \/ Turns(c, l) \/ Sends(c, l) \/ Receives(c, l) \/ DropsPromise(c, l)
  PROVE  LostInv'
<1>1. UNCHANGED <<impl, ignorePolicies>> /\ Unjudged /\ UNCHANGED crashed /\ thread[c][l].at \in {"down", "sent"}
  BY DEF Shape, Descends, Turns, Sends, Receives, DropsPromise, DownAt
<1>2. PICK p : p = thread[c][l].pos
  OBVIOUS
<1>3. /\ p \in Nat /\ l \in Nat /\ (thread[c][l].at = "sent" => p = 0)
      /\ \A q \in validated[c] : q \in Nat /\ (q < l => q > p)
  BY <1>1, <1>2, Numbers DEF TypeInv, TypeOK, Placed, Positions, ReportInv, Reported
<1>4. \A q \in validated'[c] : q \in Nat /\ (q < l => q > p)
  BY <1>1, <1>3 DEF Unjudged
<1>5. ASSUME NEW at, NEW out, thread'[c][l] = At(at, p + 1, out), at = "up"
      PROVE  Noticed(c, l)' /\ Loud(c, l)'
  <2>1. PICK r : r = p + 1
    OBVIOUS
  <2>2. p < l
    BY <1>1, <1>2, <1>3, Numbers, Standing
  <2>3. \A q \in validated'[c] : ~(q < r)
    BY <1>3, <1>4, <2>1, <2>2
  <2>4. Noticed(c, l)'
    BY <1>1, <1>5, <2>1, <2>3, NoticedAt
  <2>5. QED
    BY <1>5, <2>4, ThreadFields DEF Loud
<1>6. ASSUME NEW k \in Levels, NEW at, NEW pos, NEW out, thread'[c][k] = At(at, pos, out), at \in {"down", "sent"}
      PROVE  Noticed(c, k)' /\ Loud(c, k)' /\ ~Idle(c, k)'
  BY <1>1, <1>6, ThreadFields DEF Noticed, Loud, Idle
<1>7. CASE Descends(c, l) \/ Sends(c, l)
  <2>1. \E at, pos, out : Only(c, l, At(at, pos, out)) /\ at \in {"down", "sent"}
    BY <1>7 DEF Descends, Sends
  <2>2. PICK at, pos, out : Only(c, l, At(at, pos, out)) /\ at \in {"down", "sent"}
    BY <2>1
  <2>3. Noticed(c, l)' /\ Loud(c, l)'
    BY <1>6, <2>2 DEF Only
  <2>4. QED
    BY <1>1, <2>2, <2>3, ThreadFields, LostOnly
<1>8. CASE Turns(c, l) \/ Receives(c, l)
  <2>1. \E out : Only(c, l, At("up", p + 1, out))
    <3>1. CASE Turns(c, l)
      BY <1>2, <3>1 DEF Turns
    <3>2. CASE Receives(c, l)
      <4>1. p + 1 = 1
        BY <1>3, <3>2 DEF Receives
      <4>2. QED
        BY <3>2, <4>1 DEF Receives
    <3>3. QED
      BY <1>8, <3>1, <3>2
  <2>2. PICK out : Only(c, l, At("up", p + 1, out))
    BY <2>1
  <2>3. Noticed(c, l)' /\ Loud(c, l)'
    BY <1>5, <2>2 DEF Only
  <2>4. QED
    BY <1>1, <2>2, <2>3, ThreadFields, LostOnly
<1>9. CASE DropsPromise(c, l)
  <2>1. /\ p \in Levels /\ thread'[c][p] = At("down", p - 1, Null)
        /\ \E out \in Out : thread'[c][l] = At("up", p + 1, out)
        /\ \A d \in Calls, k \in Levels : d # c \/ (k # l /\ k # p) => thread'[d][k] = thread[d][k]
    BY <1>2, <1>9, Numbers DEF DropsPromise, DownAt
  <2>2. PICK out \in Out : thread'[c][l] = At("up", p + 1, out)
    BY <2>1
  <2>3. Noticed(c, p)' /\ Loud(c, p)' /\ ~Idle(c, p)'
    BY <1>6, <2>1
  <2>4. Noticed(c, l)' /\ Loud(c, l)' /\ ~Idle(c, l)'
    BY <1>5, <2>2, ThreadFields DEF Idle
  <2>5. \A d \in Calls, k \in Levels :
           thread'[d][k] = thread[d][k] \/ (Noticed(d, k)' /\ Loud(d, k)' /\ ~Idle(d, k)')
    BY <2>1, <2>3, <2>4
  <2>6. QED
    BY <1>1, <2>5, LostMoved
<1>10. QED
  BY <1>7, <1>8, <1>9

\* A thread that goes up hands on the error, or catches it; a dropped one ends the gateway.
LEMMA LostUp ==
  ASSUME TypeInv, ReportInv, LostInv, Shape, NEW c \in Calls, NEW l \in Levels, Ascends(c, l) \/ Finishes(c, l)
  PROVE  LostInv'
<1>1. UNCHANGED <<impl, ignorePolicies>> /\ Unjudged /\ thread[c][l].at = "up" /\ (crashed => crashed')
  BY DEF Shape, Ascends, Finishes, UpAt
<1>2. PICK p : p = thread[c][l].pos
  OBVIOUS
<1>3. /\ p \in Nat /\ l \in Nat /\ Reach(c, l) = p /\ \A k \in Levels : k \in Nat
      /\ \A q \in validated'[c] : /\ q \in validated[c] /\ q \in Positions /\ q \in Nat
                                  /\ Guarded(c, q)' <=> Guarded(c, q)
                                  /\ q < l /\ q >= p => Guarded(c, q)
  BY <1>1, <1>2, Numbers, Kept DEF TypeInv, TypeOK, Positions, Levels, Reach, Unjudged, ReportInv, Reported
<1>4. ASSUME NEW q \in validated'[c], q < p, ~Guarded(c, q)', IsValue(thread[c][l].out),
             \A k \in Levels : q < k /\ k < l => Idle(c, k)
      PROVE  Caught(c, q + 1, p - 1)
  BY <1>1, <1>3, <1>4 DEF LostInv, Noticed
<1>5. CASE Ascends(c, l)
  <2>1. PICK out \in Out : /\ Only(c, l, At("up", p + 1, out))
                           /\ IsValue(out) => IsValue(thread[c][l].out) \/ Catches(c, p)
    BY <1>2, <1>5 DEF Ascends
  <2>2. p \in Wrap(c) /\ p < l
    BY <1>2, <1>5 DEF Ascends, UpAt
  <2>3. PICK r : r = p + 1
    OBVIOUS
  <2>4. ASSUME IsValue(out), NEW q \in validated'[c], q < r, ~Guarded(c, q)',
               \A k \in Levels : q < k /\ k < l => Idle(c, k)'
        PROVE  Caught(c, q + 1, r - 1)
    <3>1. q \in Nat /\ q < p
      BY <1>3, <2>2, <2>3, <2>4
    <3>2. \A k \in Levels : q < k /\ k < l => Idle(c, k)
      BY <1>3, <2>1, <2>4 DEF Only, Idle
    <3>3. CASE Catches(c, p)
      <4>1. q + 1 <= p /\ p <= r - 1
        BY <1>3, <2>3, <3>1
      <4>2. QED
        BY <2>2, <3>3, <4>1 DEF Caught
    <3>4. CASE IsValue(thread[c][l].out)
      <4>1. Caught(c, q + 1, p - 1)
        BY <1>4, <2>4, <3>1, <3>2, <3>4
      <4>2. \A j \in Wrap(c) : j <= p - 1 => j <= r - 1
        BY <1>3, <2>3 DEF Wrap
      <4>3. QED
        BY <4>1, <4>2 DEF Caught
    <3>5. QED
      BY <2>1, <2>4, <3>3, <3>4
  <2>5. thread'[c][l] = At("up", p + 1, out)
    BY <2>1 DEF Only
  <2>6. Noticed(c, l)'
    BY <1>1, <2>3, <2>4, <2>5, NoticedAt
  <2>7. Loud(c, l)'
    BY <2>5, ThreadFields DEF Loud
  <2>8. QED
    BY <1>1, <2>1, <2>6, <2>7, ThreadFields, LostOnly
<1>6. CASE Finishes(c, l)
  <2>1. PICK out : out = thread[c][l].out
    OBVIOUS
  <2>2. p = l /\ Only(c, l, At("done", l, out)) /\ (l # Top(c) /\ ~IsValue(out) => crashed')
    BY <1>2, <1>6, <2>1 DEF Finishes
  <2>3. thread'[c][l] = At("done", l, out)
    BY <2>2 DEF Only
  <2>4. ASSUME IsValue(out), NEW q \in validated'[c], q < l, ~Guarded(c, q)',
               \A k \in Levels : q < k /\ k < l => Idle(c, k)'
        PROVE  Caught(c, q + 1, l - 1)
    <3>1. \A k \in Levels : q < k /\ k < l => Idle(c, k)
      BY <1>3, <2>2, <2>4 DEF Only, Idle
    <3>2. QED
      BY <1>4, <2>1, <2>2, <2>4, <3>1
  <2>5. Noticed(c, l)'
    BY <1>1, <2>3, <2>4, NoticedAt
  <2>6. Loud(c, l)'
    <3>1. Top(c)' = Top(c) /\ thread'[c][l].out = out
      BY <1>1, <2>3, Same, ThreadFields
    <3>2. QED
      BY <2>2, <3>1 DEF Loud, IsValue
  <2>7. QED
    BY <1>1, <2>2, <2>5, <2>6, ThreadFields, LostOnly
<1>7. QED
  BY <1>5, <1>6

\* A thread that evaluates a policy and is refused has the error itself, and no thread
\* above it is the first.
LEMMA LostJudge ==
  ASSUME TypeInv, AloneInv, LostInv, Shape, NEW c \in Calls, NEW l \in Levels,
         Admits(c, l) \/ AdmitsAnswer(c, l) \/ Refuses(c, l)
  PROVE  LostInv'
<1>1. /\ UNCHANGED <<impl, ignorePolicies>> /\ UNCHANGED crashed
      /\ thread[c][l].at \in {"down", "up"} /\ thread[c][l].pos \in Wrap(c) /\ thread[c][l].pos < l
      /\ Judged(c, thread[c][l].pos)
  <2>1. thread[c][l].at \in {"down", "up"} /\ thread[c][l].pos \in Wrap(c)
    BY DEF Admits, AdmitsAnswer, Refuses, DownAt, UpAt
  <2>2. thread[c][l].pos < l
    BY <2>1, Standing DEF Admits, AdmitsAnswer, Refuses, DownAt, UpAt
  <2>3. QED
    BY <2>1, <2>2 DEF Shape, Admits, AdmitsAnswer, Refuses
<1>2. PICK p \in Wrap(c) : p = thread[c][l].pos
  BY <1>1
<1>3. /\ p \in Nat /\ l \in Nat /\ p \in Positions /\ p < l /\ \A k \in Levels : k \in Nat
      /\ \A q \in validated'[c] : q = p \/ q \in validated[c]
      /\ \A q \in validated[c] : q \in Positions /\ q \in Nat
      /\ \A d \in Calls : d # c => validated'[d] = validated[d]
      /\ \A d \in Calls, q \in Positions : d # c \/ q # p => (Guarded(d, q)' <=> Guarded(d, q))
  <2>1. p \in Positions /\ Judged(c, p)
    BY <1>1, <1>2, Wrappers DEF TypeInv
  <2>2. \A d \in Calls, q \in Positions : d # c \/ q # p => (Guarded(d, q)' <=> Guarded(d, q))
    BY <1>1, <2>1, KeptOthers
  <2>3. \A q \in validated[c] : q \in Positions /\ q \in Nat
    BY DEF TypeInv, TypeOK, Positions
  <2>4. p \in Nat /\ l \in Nat /\ \A k \in Levels : k \in Nat
    BY Numbers DEF Wrap
  <2>5. QED
    BY <1>1, <1>2, <2>1, <2>2, <2>3, <2>4 DEF Judged
<1>4. \E at, pos, out :
         /\ Only(c, l, At(at, pos, out))
         /\ \/ at = "down" /\ Guarded(c, p)'
            \/ at = "up" /\ pos = p + 1 /\ out = thread[c][l].out /\ thread[c][l].at = "up" /\ Guarded(c, p)'
            \/ at = "up" /\ ~IsValue(out)
  BY <1>2 DEF Admits, AdmitsAnswer, Refuses, UpAt
<1>5. PICK at, pos, out :
         /\ Only(c, l, At(at, pos, out))
         /\ \/ at = "down" /\ Guarded(c, p)'
            \/ at = "up" /\ pos = p + 1 /\ out = thread[c][l].out /\ thread[c][l].at = "up" /\ Guarded(c, p)'
            \/ at = "up" /\ ~IsValue(out)
  BY <1>4
<1>6. /\ thread'[c][l] = At(at, pos, out) /\ ~Idle(c, l)' /\ ~Idle(c, l)
      /\ \A d \in Calls, k \in Levels : d # c \/ k # l => thread'[d][k] = thread[d][k]
  BY <1>1, <1>5, ThreadFields DEF Only, Idle
<1>7. ASSUME NEW d \in Calls, NEW k \in Levels, d # c \/ k # l
      PROVE  Noticed(d, k)'
  <2>1. thread'[d][k] = thread[d][k] /\ Noticed(d, k) /\ \A j \in Levels : ~Idle(d, j) => ~Idle(d, j)'
    BY <1>6, <1>7 DEF Idle, LostInv
  <2>2. ASSUME thread[d][k].at \in {"up", "done"}, NEW q \in validated'[d], q < Reach(d, k), ~Guarded(d, q)',
               \A j \in Levels : q < j /\ j < k => Idle(d, j)'
        PROVE  q \in validated[d] /\ ~Guarded(d, q)
    <3>1. CASE d # c \/ q # p
      BY <1>3, <2>2, <3>1 DEF TypeInv, TypeOK
    <3>2. CASE d = c /\ q = p
      <4>1. Reach(c, k) <= k
        BY ReachBound
      <4>2. ~(l < k)
        BY <1>3, <1>6, <2>2, <3>2
      <4>3. k < l
        <5>1. k # l /\ k \in Nat /\ l \in Nat
          BY <1>3, <1>7, <3>2
        <5>2. QED
          BY <4>2, <5>1
      <4>4. ~Idle(c, k)
        BY <2>2, <3>2 DEF Idle
      <4>5. ~(p <= k)
        BY <1>1, <1>2, <4>3, <4>4 DEF AloneInv, Alone
      <4>6. Reach(c, k) \in Nat
        BY ReachBound
      <4>7. p < Reach(c, k) /\ k \in Nat
        BY <1>3, <2>2, <3>2
      <4>8. QED
        BY <1>3, <4>1, <4>5, <4>6, <4>7
    <3>3. QED
      BY <3>1, <3>2
  <2>3. QED
    BY <1>1, <2>1, <2>2, NoticedKept
<1>8. Noticed(c, l)'
  <2>1. PICK r : r = IF at = "up" THEN pos ELSE l
    OBVIOUS
  <2>2. ASSUME at \in {"up", "done"}, IsValue(out), NEW q \in validated'[c], q < r, ~Guarded(c, q)',
               \A k \in Levels : q < k /\ k < l => Idle(c, k)'
        PROVE  Caught(c, q + 1, r - 1)
    <3>1. /\ r = p + 1 /\ thread[c][l].at = "up" /\ IsValue(thread[c][l].out) /\ Guarded(c, p)'
          /\ Reach(c, l) = p
      BY <1>2, <1>5, <2>1, <2>2 DEF Reach
    <3>2. q # p /\ q \in validated[c] /\ q \in Nat /\ q < p /\ ~Guarded(c, q)
      BY <1>3, <2>2, <3>1
    <3>3. \A k \in Levels : q < k /\ k < l => Idle(c, k)
      BY <1>3, <1>6, <2>2 DEF Idle
    <3>4. Caught(c, q + 1, p - 1)
      BY <3>1, <3>2, <3>3 DEF LostInv, Noticed
    <3>5. \A j \in Wrap(c) : j <= p - 1 => j <= r - 1
      BY <1>3, <3>1 DEF Wrap
    <3>6. QED
      BY <3>4, <3>5 DEF Caught
  <2>3. thread'[c][l] = At(at, pos, out)
    BY <1>6
  <2>4. QED
    BY <1>1, <2>1, <2>2, <2>3, NoticedAt
<1>9. ASSUME NEW d \in Calls, NEW k \in Levels
      PROVE  Loud(d, k)'
  <2>1. Loud(d, k) /\ Top(d)' = Top(d)
    BY <1>1, Same DEF LostInv
  <2>2. CASE d = c /\ k = l
    BY <1>5, <1>6, <2>2, ThreadFields DEF Loud
  <2>3. CASE d # c \/ k # l
    BY <1>1, <1>6, <2>1, <2>3 DEF Loud, IsValue
  <2>4. QED
    BY <2>2, <2>3
<1>10. QED
  BY <1>7, <1>8, <1>9 DEF LostInv

\* Every step keeps refusals noticed.
LEMMA LostStep ==
  ASSUME TypeInv, AloneInv, ReportInv, LostInv, Shape
  PROVE  LostInv'
<1>1. ASSUME NEW c \in Calls, NEW l \in Levels, Moves(c, l)
      PROVE  LostInv'
  BY <1>1, LostDown, LostUp, LostJudge DEF Moves
<1>2. QED
  BY <1>1, LostStart DEF Shape

\* So does a step that changes nothing.
LEMMA LostStutter ==
  ASSUME TypeInv, LostInv, UNCHANGED vars
  PROVE  LostInv'
<1>1. UNCHANGED <<impl, ignorePolicies, thread, validated, crashed>> /\ Unjudged
  BY DEF vars, ghosts, Unjudged
<1>2. QED
  BY <1>1, LostMoved

\* No refusal is lost: when a call and the promises it dropped are over, each policy that
\* refused made the call fail, stands below an error handler, or made the gateway exit
\* (policy.ts, local-resolver.ts, shutdown-handler.ts).
THEOREM NoRefusalLostHolds == Spec => []NoRefusalLost
<1>1. Init => TypeInv /\ AloneInv /\ ReportInv /\ LostInv
  BY InitInv
<1>2. TypeInv /\ AloneInv /\ ReportInv /\ LostInv /\ [Next]_vars => TypeInv' /\ AloneInv' /\ ReportInv' /\ LostInv'
  BY Shapes, TypeStep, TypeStutter, AloneStep, AloneStutter, ReportStep, ReportStutter, LostStep, LostStutter
     DEF Next
<1>3. TypeInv /\ ReportInv /\ LostInv => NoRefusalLost
  <2>1. SUFFICES ASSUME TypeInv, ReportInv, LostInv, NEW c \in Calls, NEW p \in validated[c],
                        ~crashed, Main(c).at = "done", \A l \in Levels : thread[c][l].at \in {"idle", "done"},
                        ~Guarded(c, p), IsValue(Main(c).out)
                 PROVE  \E q \in (p + 1)..Len(WrappersOf(c)) : Catches(c, q)
    BY DEF NoRefusalLost, Catches
  <2>2. /\ Top(c) \in Levels /\ p \in Wrap(c) /\ Top(c) = Len(WrappersOf(c)) + 1
        /\ Len(WrappersOf(c)) \in Nat /\ p \in Nat /\ p < Top(c)
    BY <2>1, Wrappers, Numbers DEF ReportInv, Validations, TypeInv, Wrap
  <2> DEFINE T == {l \in Levels : p < l /\ ~Idle(c, l)}
  <2>3. T \subseteq Nat /\ Top(c) \in T
    BY <2>1, <2>2 DEF Idle, Main, Levels
  <2>4. PICK l \in T : \A k \in T : l <= k
    BY <2>3, Keeps!LeastOf
  <2>5. /\ l \in Levels /\ l \in Nat /\ p < l /\ thread[c][l].at = "done"
        /\ \A k \in Levels : p < k /\ k < l => Idle(c, k)
    <3>1. l \in Levels /\ l \in Nat /\ p < l /\ thread[c][l].at = "done"
      BY <2>1, <2>3, <2>4 DEF Idle
    <3>2. ASSUME NEW k \in Levels, p < k, k < l
          PROVE  Idle(c, k)
      <4>1. k \in Nat /\ ~(l <= k)
        BY <3>1, <3>2 DEF Levels
      <4>2. QED
        BY <2>4, <3>2, <4>1
    <3>3. QED
      BY <3>1, <3>2
  <2> HIDE DEF T
  <2>6. IsValue(thread[c][l].out)
    <3>1. CASE l = Top(c)
      BY <2>1, <3>1 DEF Main
    <3>2. CASE l # Top(c)
      BY <2>1, <2>5, <3>2 DEF LostInv, Loud
    <3>3. QED
      BY <3>1, <3>2
  <2>7. Caught(c, p + 1, l - 1)
    BY <2>1, <2>5, <2>6 DEF LostInv, Noticed, Reach
  <2>8. PICK q \in Wrap(c) : p + 1 <= q /\ Catches(c, q)
    BY <2>7 DEF Caught
  <2>9. q \in (p + 1)..Len(WrappersOf(c))
    BY <2>2, <2>8 DEF Wrap
  <2>10. QED
    BY <2>8, <2>9
<1>4. QED
  BY <1>1, <1>2, <1>3, PTL DEF Spec

----------------------------------------------------------------------------
(* The base policy. *)

\* A call that began, and did not end with an error, was let in: the base policy allowed
\* it, or the schema or the request made it unnecessary.
LetIn(c) == c \in baseAllowed \/ ~BasePolicy \/ OverridesBase(c) \/ ignorePolicies
Began(c) == Main(c).at \in {"checked", "down", "sent", "up"} \/ (Main(c).at = "done" /\ IsValue(Main(c).out))
BaseInv == \A c \in Calls \ Objects : Began(c) => LetIn(c)

\* A step of a running thread changes its call's own thread only if that is the one that runs.
LEMMA RunOnly ==
  ASSUME TypeInv, NEW c \in Calls, NEW l \in Levels, Run(c, l)
  PROVE  /\ UNCHANGED <<impl, ignorePolicies, baseAllowed>>
         /\ thread[c][l].at \in {"down", "sent", "up"}
         /\ \A d \in Calls : thread'[d][Top(d)] # thread[d][Top(d)] => d = c /\ l = Top(c)
<1>1. TypeOK /\ Placed(c, l)
  BY DEF TypeInv
<1>2. \A d \in Calls : Top(d) \in Levels /\ Top(d) \in Nat
  BY <1>1, Wrappers DEF Levels
<1>3. /\ UNCHANGED <<impl, ignorePolicies, baseAllowed>>
      /\ thread[c][l].at \in {"down", "sent", "up"}
  BY DEF Run, ValidateBefore, ValidateAfter, Validate, Await, Select, HandleError, Resolve, SendRequest,
         ReceiveResponse, LocalResolver, PassLocal, Finish, Below, Above, Move, Descending, Ascending, ghosts
<1>4. ASSUME NEW t, Put(c, l, t)
      PROVE  \A d \in Calls, k \in Levels : thread'[d][k] # thread[d][k] => d = c /\ k = l
  BY <1>1, <1>4 DEF Put, TypeOK
<1>5. ASSUME NEW t, Put(c, l, t)
      PROVE  \A d \in Calls : thread'[d][Top(d)] # thread[d][Top(d)] => d = c /\ l = Top(c)
  BY <1>2, <1>4, <1>5
<1>6. ASSUME NEW p \in Nat, NEW t, NEW u, p < Top(c),
             thread' = [thread EXCEPT ![c] = [@ EXCEPT ![l] = t, ![p] = u]]
      PROVE  \A d \in Calls : thread'[d][Top(d)] # thread[d][Top(d)] => d = c /\ l = Top(c)
  <2>1. ASSUME NEW d \in Calls, d # c
        PROVE  thread'[d] = thread[d]
    BY <1>1, <1>6, <2>1 DEF TypeOK
  <2>2. PICK k \in Levels : k = Top(c)
    BY <1>2
  <2>3. PICK own : own = thread[c]
    OBVIOUS
  <2>4. thread'[c] = [own EXCEPT ![l] = t, ![p] = u] /\ DOMAIN own = Levels
    BY <1>1, <1>6, <2>3 DEF TypeOK
  <2>5. k # p
    BY <1>6, <2>2 DEF Levels
  <2>6. k # l => thread'[c][k] = own[k]
    BY <2>4, <2>5
  <2>7. QED
    BY <2>1, <2>2, <2>3, <2>6
<1>7. CASE LocalResolver(c, l)
  <2>1. thread[c][l].pos \in Nat /\ thread[c][l].pos < Top(c)
    BY <1>1, <1>2, <1>7, Numbers DEF LocalResolver, Descending, Placed
  <2>2. \/ \E t : Put(c, l, t)
        \/ \E t, u : thread' = [thread EXCEPT ![c] = [@ EXCEPT ![l] = t, ![thread[c][l].pos] = u]]
    BY <1>7 DEF LocalResolver, Below, Above, Move
  <2>3. QED
    BY <1>3, <1>5, <1>6, <2>1, <2>2
<1>8. CASE ~LocalResolver(c, l)
  <2>1. \E t : Put(c, l, t)
    BY <1>8 DEF Run, ValidateBefore, ValidateAfter, Validate, Await, Select, HandleError, Resolve, SendRequest,
                ReceiveResponse, PassLocal, Finish, Below, Above, Move
  <2>2. QED
    BY <1>3, <1>5, <2>1
<1>9. QED
  BY <1>7, <1>8

\* A step lets nobody in whom the base policy did not.
LEMMA BaseStep ==
  ASSUME TypeInv, BaseInv, Step
  PROVE  BaseInv'
<1>1. PICK c \in Calls : \/ CheckBasePolicy(c) \/ ResolveObject(c) \/ Begin(c)
                         \/ \E l \in Levels : Run(c, l)
  BY DEF Step
<1>2. TypeOK /\ \A d \in Calls : Top(d) \in Levels
  BY Wrappers DEF TypeInv
<1>3. UNCHANGED <<impl, ignorePolicies>> /\ baseAllowed \subseteq baseAllowed'
  BY <1>1, RunOnly DEF CheckBasePolicy, ResolveObject, Begin, Move, ghosts
<1>4. \A d \in Calls : Top(d)' = Top(d) /\ (LetIn(d) => LetIn(d)')
  BY <1>3, Same DEF LetIn, OverridesBase, FirstIn, OwnPolicies, Declared
<1>5. ASSUME NEW d \in Calls \ Objects, thread'[d][Top(d)] = thread[d][Top(d)]
      PROVE  (Began(d) => LetIn(d))'
  BY <1>4, <1>5 DEF BaseInv, Began, Main
<1>6. ASSUME NEW d \in Calls, NEW t, Put(c, Top(c), t), d # c
      PROVE  thread'[d][Top(d)] = thread[d][Top(d)]
  BY <1>2, <1>6 DEF TypeOK, Put
<1>7. ASSUME NEW t, Put(c, Top(c), t)
      PROVE  Main(c)' = t
  BY <1>2, <1>4, <1>7 DEF TypeOK, Put, Main
<1>8. CASE CheckBasePolicy(c)
  <2>1. PICK outcome \in BaseOutcomes(c) :
              /\ baseAllowed' = IF outcome = "allowed" THEN baseAllowed \cup {c} ELSE baseAllowed
              /\ Put(c, Top(c), IF outcome \in {"none", "allowed"} THEN At("checked", 0, Null)
                                ELSE At("done", 0, Error(outcome)))
    BY <1>8 DEF CheckBasePolicy
  <2>2. CASE outcome \notin {"none", "allowed"}
    <3>1. Main(c)' = At("done", 0, Error(outcome))
      BY <1>7, <2>1, <2>2
    <3>2. Main(c)'.at = "done" /\ ~IsValue(Main(c)'.out)
      BY <2>2, <3>1 DEF At, Error, IsValue, BaseOutcomes
    <3>3. ~Began(c)'
      BY <3>2 DEF Began
    <3>4. QED
      BY <1>5, <1>6, <2>1, <3>3 DEF BaseInv
  <2>3. CASE outcome \in {"none", "allowed"}
    <3>1. LetIn(c) \/ c \in baseAllowed'
      BY <2>1, <2>3 DEF BaseOutcomes, LetIn
    <3>2. LetIn(c)'
      BY <1>4, <3>1 DEF LetIn
    <3>3. QED
      BY <1>5, <1>6, <2>1, <3>2 DEF BaseInv
  <2>4. QED
    BY <2>2, <2>3
<1>9. CASE ResolveObject(c)
  <2>1. c \in Objects /\ \E t : Put(c, Top(c), t)
    BY <1>9 DEF ResolveObject, Objects, Move
  <2>2. QED
    BY <1>5, <1>6, <2>1 DEF BaseInv
<1>10. CASE Begin(c)
  <2>1. c \notin Objects /\ Main(c).at = "checked" /\ \E t : Put(c, Top(c), t)
    BY <1>10 DEF Begin, Move
  <2>2. LetIn(c)'
    BY <1>4, <2>1 DEF BaseInv, Began
  <2>3. QED
    BY <1>5, <1>6, <2>1, <2>2 DEF BaseInv
<1>11. CASE \E l \in Levels : Run(c, l)
  <2>1. PICK l \in Levels : Run(c, l)
    BY <1>11
  <2>2. c \notin Objects /\ l = Top(c) => LetIn(c)'
    BY <1>4, <2>1, RunOnly DEF BaseInv, Began, Main
  <2>3. QED
    BY <1>5, <2>1, <2>2, RunOnly DEF BaseInv
<1>12. QED
  BY <1>1, <1>8, <1>9, <1>10, <1>11

\* So does a step that changes nothing.
LEMMA BaseStutter ==
  ASSUME BaseInv, UNCHANGED vars
  PROVE  BaseInv'
BY DEF vars, ghosts, BaseInv, Began, LetIn, Main, Top, WrappersOf, OverridesBase, FirstIn, OwnPolicies, Declared

\* With a base policy, a field answers with data of its resolver only when that policy
\* allowed it, or a @policy of the field that overrides it did and guards its resolver.
\* That is so where no resolver directive follows an overriding @policy (base-policy.ts).
THEOREM BaseOrOverrideHolds == Spec => []BaseOrOverride
<1>1. TypeInv /\ GuardInv /\ BaseInv => BaseOrOverride
  <2>1. SUFFICES ASSUME TypeInv, GuardInv, BaseInv, NEW c \in Calls \ Objects,
                        BasePolicy, ~ignorePolicies, AnswersData(c), OverridesStay(c), c \notin baseAllowed
                 PROVE  \E k \in OwnPolicies(c), p \in 1..Len(WrappersOf(c)) :
                           /\ Declared(c)[k].policies \subseteq Overriding
                           /\ WrappersOf(c)[p] = Declared(c)[k] /\ Guarded(c, p)
    BY DEF BaseOrOverride, AllowedByOne
  <2>2. Main(c).at = "done" /\ IsValue(Main(c).out) /\ Base(Main(c).out)
    BY <2>1 DEF AnswersData, Base
  <2>3. OverridesBase(c)
    BY <2>1, <2>2 DEF BaseInv, Began, LetIn
  <2>4. PICK k \in OwnPolicies(c) : Declared(c)[k].policies \subseteq Overriding
    BY <2>3 DEF OverridesBase, FirstIn
  <2>5. k \in DOMAIN Declared(c) /\ Declared(c)[k].name = "policy"
    BY <2>4 DEF OwnPolicies
  <2>6. KeepsPolicies(impl[fieldOf[c]])
    BY <2>1, Wrappers DEF TypeInv, TypeOK, WellFormed
  <2>7. ~ \E j \in DOMAIN Declared(c) : j > k /\ Declared(c)[j].name \in Resolvers
    BY <2>1, <2>4 DEF OverridesStay
  <2>8. PICK p \in 1..Len(WrappersOf(c)) : WrappersOf(c)[p] = Declared(c)[k]
    BY <2>5, <2>6, <2>7 DEF KeepsPolicies, Declared, WrappersOf
  <2>9. GuardedAll(c)
    BY <2>1, <2>2, AnswerGuarded
  <2>10. Guarded(c, p)
    BY <2>1, <2>5, <2>8, <2>9 DEF GuardedAll, IsPolicy, PolicyNames
  <2>11. QED
    BY <2>4, <2>8, <2>10
<1>2. Init => BaseInv
  <2>1. ASSUME Init
        PROVE  \A c \in Calls : Main(c).at = "idle"
    <3>1. thread \in [Calls -> [Levels -> {NoThread}]] /\ NoThread.at = "idle"
      BY <2>1 DEF Init, InitCalls, NoThread
    <3>2. \A c \in Calls : Top(c) \in Levels
      BY <2>1, InitInv, Wrappers DEF TypeInv
    <3>3. QED
      BY <3>1, <3>2 DEF Main
  <2>2. QED
    BY <2>1 DEF BaseInv, Began
<1>3. TypeInv /\ BaseInv /\ [Next]_vars => BaseInv'
  BY BaseStep, BaseStutter DEF Next
<1>4. QED
  BY <1>1, <1>2, <1>3, GuardInvariant, PTL DEF Spec

----------------------------------------------------------------------------
(* The folds of the model. *)

Joining(p, a, x) == a \o x
Naming(p, a, x) == IF \E i \in DOMAIN a : a[i].name = x.name THEN a ELSE Append(a, x)
\* p is the type and the member.
Merging(p, a, x) == IF Collected(x, p[1], p[2]) = <<>> THEN a ELSE FirstOfName(Collected(x, p[1], p[2]))
Visiting(p, a, x) == VisitFieldDefinition(a, x)
Entering(p, a, x) ==
    IF \E i \in DOMAIN a : a[i].key = x.key
    THEN [i \in DOMAIN a |-> IF a[i].key = x.key THEN x ELSE a[i]]
    ELSE Append(a, x)
\* p is what each call recurs with.
Recurring(p, a, x) == Recur(p, a)
Joins == INSTANCE Folding WITH Op <- Joining
Names == INSTANCE Folding WITH Op <- Naming
Merges == INSTANCE Folding WITH Op <- Merging
Visits == INSTANCE Folding WITH Op <- Visiting
Enters == INSTANCE Folding WITH Op <- Entering
Recurs == INSTANCE Folding WITH Op <- Recurring

\* The folds of the model are those of the instances.
LEMMA FoldsOfLists ==
  ASSUME NEW seq, NEW S
  PROVE  /\ Within(seq, S) = Keeps!Folded(S, <<>>, seq)
         /\ Joined(seq) = Joins!Folded({}, <<>>, seq)
         /\ FirstOfName(seq) = Names!Folded({}, <<>>, seq)
         /\ FromEntries(seq) = Enters!Folded({}, <<>>, seq)
<1>1. Within(seq, S) = Keeps!Folded(S, <<>>, seq)
  BY DEF Within, FoldLeft, MapThenFoldSet, Max,
         Keeps!Folded, Keeps!FoldLeft, Keeps!MapThenFoldSet, Keeps!Max
<1>2. Joined(seq) = Joins!Folded({}, <<>>, seq)
  BY DEF Joined, Joining, FoldLeft, MapThenFoldSet, Max,
         Joins!Folded, Joins!FoldLeft, Joins!MapThenFoldSet, Joins!Max
<1>3. FirstOfName(seq) = Names!Folded({}, <<>>, seq)
  BY DEF FirstOfName, Naming, FoldLeft, MapThenFoldSet, Max,
         Names!Folded, Names!FoldLeft, Names!MapThenFoldSet, Names!Max
<1>4. FromEntries(seq) = Enters!Folded({}, <<>>, seq)
  BY DEF FromEntries, Entering, FoldLeft, MapThenFoldSet, Max,
         Enters!Folded, Enters!FoldLeft, Enters!MapThenFoldSet, Enters!Max
<1>5. QED
  BY <1>1, <1>2, <1>3, <1>4

\* So are those that depend on the directives, the services and the calls.
LEMMA FoldsOfSchemas ==
  ASSUME NEW directives, NEW services, NEW t, NEW m, NEW next, NEW c, NEW steps
  PROVE  /\ Visited(directives) = Visits!Folded({}, [resolver |-> "default", wrappers |-> <<>>, declared |-> directives],
                                                directives)
         /\ MergeLast(services, t, m) = Merges!Folded(<<t, m>>, <<>>, services)
         /\ FoldLeft(LAMBDA d, n : Recur(next, d), c, steps) = Recurs!Folded(next, c, steps)
<1>1. Visited(directives) =
          Visits!Folded({}, [resolver |-> "default", wrappers |-> <<>>, declared |-> directives], directives)
  BY DEF Visited, Visiting, FoldLeft, MapThenFoldSet, Max,
         Visits!Folded, Visits!FoldLeft, Visits!MapThenFoldSet, Visits!Max
<1>2. MergeLast(services, t, m) = Merges!Folded(<<t, m>>, <<>>, services)
  BY DEF MergeLast, Merging, FoldLeft, MapThenFoldSet, Max,
         Merges!Folded, Merges!FoldLeft, Merges!MapThenFoldSet, Merges!Max
<1>3. FoldLeft(LAMBDA d, n : Recur(next, d), c, steps) = Recurs!Folded(next, c, steps)
  BY DEF Recurring, FoldLeft, MapThenFoldSet, Max,
         Recurs!Folded, Recurs!FoldLeft, Recurs!MapThenFoldSet, Recurs!Max
<1>4. QED
  BY <1>1, <1>2, <1>3

----------------------------------------------------------------------------
(* A request on a composed schema is a request. *)

\* The schemas the gateway may hold give the fields one of the resolvers.
LEMMA SchemaImpls ==
  ASSUME NEW s \in Schemas
  PROVE  s.impl \in [Fields -> Impls]
<1>1. PICK x : s = Built(x)
  BY DEF Schemas
<1>2. s.impl = [f \in Fields |-> ResolverOfMember(x, f[1], f[2])]
  BY <1>1 DEF Built
<1>3. \A f \in Fields : s.impl[f] \in Impls
  BY BuiltAssumption
<1>4. QED
  BY <1>2, <1>3

\* Each request on a composed schema is one of those that FieldResolution is about.
THEOREM QueryIsResolution == SpecQuery => Spec
<1>1. InitQuery => Init
  BY SchemaImpls DEF InitQuery, Init
<1>2. [Query]_queryVars => [Next]_vars
  BY DEF Query, Next, queryVars
<1>3. QED
  BY <1>1, <1>2, PTL DEF SpecQuery, Spec

\* All that is proved of requests holds on the schemas that the gateway composes.
THEOREM QueryGuarded ==
  SpecQuery => [](TypeOK /\ GuardedAnswers /\ RequestAuthorized /\ RefusalReported /\ NoRefusalLost /\ BaseOrOverride)
BY QueryIsResolution, TypeCorrect, GuardedAnswersHolds, RequestAuthorizedHolds, RefusalReportedHolds,
   NoRefusalLostHolds, BaseOrOverrideHolds, PTL


----------------------------------------------------------------------------
(* The invariant of a request on a composed schema. *)

\* A field starts after the field that returned its source, and the extension knows the
\* call that returned an object of its own.
Started(c) == Main(c).at # "idle"
Answered(c) == Main(c).at = "done" /\ IsValue(Main(c).out)
ParentInv == \A c \in Calls \ Objects : Started(c) /\ parentOf[c] # None => Answered(parentOf[c])
TrackInv ==
    \A c \in Calls \ Objects :
        Answered(c) /\ Main(c).out.object = "own" => objectToParentMap[<<"own", c>>] = c
SchemaInv == schema \in Schemas /\ impl = schema.impl
QueryInv == SchemaInv /\ ParentInv /\ TrackInv

\* Nothing has started at first.
LEMMA QueryInit ==
  ASSUME InitQuery
  PROVE  QueryInv
<1>1. Init
  BY SchemaImpls DEF InitQuery, Init
<1>2. ASSUME NEW c \in Calls
      PROVE  Main(c).at = "idle"
  <2>1. thread \in [Calls -> [Levels -> {NoThread}]] /\ NoThread.at = "idle"
    BY <1>1 DEF Init, InitCalls, NoThread
  <2>2. Top(c) \in Levels
    BY <1>1, InitInv, Wrappers DEF TypeInv
  <2>3. QED
    BY <2>1, <2>2 DEF Main
<1>3. ParentInv /\ TrackInv
  BY <1>2 DEF ParentInv, TrackInv, Started, Answered
<1>4. SchemaInv
  BY DEF InitQuery, SchemaInv
<1>5. QED
  BY <1>3, <1>4 DEF QueryInv

\* A step starts a field only after its parent has answered.
LEMMA ParentStep ==
  ASSUME TypeInv, AloneInv, ParentInv, Step
  PROVE  ParentInv'
<1>1. Shape /\ UNCHANGED <<impl, ignorePolicies>> /\ TypeOK
  BY Shapes DEF Shape, TypeInv
<1>2. \A d \in Calls : Top(d)' = Top(d) /\ Top(d) \in Levels
  BY <1>1, Same, Wrappers
<1>3. ASSUME NEW d \in Calls, Answered(d)
      PROVE  Answered(d)'
  <2>1. thread'[d][Top(d)] = thread[d][Top(d)]
    BY <1>1, <1>2, <1>3, DoneStays DEF Answered, Main
  <2>2. QED
    BY <1>2, <1>3, <2>1 DEF Answered, Main
<1>4. ASSUME NEW d \in Calls \ Objects, Started(d)', parentOf[d] # None
      PROVE  Answered(parentOf[d])
  <2>1. CASE Started(d)
    BY <1>4, <2>1 DEF ParentInv
  <2>2. CASE ~Started(d)
    <3>1. thread'[d][Top(d)] # thread[d][Top(d)] /\ thread[d][Top(d)].at = "idle"
      BY <1>2, <1>4, <2>2 DEF Started, Main
    <3>2. PICK c \in Calls : \/ CheckBasePolicy(c) \/ ResolveObject(c) \/ Begin(c)
                             \/ \E l \in Levels : Run(c, l)
      BY DEF Step
    <3>3. ~\E l \in Levels : Run(c, l)
      BY <3>1, RunOnly
    <3>4. ASSUME NEW t, Put(c, Top(c), t)
          PROVE  d = c
      BY <1>1, <3>1, <3>4 DEF TypeOK, Put
    <3>5. CASE CheckBasePolicy(c)
      <4>1. d = c
        BY <3>4, <3>5 DEF CheckBasePolicy
      <4>2. QED
        BY <1>4, <3>5, <4>1 DEF CheckBasePolicy, Answered
    <3>6. CASE ResolveObject(c)
      <4>1. d = c
        BY <3>4, <3>6 DEF ResolveObject, Move
      <4>2. QED
        BY <3>6, <4>1 DEF ResolveObject, Objects
    <3>7. CASE Begin(c)
      <4>1. d = c
        BY <3>4, <3>7 DEF Begin, Move
      <4>2. QED
        BY <3>1, <3>7, <4>1 DEF Begin, Main
    <3>8. QED
      BY <3>2, <3>3, <3>5, <3>6, <3>7
  <2>3. QED
    BY <2>1, <2>2
<1>5. \A d \in Calls : parentOf[d] # None => parentOf[d] \in Calls
  BY CallsAssumption
<1>6. QED
  BY <1>3, <1>4, <1>5 DEF ParentInv

\* The extension remembers each object when the call that returned it ends.
LEMMA TrackStep ==
  ASSUME TypeInv, AloneInv, TrackInv, Step, Track
  PROVE  TrackInv'
<1>1. Shape /\ UNCHANGED <<impl, ignorePolicies>> /\ TypeOK
  BY Shapes DEF Shape, TypeInv
<1>2. \A d \in Calls : Top(d)' = Top(d)
  BY <1>1, Same
<1> DEFINE resolved == {c \in Calls \ Objects :
                           /\ thread'[c] # thread[c] /\ Main(c)'.at = "done"
                           /\ IsValue(Main(c)'.out) /\ Main(c)'.out.object # "none"}
<1>3. objectToParentMap' =
          [i \in Identities |-> IF \E c \in resolved : Identity(c)' = i
                                THEN CHOOSE c \in resolved : Identity(c)' = i
                                ELSE objectToParentMap[i]]
  BY DEF Track
<1>4. ASSUME NEW d \in Calls \ Objects, Answered(d)', Main(d)'.out.object = "own"
      PROVE  objectToParentMap'[<<"own", d>>] = d
  <2>1. <<"own", d>> \in Identities
    BY DEF Identities
  <2>2. ASSUME NEW c \in resolved, Identity(c)' = <<"own", d>>
        PROVE  c = d
    <3>1. CASE Main(c)'.out.object = "own"
      BY <2>2, <3>1 DEF Identity
    <3>2. CASE Main(c)'.out.object # "own"
      BY <2>2, <3>2 DEF Identity
    <3>3. QED
      BY <3>1, <3>2
  <2>3. CASE d \in resolved
    <3>1. Identity(d)' = <<"own", d>>
      BY <1>4 DEF Identity
    <3>2. PICK e : e = CHOOSE c \in resolved : Identity(c)' = <<"own", d>>
      OBVIOUS
    <3>3. e \in resolved /\ Identity(e)' = <<"own", d>>
      BY <2>3, <3>1, <3>2
    <3>4. e = d
      BY <2>2, <3>3
    <3>5. objectToParentMap'[<<"own", d>>] = e
      BY <1>3, <2>1, <2>3, <3>1, <3>2
    <3>6. QED
      BY <3>4, <3>5
  <2>4. CASE d \notin resolved
    <3>1. thread'[d] = thread[d]
      BY <1>4, <2>4 DEF Answered
    <3>2. Answered(d) /\ Main(d).out.object = "own"
      BY <1>2, <1>4, <3>1 DEF Answered, Main
    <3>3. objectToParentMap[<<"own", d>>] = d
      BY <3>2 DEF TrackInv
    <3>4. ~\E c \in resolved : Identity(c)' = <<"own", d>>
      BY <2>2, <2>4
    <3> HIDE DEF resolved
    <3>5. objectToParentMap'[<<"own", d>>] = objectToParentMap[<<"own", d>>]
      BY <1>3, <2>1, <3>4
    <3>6. QED
      BY <3>3, <3>5
  <2>5. QED
    BY <2>3, <2>4
<1>5. QED
  BY <1>4 DEF TrackInv

\* The invariant holds in every state.
LEMMA QueryInvariant == SpecQuery => [](TypeInv /\ GuardInv /\ QueryInv)
<1>1. InitQuery => QueryInv
  BY QueryInit
<1>2. TypeInv /\ AloneInv /\ QueryInv /\ [Query]_queryVars => QueryInv'
  <2>1. SUFFICES ASSUME TypeInv, AloneInv, QueryInv, [Query]_queryVars
                 PROVE  QueryInv'
    OBVIOUS
  <2>2. CASE Step /\ Track /\ UNCHANGED schema
    <3>1. ParentInv' /\ TrackInv'
      BY <2>1, <2>2, ParentStep, TrackStep DEF QueryInv
    <3>2. UNCHANGED impl
      BY <2>1, <2>2, Shapes DEF Shape
    <3>3. SchemaInv'
      BY <2>1, <2>2, <3>2 DEF QueryInv, SchemaInv, Schemas
    <3>4. QED
      BY <3>1, <3>3 DEF QueryInv
  <2>3. CASE UNCHANGED queryVars
    BY <2>1, <2>3 DEF QueryInv, SchemaInv, ParentInv, TrackInv, Started, Answered, Main, Top, WrappersOf, queryVars, vars
  <2>4. QED
    BY <2>1, <2>2, <2>3 DEF Query
<1>3. QED
  BY <1>1, <1>2, QueryIsResolution, GuardInvariant, PTL DEF SpecQuery

----------------------------------------------------------------------------
(* The calls up to the root. *)

\* The lineage of a call is the least closed set with it.
LEMMA LineageLeast ==
  ASSUME NEW c \in Calls
  PROVE  /\ c \in Lineage[c] /\ Lineage[c] \subseteq Calls /\ Closed(Lineage[c])
         /\ \A S \in SUBSET Calls : c \in S /\ Closed(S) => Lineage[c] \subseteq S
<1>1. Lineage[c] = {d \in Calls : \A S \in SUBSET Calls : c \in S /\ Closed(S) => d \in S}
  BY DEF Lineage
<1>2. Closed(Lineage[c])
  <2>1. SUFFICES ASSUME NEW d \in Lineage[c], parentOf[d] # None
                 PROVE  parentOf[d] \in Lineage[c]
    BY DEF Closed
  <2>2. parentOf[d] \in Calls
    BY <1>1, <2>1, CallsAssumption
  <2>3. \A S \in SUBSET Calls : c \in S /\ Closed(S) => parentOf[d] \in S
    BY <1>1, <2>1 DEF Closed
  <2>4. QED
    BY <1>1, <2>2, <2>3
<1>3. QED
  BY <1>1, <1>2

\* A call is above those that it comes from.
LEMMA LineageWithin ==
  ASSUME NEW c \in Calls, NEW d \in Lineage[c]
  PROVE  d \in Calls /\ Lineage[d] \subseteq Lineage[c]
BY LineageLeast

\* Its lineage is that of the call which returned its source, and itself.
LEMMA LineageOfParent ==
  ASSUME NEW c \in Calls
  PROVE  /\ parentOf[c] = None => Lineage[c] = {c}
         /\ parentOf[c] # None => /\ parentOf[c] \in Lineage[c]
                                  /\ Lineage[c] = {c} \cup Lineage[parentOf[c]]
                                  /\ c \notin Lineage[parentOf[c]]
<1>1. CASE parentOf[c] = None
  <2>1. Closed({c}) /\ {c} \in SUBSET Calls
    BY <1>1 DEF Closed
  <2>2. QED
    BY <1>1, <2>1, LineageLeast
<1>2. CASE parentOf[c] # None
  <2>1. parentOf[c] \in Calls
    BY <1>2, CallsAssumption
  <2>2. parentOf[c] \in Lineage[c]
    BY <1>2, LineageLeast DEF Closed
  <2>3. Lineage[parentOf[c]] \subseteq Lineage[c]
    BY <2>2, LineageWithin
  <2>4. PICK S : S = {c} \cup Lineage[parentOf[c]]
    OBVIOUS
  <2>5. Closed(S) /\ S \in SUBSET Calls /\ c \in S
    <3>1. Closed(Lineage[parentOf[c]]) /\ parentOf[c] \in Lineage[parentOf[c]] /\ Lineage[parentOf[c]] \subseteq Calls
      BY <2>1, LineageLeast
    <3>2. QED
      BY <2>4, <3>1 DEF Closed
  <2>6. Lineage[c] \subseteq S
    BY <2>5, LineageLeast
  <2>7. c \in Lineage[c] /\ c \notin Lineage[parentOf[c]]
    BY <1>2, LineageLeast, ParentsAssumption
  <2>8. QED
    BY <1>2, <2>2, <2>3, <2>4, <2>6, <2>7
<1>3. QED
  BY <1>1, <1>2

\* Of two calls one is not above the other and below it too.
LEMMA LineageOrder ==
  ASSUME NEW c \in Calls, NEW d \in Lineage[c], c \in Lineage[d]
  PROVE  c = d
<1>1. SUFFICES ASSUME c # d
               PROVE  FALSE
  OBVIOUS
<1>2. parentOf[c] # None /\ d \in Lineage[parentOf[c]] /\ c \notin Lineage[parentOf[c]]
  BY <1>1, LineageOfParent
<1>3. parentOf[c] \in Calls
  BY <1>2, CallsAssumption
<1>4. Lineage[d] \subseteq Lineage[parentOf[c]]
  BY <1>2, <1>3, LineageWithin
<1>5. QED
  BY <1>2, <1>4

\* The lineage of a call has one call more than that of its parent.
LEMMA LineageLength ==
  ASSUME NEW c \in Calls
  PROVE  /\ Cardinality(Calls) \in Nat /\ Cardinality(Lineage[c]) \in 1..Cardinality(Calls)
         /\ parentOf[c] # None => Cardinality(Lineage[parentOf[c]]) = Cardinality(Lineage[c]) - 1
<1>1. IsFiniteSet(Calls) /\ Cardinality(Calls) \in Nat
  BY ParentsAssumption, FS_CardinalityType
<1>2. ASSUME NEW d \in Calls
      PROVE  /\ IsFiniteSet(Lineage[d]) /\ Cardinality(Lineage[d]) \in Nat
             /\ Cardinality(Lineage[d]) <= Cardinality(Calls) /\ Cardinality(Lineage[d]) # 0
  <2>1. Lineage[d] \subseteq Calls /\ Lineage[d] # {}
    BY LineageLeast
  <2>2. IsFiniteSet(Lineage[d]) /\ Cardinality(Lineage[d]) <= Cardinality(Calls)
    BY <1>1, <2>1, FS_Subset
  <2>3. Cardinality(Lineage[d]) \in Nat /\ Cardinality(Lineage[d]) # 0
    BY <2>1, <2>2, FS_CardinalityType, FS_EmptySet
  <2>4. QED
    BY <2>2, <2>3
<1>3. ASSUME parentOf[c] # None
      PROVE  Cardinality(Lineage[c]) = Cardinality(Lineage[parentOf[c]]) + 1
  <2>1. parentOf[c] \in Calls
    BY <1>3, CallsAssumption
  <2>2. Lineage[c] = Lineage[parentOf[c]] \cup {c} /\ c \notin Lineage[parentOf[c]]
    BY <1>3, LineageOfParent
  <2>3. IsFiniteSet(Lineage[parentOf[c]])
    BY <1>2, <2>1
  <2>4. QED
    BY <2>2, <2>3, FS_AddElement
<1>4. parentOf[c] # None => parentOf[c] \in Calls
  BY CallsAssumption
<1>5. QED
  BY <1>1, <1>2, <1>3, <1>4

\* Everything above a field that started has answered, so that the extension knows it.
LEMMA ParentKnown ==
  ASSUME ParentInv, TrackInv, NEW c \in Calls \ Objects, Started(c), OwnObjects(c), NEW d \in Lineage[c]
  PROVE  ParentDetails(d) = parentOf[d]
<1>1. PICK S : S = {e \in Calls \ Objects : Started(e)}
  OBVIOUS
<1>2. Closed(S)
  <2>1. SUFFICES ASSUME NEW e \in S, parentOf[e] # None
                 PROVE  parentOf[e] \in S
    BY DEF Closed
  <2>2. Answered(parentOf[e])
    BY <1>1, <2>1 DEF ParentInv
  <2>3. parentOf[e] \in Calls \ Objects
    BY <1>1, <2>1, CallsAssumption, ParentsAssumption
  <2>4. QED
    BY <1>1, <2>2, <2>3 DEF Answered, Started
<1>3. d \in S /\ d \in Calls
  BY <1>1, <1>2, LineageLeast
<1>4. CASE parentOf[d] = None
  <2>1. SourceOf(d) = <<"root", d>>
    BY <1>4 DEF SourceOf
  <2>2. SourceOf(d) \notin Identities
    BY <2>1 DEF Identities
  <2>3. QED
    BY <1>4, <2>2 DEF ParentDetails
<1>5. CASE parentOf[d] # None
  <2>1. PICK p : p = parentOf[d]
    OBVIOUS
  <2>2. p \in Calls \ Objects /\ Answered(p)
    BY <1>1, <1>3, <1>5, <2>1, CallsAssumption, ParentsAssumption DEF ParentInv
  <2>3. Main(p).out.object = "own" /\ (objectOf[d] # None => Main(objectOf[d]).out.object = "source")
    BY <1>5, <2>1 DEF OwnObjects
  <2>4. SourceOf(d) = <<"own", p>>
    BY <1>5, <2>1, <2>3 DEF SourceOf, Identity
  <2>5. SourceOf(d) \in Identities
    BY <2>2, <2>4 DEF Identities
  <2>6. objectToParentMap[<<"own", p>>] = p
    BY <2>2, <2>3 DEF TrackInv
  <2>7. QED
    BY <2>1, <2>4, <2>5, <2>6 DEF ParentDetails
<1>6. QED
  BY <1>4, <1>5

\* The search ends at the nearest call that exports the key.
LEMMA SearchEnds ==
  ASSUME ParentInv, TrackInv, NEW c \in Calls \ Objects, Started(c), OwnObjects(c)
  PROVE  ResolveExport(c) = Nearest(c)
<1> DEFINE next == [d \in Calls |-> IF Exports(d) THEN d ELSE ParentDetails(d)]
           steps == [n \in 1..Cardinality(Calls) |-> n]
           exporting == {d \in Lineage[c] : Exports(d)}
           n == Cardinality(Calls)
           Searching(i, x) == /\ x \in Lineage[c] /\ exporting \subseteq Lineage[x]
                              /\ Exports(x) \/ Cardinality(Lineage[x]) + i <= n
           Good(i, x) == (x = None /\ exporting = {}) \/ Searching(i, x)
           T == {y \in (0..n) \X (Lineage[c] \cup {None}) : Good(y[1], y[2])}
<1>1. n \in Nat /\ DOMAIN steps = 1..n /\ None \notin Calls
  BY LineageLength, CallsAssumption
<1>2. <<0, c>> \in T
  <2>1. Cardinality(Lineage[c]) \in 1..n
    BY LineageLength
  <2>2. c \in Lineage[c] /\ exporting \subseteq Lineage[c]
    BY LineageLeast
  <2>3. Good(0, c)
    BY <2>1, <2>2
  <2>4. QED
    BY <1>1, <2>2, <2>3
<1>3. ASSUME NEW i \in 0..(n - 1), NEW x, <<i, x>> \in T
      PROVE  <<i + 1, Recur(next, x)>> \in T
  <2>1. Good(i, x) /\ i \in Nat /\ i + 1 \in 0..n
    BY <1>1, <1>3
  <2>2. CASE x = None
    <3>1. exporting = {}
      BY <1>1, <2>1, <2>2, LineageLeast
    <3>2. QED
      BY <2>1, <2>2, <3>1 DEF Recur
  <2>3. CASE x # None
    <3>1. Searching(i, x) /\ x \in Calls /\ x \in Lineage[c]
      BY <2>1, <2>3, LineageLeast
    <3>2. Recur(next, x) = IF Exports(x) THEN x ELSE ParentDetails(x)
      BY <2>3, <3>1 DEF Recur
    <3>3. ParentDetails(x) = parentOf[x]
      BY <3>1, ParentKnown
    <3>4. CASE Exports(x)
      BY <2>1, <3>1, <3>2, <3>4
    <3>5. CASE ~Exports(x) /\ parentOf[x] = None
      <4>1. exporting = {}
        BY <3>1, <3>5, LineageOfParent
      <4>2. QED
        BY <2>1, <3>2, <3>3, <3>5, <4>1
    <3>6. CASE ~Exports(x) /\ parentOf[x] # None
      <4>1. PICK p : p = parentOf[x]
        OBVIOUS
      <4>2. p \in Lineage[x] /\ Lineage[x] = {x} \cup Lineage[p]
        BY <3>1, <3>6, <4>1, LineageOfParent
      <4>3. p \in Lineage[c]
        BY <3>1, <4>2, LineageWithin
      <4>4. exporting \subseteq Lineage[p]
        BY <3>1, <3>6, <4>2
      <4>5. Cardinality(Lineage[x]) \in 1..n /\ Cardinality(Lineage[p]) = Cardinality(Lineage[x]) - 1
        BY <3>1, <3>6, <4>1, LineageLength
      <4>6. Cardinality(Lineage[x]) + i <= n
        BY <3>1, <3>6
      <4>7. Cardinality(Lineage[p]) + (i + 1) <= n
        BY <2>1, <4>5, <4>6
      <4>8. Good(i + 1, p)
        BY <4>3, <4>4, <4>7
      <4>9. QED
        BY <2>1, <3>2, <3>3, <3>6, <4>1, <4>3, <4>8
    <3>7. QED
      BY <3>4, <3>5, <3>6
  <2>4. QED
    BY <2>2, <2>3
<1>4. PICK x : x = ResolveExport(c)
  OBVIOUS
<1>5. x = Recurs!Folded(next, c, steps)
  BY <1>4, FoldsOfSchemas DEF ResolveExport
<1>6. Good(n, x)
  <2>1. \A i \in 0..(n - 1) : \A y : <<i, y>> \in T => <<i + 1, Recurring(next, y, steps[i + 1])>> \in T
    BY <1>3 DEF Recurring
  <2> HIDE DEF T, steps, next
  <2>2. <<n, Recurs!Folded(next, c, steps)>> \in T
    BY <1>1, <1>2, <2>1, Recurs!FoldSteps
  <2>3. QED
    BY <1>5, <2>2 DEF T
<1>7. CASE exporting = {}
  <2>1. Nearest(c) = None
    BY <1>7 DEF Nearest
  <2>2. ASSUME Searching(n, x)
        PROVE  FALSE
    <3>1. x \in Calls /\ ~Exports(x)
      BY <1>7, <2>2, LineageLeast
    <3>2. Cardinality(Lineage[x]) \in 1..n
      BY <3>1, LineageLength
    <3>3. QED
      BY <1>1, <2>2, <3>1, <3>2
  <2>3. QED
    BY <1>4, <1>6, <2>1, <2>2
<1>8. CASE exporting # {}
  <2>1. Searching(n, x) /\ x \in Calls
    BY <1>6, <1>8, LineageLeast
  <2>2. Exports(x)
    <3>1. Cardinality(Lineage[x]) \in 1..n
      BY <2>1, LineageLength
    <3>2. QED
      BY <1>1, <2>1, <3>1
  <2>3. x \in exporting /\ exporting \subseteq Lineage[x]
    BY <2>1, <2>2
  <2>4. ASSUME NEW d \in exporting, exporting \subseteq Lineage[d]
        PROVE  d = x
    <3>1. d \in Lineage[x] /\ x \in Lineage[d] /\ d \in Calls
      BY <2>3, <2>4, LineageLeast
    <3>2. QED
      BY <2>1, <3>1, LineageOrder
  <2>5. Nearest(c) = CHOOSE d \in exporting : exporting \subseteq Lineage[d]
    BY <1>8 DEF Nearest
  <2>6. QED
    <3> HIDE DEF exporting
    <3>1. Nearest(c) \in exporting /\ exporting \subseteq Lineage[Nearest(c)]
      BY <2>3, <2>5
    <3>2. QED
      BY <1>4, <2>4, <3>1
<1>9. QED
  BY <1>7, <1>8

\* {exports.key} is read from the nearest ancestor that exports the key, however many calls
\* are between and in whichever order they ran (exports.ts).
THEOREM ExportsOfAncestorsHolds == SpecQuery => []ExportsOfAncestors
<1>1. QueryInv => ExportsOfAncestors
  BY SearchEnds DEF QueryInv, ExportsOfAncestors, Started
<1>2. QED
  BY <1>1, QueryInvariant, PTL

----------------------------------------------------------------------------
(* Lists of directives, and which of them survive what is done to a list. *)

Listed(s) == s \in Seq(Range(s))
\* A directive that no resolver directive follows.
Stays(d, s) == \E k \in DOMAIN s : s[k] = d /\ \A j \in DOMAIN s : j > k => s[j].name \notin ResolverDirectives

\* A list and its elements.
LEMMA Lists ==
  ASSUME NEW s, Listed(s)
  PROVE  /\ Len(s) \in Nat /\ DOMAIN s = 1..Len(s) /\ \A i \in DOMAIN s : s[i] \in Range(s)
         /\ \A r \in Range(s) : \E i \in DOMAIN s : r = s[i]
         /\ \A U : Range(s) \subseteq U => s \in Seq(U)
<1>1. /\ Len(s) \in Nat /\ DOMAIN s = 1..Len(s) /\ \A i \in DOMAIN s : s[i] \in Range(s)
      /\ \A r \in Range(s) : \E i \in DOMAIN s : r = s[i]
  BY DEF Listed, Range
<1>2. ASSUME NEW U, Range(s) \subseteq U
      PROVE  s \in Seq(U)
  <2>1. PICK R : R = Range(s)
    OBVIOUS
  <2>2. s \in Seq(R) /\ R \subseteq U
    BY <1>2, <2>1 DEF Listed
  <2>3. QED
    BY <2>2
<1>3. QED
  BY <1>1, <1>2

\* A sequence over a set is a list.
LEMMA ListOf ==
  ASSUME NEW U, NEW s \in Seq(U)
  PROVE  Listed(s) /\ Range(s) \subseteq U
<1>1. s \in [1..Len(s) -> Range(s)] /\ Len(s) \in Nat
  BY DEF Range
<1>2. \A i \in DOMAIN s : s[i] \in U
  OBVIOUS
<1>3. Range(s) \subseteq U
  BY <1>2 DEF Range
<1>4. QED
  BY <1>1, <1>3 DEF Listed

\* A list with one more element.
LEMMA Appended ==
  ASSUME NEW U, NEW s \in Seq(U), NEW u \in U
  PROVE  /\ Append(s, u) \in Seq(U) /\ Len(Append(s, u)) = Len(s) + 1 /\ Len(s) \in Nat
         /\ DOMAIN s = 1..Len(s) /\ DOMAIN Append(s, u) = 1..(Len(s) + 1)
         /\ Append(s, u)[Len(s) + 1] = u /\ \A i \in DOMAIN s : Append(s, u)[i] = s[i]
OBVIOUS

\* A directive that is appended stays, and so do others before one that is no resolver's.
LEMMA StaysAppended ==
  ASSUME NEW U, NEW s \in Seq(U), NEW u \in U
  PROVE  /\ Stays(u, Append(s, u))
         /\ \A d : Stays(d, s) /\ u.name \notin ResolverDirectives => Stays(d, Append(s, u))
<1>1. PICK a : a = Append(s, u)
  OBVIOUS
<1>2. /\ Len(s) \in Nat /\ DOMAIN s = 1..Len(s) /\ DOMAIN a = 1..(Len(s) + 1)
      /\ a[Len(s) + 1] = u /\ \A i \in DOMAIN s : a[i] = s[i]
  BY <1>1, Appended
<1>3. Stays(u, a)
  BY <1>2 DEF Stays
<1>4. ASSUME NEW d, Stays(d, s), u.name \notin ResolverDirectives
      PROVE  Stays(d, a)
  BY <1>2, <1>4 DEF Stays
<1>5. QED
  BY <1>1, <1>3, <1>4

\* Filtering keeps the order, and invents nothing.
LEMMA Filtered ==
  ASSUME NEW s, Listed(s), NEW S
  PROVE  /\ Listed(Within(s, S)) /\ Range(Within(s, S)) \subseteq Range(s) \cap S
         /\ \A d \in S : Stays(d, s) => Stays(d, Within(s, S))
         /\ (\A i, j \in DOMAIN s : s[i] = s[j] => i = j)
               => \A i, j \in DOMAIN Within(s, S) : Within(s, S)[i] = Within(s, S)[j] => i = j
<1> DEFINE n == Len(s)
           U == Range(s) \cap S
           Single == \A i, j \in DOMAIN s : s[i] = s[j] => i = j
           Good(i, a) ==
               /\ \A q \in DOMAIN a : \E j \in 1..i : a[q] = s[j]
               /\ Single => \A q, r \in DOMAIN a : a[q] = a[r] => q = r
               /\ \A k \in 1..i : s[k] \in S /\ (\A j \in (k + 1)..i : s[j].name \notin ResolverDirectives)
                                    => Stays(s[k], a)
           T == {x \in (0..n) \X Seq(U) : Good(x[1], x[2])}
<1>1. n \in Nat /\ DOMAIN s = 1..n /\ \A i \in DOMAIN s : s[i] \in Range(s)
  BY Lists
<1>2. <<0, <<>> >> \in T
  <2>1. PICK e : e = <<>>
    OBVIOUS
  <2>2. DOMAIN e = {} /\ e \in Seq(U) /\ 1..0 = {} /\ 0 \in 0..n
    BY <1>1, <2>1
  <2>3. Good(0, e)
    BY <2>2
  <2> HIDE DEF Good, U, n
  <2>4. QED
    BY <2>1, <2>2, <2>3
<1>3. ASSUME NEW i \in 0..(n - 1), NEW a, <<i, a>> \in T
      PROVE  <<i + 1, Keep(S, a, s[i + 1])>> \in T
  <2>1. Good(i, a) /\ a \in Seq(U) /\ i \in Nat /\ i + 1 \in 0..n /\ i + 1 \in DOMAIN s /\ 1..i \subseteq 1..(i + 1)
    BY <1>1, <1>3
  <2>2. PICK u : u = s[i + 1]
    OBVIOUS
  <2>3. CASE u \notin S
    <3>1. \A q \in DOMAIN a : \E j \in 1..(i + 1) : a[q] = s[j]
      BY <2>1
    <3>2. \A k \in 1..(i + 1) : s[k] \in S => k \in 1..i /\ k..i \subseteq k..(i + 1)
      BY <2>1, <2>2, <2>3
    <3>3. \A k \in 1..(i + 1) : s[k] \in S /\ (\A j \in (k + 1)..(i + 1) : s[j].name \notin ResolverDirectives)
                                => Stays(s[k], a)
      BY <2>1, <3>2
    <3>4. Good(i + 1, a)
      BY <2>1, <3>1, <3>3
    <3>5. QED
      BY <2>1, <2>2, <2>3, <3>4 DEF Keep
  <2>4. CASE u \in S
    <3>1. PICK b : b = Append(a, u)
      OBVIOUS
    <3>2. u \in U
      BY <1>1, <2>1, <2>2, <2>4
    <3>3. /\ b \in Seq(U) /\ Len(a) \in Nat /\ DOMAIN a = 1..Len(a) /\ DOMAIN b = 1..(Len(a) + 1)
          /\ b[Len(a) + 1] = u /\ \A q \in DOMAIN a : b[q] = a[q]
      BY <2>1, <3>1, <3>2, Appended
    <3>4. \A q \in DOMAIN b : \E j \in 1..(i + 1) : b[q] = s[j]
      BY <2>1, <2>2, <3>3
    <3>5. Single => \A q, r \in DOMAIN b : b[q] = b[r] => q = r
      <4>1. SUFFICES ASSUME Single
                     PROVE  \A q, r \in DOMAIN b : b[q] = b[r] => q = r
        OBVIOUS
      <4>2. \A q \in DOMAIN a : a[q] # u
        <5>1. \A j \in 1..i : j \in DOMAIN s /\ j # i + 1
          BY <1>1, <2>1
        <5>2. QED
          BY <2>1, <2>2, <4>1, <5>1
      <4>3. \A q, r \in DOMAIN a : a[q] = a[r] => q = r
        BY <2>1, <4>1
      <4>4. \A q \in DOMAIN b : q = Len(a) + 1 \/ q \in DOMAIN a
        BY <3>3
      <4> HIDE DEF Good, Single, U, T, n
      <4>5. QED
        BY <3>3, <4>2, <4>3, <4>4
    <3>6. ASSUME NEW k \in 1..(i + 1), \A j \in (k + 1)..(i + 1) : s[j].name \notin ResolverDirectives, s[k] \in S
          PROVE  Stays(s[k], b)
      <4>1. CASE k = i + 1
        BY <2>1, <2>2, <3>1, <3>2, <4>1, StaysAppended
      <4>2. CASE k # i + 1
        <5>1. k \in 1..i /\ (k + 1)..i \subseteq (k + 1)..(i + 1) /\ i + 1 \in (k + 1)..(i + 1)
          BY <2>1, <4>2
        <5>2. Stays(s[k], a) /\ u.name \notin ResolverDirectives
          BY <2>1, <2>2, <3>6, <5>1
        <5>3. QED
          BY <2>1, <3>1, <3>2, <5>2, StaysAppended
      <4>3. QED
        BY <4>1, <4>2
    <3>7. Good(i + 1, b)
      BY <3>4, <3>5, <3>6
    <3>8. Keep(S, a, s[i + 1]) = b
      BY <2>2, <2>4, <3>1 DEF Keep
    <3> HIDE DEF Good, U
    <3>9. QED
      BY <2>1, <3>3, <3>7, <3>8
  <2>5. QED
    BY <2>3, <2>4
<1>4. PICK w : w = Within(s, S)
  OBVIOUS
<1>5. w \in Seq(U) /\ Good(n, w)
  <2> HIDE DEF T, n
  <2>1. <<n, Keeps!Folded(S, <<>>, s)>> \in T
    BY <1>1, <1>2, <1>3, Keeps!FoldSteps
  <2>2. w = Keeps!Folded(S, <<>>, s)
    BY <1>4, FoldsOfLists
  <2>3. QED
    BY <2>1, <2>2 DEF T
<1>6. ASSUME NEW d \in S, Stays(d, s)
      PROVE  Stays(d, w)
  <2>1. PICK k \in DOMAIN s : s[k] = d /\ \A j \in DOMAIN s : j > k => s[j].name \notin ResolverDirectives
    BY <1>6 DEF Stays
  <2>2. k \in 1..n /\ \A j \in (k + 1)..n : j \in DOMAIN s /\ j > k
    BY <1>1, <2>1
  <2>3. QED
    BY <1>5, <1>6, <2>1, <2>2
<1>7. Listed(w) /\ Range(w) \subseteq U
  BY <1>5, ListOf
<1> HIDE DEF n, T
<1>8. QED
  BY <1>4, <1>5, <1>6, <1>7

\* A list after a list.
LEMMA Concatenated ==
  ASSUME NEW U, NEW s \in Seq(U), NEW u \in Seq(U)
  PROVE  /\ s \o u \in Seq(U)
         /\ \A d : Stays(d, u) => Stays(d, s \o u)
         /\ \A d : Stays(d, s) /\ ~Replaces(u) => Stays(d, s \o u)
<1>1. PICK b : b = s \o u
  OBVIOUS
<1>2. /\ b \in Seq(U) /\ Len(s) \in Nat /\ Len(u) \in Nat /\ DOMAIN s = 1..Len(s) /\ DOMAIN u = 1..Len(u)
      /\ DOMAIN b = 1..(Len(s) + Len(u))
      /\ \A i \in DOMAIN b : b[i] = IF i <= Len(s) THEN s[i] ELSE u[i - Len(s)]
  BY <1>1
<1>3. \A i \in DOMAIN b : i \in DOMAIN s \/ (i \notin DOMAIN s /\ ~(i <= Len(s)) /\ i - Len(s) \in DOMAIN u)
  BY <1>2
<1>4. ASSUME NEW d, Stays(d, u)
      PROVE  Stays(d, b)
  <2>1. PICK k \in DOMAIN u : u[k] = d /\ \A j \in DOMAIN u : j > k => u[j].name \notin ResolverDirectives
    BY <1>4 DEF Stays
  <2>2. k + Len(s) \in DOMAIN b /\ b[k + Len(s)] = d
    BY <1>2, <2>1
  <2>3. ASSUME NEW j \in DOMAIN b, j > k + Len(s)
        PROVE  b[j].name \notin ResolverDirectives
    <3>1. ~(j <= Len(s)) /\ j - Len(s) \in DOMAIN u /\ j - Len(s) > k
      BY <1>2, <2>1, <2>3
    <3>2. QED
      BY <1>2, <2>1, <3>1
  <2>4. QED
    BY <2>2, <2>3 DEF Stays
<1>5. ASSUME NEW d, Stays(d, s), ~Replaces(u)
      PROVE  Stays(d, b)
  <2>1. PICK k \in DOMAIN s : s[k] = d /\ \A j \in DOMAIN s : j > k => s[j].name \notin ResolverDirectives
    BY <1>5 DEF Stays
  <2>2. k \in DOMAIN b /\ b[k] = d
    BY <1>2, <2>1
  <2>3. ASSUME NEW j \in DOMAIN b, j > k
        PROVE  b[j].name \notin ResolverDirectives
    <3>1. j \in DOMAIN s => b[j] = s[j]
      BY <1>2
    <3>2. \A l \in DOMAIN u : u[l].name \notin ResolverDirectives
      BY <1>5 DEF Replaces
    <3>3. j \notin DOMAIN s => b[j] = u[j - Len(s)] /\ j - Len(s) \in DOMAIN u
      BY <1>2, <1>3
    <3>4. QED
      BY <2>1, <2>3, <3>1, <3>2, <3>3
  <2>4. QED
    BY <2>2, <2>3 DEF Stays
<1>6. QED
  BY <1>1, <1>2, <1>4, <1>5

\* Lists one after the other: what stays in one, and no later one replaces, stays.
LEMMA JoinedLists ==
  ASSUME NEW n \in Nat, NEW lists, DOMAIN lists = 1..n, \A i \in 1..n : Listed(lists[i])
  PROVE  /\ Listed(Joined(lists))
         /\ (\A i \in 1..n : lists[i] = <<>>) => Joined(lists) = <<>>
         /\ \A i \in 1..n : \A d :
               Stays(d, lists[i]) /\ (\A j \in 1..n : j > i => ~Replaces(lists[j])) => Stays(d, Joined(lists))
<1> DEFINE U == UNION {Range(lists[i]) : i \in 1..n}
           Good(i, a) ==
               /\ (\A j \in 1..n : lists[j] = <<>>) => a = <<>>
               /\ \A j \in 1..i : \A d :
                     Stays(d, lists[j]) /\ (\A k \in (j + 1)..i : ~Replaces(lists[k])) => Stays(d, a)
           T == {x \in (0..n) \X Seq(U) : Good(x[1], x[2])}
<1>1. \A i \in 1..n : lists[i] \in Seq(U)
  <2>1. \A i \in 1..n : Range(lists[i]) \subseteq U
    OBVIOUS
  <2> HIDE DEF U
  <2>2. QED
    BY <2>1, Lists
<1>2. <<0, <<>> >> \in T
  <2>1. PICK e : e = <<>>
    OBVIOUS
  <2>2. e \in Seq(U) /\ 1..0 = {} /\ 0 \in 0..n
    BY <2>1
  <2>3. Good(0, e)
    BY <2>1, <2>2
  <2> HIDE DEF Good, U
  <2>4. QED
    BY <2>1, <2>2, <2>3
<1>3. ASSUME NEW i \in 0..(n - 1), NEW a, <<i, a>> \in T
      PROVE  <<i + 1, a \o lists[i + 1]>> \in T
  <2>1. /\ Good(i, a) /\ a \in Seq(U) /\ i \in Nat /\ i + 1 \in 0..n /\ i + 1 \in 1..n
    BY <1>3
  <2>2. PICK u : u = lists[i + 1]
    OBVIOUS
  <2>3. PICK b : b = a \o u
    OBVIOUS
  <2>4. u \in Seq(U)
    BY <1>1, <2>1, <2>2
  <2>5. /\ b \in Seq(U) /\ \A d : Stays(d, u) => Stays(d, b)
        /\ \A d : Stays(d, a) /\ ~Replaces(u) => Stays(d, b)
    BY <2>1, <2>3, <2>4, Concatenated
  <2>6. (\A j \in 1..n : lists[j] = <<>>) => b = <<>>
    BY <2>1, <2>2, <2>3
  <2>7. ASSUME NEW j \in 1..(i + 1), NEW d, Stays(d, lists[j]), \A k \in (j + 1)..(i + 1) : ~Replaces(lists[k])
        PROVE  Stays(d, b)
    <3>1. CASE j = i + 1
      BY <2>2, <2>5, <2>7, <3>1
    <3>2. CASE j # i + 1
      <4>1. j \in 1..i /\ (j + 1)..i \subseteq (j + 1)..(i + 1) /\ i + 1 \in (j + 1)..(i + 1)
        BY <2>1, <3>2
      <4>2. Stays(d, a) /\ ~Replaces(u)
        BY <2>1, <2>2, <2>7, <4>1
      <4>3. QED
        BY <2>5, <4>2
    <3>3. QED
      BY <3>1, <3>2
  <2>8. Good(i + 1, b)
    BY <2>6, <2>7
  <2> HIDE DEF Good, U
  <2>9. QED
    BY <2>1, <2>2, <2>3, <2>5, <2>8
<1>4. PICK w : w = Joined(lists)
  OBVIOUS
<1>5. w \in Seq(U) /\ Good(n, w)
  <2>1. \A i \in 0..(n - 1) : \A a : <<i, a>> \in T => <<i + 1, Joining({}, a, lists[i + 1])>> \in T
    BY <1>3 DEF Joining
  <2> HIDE DEF T
  <2>2. <<n, Joins!Folded({}, <<>>, lists)>> \in T
    BY <1>2, <2>1, Joins!FoldSteps
  <2>3. w = Joins!Folded({}, <<>>, lists)
    BY <1>4, FoldsOfLists
  <2>4. QED
    BY <2>2, <2>3 DEF T
<1>6. Listed(w)
  BY <1>5, ListOf
<1>7. ASSUME NEW i \in 1..n, NEW d, Stays(d, lists[i]), \A j \in 1..n : j > i => ~Replaces(lists[j])
      PROVE  Stays(d, w)
  <2>1. \A k \in (i + 1)..n : ~Replaces(lists[k])
    BY <1>7
  <2>2. QED
    BY <1>5, <1>7, <2>1
<1>8. (\A i \in 1..n : lists[i] = <<>>) => w = <<>>
  BY <1>5
<1> HIDE DEF T, Good, U
<1>9. QED
  BY <1>4, <1>6, <1>7, <1>8

\* What the visitors leave of a field: the directives that wrap it, in their order, those
\* that stay among them, around one of the resolvers.
LEMMA VisitedField ==
  ASSUME NEW s, Listed(s)
  PROVE  /\ Visited(s).resolver \in Resolvers /\ Visited(s).declared = s
         /\ Visited(s).wrappers \in Seq({d \in Range(s) : d.name \in WrapperNames})
         /\ Len(Visited(s).wrappers) <= Len(s)
         /\ \A d : Stays(d, s) /\ d.name \in WrapperNames
               => \E p \in 1..Len(Visited(s).wrappers) : Visited(s).wrappers[p] = d
<1> DEFINE n == Len(s)
           W == {d \in Range(s) : d.name \in WrapperNames}
           Wraps(d, f) == \E p \in 1..Len(f.wrappers) : f.wrappers[p] = d
           Good(i, f) ==
               /\ Len(f.wrappers) <= i
               /\ \A k \in 1..i : s[k].name \in WrapperNames
                                  /\ (\A j \in (k + 1)..i : s[j].name \notin ResolverDirectives)
                                  => Wraps(s[k], f)
           F == [resolver : Resolvers, wrappers : Seq(W), declared : {s}]
           T == {x \in (0..n) \X F : Good(x[1], x[2])}
           f0 == [resolver |-> "default", wrappers |-> <<>>, declared |-> s]
<1>1. n \in Nat /\ DOMAIN s = 1..n /\ \A i \in DOMAIN s : s[i] \in Range(s)
  BY Lists
<1>2. <<0, f0>> \in T
  <2>1. f0 \in F /\ Good(0, f0) /\ 0 \in 0..n
    BY <1>1 DEF Resolvers
  <2> HIDE DEF f0, F, Good
  <2>2. QED
    BY <2>1
<1>3. ASSUME NEW i \in 0..(n - 1), NEW f, <<i, f>> \in T
      PROVE  <<i + 1, VisitFieldDefinition(f, s[i + 1])>> \in T
  <2>1. Good(i, f) /\ f \in F /\ i \in Nat /\ i + 1 \in 0..n /\ i + 1 \in DOMAIN s
    <3>1. i \in Nat /\ i + 1 \in 0..n /\ i + 1 \in DOMAIN s
      BY <1>1
    <3> HIDE DEF F, Good
    <3>2. Good(i, f) /\ f \in F
      BY <1>3
    <3>3. QED
      BY <3>1, <3>2
  <2>2. PICK d : d = s[i + 1]
    OBVIOUS
  <2>3. PICK g : g = VisitFieldDefinition(f, d)
    OBVIOUS
  <2>4. d \in Range(s) /\ f.wrappers \in Seq(W) /\ Len(f.wrappers) \in Nat
    BY <1>1, <2>1, <2>2
  <2>5. CASE d.name \in ResolverDirectives
    <3>1. g = [f EXCEPT !.resolver = d.name, !.wrappers = <<>>] /\ d.name \notin WrapperNames
      BY <2>3, <2>5 DEF VisitFieldDefinition, ResolverDirectives, WrapperNames, PolicyNames
    <3>2. g \in F /\ g.wrappers = <<>>
      <4>1. <<>> \in Seq(W) /\ d.name \in Resolvers
        BY <2>5 DEF Resolvers, ResolverDirectives
      <4> HIDE DEF W
      <4>2. QED
        BY <2>1, <3>1, <4>1
    <3>3. \A k \in 1..(i + 1) : s[k].name \in WrapperNames => i + 1 \in (k + 1)..(i + 1)
      BY <2>1, <2>2, <3>1
    <3>4. Good(i + 1, g)
      BY <2>1, <2>2, <2>5, <3>2, <3>3
    <3> HIDE DEF F, Good
    <3>5. QED
      BY <2>1, <2>2, <2>3, <3>2, <3>4
  <2>6. CASE d.name \in WrapperNames
    <3>1. g = [f EXCEPT !.wrappers = Append(@, d)]
      BY <2>3, <2>6 DEF VisitFieldDefinition, WrapperNames, PolicyNames
    <3>2. d \in W
      BY <2>4, <2>6
    <3>3. g \in F /\ g.wrappers = Append(f.wrappers, d)
      <4>1. Append(f.wrappers, d) \in Seq(W)
        BY <2>4, <3>2, Appended
      <4> HIDE DEF W
      <4>2. QED
        BY <2>1, <3>1, <4>1
    <3>4. /\ Len(g.wrappers) = Len(f.wrappers) + 1 /\ g.wrappers[Len(f.wrappers) + 1] = d
          /\ \A p \in 1..Len(f.wrappers) : g.wrappers[p] = f.wrappers[p]
      BY <2>4, <3>2, <3>3, Appended
    <3>5. Wraps(d, g) /\ \A x : Wraps(x, f) => Wraps(x, g)
      BY <2>4, <3>4
    <3>6. ASSUME NEW k \in 1..(i + 1), s[k].name \in WrapperNames,
                 \A j \in (k + 1)..(i + 1) : s[j].name \notin ResolverDirectives
          PROVE  Wraps(s[k], g)
      <4>1. k = i + 1 \/ (k \in 1..i /\ (k + 1)..i \subseteq (k + 1)..(i + 1))
        BY <2>1
      <4>2. k \in 1..i => Wraps(s[k], f)
        BY <2>1, <3>6, <4>1
      <4> HIDE DEF Wraps
      <4>3. QED
        BY <2>2, <3>5, <4>1, <4>2
    <3>7. Good(i + 1, g)
      BY <2>1, <2>4, <3>4, <3>6
    <3> HIDE DEF F, Good
    <3>8. QED
      BY <2>1, <2>2, <2>3, <3>3, <3>7
  <2>7. CASE d.name \notin ResolverDirectives /\ d.name \notin WrapperNames
    <3>1. g = f
      BY <2>3, <2>7 DEF VisitFieldDefinition, ResolverDirectives, WrapperNames, PolicyNames
    <3>2. \A k \in 1..(i + 1) : s[k].name \in WrapperNames => k \in 1..i /\ (k + 1)..i \subseteq (k + 1)..(i + 1)
      BY <2>1, <2>2, <2>7
    <3>3. Good(i + 1, f)
      BY <2>1, <2>4, <3>2
    <3> HIDE DEF F, Good
    <3>4. QED
      BY <2>1, <2>2, <2>3, <3>1, <3>3
  <2>8. QED
    BY <2>5, <2>6, <2>7
<1>4. PICK v : v = Visited(s)
  OBVIOUS
<1>5. v \in F /\ Good(n, v)
  <2>1. \A i \in 0..(n - 1) : \A f : <<i, f>> \in T => <<i + 1, Visiting({}, f, s[i + 1])>> \in T
    BY <1>3 DEF Visiting
  <2>2. v = Visits!Folded({}, f0, s)
    BY <1>4, FoldsOfSchemas
  <2> HIDE DEF T, f0, n
  <2>3. <<n, Visits!Folded({}, f0, s)>> \in T
    BY <1>1, <1>2, <2>1, Visits!FoldSteps
  <2>4. QED
    BY <2>2, <2>3 DEF T
<1>6. ASSUME NEW d, Stays(d, s), d.name \in WrapperNames
      PROVE  Wraps(d, v)
  <2>1. PICK k \in DOMAIN s : s[k] = d /\ \A j \in DOMAIN s : j > k => s[j].name \notin ResolverDirectives
    BY <1>6 DEF Stays
  <2>2. k \in 1..n /\ \A j \in (k + 1)..n : j \in DOMAIN s /\ j > k
    BY <1>1, <2>1
  <2>3. QED
    BY <1>5, <1>6, <2>1, <2>2
<1>7. QED
  BY <1>4, <1>5, <1>6

\* A policy in a list of directives wraps the resolver, unless a resolver directive follows it.
LEMMA VisitorsKeepPolicies ==
  ASSUME NEW directives, directives \in Seq(Range(directives))
  PROVE  KeepsPolicies(Visited(directives)) /\ Visited(directives).resolver \in Resolvers
<1>1. PICK v : v = Visited(directives)
  OBVIOUS
<1>2. /\ v.resolver \in Resolvers /\ v.declared = directives
      /\ \A d : Stays(d, directives) /\ d.name \in WrapperNames => \E p \in 1..Len(v.wrappers) : v.wrappers[p] = d
  <2>1. Listed(directives)
    BY DEF Listed
  <2>2. Visited(directives).resolver \in Resolvers /\ Visited(directives).declared = directives
    BY <2>1, VisitedField
  <2>3. ASSUME NEW d, Stays(d, directives), d.name \in WrapperNames
        PROVE  \E p \in 1..Len(Visited(directives).wrappers) : Visited(directives).wrappers[p] = d
    BY <2>1, <2>3, VisitedField
  <2>4. QED
    BY <1>1, <2>2, <2>3
<1>3. ASSUME NEW k \in DOMAIN directives, directives[k].name = "policy",
             ~\E j \in DOMAIN directives : j > k /\ directives[j].name \in Resolvers
      PROVE  \E p \in 1..Len(v.wrappers) : v.wrappers[p] = directives[k]
  <2>1. Stays(directives[k], directives)
    BY <1>3 DEF Stays, Resolvers, ResolverDirectives
  <2>2. QED
    BY <1>2, <1>3, <2>1 DEF WrapperNames, PolicyNames
<1>4. QED
  BY <1>1, <1>2, <1>3 DEF KeepsPolicies

----------------------------------------------------------------------------
(* The services of a schema. *)

IsService(service) == Listed(service) /\ \A node \in Range(service) : Listed(node.directives)
IsServices(services) == \E n \in Nat : DOMAIN services = 1..n /\ \A i \in 1..n : IsService(services[i])

\* The entries of an object are among those it is made from.
LEMMA EntriesList ==
  ASSUME NEW U, NEW entries \in Seq(U)
  PROVE  FromEntries(entries) \in Seq(U)
<1> DEFINE n == Len(entries)
           T == (0..n) \X Seq(U)
<1>1. n \in Nat /\ DOMAIN entries = 1..n /\ <<0, <<>> >> \in T
  <2>1. n \in Nat /\ DOMAIN entries = 1..n /\ <<>> \in Seq(U) /\ 0 \in 0..n
    OBVIOUS
  <2> HIDE DEF n
  <2>2. QED
    BY <2>1
<1>2. ASSUME NEW i \in 0..(n - 1), NEW a, <<i, a>> \in T
      PROVE  <<i + 1, Entering({}, a, entries[i + 1])>> \in T
  <2>1. PICK e : e = entries[i + 1]
    OBVIOUS
  <2>2. e \in U /\ a \in Seq(U) /\ i + 1 \in 0..n
    <3>1. i + 1 \in 1..n /\ i + 1 \in 0..n
      BY <1>1
    <3>2. QED
      BY <1>2, <2>1, <3>1
  <2>3. Append(a, e) \in Seq(U)
    BY <2>2
  <2>4. [j \in DOMAIN a |-> IF a[j].key = e.key THEN e ELSE a[j]] \in Seq(U)
    <3>1. DOMAIN a = 1..Len(a) /\ Len(a) \in Nat /\ \A j \in DOMAIN a : a[j] \in U
      BY <2>2
    <3>2. PICK b : b = [j \in 1..Len(a) |-> IF a[j].key = e.key THEN e ELSE a[j]]
      OBVIOUS
    <3>3. b \in [1..Len(a) -> U]
      BY <2>2, <3>1, <3>2
    <3>4. b \in Seq(U)
      BY <3>1, <3>3
    <3>5. QED
      BY <3>1, <3>2, <3>4
  <2>5. Entering({}, a, e) \in Seq(U)
    BY <2>3, <2>4 DEF Entering
  <2>6. QED
    BY <2>1, <2>2, <2>5
<1> HIDE DEF T, n
<1>3. <<n, Enters!Folded({}, <<>>, entries)>> \in T
  BY <1>1, <1>2, Enters!FoldSteps
<1>4. FromEntries(entries) = Enters!Folded({}, <<>>, entries)
  BY FoldsOfLists
<1>5. QED
  BY <1>3, <1>4 DEF T

\* What a schema was built from.
LEMMA SchemaServices ==
  ASSUME NEW s \in Schemas
  PROVE  IsServices(s.services) /\ Builds(s.services) /\ s = Built(s.services)
<1>1. PICK schemas \in Registered : \E x : /\ x = ServicesOf(schemas, DefaultSchema, BuiltIn)
                                           /\ Builds(x) /\ s = Built(x)
  BY DEF Schemas
<1>2. PICK x : x = ServicesOf(schemas, DefaultSchema, BuiltIn) /\ Builds(x) /\ s = Built(x)
  BY <1>1
<1>3. s.services = x
  BY <1>2 DEF Built
<1>4. PICK own : own = IF schemas = <<>> THEN <<DefaultSchema>> ELSE schemas
  OBVIOUS
<1>5. PICK U : U = Range(schemas) \cup {DefaultSchema} \cup Range(BuiltIn)
  OBVIOUS
<1>6. \A y \in U : IsSchema(y)
  BY <1>5, SchemasAssumption
<1>7. own \o BuiltIn \in Seq(U)
  <2>1. schemas \in Seq(U) /\ BuiltIn \in Seq(U)
    <3>1. Listed(schemas) /\ Listed(BuiltIn)
      BY SchemasAssumption DEF Listed
    <3>2. Range(schemas) \subseteq U /\ Range(BuiltIn) \subseteq U
      BY <1>5
    <3>3. QED
      BY <3>1, <3>2, Lists
  <2>2. <<DefaultSchema>> \in Seq(U)
    BY <1>5
  <2>3. own \in Seq(U)
    BY <1>4, <2>1, <2>2
  <2>4. QED
    BY <2>1, <2>3
<1>8. PICK entries : entries = FromEntries(own \o BuiltIn)
  OBVIOUS
<1>9. entries \in Seq(U)
  BY <1>7, <1>8, EntriesList
<1>10. x = [i \in DOMAIN entries |-> entries[i].nodes]
  BY <1>2, <1>4, <1>8 DEF ServicesOf
<1>11. Len(entries) \in Nat /\ DOMAIN entries = 1..Len(entries) /\ \A i \in DOMAIN entries : entries[i] \in U
  BY <1>9
<1>12. ASSUME NEW i \in 1..Len(entries)
       PROVE  IsService(x[i])
  <2>1. IsSchema(entries[i]) /\ x[i] = entries[i].nodes
    BY <1>6, <1>10, <1>11
  <2>2. QED
    BY <2>1 DEF IsSchema, IsService, Listed
<1>13. IsServices(x)
  BY <1>10, <1>11, <1>12 DEF IsServices
<1>14. QED
  BY <1>2, <1>3, <1>13

\* The directives that a service has for a type or a member: none without a node, and
\* those that stay in one of its nodes, when no later node of it replaces them.
LEMMA CollectedList ==
  ASSUME NEW service, IsService(service), NEW t, NEW m
  PROVE  /\ Listed(Collected(service, t, m))
         /\ Collected(service, t, m) # <<>> => \E i \in DOMAIN service : service[i].type = t /\ service[i].member = m
         /\ \A i \in DOMAIN service : \A d :
               /\ service[i].type = t /\ service[i].member = m
               /\ d.name \notin knownApolloDirectives /\ Stays(d, service[i].directives)
               /\ \A j \in DOMAIN service :
                     j > i /\ service[j].type = t /\ service[j].member = m => ~Replaces(service[j].directives)
               => Stays(d, Collected(service, t, m))
<1>1. PICK n \in Nat : n = Len(service) /\ DOMAIN service = 1..n
  BY Lists DEF IsService
<1>2. \A i \in 1..n : Listed(service[i].directives)
  BY <1>1, Lists DEF IsService
<1>3. PICK lists : lists = [i \in DOMAIN service |->
                               IF service[i].type = t /\ service[i].member = m
                               THEN Custom(service[i].directives) ELSE <<>>]
  OBVIOUS
<1>4. DOMAIN lists = 1..n /\ Collected(service, t, m) = Joined(lists)
  BY <1>1, <1>3 DEF Collected
<1>5. ASSUME NEW directives, Listed(directives)
      PROVE  /\ Listed(Custom(directives))
             /\ ~Replaces(directives) => ~Replaces(Custom(directives))
             /\ \A d : Stays(d, directives) /\ d.name \notin knownApolloDirectives => Stays(d, Custom(directives))
  <2>1. PICK S : S = {d \in Range(directives) : d.name \notin knownApolloDirectives}
    OBVIOUS
  <2>2. Custom(directives) = Within(directives, S)
    BY <2>1 DEF Custom
  <2>3. /\ Listed(Custom(directives)) /\ Range(Custom(directives)) \subseteq Range(directives)
        /\ \A d \in S : Stays(d, directives) => Stays(d, Custom(directives))
    BY <1>5, <2>2, Filtered
  <2>4. ASSUME ~Replaces(directives)
        PROVE  ~Replaces(Custom(directives))
    <3>1. \A d \in Range(directives) : d.name \notin ResolverDirectives
      BY <1>5, <2>4, Lists DEF Replaces
    <3>2. \A i \in DOMAIN Custom(directives) : Custom(directives)[i] \in Range(directives)
      BY <2>3, Lists
    <3>3. QED
      BY <3>1, <3>2 DEF Replaces
  <2>5. ASSUME NEW d, Stays(d, directives), d.name \notin knownApolloDirectives
        PROVE  Stays(d, Custom(directives))
    <3>1. d \in Range(directives)
      BY <1>5, <2>5, Lists DEF Stays
    <3>2. QED
      BY <2>1, <2>3, <2>5, <3>1
  <2>6. QED
    BY <2>3, <2>4, <2>5
<1>6. Listed(<<>>) /\ ~Replaces(<<>>)
  BY DEF Listed, Range, Replaces
<1>7. \A i \in 1..n : Listed(lists[i])
  BY <1>1, <1>2, <1>3, <1>5, <1>6
<1>8. /\ Listed(Joined(lists))
      /\ (\A i \in 1..n : lists[i] = <<>>) => Joined(lists) = <<>>
  BY <1>4, <1>7, JoinedLists
<1>9. ASSUME Collected(service, t, m) # <<>>
      PROVE  \E i \in DOMAIN service : service[i].type = t /\ service[i].member = m
  BY <1>1, <1>3, <1>4, <1>8, <1>9
<1>10. ASSUME NEW i \in DOMAIN service, NEW d, service[i].type = t, service[i].member = m,
              d.name \notin knownApolloDirectives, Stays(d, service[i].directives),
              \A j \in DOMAIN service :
                 j > i /\ service[j].type = t /\ service[j].member = m => ~Replaces(service[j].directives)
       PROVE  Stays(d, Collected(service, t, m))
  <2>1. Stays(d, lists[i])
    BY <1>1, <1>2, <1>3, <1>5, <1>10
  <2>2. \A j \in 1..n : j > i => ~Replaces(lists[j])
    BY <1>1, <1>2, <1>3, <1>5, <1>6, <1>10
  <2>3. QED
    BY <1>1, <1>4, <1>7, <2>1, <2>2, JoinedLists
<1>11. QED
  BY <1>4, <1>8, <1>9, <1>10

----------------------------------------------------------------------------
(* Policies. *)

\* A policy of a composed field wraps its resolver, unless a resolver directive follows it:
\* what FieldResolution assumes of its fields is what the visitors and the merge make of any
\* lists of directives, without the assumption (policy.ts, rest.ts, build-federated-schema.ts).
THEOREM ComposedFieldsKeepPolicies ==
  ASSUME NEW s \in Schemas, NEW f \in Fields
  PROVE  KeepsPolicies(s.impl[f]) /\ s.impl[f].resolver \in Resolvers
<1>1. PICK services : services = s.services
  OBVIOUS
<1>2. IsServices(services) /\ s = Built(services)
  BY <1>1, SchemaServices
<1>3. PICK t, m : t = f[1] /\ m = f[2] /\ KindOf[t] = "object"
  BY FieldsAssumption
<1>4. PICK n \in Nat : DOMAIN services = 1..n /\ \A j \in 1..n : IsService(services[j])
  BY <1>2 DEF IsServices
<1>5. PICK lists : lists = [j \in DOMAIN services |-> Collected(services[j], t, m)]
  OBVIOUS
<1>6. \A j \in 1..n : Listed(lists[j])
  BY <1>4, <1>5, CollectedList
<1>7. PICK directives : directives = DirectivesOf(services, t, m)
  OBVIOUS
<1>8. directives = Joined(lists)
  BY <1>3, <1>5, <1>7 DEF DirectivesOf, MergeInOrder
<1>9. Listed(directives)
  BY <1>4, <1>5, <1>6, <1>8, JoinedLists
<1>10. PICK own : own = Within(directives, {d \in Range(directives) : d.name \in OnObject})
  OBVIOUS
<1>11. Listed(own)
  BY <1>9, <1>10, Filtered
<1>12. s.impl[f] = ResolverOfMember(services, t, m)
  BY <1>2, <1>3 DEF Built
<1>13. s.impl[f] = Visited(directives) \/ s.impl[f] = Visited(own)
  BY <1>7, <1>10, <1>12 DEF ResolverOfMember
<1>14. QED
  BY <1>9, <1>11, <1>13, VisitorsKeepPolicies DEF Listed

\* A policy of a field or an object type wraps its resolver, unless a resolver directive
\* follows it in the service, or a later service has one.
LEMMA DeclaredWraps ==
  ASSUME NEW services, IsServices(services), NEW t, NEW m, KindOf[t] = "object",
         NEW i \in DOMAIN services, NEW d, IsPolicy(d), Stays(d, Collected(services[i], t, m)),
         \A j \in DOMAIN services : j > i => ~Replaces(Collected(services[j], t, m))
  PROVE  \E p \in 1..Len(ResolverOfMember(services, t, m).wrappers) :
            ResolverOfMember(services, t, m).wrappers[p] = d
<1>1. PICK n \in Nat : DOMAIN services = 1..n /\ \A j \in 1..n : IsService(services[j])
  BY DEF IsServices
<1>2. PICK lists : lists = [j \in DOMAIN services |-> Collected(services[j], t, m)]
  OBVIOUS
<1>3. \A j \in 1..n : Listed(lists[j])
  BY <1>1, <1>2, CollectedList
<1>4. PICK s : s = DirectivesOf(services, t, m)
  OBVIOUS
<1>5. s = Joined(lists)
  BY <1>2, <1>4 DEF DirectivesOf, MergeInOrder
<1>6. Stays(d, s) /\ Listed(s)
  BY <1>1, <1>2, <1>3, <1>5, JoinedLists
<1>7. d.name \in WrapperNames /\ d.name \in OnObject
  BY DEF IsPolicy, PolicyNames, WrapperNames, OnObject
<1>8. PICK own : own = Within(s, {x \in Range(s) : x.name \in OnObject})
  OBVIOUS
<1>9. Stays(d, own) /\ Listed(own)
  <2>1. d \in Range(s)
    BY <1>6, Lists DEF Stays
  <2>2. QED
    BY <1>6, <1>7, <1>8, <2>1, Filtered
<1>10. PICK v : v = ResolverOfMember(services, t, m)
  OBVIOUS
<1>11. v = Visited(s) \/ v = Visited(own)
  BY <1>4, <1>8, <1>10 DEF ResolverOfMember
<1>12. \E p \in 1..Len(v.wrappers) : v.wrappers[p] = d
  <2>1. ASSUME NEW u, Listed(u), Stays(d, u)
        PROVE  \E p \in 1..Len(Visited(u).wrappers) : Visited(u).wrappers[p] = d
    <3>1. \A x : Stays(x, u) /\ x.name \in WrapperNames
                 => \E p \in 1..Len(Visited(u).wrappers) : Visited(u).wrappers[p] = x
      BY <2>1, VisitedField
    <3>2. QED
      BY <1>7, <2>1, <3>1
  <2>2. QED
    BY <1>6, <1>9, <1>11, <2>1
<1>13. QED
  BY <1>10, <1>12

\* Composition loses, reorders and weakens no policy: an answer with data of the resolver
\* passed every policy that a service declares and no later resolver directive replaces
\* (build-federated-schema.ts, policy.ts, policies.ts).
THEOREM DeclaredPolicyGuardsHolds == SpecQuery => []DeclaredPolicyGuards
<1>1. TypeInv /\ GuardInv /\ QueryInv => DeclaredPolicyGuards
  <2> SUFFICES ASSUME TypeInv, GuardInv, QueryInv,
                      NEW c \in Calls, NEW i \in DOMAIN schema.services, NEW n \in DOMAIN schema.services[i],
                      <<schema.services[i][n].type, schema.services[i][n].member>> = fieldOf[c], ~ignorePolicies,
                      Main(c).at = "done", IsValue(Main(c).out), Main(c).out.from \cap BaseData # {},
                      NEW k \in DOMAIN schema.services[i][n].directives,
                      IsPolicy(schema.services[i][n].directives[k]),
                      ~Replaces(SubSeq(schema.services[i][n].directives, k + 1,
                                       Len(schema.services[i][n].directives))),
                      \A j \in DOMAIN schema.services[i] :
                         j > n /\ <<schema.services[i][j].type, schema.services[i][j].member>> = fieldOf[c]
                         => ~Replaces(schema.services[i][j].directives),
                      \A j \in {l \in DOMAIN schema.services : l > i} :
                         ~Replaces(Collected(schema.services[j], schema.services[i][n].type,
                                             schema.services[i][n].member))
               PROVE  \E p \in 1..Len(WrappersOf(c)) :
                         WrappersOf(c)[p] = schema.services[i][n].directives[k] /\ Guarded(c, p)
    BY DEF DeclaredPolicyGuards
  <2>1. PICK services : services = schema.services
    OBVIOUS
  <2>2. PICK node : node = services[i][n]
    OBVIOUS
  <2>3. PICK d : d = node.directives[k]
    OBVIOUS
  <2>4. IsServices(services) /\ schema = Built(services) /\ impl = schema.impl
    BY <2>1, SchemaServices DEF QueryInv, SchemaInv
  <2>5. IsService(services[i]) /\ node \in Range(services[i])
    BY <2>1, <2>2, <2>4 DEF IsServices, Range
  <2>6. Listed(node.directives)
    BY <2>5 DEF IsService
  <2>7. Stays(d, node.directives)
    <3>1. PICK s : s = node.directives
      OBVIOUS
    <3>2. s \in Seq(Range(s)) /\ Len(s) \in Nat /\ DOMAIN s = 1..Len(s) /\ k \in DOMAIN s /\ s[k] = d
      BY <2>1, <2>2, <2>3, <2>6, <3>1 DEF Listed
    <3>3. PICK u : u = SubSeq(s, k + 1, Len(s))
      OBVIOUS
    <3>4. ~Replaces(u)
      BY <2>1, <2>2, <3>1, <3>3
    <3>5. DOMAIN u = 1..(Len(s) - k) /\ \A j \in DOMAIN u : u[j] = s[k + j]
      BY <3>2, <3>3
    <3>6. ASSUME NEW j \in DOMAIN s, j > k
          PROVE  s[j].name \notin ResolverDirectives
      <4>1. j - k \in DOMAIN u /\ s[k + (j - k)] = s[j]
        BY <3>2, <3>5, <3>6
      <4>2. QED
        BY <3>4, <3>5, <4>1 DEF Replaces
    <3>7. QED
      BY <3>1, <3>2, <3>6 DEF Stays
  <2>8. PICK t, m : fieldOf[c] = <<t, m>> /\ node.type = t /\ node.member = m /\ KindOf[t] = "object"
    <3>1. fieldOf[c] \in Fields
      BY CallsAssumption
    <3>2. fieldOf[c] = <<node.type, node.member>> /\ KindOf[fieldOf[c][1]] = "object"
      BY <2>1, <2>2, <3>1, FieldsAssumption
    <3>3. QED
      BY <3>2
  <2>9. IsPolicy(d) /\ d.name \notin knownApolloDirectives
    BY <2>1, <2>2, <2>3 DEF IsPolicy, PolicyNames, knownApolloDirectives
  <2>10. \A j \in DOMAIN services[i] :
            j > n /\ services[i][j].type = t /\ services[i][j].member = m => ~Replaces(services[i][j].directives)
    BY <2>1, <2>8
  <2>11. Stays(d, Collected(services[i], t, m))
    BY <2>1, <2>2, <2>5, <2>7, <2>8, <2>9, <2>10, CollectedList
  <2>12. \A j \in DOMAIN services : j > i => ~Replaces(Collected(services[j], t, m))
    BY <2>1, <2>2, <2>8
  <2>13. WrappersOf(c) = ResolverOfMember(services, t, m).wrappers
    <3>1. impl = [f \in Fields |-> ResolverOfMember(services, f[1], f[2])]
      BY <2>4 DEF Built
    <3>2. fieldOf[c] \in Fields
      BY CallsAssumption
    <3>3. QED
      BY <2>8, <3>1, <3>2 DEF WrappersOf
  <2>14. PICK p \in 1..Len(WrappersOf(c)) : WrappersOf(c)[p] = d
    <3>1. i \in DOMAIN services
      BY <2>1
    <3>2. \E p \in 1..Len(ResolverOfMember(services, t, m).wrappers) :
             ResolverOfMember(services, t, m).wrappers[p] = d
      BY <2>4, <2>8, <2>9, <2>11, <2>12, <3>1, DeclaredWraps
    <3>3. QED
      BY <2>13, <3>2
  <2>15. GuardedAll(c)
    BY AnswerGuarded DEF Base
  <2>16. Guarded(c, p)
    BY <2>9, <2>14, <2>15 DEF GuardedAll
  <2>17. QED
    BY <2>1, <2>2, <2>3, <2>14, <2>16
<1>2. QED
  BY <1>1, QueryInvariant, PTL

----------------------------------------------------------------------------
(* Enums. *)

\* Array.find finds the first.
LEMMA FirstIs ==
  ASSUME NEW s, NEW n \in Nat, DOMAIN s = 1..n, NEW i \in 1..n
  PROVE  /\ s[i].name = "enumValue" /\ (\A j \in 1..(i - 1) : s[j].name # "enumValue") => EnumValueOf(s) = s[i].value
         /\ (\A j \in 1..(i - 1) : s[j].key # s[i].key) => ParseValue(s, s[i].key) = s[i].value
         /\ (\A j \in 1..(i - 1) : s[j].value # s[i].value) => Serialize(s, s[i].value) = s[i].key
<1>1. ASSUME s[i].name = "enumValue", \A j \in 1..(i - 1) : s[j].name # "enumValue"
      PROVE  EnumValueOf(s) = s[i].value
  <2>1. \A k \in DOMAIN s : s[k].name = "enumValue" /\ (\A j \in 1..(k - 1) : ~(s[j].name = "enumValue")) => k = i
    BY <1>1
  <2>2. (CHOOSE k \in DOMAIN s : s[k].name = "enumValue" /\ \A j \in 1..(k - 1) : ~(s[j].name = "enumValue")) = i
    BY <1>1, <2>1
  <2>3. QED
    BY <2>2 DEF EnumValueOf, FirstWith
<1>2. ASSUME \A j \in 1..(i - 1) : s[j].key # s[i].key
      PROVE  ParseValue(s, s[i].key) = s[i].value
  <2>1. \A k \in DOMAIN s : s[k].key = s[i].key /\ (\A j \in 1..(k - 1) : ~(s[j].key = s[i].key)) => k = i
    BY <1>2
  <2>2. (CHOOSE k \in DOMAIN s : s[k].key = s[i].key /\ \A j \in 1..(k - 1) : ~(s[j].key = s[i].key)) = i
    BY <1>2, <2>1
  <2>3. QED
    BY <2>2 DEF ParseValue, FirstWith
<1>3. ASSUME \A j \in 1..(i - 1) : s[j].value # s[i].value
      PROVE  Serialize(s, s[i].value) = s[i].key
  <2>1. \A k \in DOMAIN s : s[k].value = s[i].value /\ (\A j \in 1..(k - 1) : ~(s[j].value = s[i].value)) => k = i
    BY <1>3
  <2>2. (CHOOSE k \in DOMAIN s : s[k].value = s[i].value /\ \A j \in 1..(k - 1) : ~(s[j].value = s[i].value)) = i
    BY <1>3, <2>1
  <2>3. QED
    BY <2>2 DEF Serialize, FirstWith
<1>4. QED
  BY <1>1, <1>2, <1>3

\* Of the directives of an enum value, the first of its name is the one that is kept.
LEMMA FirstKept ==
  ASSUME NEW s, Listed(s), Has(s, "enumValue")
  PROVE  EnumValueOf(FirstOfName(s)) = EnumValueOf(s)
<1> DEFINE n == Len(s)
           U == Range(s)
           Unnamed(a) == \A r \in DOMAIN a : a[r].name # "enumValue"
           First(d, a) == \E q \in DOMAIN a : a[q] = d /\ \A r \in 1..(q - 1) : a[r].name # "enumValue"
<1>1. n \in Nat /\ DOMAIN s = 1..n /\ \A i \in DOMAIN s : s[i] \in U
  BY Lists
<1>2. PICK f \in 1..n : s[f].name = "enumValue" /\ \A j \in 1..(f - 1) : s[j].name # "enumValue"
  <2>1. PICK S : S = {i \in 1..n : s[i].name = "enumValue"}
    OBVIOUS
  <2>2. S \subseteq Nat /\ S # {}
    BY <1>1, <2>1 DEF Has
  <2>3. PICK f \in S : \A j \in S : f <= j
    BY <2>2, Keeps!LeastOf
  <2>4. f \in 1..n /\ s[f].name = "enumValue" /\ n \in Nat
    BY <1>1, <2>1
  <2>5. \A j \in 1..(f - 1) : j \in 1..n /\ ~(f <= j)
    BY <2>4
  <2> HIDE DEF n
  <2>6. QED
    BY <2>1, <2>3, <2>4, <2>5
<1> DEFINE T == {x \in (0..n) \X Seq(U) : (x[1] < f => Unnamed(x[2])) /\ (x[1] >= f => First(s[f], x[2]))}
<1>3. <<0, <<>> >> \in T
  <2>1. PICK e : e = <<>>
    OBVIOUS
  <2>2. e \in Seq(U) /\ 0 \in 0..n /\ Unnamed(e) /\ ~(0 >= f)
    BY <1>1, <2>1
  <2> HIDE DEF First, Unnamed, U, n
  <2>3. QED
    BY <2>1, <2>2
<1>4. ASSUME NEW i \in 0..(n - 1), NEW a, <<i, a>> \in T
      PROVE  <<i + 1, Naming({}, a, s[i + 1])>> \in T
  <2>1. i \in Nat /\ f \in Nat /\ i + 1 \in 1..n /\ i + 1 \in 0..n /\ s[i + 1] \in U
    BY <1>1, <1>2
  <2>2. PICK u : u = s[i + 1]
    OBVIOUS
  <2>3. a \in Seq(U) /\ (i < f => Unnamed(a)) /\ (i >= f => First(s[f], a))
    <3> HIDE DEF First, Unnamed, U, n
    <3>1. QED
      BY <1>4
  <2>4. PICK b : b = Append(a, u)
    OBVIOUS
  <2>5. /\ b \in Seq(U) /\ Len(a) \in Nat /\ DOMAIN a = 1..Len(a) /\ DOMAIN b = 1..(Len(a) + 1)
        /\ b[Len(a) + 1] = u /\ \A r \in DOMAIN a : b[r] = a[r]
    BY <2>1, <2>2, <2>3, <2>4, Appended
  <2>6. Naming({}, a, u) \in {a, b}
    BY <2>4 DEF Naming
  <2>7. CASE i + 1 < f
    <3>1. u.name # "enumValue" /\ i < f
      BY <1>2, <2>1, <2>2, <2>7
    <3>2. Unnamed(a) /\ Unnamed(b)
      BY <2>3, <2>5, <3>1
    <3> HIDE DEF First, Unnamed, U, n
    <3>3. QED
      BY <2>1, <2>2, <2>3, <2>5, <2>6, <2>7, <3>2
  <2>8. CASE i + 1 = f
    <3>1. u = s[f] /\ u.name = "enumValue" /\ Unnamed(a)
      BY <1>2, <2>1, <2>2, <2>3, <2>8
    <3>2. Naming({}, a, u) = b
      BY <2>4, <3>1 DEF Naming
    <3>3. \A r \in 1..((Len(a) + 1) - 1) : r \in DOMAIN a
      BY <2>5
    <3>4. First(s[f], b)
      BY <2>5, <3>1, <3>3
    <3> HIDE DEF First, Unnamed, U, n
    <3>5. QED
      BY <2>1, <2>2, <2>5, <2>8, <3>2, <3>4
  <2>9. CASE i + 1 > f
    <3>1. First(s[f], a)
      BY <2>1, <2>3, <2>9
    <3>2. First(s[f], b)
      <4>1. PICK q \in DOMAIN a : a[q] = s[f] /\ \A r \in 1..(q - 1) : a[r].name # "enumValue"
        BY <3>1
      <4>2. q \in DOMAIN b /\ b[q] = s[f] /\ \A r \in 1..(q - 1) : r \in DOMAIN a
        BY <2>5, <4>1
      <4>3. QED
        BY <2>5, <4>1, <4>2
    <3> HIDE DEF First, Unnamed, U, n
    <3>3. QED
      BY <2>1, <2>2, <2>3, <2>5, <2>6, <2>9, <3>1, <3>2
  <2>10. QED
    BY <2>1, <2>7, <2>8, <2>9
<1>5. PICK w : w = FirstOfName(s)
  OBVIOUS
<1>6. w \in Seq(U) /\ First(s[f], w)
  <2>1. w = Names!Folded({}, <<>>, s)
    BY <1>5, FoldsOfLists
  <2>2. <<n, w>> \in T
    <3> HIDE DEF T, n
    <3>1. QED
      BY <1>1, <1>3, <1>4, <2>1, Names!FoldSteps
  <2>3. n >= f
    BY <1>1, <1>2
  <2> HIDE DEF First, Unnamed, U, n
  <2>4. QED
    BY <2>2, <2>3
<1>7. PICK q \in DOMAIN w : w[q] = s[f] /\ \A r \in 1..(q - 1) : w[r].name # "enumValue"
  BY <1>6
<1>8. EnumValueOf(w) = s[f].value
  <2>1. Len(w) \in Nat /\ DOMAIN w = 1..Len(w)
    BY <1>6
  <2>2. q \in 1..Len(w)
    BY <1>7, <2>1
  <2> HIDE DEF n, U, First
  <2>3. EnumValueOf(w) = w[q].value
    BY <1>2, <1>7, <2>1, <2>2, FirstIs
  <2>4. QED
    BY <1>7, <2>3
<1>9. EnumValueOf(s) = s[f].value
  <2> HIDE DEF n, U, First
  <2>1. QED
    BY <1>1, <1>2, FirstIs
<1>10. QED
  BY <1>5, <1>8, <1>9

\* An enum has the directives of the last service that has any for it.
LEMMA MergedLast ==
  ASSUME NEW services, NEW n \in Nat, DOMAIN services = 1..n, NEW t, NEW m, MergeLast(services, t, m) # <<>>
  PROVE  \E last \in 1..n :
            /\ Collected(services[last], t, m) # <<>>
            /\ \A j \in 1..n : j > last => Collected(services[j], t, m) = <<>>
            /\ MergeLast(services, t, m) = FirstOfName(Collected(services[last], t, m))
<1>1. PICK w : w = MergeLast(services, t, m)
  OBVIOUS
<1>2. w = Merges!Folded(<<t, m>>, <<>>, services)
  BY <1>1, FoldsOfSchemas
<1>3. \A a, x : Merging(<<t, m>>, a, x) =
                   IF Collected(x, t, m) = <<>> THEN a ELSE FirstOfName(Collected(x, t, m))
  BY DEF Merging
<1>4. PICK S : S = {i \in 1..n : Collected(services[i], t, m) # <<>>}
  OBVIOUS
<1>5. S # {}
  <2>1. SUFFICES ASSUME S = {}
                 PROVE  FALSE
    OBVIOUS
  <2>2. PICK T : T = {x \in (0..n) \X {<<>>} : TRUE}
    OBVIOUS
  <2>3. <<0, <<>> >> \in T
    BY <2>2
  <2>4. ASSUME NEW i \in 0..(n - 1), NEW a, <<i, a>> \in T
        PROVE  <<i + 1, Merging(<<t, m>>, a, services[i + 1])>> \in T
    <3>1. a = <<>> /\ i + 1 \in 1..n /\ i + 1 \in 0..n
      BY <2>2, <2>4
    <3>2. Collected(services[i + 1], t, m) = <<>>
      BY <1>4, <2>1, <3>1
    <3>3. QED
      BY <1>3, <2>2, <3>1, <3>2
  <2>5. <<n, Merges!Folded(<<t, m>>, <<>>, services)>> \in T
    BY <2>3, <2>4, Merges!FoldSteps
  <2>6. QED
    BY <1>1, <1>2, <2>2, <2>5
<1>6. PICK last \in S : \A j \in S : j <= last
  <2>1. S \subseteq 1..n
    BY <1>4
  <2>2. Keeps!Greatest(S) \in S /\ \A y \in S : y <= Keeps!Greatest(S)
    BY <1>5, <2>1, Keeps!GreatestOf
  <2>3. QED
    BY <2>2
<1>7. last \in 1..n /\ Collected(services[last], t, m) # <<>>
  BY <1>4
<1>8. ASSUME NEW j \in 1..n, j > last
      PROVE  Collected(services[j], t, m) = <<>>
  BY <1>4, <1>6, <1>7, <1>8
<1>9. PICK v : v = FirstOfName(Collected(services[last], t, m))
  OBVIOUS
<1>10. w = v
  <2>1. PICK A : A = {<<>>} \cup {FirstOfName(Collected(services[j], t, m)) : j \in 1..n}
    OBVIOUS
  <2>2. PICK T : T = {x \in (0..n) \X A : x[1] >= last => x[2] = v}
    OBVIOUS
  <2>3. <<0, <<>> >> \in T
    <3>1. PICK e : e = <<>>
      OBVIOUS
    <3>2. e \in A /\ 0 \in 0..n /\ ~(0 >= last)
      BY <1>7, <2>1, <3>1
    <3>3. QED
      BY <2>2, <3>1, <3>2
  <2>4. ASSUME NEW i \in 0..(n - 1), NEW a, <<i, a>> \in T
        PROVE  <<i + 1, Merging(<<t, m>>, a, services[i + 1])>> \in T
    <3>1. a \in A /\ (i >= last => a = v) /\ i + 1 \in 1..n /\ i + 1 \in 0..n /\ i \in Nat /\ last \in Nat
      BY <1>7, <2>2, <2>4
    <3>2. PICK u : u = FirstOfName(Collected(services[i + 1], t, m))
      OBVIOUS
    <3>3. u \in A
      BY <2>1, <3>1, <3>2
    <3>4. Merging(<<t, m>>, a, services[i + 1]) = IF Collected(services[i + 1], t, m) = <<>> THEN a ELSE u
      BY <1>3, <3>2
    <3>5. CASE i + 1 < last
      BY <2>2, <3>1, <3>3, <3>4, <3>5
    <3>6. CASE i + 1 = last
      BY <1>7, <1>9, <2>2, <3>1, <3>2, <3>3, <3>4, <3>6
    <3>7. CASE i + 1 > last
      <4>1. Collected(services[i + 1], t, m) = <<>> /\ a = v
        BY <1>8, <3>1, <3>7
      <4>2. QED
        BY <2>2, <3>1, <3>4, <4>1
    <3>8. QED
      BY <3>1, <3>5, <3>6, <3>7
  <2>5. <<n, w>> \in T
    BY <1>2, <2>3, <2>4, Merges!FoldSteps
  <2>6. QED
    BY <1>7, <2>2, <2>5
<1>11. QED
  BY <1>1, <1>7, <1>8, <1>9, <1>10

\* A value that an annotating service does not leave out is annotated by the last of them.
LEMMA AnnotatedLast ==
  ASSUME NEW services, IsServices(services), Composes(services), NEW t \in Types, KindOf[t] = "enum",
         NEW v \in Members, NEW u \in Members,
         \A s \in Range(services) :
            (\E x \in Members : Collected(s, t, x) # <<>>) =>
               /\ \A x \in DeclaredBy(s, t) : Has(Collected(s, t, x), "enumValue")
               /\ \A x, y \in DeclaredBy(s, t) :
                     x # y => EnumValueOf(Collected(s, t, x)) # EnumValueOf(Collected(s, t, y)),
         Has(DirectivesOf(services, t, v), "enumValue"), Has(DirectivesOf(services, t, u), "enumValue"), v # u
  PROVE  EnumValueOf(DirectivesOf(services, t, v)) # EnumValueOf(DirectivesOf(services, t, u))
<1>1. PICK n \in Nat : DOMAIN services = 1..n /\ \A i \in 1..n : IsService(services[i])
  BY DEF IsServices
<1>2. /\ DirectivesOf(services, t, v) = MergeLast(services, t, v)
      /\ DirectivesOf(services, t, u) = MergeLast(services, t, u)
  BY DEF DirectivesOf
<1>3. ~Has(<<>>, "enumValue")
  BY DEF Has
<1>4. ASSUME NEW x \in {v, u}
      PROVE  \E last \in 1..n :
                /\ Collected(services[last], t, x) # <<>>
                /\ \A j \in 1..n : j > last => Collected(services[j], t, x) = <<>>
                /\ MergeLast(services, t, x) = FirstOfName(Collected(services[last], t, x))
  <2>1. MergeLast(services, t, x) # <<>>
    BY <1>2, <1>3, <1>4
  <2>2. QED
    BY <1>1, <2>1, MergedLast
<1>5. PICK i \in 1..n : /\ Collected(services[i], t, v) # <<>>
                        /\ \A j \in 1..n : j > i => Collected(services[j], t, v) = <<>>
                        /\ MergeLast(services, t, v) = FirstOfName(Collected(services[i], t, v))
  BY <1>4
<1>6. PICK k \in 1..n : /\ Collected(services[k], t, u) # <<>>
                        /\ \A j \in 1..n : j > k => Collected(services[j], t, u) = <<>>
                        /\ MergeLast(services, t, u) = FirstOfName(Collected(services[k], t, u))
  BY <1>4
<1>7. ASSUME NEW j \in 1..n, NEW x \in Members, Collected(services[j], t, x) # <<>>
      PROVE  /\ x \in DeclaredBy(services[j], t) /\ services[j] \in Range(services)
             /\ \A y \in DeclaredBy(services[j], t) :
                   Has(Collected(services[j], t, y), "enumValue") /\ Collected(services[j], t, y) # <<>>
  <2>1. \E l \in DOMAIN services[j] : services[j][l].type = t /\ services[j][l].member = x
    BY <1>1, <1>7, CollectedList
  <2>2. x \in DeclaredBy(services[j], t)
    BY <2>1, FieldsAssumption DEF DeclaredBy
  <2>3. services[j] \in Range(services)
    BY <1>1 DEF Range
  <2>4. QED
    BY <1>3, <1>7, <2>2, <2>3
<1>8. DeclaredBy(services[i], t) = DeclaredBy(services[k], t)
  <2>1. DeclaredBy(services[i], t) # {} /\ DeclaredBy(services[k], t) # {}
    BY <1>5, <1>6, <1>7
  <2>2. QED
    BY <1>1, <2>1 DEF Composes
<1>9. i = k
  <2>1. Collected(services[i], t, u) # <<>> /\ Collected(services[k], t, v) # <<>>
    BY <1>5, <1>6, <1>7, <1>8
  <2>2. ~(i > k) /\ ~(k > i)
    BY <1>5, <1>6, <2>1
  <2>3. QED
    BY <2>2
<1>10. PICK s : s = services[i]
  OBVIOUS
<1>11. /\ v \in DeclaredBy(s, t) /\ u \in DeclaredBy(s, t) /\ s \in Range(services) /\ IsService(s)
       /\ Has(Collected(s, t, v), "enumValue") /\ Has(Collected(s, t, u), "enumValue")
  BY <1>1, <1>5, <1>6, <1>7, <1>8, <1>10
<1>12. EnumValueOf(Collected(s, t, v)) # EnumValueOf(Collected(s, t, u))
  BY <1>5, <1>10, <1>11
<1>13. /\ EnumValueOf(FirstOfName(Collected(s, t, v))) = EnumValueOf(Collected(s, t, v))
       /\ EnumValueOf(FirstOfName(Collected(s, t, u))) = EnumValueOf(Collected(s, t, u))
  BY <1>11, CollectedList, FirstKept
<1>14. QED
  BY <1>2, <1>5, <1>6, <1>9, <1>10, <1>12, <1>13

\* An enum serializes each internal value to the value it was parsed from, when no service
\* annotates some of its values only: the merge of the services' directives then takes all
\* values from one service (enum-resolver.ts, build-federated-schema.ts).
THEOREM EnumsRoundTripHolds == SpecQuery => []EnumsRoundTrip
<1>1. SchemaInv => EnumsRoundTrip
  <2> SUFFICES ASSUME SchemaInv, NEW t \in DOMAIN schema.enumValues,
                      \A s \in {x \in Range(schema.services) : \E v \in Members : Collected(x, t, v) # <<>>} :
                         /\ \A v \in DeclaredBy(s, t) : Has(Collected(s, t, v), "enumValue")
                         /\ \A v, w \in DeclaredBy(s, t) :
                               v # w => EnumValueOf(Collected(s, t, v)) # EnumValueOf(Collected(s, t, w)),
                      NEW i \in DOMAIN schema.enumValues[t]
               PROVE  Serialize(schema.enumValues[t], ParseValue(schema.enumValues[t], schema.enumValues[t][i].key))
                         = schema.enumValues[t][i].key
    BY DEF EnumsRoundTrip
  <2>1. PICK services : services = schema.services
    OBVIOUS
  <2>2. IsServices(services) /\ Builds(services) /\ schema = Built(services)
    BY <2>1, SchemaServices DEF SchemaInv
  <2>3. PICK keys : keys = MembersOf(services, t, MemberOrder[t])
    OBVIOUS
  <2>4. PICK values : values = schema.enumValues[t]
    OBVIOUS
  <2>5. /\ t \in Types /\ IsResolvedEnum(services, t) /\ KindOf[t] = "enum"
        /\ values = [j \in DOMAIN keys |-> [key |-> keys[j], value |-> EnumValueOf(DirectivesOf(services, t, keys[j]))]]
    BY <2>2, <2>3, <2>4 DEF Built, EnumValues, IsResolvedEnum
  <2>6. PICK S : S = UNION {DeclaredBy(s, t) : s \in Range(services)}
    OBVIOUS
  <2>7. /\ Listed(keys) /\ Range(keys) \subseteq Range(MemberOrder[t]) \cap S /\ Range(MemberOrder[t]) \subseteq Members
        /\ \A j, k \in DOMAIN keys : keys[j] = keys[k] => j = k
    <3>1. /\ MemberOrder[t] \in Seq(Members)
          /\ \A j, k \in DOMAIN MemberOrder[t] : MemberOrder[t][j] = MemberOrder[t][k] => j = k
      BY <2>5, FieldsAssumption
    <3>2. Listed(MemberOrder[t]) /\ Range(MemberOrder[t]) \subseteq Members
      BY <3>1, ListOf
    <3>3. keys = Within(MemberOrder[t], S)
      BY <2>3, <2>6 DEF MembersOf
    <3>4. QED
      BY <3>1, <3>2, <3>3, Filtered
  <2>8. PICK n \in Nat : DOMAIN keys = 1..n /\ DOMAIN values = 1..n /\ \A j \in 1..n : keys[j] \in Range(keys)
    BY <2>5, <2>7, Lists
  <2>9. ASSUME NEW j \in 1..n
        PROVE  keys[j] \in Members /\ Has(DirectivesOf(services, t, keys[j]), "enumValue")
    <3>1. keys[j] \in Members /\ keys[j] \in S
      BY <2>7, <2>8
    <3>2. PICK l \in DOMAIN services : keys[j] \in DeclaredBy(services[l], t)
      BY <2>6, <3>1 DEF Range
    <3>3. QED
      BY <2>2, <2>5, <3>1, <3>2 DEF Builds
  <2>10. ASSUME NEW j \in 1..n, NEW k \in 1..n, j # k
         PROVE  values[j].key # values[k].key /\ values[j].value # values[k].value
    <3>1. keys[j] # keys[k]
      BY <2>7, <2>8, <2>10
    <3>2. Composes(services)
      BY <2>2 DEF Builds
    <3>3. EnumValueOf(DirectivesOf(services, t, keys[j])) # EnumValueOf(DirectivesOf(services, t, keys[k]))
      BY <2>1, <2>2, <2>5, <2>9, <3>1, <3>2, AnnotatedLast
    <3>4. QED
      BY <2>5, <2>8, <3>1, <3>3
  <2>11. i \in 1..n /\ \A j \in 1..(i - 1) : j \in 1..n /\ j # i
    BY <2>4, <2>8
  <2>12. ParseValue(values, values[i].key) = values[i].value
    BY <2>8, <2>10, <2>11, FirstIs
  <2>13. Serialize(values, values[i].value) = values[i].key
    BY <2>8, <2>10, <2>11, FirstIs
  <2>14. QED
    BY <2>4, <2>12, <2>13
<1>2. QED
  BY <1>1, QueryInvariant, PTL DEF QueryInv

=============================================================================
