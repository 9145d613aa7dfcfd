-------------------------- MODULE Deployment_proofs --------------------------
(***************************************************************************)
(* Proofs about Deployment, for any commands, files, deletions, plugins    *)
(* and groups: what applying updates and deletions does to the lists of a  *)
(* group, to its declarations and to the names in it; what a command       *)
(* sends; that a request which is applied again changes nothing; and, of   *)
(* the specification, its types (TypeCorrect), that names are unique       *)
(* (NamesAreUnique) and the gateways' file is unambiguous                  *)
(* (FileIsUnambiguous), that the answers are right (OkIsApplied), what is  *)
(* published and served (PublishedAsDeclared, BothAreServed), that         *)
(* repeating a request is harmless (RepeatsAreHarmless) and that           *)
(* Deployment implements DeclaredResources (DeclaredImplemented).          *)
(*                                                                         *)
(* The invariant says of both files together that their lists are lists of *)
(* their kinds without twins, that they declare the same where no plugin   *)
(* interferes, and that the gateways' was validated; of the registry's,    *)
(* that applied commands declared all of it; of the commands, that what    *)
(* succeeded was applied; and of the request that was applied last,   *)
(* that the registry's file shows it and would not change by it.           *)
(***************************************************************************)
EXTENDS Deployment, FiniteSetTheorems, SequenceTheorems, TLAPS

----------------------------------------------------------------------------
(* The folds. *)

Upserting(p, a, x) == Upsert(a, x)
Transforming(p, a, x) == TransformBy(a, x)
Combining(p, a, x) == ApplyResourceGroupUpdates(a, x)
Upserts == INSTANCE Folding WITH Op <- Upserting
Keeps == INSTANCE Folding WITH Op <- Keep
Transforms == INSTANCE Folding WITH Op <- Transforming
Combines == INSTANCE Folding WITH Op <- Combining

\* The folds of the model are those of the instances.
LEMMA FoldsOf ==
  ASSUME NEW base, NEW seq, NEW S
  PROVE  /\ ApplyResourceUpdates(base, seq) = Upserts!Folded(S, base, seq)
         /\ Within(seq, S) = Keeps!Folded(S, <<>>, seq)
         /\ TransformResourceGroup(seq, base) = Transforms!Folded(S, base, seq)
<1>1. ApplyResourceUpdates(base, seq) = Upserts!Folded(S, base, seq)
  BY DEF ApplyResourceUpdates, Upserting, FoldLeft, MapThenFoldSet, Max,
         Upserts!Folded, Upserts!FoldLeft, Upserts!MapThenFoldSet, Upserts!Max
<1>2. Within(seq, S) = Keeps!Folded(S, <<>>, seq)
  BY DEF Within, FoldLeft, MapThenFoldSet, Max,
         Keeps!Folded, Keeps!FoldLeft, Keeps!MapThenFoldSet, Keeps!Max
<1>3. TransformResourceGroup(seq, base) = Transforms!Folded(S, base, seq)
  BY DEF TransformResourceGroup, Transforming, FoldLeft, MapThenFoldSet, Max,
         Transforms!Folded, Transforms!FoldLeft, Transforms!MapThenFoldSet, Transforms!Max
<1>4. QED
  BY <1>1, <1>2, <1>3

\* Several repositories are combined by a fold.
LEMMA CombinedFold ==
  ASSUME NEW groups, NEW S
  PROVE  CombinedGroups(groups) = Combines!Folded(S, groups[1], Tail(groups))
BY DEF CombinedGroups, Combining, FoldLeft, MapThenFoldSet, Max,
       Combines!Folded, Combines!FoldLeft, Combines!MapThenFoldSet, Combines!Max

----------------------------------------------------------------------------
(* Lists of resources. *)

Listed(s) == s \in Seq(Range(s))
Distinct(s) == \A i, j \in DOMAIN s : SameName(s[i], s[j]) => i = j

LEMMA Lists ==
  ASSUME NEW s, Listed(s)
  PROVE  /\ Len(s) \in Nat /\ DOMAIN s = 1..Len(s) /\ \A i \in DOMAIN s : s[i] \in Range(s)
         /\ \A r \in Range(s) : \E i \in DOMAIN s : r = s[i]
BY DEF Listed, Range

LEMMA ListOf ==
  ASSUME NEW s, NEW n \in Nat, NEW T, s \in [1..n -> T]
  PROVE  Listed(s) /\ Len(s) = n
<1>1. s \in [1..n -> Range(s)]
  BY DEF Range
<1>2. QED
  BY <1>1 DEF Listed

LEMMA Appended ==
  ASSUME NEW s, Listed(s), NEW u
  PROVE  /\ Listed(Append(s, u)) /\ Range(Append(s, u)) = Range(s) \cup {u}
         /\ DOMAIN Append(s, u) = 1..(Len(s) + 1)
         /\ \A i \in DOMAIN Append(s, u) : Append(s, u)[i] = IF i = Len(s) + 1 THEN u ELSE s[i]
<1>1. PICK T : T = Range(s) \cup {u}
  OBVIOUS
<1>2. s \in Seq(T)
  BY <1>1 DEF Listed
<1>3. PICK t : t = Append(s, u)
  OBVIOUS
<1>4. /\ t \in Seq(T) /\ Len(t) = Len(s) + 1 /\ t[Len(s) + 1] = u /\ Len(s) \in Nat
      /\ DOMAIN s = 1..Len(s) /\ DOMAIN t = 1..(Len(s) + 1)
      /\ \A i \in DOMAIN s : t[i] = s[i]
  BY <1>1, <1>2, <1>3
<1>5. \A i \in DOMAIN t : t[i] = IF i = Len(s) + 1 THEN u ELSE s[i]
  BY <1>4
<1>6. Range(t) = T
  <2>1. \A i \in DOMAIN t : t[i] \in T
    BY <1>4
  <2>2. \A r \in Range(s) : \E i \in DOMAIN s : r = s[i]
    BY Lists
  <2>3. \A r \in T : \E i \in DOMAIN t : t[i] = r
    BY <1>1, <1>4, <2>2
  <2>4. QED
    BY <2>1, <2>3 DEF Range
<1>7. QED
  BY <1>1, <1>3, <1>4, <1>5, <1>6 DEF Listed

\* An update takes the place of the resource of its name.
LEMMA Upserted ==
  ASSUME NEW s, Listed(s), Distinct(s), NEW u
  PROVE  /\ Listed(Upsert(s, u)) /\ Distinct(Upsert(s, u))
         /\ Range(Upsert(s, u)) = {r \in Range(s) : ~SameName(u, r)} \cup {u}
<1> DEFINE places == {i \in DOMAIN s : SameName(s[i], u)}
<1>1. /\ Len(s) \in Nat /\ DOMAIN s = 1..Len(s) /\ \A i \in DOMAIN s : s[i] \in Range(s)
      /\ \A r \in Range(s) : \E i \in DOMAIN s : r = s[i]
  BY Lists
<1>2. CASE places = {}
  <2>1. Upsert(s, u) = Append(s, u)
    BY <1>2 DEF Upsert
  <2>2. \A i \in DOMAIN s : ~SameName(s[i], u) /\ ~SameName(u, s[i])
    BY <1>2 DEF SameName
  <2>3. {r \in Range(s) : ~SameName(u, r)} = Range(s)
    BY <1>1, <2>2
  <2>4. Distinct(Append(s, u))
    BY <1>1, <2>2, Appended DEF Distinct
  <2>5. QED
    BY <2>1, <2>3, <2>4, Appended
<1>3. ASSUME NEW i \in places
      PROVE  /\ Listed(Upsert(s, u)) /\ Distinct(Upsert(s, u))
             /\ Range(Upsert(s, u)) = {r \in Range(s) : ~SameName(u, r)} \cup {u}
  <2>1. i \in DOMAIN s /\ SameName(s[i], u) /\ \A j \in DOMAIN s : SameName(s[j], u) => j = i
    BY DEF Distinct, SameName
  <2>2. (CHOOSE k \in places : \A j \in places : k <= j) = i
    <3>1. places = {i} /\ i \in Nat
      BY <1>1, <2>1
    <3>2. QED
      BY <3>1
  <2>3. Upsert(s, u) = [s EXCEPT ![i] = u]
    BY <2>2 DEF Upsert
  <2>4. PICK t : t = [s EXCEPT ![i] = u]
    OBVIOUS
  <2>5. /\ DOMAIN t = DOMAIN s /\ t[i] = u /\ \A j \in DOMAIN s : j # i => t[j] = s[j]
    BY <2>1, <2>4
  <2>6. Listed(t)
    <3>1. t \in [1..Len(s) -> Range(s) \cup {u}]
      BY <1>1, <2>1, <2>4
    <3>2. QED
      BY <1>1, <3>1, ListOf
  <2>7. Distinct(t)
    BY <2>1, <2>5 DEF Distinct, SameName
  <2>8. Range(t) = {r \in Range(s) : ~SameName(u, r)} \cup {u}
    <3>1. \A j \in DOMAIN s : j # i => ~SameName(u, s[j])
      BY <2>1 DEF SameName
    <3>2. SameName(u, s[i])
      BY <2>1 DEF SameName
    <3>3. \A r \in {q \in Range(s) : ~SameName(u, q)} \cup {u} : \E j \in DOMAIN t : t[j] = r
      BY <1>1, <2>1, <2>5, <3>2
    <3>4. \A j \in DOMAIN t : t[j] \in {q \in Range(s) : ~SameName(u, q)} \cup {u}
      BY <1>1, <2>5, <3>1
    <3>5. QED
      BY <3>3, <3>4 DEF Range
  <2>9. QED
    BY <2>3, <2>4, <2>6, <2>7, <2>8
<1>4. QED
  BY <1>2, <1>3

\* What a list of updates leaves of a set of resources, and adds to it: of two updates of
\* one name the last.
LastsUpTo(us, n) ==
    {us[i] : i \in {j \in 1..n : \A l \in 1..n : l > j => ~SameName(us[l], us[j])}}
Lasts(us) == LastsUpTo(us, Len(us))
Left(S, us) == {r \in S : \A i \in DOMAIN us : ~SameName(us[i], r)}

LEMMA LastsStep ==
  ASSUME NEW us, NEW n \in Nat
  PROVE  LastsUpTo(us, n + 1) = {r \in LastsUpTo(us, n) : ~SameName(us[n + 1], r)} \cup {us[n + 1]}
<1>1. \A j, l \in 1..(n + 1) : l > j <=> (j \in 1..n /\ (l = n + 1 \/ (l \in 1..n /\ l > j)))
  OBVIOUS
<1>2. \A j \in 1..(n + 1) : j = n + 1 \/ j \in 1..n
  OBVIOUS
<1>3. n + 1 \in 1..(n + 1) /\ n + 1 \notin 1..n /\ 1..n \subseteq 1..(n + 1)
  OBVIOUS
<1>4. QED
  BY <1>1, <1>2, <1>3 DEF LastsUpTo

LEMMA Updated ==
  ASSUME NEW s, Listed(s), Distinct(s), NEW us, Listed(us)
  PROVE  /\ Listed(ApplyResourceUpdates(s, us)) /\ Distinct(ApplyResourceUpdates(s, us))
         /\ Range(ApplyResourceUpdates(s, us)) = Left(Range(s), us) \cup Lasts(us)
<1> DEFINE n == Len(us)
           U == Range(s) \cup Range(us)
           After(i) == {r \in Range(s) : \A j \in 1..i : ~SameName(us[j], r)} \cup LastsUpTo(us, i)
           Good(i, a) == Listed(a) /\ Distinct(a) /\ Range(a) = After(i)
           T == {x \in (0..n) \X Seq(U) : Good(x[1], x[2])}
<1>1. n \in Nat /\ DOMAIN us = 1..n /\ \A i \in DOMAIN us : us[i] \in Range(us)
  BY Lists
<1>2. \A i \in 0..n : After(i) \subseteq U
  BY <1>1 DEF LastsUpTo
<1>3. \A i \in 0..n : \A a : Good(i, a) => <<i, a>> \in T
  <2> SUFFICES ASSUME NEW i \in 0..n, NEW a, Good(i, a)
               PROVE  a \in Seq(U)
    OBVIOUS
  <2>1. Range(a) \subseteq U /\ a \in Seq(Range(a))
    BY <1>2 DEF Listed
  <2> HIDE DEF U
  <2>2. QED
    BY <2>1
<1>4. <<0, s>> \in T
  <2>1. After(0) = Range(s)
    BY DEF LastsUpTo
  <2>2. Good(0, s)
    BY <2>1
  <2>3. QED
    BY <1>1, <1>3, <2>2
<1>5. ASSUME NEW i \in 0..(n - 1), NEW a, <<i, a>> \in T
      PROVE  <<i + 1, Upserting({}, a, us[i + 1])>> \in T
  <2>1. Good(i, a)
    BY <1>5
  <2>2. PICK b : b = Upsert(a, us[i + 1])
    OBVIOUS
  <2>3. Listed(b) /\ Distinct(b) /\ Range(b) = {r \in Range(a) : ~SameName(us[i + 1], r)} \cup {us[i + 1]}
    BY <2>1, <2>2, Upserted
  <2>4. LastsUpTo(us, i + 1) = {r \in LastsUpTo(us, i) : ~SameName(us[i + 1], r)} \cup {us[i + 1]}
    BY <1>1, LastsStep
  <2>5. \A j \in 1..(i + 1) : j = i + 1 \/ j \in 1..i
    BY <1>1
  <2>6. i + 1 \in 1..(i + 1) /\ 1..i \subseteq 1..(i + 1) /\ i + 1 \in 0..n
    BY <1>1
  <2>7. After(i + 1) = {r \in After(i) : ~SameName(us[i + 1], r)} \cup {us[i + 1]}
    BY <2>4, <2>5, <2>6
  <2>8. Good(i + 1, b)
    BY <2>1, <2>3, <2>7
  <2>9. QED
    BY <1>3, <2>2, <2>6, <2>8 DEF Upserting
<1>6. PICK t : t = ApplyResourceUpdates(s, us)
  OBVIOUS
<1>7. <<n, t>> \in T
  <2>1. t = Upserts!Folded({}, s, us)
    BY <1>6, FoldsOf
  <2> HIDE DEF T, n
  <2>2. <<n, Upserts!Folded({}, s, us)>> \in T
    BY <1>1, <1>4, <1>5, Upserts!FoldSteps
  <2>3. QED
    BY <2>1, <2>2
<1>8. Good(n, t)
  BY <1>7
<1>9. QED
  BY <1>1, <1>6, <1>8 DEF Lasts, Left

\* A list without the elements outside of a set.
LEMMA Filtered ==
  ASSUME NEW s, Listed(s), NEW S
  PROVE  /\ Listed(Within(s, S)) /\ Range(Within(s, S)) = Range(s) \cap S
         /\ Distinct(s) => Distinct(Within(s, S))
         /\ Lasts(Within(s, S)) =
               {s[i] : i \in {j \in DOMAIN s : /\ s[j] \in S
                                               /\ \A l \in DOMAIN s : l > j /\ s[l] \in S => ~SameName(s[l], s[j])}}
<1> DEFINE n == Len(s)
           U == Range(s)
           Before(i) == {s[j] : j \in 1..i} \cap S
           LastsWithin(i) ==
               {s[k] : k \in {j \in 1..i : /\ s[j] \in S
                                           /\ \A l \in 1..i : l > j /\ s[l] \in S => ~SameName(s[l], s[j])}}
           Good(i, a) == /\ Listed(a) /\ Range(a) = Before(i) /\ (Distinct(s) => Distinct(a))
                         /\ Lasts(a) = LastsWithin(i)
           T == {x \in (0..n) \X Seq(U) : Good(x[1], x[2])}
<1>1. n \in Nat /\ DOMAIN s = 1..n /\ \A i \in DOMAIN s : s[i] \in U
  BY Lists
<1>2. \A i \in 0..n : Before(i) \subseteq U
  BY <1>1
<1>3. \A i \in 0..n : \A a : Good(i, a) => <<i, a>> \in T
  <2> SUFFICES ASSUME NEW i \in 0..n, NEW a, Good(i, a)
               PROVE  a \in Seq(U)
    OBVIOUS
  <2>1. Range(a) \subseteq U /\ a \in Seq(Range(a))
    BY <1>2 DEF Listed
  <2> HIDE DEF U
  <2>2. QED
    BY <2>1
<1>4. <<0, <<>> >> \in T
  <2>1. Listed(<<>>) /\ Range(<<>>) = {} /\ Distinct(<<>>) /\ Lasts(<<>>) = {}
    BY DEF Listed, Range, Distinct, Lasts, LastsUpTo
  <2>2. Before(0) = {} /\ LastsWithin(0) = {}
    OBVIOUS
  <2>3. Good(0, <<>>)
    BY <2>1, <2>2
  <2>4. QED
    BY <1>1, <1>3, <2>3
<1>5. ASSUME NEW i \in 0..(n - 1), NEW a, <<i, a>> \in T
      PROVE  <<i + 1, Keep(S, a, s[i + 1])>> \in T
  <2>1. Good(i, a)
    BY <1>5
  <2>2. PICK u : u = s[i + 1]
    OBVIOUS
  <2>3. /\ i + 1 \in 1..(i + 1) /\ 1..i \subseteq 1..(i + 1) /\ i + 1 \in 0..n /\ i + 1 \in DOMAIN s
        /\ \A j \in 1..(i + 1) : j = i + 1 \/ j \in 1..i
        /\ \A j, l \in 1..(i + 1) : l > j <=> (j \in 1..i /\ (l = i + 1 \/ (l \in 1..i /\ l > j)))
    BY <1>1
  <2>4. CASE u \in S
    <3>1. PICK b : b = Append(a, u)
      OBVIOUS
    <3>2. Listed(b) /\ Range(b) = Range(a) \cup {u}
      BY <2>1, <3>1, Appended
    <3>3. Before(i + 1) = Before(i) \cup {u}
      BY <2>2, <2>3, <2>4
    <3>4. Distinct(s) => Distinct(b)
      <4>1. SUFFICES ASSUME Distinct(s)
                     PROVE  Distinct(b)
        OBVIOUS
      <4>2. \A r \in Range(a) : ~SameName(r, u) /\ ~SameName(u, r)
        <5>1. \A j \in 1..i : j \in DOMAIN s /\ j # i + 1
          BY <1>1
        <5>2. QED
          BY <2>1, <2>2, <2>3, <4>1, <5>1 DEF Distinct
      <4>3. /\ DOMAIN b = 1..(Len(a) + 1) /\ DOMAIN a = 1..Len(a) /\ Len(a) \in Nat
            /\ \A j \in DOMAIN b : b[j] = IF j = Len(a) + 1 THEN u ELSE a[j]
            /\ \A j \in DOMAIN a : a[j] \in Range(a)
        BY <2>1, <3>1, Appended, Lists
      <4>4. QED
        BY <2>1, <4>1, <4>2, <4>3 DEF Distinct
    <3>5. Lasts(b) = {r \in Lasts(a) : ~SameName(u, r)} \cup {u}
      <4>1. PICK m \in Nat : m = Len(a)
        BY <2>1, Lists
      <4>2. /\ Len(b) = m + 1 /\ b[m + 1] = u /\ \A j \in 1..m : b[j] = a[j]
        <5>1. /\ DOMAIN b = 1..(m + 1) /\ \A j \in DOMAIN b : b[j] = IF j = m + 1 THEN u ELSE a[j]
          BY <2>1, <3>1, <4>1, Appended
        <5>2. Len(b) \in Nat /\ DOMAIN b = 1..Len(b)
          BY <3>2, Lists
        <5>3. QED
          BY <5>1, <5>2
      <4>3. LastsUpTo(b, m) = LastsUpTo(a, m)
        BY <4>2 DEF LastsUpTo
      <4>4. QED
        BY <4>1, <4>2, <4>3, LastsStep DEF Lasts
    <3>6. LastsWithin(i + 1) = {r \in LastsWithin(i) : ~SameName(u, r)} \cup {u}
      BY <2>2, <2>3, <2>4
    <3>7. Good(i + 1, b)
      BY <2>1, <3>2, <3>3, <3>4, <3>5, <3>6
    <3>8. QED
      BY <1>3, <2>2, <2>3, <2>4, <3>1, <3>7 DEF Keep
  <2>5. CASE u \notin S
    <3>1. Before(i + 1) = Before(i) /\ LastsWithin(i + 1) = LastsWithin(i)
      BY <2>2, <2>3, <2>5
    <3>2. Good(i + 1, a)
      BY <2>1, <3>1
    <3>3. QED
      BY <1>3, <2>2, <2>3, <2>5, <3>2 DEF Keep
  <2>6. QED
    BY <2>4, <2>5
<1>6. PICK t : t = Within(s, S)
  OBVIOUS
<1>7. <<n, t>> \in T
  <2>1. t = Keeps!Folded(S, <<>>, s)
    BY <1>6, FoldsOf
  <2> HIDE DEF T, n
  <2>2. <<n, Keeps!Folded(S, <<>>, s)>> \in T
    BY <1>1, <1>4, <1>5, Keeps!FoldSteps
  <2>3. QED
    BY <2>1, <2>2
<1>8. Good(n, t)
  BY <1>7
<1>9. Range(s) = {s[j] : j \in 1..n}
  BY <1>1 DEF Range
<1>10. QED
  BY <1>1, <1>6, <1>8, <1>9

\* Each name of a list is the name of one of its lasts.
LEMMA LastNamed ==
  ASSUME NEW us, Listed(us), NEW i \in DOMAIN us
  PROVE  \E r \in Lasts(us) : SameName(r, us[i])
<1>1. PICK n \in Nat : n = Len(us) /\ DOMAIN us = 1..n
  BY Lists
<1>2. PICK D : D = {d \in Nat : n - d \in 1..n /\ SameName(us[n - d], us[i])}
  OBVIOUS
<1>3. n - i \in D
  BY <1>1, <1>2 DEF SameName
<1>4. PICK d \in D : \A e \in D : d <= e
  BY <1>2, <1>3, Keeps!LeastOf
<1>5. PICK j \in 1..n : j = n - d /\ SameName(us[j], us[i])
  BY <1>2, <1>4
<1>6. ASSUME NEW l \in 1..n, l > j
      PROVE  ~SameName(us[l], us[j])
  <2>1. SUFFICES ASSUME SameName(us[l], us[j])
                 PROVE  FALSE
    OBVIOUS
  <2>2. n - l \in Nat /\ n - (n - l) = l
    BY <1>1
  <2>3. SameName(us[l], us[i])
    BY <1>5, <2>1 DEF SameName
  <2>4. n - l \in D
    BY <1>2, <2>2, <2>3
  <2>5. d <= n - l /\ d \in Nat
    BY <1>2, <1>4, <2>4
  <2>6. QED
    BY <1>1, <1>5, <1>6, <2>5
<1>7. us[j] \in Lasts(us)
  BY <1>1, <1>6 DEF Lasts, LastsUpTo
<1>8. QED
  BY <1>5, <1>7

----------------------------------------------------------------------------
(* Groups. *)

\* The declarations of a list, and of a group that is an update.
Said(S) == {Declaration(r) : r \in S}
Saying(group) == UNION {Said(Lasts(group.resources[k])) : k \in Kinds}

LEMMA Groups ==
  ASSUME NEW g, IsGroup(g)
  PROVE  /\ \A k \in Kinds : Listed(g.resources[k]) /\ \A r \in Range(g.resources[k]) : r.kind = k
         /\ NoTwins(g) <=> \A k \in Kinds : Distinct(g.resources[k])
         /\ Declarations(g) = UNION {Said(Range(g.resources[k])) : k \in Kinds}
<1>1. \A k \in Kinds : Listed(g.resources[k]) /\ \A r \in Range(g.resources[k]) : r.kind = k
  BY DEF IsGroup, Listed
<1>2. \A p : p \in Places(g) <=> \E k \in Kinds : \E i \in DOMAIN g.resources[k] : p = <<k, i>>
  BY DEF Places
<1>3. \A k, i : ResourceAt(g, <<k, i>>) = g.resources[k][i]
  BY DEF ResourceAt
<1>4. NoTwins(g) <=> \A k \in Kinds : Distinct(g.resources[k])
  <2>1. ASSUME NoTwins(g), NEW k \in Kinds
        PROVE  Distinct(g.resources[k])
    <3> SUFFICES ASSUME NEW i \in DOMAIN g.resources[k], NEW j \in DOMAIN g.resources[k],
                        SameName(g.resources[k][i], g.resources[k][j])
                 PROVE  i = j
      BY DEF Distinct
    <3>1. <<k, i>> \in Places(g) /\ <<k, j>> \in Places(g)
      BY <1>2
    <3>2. <<k, i>> = <<k, j>>
      BY <1>3, <2>1, <3>1 DEF NoTwins
    <3>3. QED
      BY <3>2
  <2>2. ASSUME \A k \in Kinds : Distinct(g.resources[k])
        PROVE  NoTwins(g)
    <3> SUFFICES ASSUME NEW p \in Places(g), NEW q \in Places(g), p[1] = q[1],
                        SameName(ResourceAt(g, p), ResourceAt(g, q))
                 PROVE  p = q
      BY DEF NoTwins
    <3>1. PICK k \in Kinds : \E i \in DOMAIN g.resources[k] : p = <<k, i>>
      BY <1>2
    <3>2. PICK i \in DOMAIN g.resources[k] : p = <<k, i>>
      BY <3>1
    <3>3. PICK j \in DOMAIN g.resources[k] : q = <<k, j>>
      BY <1>2, <3>2
    <3>4. i = j
      BY <1>3, <2>2, <3>2, <3>3 DEF Distinct
    <3>5. QED
      BY <3>2, <3>3, <3>4
  <2>3. QED
    BY <2>1, <2>2
<1>5. Declarations(g) = UNION {Said(Range(g.resources[k])) : k \in Kinds}
  <2>1. ASSUME NEW d \in Declarations(g)
        PROVE  \E k \in Kinds : d \in Said(Range(g.resources[k]))
    <3>1. PICK p \in Places(g) : d = Declaration(ResourceAt(g, p))
      BY DEF Declarations
    <3>2. PICK k \in Kinds : \E i \in DOMAIN g.resources[k] : p = <<k, i>>
      BY <1>2
    <3>3. PICK i \in DOMAIN g.resources[k] : p = <<k, i>>
      BY <3>2
    <3>4. g.resources[k][i] \in Range(g.resources[k])
      BY <1>1, Lists
    <3>5. QED
      BY <1>3, <3>1, <3>3, <3>4 DEF Said
  <2>2. ASSUME NEW k \in Kinds, NEW d \in Said(Range(g.resources[k]))
        PROVE  d \in Declarations(g)
    <3>1. PICK r \in Range(g.resources[k]) : d = Declaration(r)
      BY DEF Said
    <3>2. PICK i \in DOMAIN g.resources[k] : r = g.resources[k][i]
      BY <1>1, Lists
    <3>3. <<k, i>> \in Places(g)
      BY <1>2
    <3>4. QED
      BY <1>3, <3>1, <3>2, <3>3 DEF Declarations
  <2>3. QED
    BY <2>1, <2>2
<1>6. QED
  BY <1>1, <1>4, <1>5

\* Two declarations of one kind and name.
LEMMA SaidNames ==
  ASSUME NEW r, NEW s
  PROVE  /\ Declared!SameName(Declaration(r), Declaration(s)) <=> r.kind = s.kind /\ SameName(r, s)
         /\ Declaration(r).kind = r.kind
BY DEF Declared!SameName, Declaration, SameName

\* What an update does to the declarations of a group.
LEMMA UpdatedGroup ==
  ASSUME NEW g, IsGroup(g), NoTwins(g), NEW u, IsGroup(u)
  PROVE  /\ IsGroup(ApplyResourceGroupUpdates(g, u)) /\ NoTwins(ApplyResourceGroupUpdates(g, u))
         /\ Declarations(ApplyResourceGroupUpdates(g, u)) =
               {d \in Declarations(g) : ~\E e \in Saying(u) : Declared!SameName(d, e)} \cup Saying(u)
<1>1. PICK h : h = ApplyResourceGroupUpdates(g, u)
  OBVIOUS
<1>2. ASSUME NEW k \in Kinds
      PROVE  /\ Listed(h.resources[k]) /\ Distinct(h.resources[k])
             /\ Range(h.resources[k]) = Left(Range(g.resources[k]), u.resources[k]) \cup Lasts(u.resources[k])
             /\ \A r \in Range(h.resources[k]) : r.kind = k
             /\ \A r \in Range(g.resources[k]) : r.kind = k
             /\ \A r \in Lasts(u.resources[k]) : r.kind = k
             /\ \A r \in Range(g.resources[k]) :
                   r \in Left(Range(g.resources[k]), u.resources[k])
                   <=> \A q \in Lasts(u.resources[k]) : ~SameName(r, q)
  <2>1. h.resources[k] = ApplyResourceUpdates(g.resources[k], u.resources[k])
    BY <1>1 DEF ApplyResourceGroupUpdates
  <2>2. PICK s, us : s = g.resources[k] /\ us = u.resources[k]
    OBVIOUS
  <2>3. Listed(s) /\ Distinct(s) /\ Listed(us) /\ (\A r \in Range(s) \cup Range(us) : r.kind = k)
    BY <2>2, Groups
  <2>4. Lasts(us) \subseteq Range(us)
    BY <2>3, Lists DEF Lasts, LastsUpTo
  <2>5. \A r \in Range(s) : r \in Left(Range(s), us) <=> \A q \in Lasts(us) : ~SameName(r, q)
    <3>1. ASSUME NEW r \in Range(s), r \in Left(Range(s), us), NEW q \in Lasts(us), SameName(r, q)
          PROVE  FALSE
      <4>1. q \in Range(us)
        BY <2>4
      <4>2. PICK i \in DOMAIN us : q = us[i]
        BY <2>3, <4>1, Lists
      <4>3. QED
        BY <3>1, <4>2 DEF Left, SameName
    <3>2. ASSUME NEW r \in Range(s), \A q \in Lasts(us) : ~SameName(r, q), NEW i \in DOMAIN us, SameName(us[i], r)
          PROVE  FALSE
      <4>1. PICK q \in Lasts(us) : SameName(q, us[i])
        BY <2>3, LastNamed
      <4>2. QED
        BY <3>2, <4>1 DEF SameName
    <3>3. QED
      BY <3>1, <3>2 DEF Left
  <2>6. Left(Range(s), us) \subseteq Range(s)
    BY DEF Left
  <2>7. QED
    BY <2>1, <2>2, <2>3, <2>4, <2>5, <2>6, Updated
<1>3. IsGroup(h)
  BY <1>2 DEF IsGroup, Listed
<1>4. NoTwins(h)
  BY <1>2, <1>3, Groups
<1>5. ASSUME NEW d \in Declarations(h)
      PROVE  d \in {e \in Declarations(g) : ~\E f \in Saying(u) : Declared!SameName(e, f)} \cup Saying(u)
  <2>1. PICK k \in Kinds : d \in Said(Range(h.resources[k]))
    BY <1>3, Groups
  <2>2. PICK r \in Range(h.resources[k]) : d = Declaration(r)
    BY <2>1 DEF Said
  <2>3. CASE r \in Lasts(u.resources[k])
    BY <2>2, <2>3 DEF Saying, Said
  <2>4. CASE r \in Left(Range(g.resources[k]), u.resources[k])
    <3>1. r \in Range(g.resources[k]) /\ r.kind = k /\ \A q \in Lasts(u.resources[k]) : ~SameName(r, q)
      BY <1>2, <2>4 DEF Left
    <3>2. d \in Declarations(g)
      BY <2>2, <3>1, Groups DEF Said
    <3>3. ASSUME NEW f \in Saying(u), Declared!SameName(d, f)
          PROVE  FALSE
      <4>1. PICK l \in Kinds : f \in Said(Lasts(u.resources[l]))
        BY DEF Saying
      <4>2. PICK q \in Lasts(u.resources[l]) : f = Declaration(q)
        BY <4>1 DEF Said
      <4>3. q.kind = l
        BY <1>2
      <4>4. r.kind = q.kind /\ SameName(r, q)
        BY <2>2, <3>3, <4>2, SaidNames
      <4>5. QED
        BY <3>1, <4>3, <4>4
    <3>4. QED
      BY <3>2, <3>3
  <2>5. QED
    BY <1>2, <2>2, <2>3, <2>4
<1>6. ASSUME NEW d \in Saying(u)
      PROVE  d \in Declarations(h)
  <2>1. PICK k \in Kinds : d \in Said(Lasts(u.resources[k]))
    BY DEF Saying
  <2>2. PICK r \in Lasts(u.resources[k]) : d = Declaration(r)
    BY <2>1 DEF Said
  <2>3. r \in Range(h.resources[k])
    BY <1>2
  <2>4. QED
    BY <1>3, <2>2, <2>3, Groups DEF Said
<1>7. ASSUME NEW d \in Declarations(g), ~\E f \in Saying(u) : Declared!SameName(d, f)
      PROVE  d \in Declarations(h)
  <2>1. PICK k \in Kinds : d \in Said(Range(g.resources[k]))
    BY Groups
  <2>2. PICK r \in Range(g.resources[k]) : d = Declaration(r)
    BY <2>1 DEF Said
  <2>3. ASSUME NEW q \in Lasts(u.resources[k]), SameName(r, q)
        PROVE  FALSE
    <3>1. r.kind = q.kind
      BY <1>2
    <3>2. Declaration(q) \in Saying(u)
      BY DEF Saying, Said
    <3>3. QED
      BY <1>7, <2>2, <2>3, <3>1, <3>2, SaidNames
  <2>4. r \in Range(h.resources[k])
    BY <1>2, <2>3
  <2>5. QED
    BY <1>3, <2>2, <2>4, Groups DEF Said
<1>8. QED
  BY <1>1, <1>3, <1>4, <1>5, <1>6, <1>7

\* What a deletion leaves of the declarations of a group.
LEMMA DeletedGroup ==
  ASSUME NEW g, IsGroup(g), NoTwins(g), NEW deletion
  PROVE  /\ IsGroup(ApplyResourceGroupDeletions(g, deletion)) /\ NoTwins(ApplyResourceGroupDeletions(g, deletion))
         /\ Declarations(ApplyResourceGroupDeletions(g, deletion)) =
               {d \in Declarations(g) : ~\E e \in deletion.resources : Declared!SameName(d, e)}
<1>1. PICK h : h = ApplyResourceGroupDeletions(g, deletion)
  OBVIOUS
<1>2. ASSUME NEW k \in Kinds
      PROVE  /\ Listed(h.resources[k]) /\ Distinct(h.resources[k])
             /\ \A r \in Range(h.resources[k]) : r.kind = k
             /\ Range(h.resources[k]) =
                   {r \in Range(g.resources[k]) : ~\E e \in deletion.resources : Declared!SameName(Declaration(r), e)}
  <2>1. PICK s, S : /\ s = g.resources[k]
                    /\ S = {r \in Range(g.resources[k]) : ~\E e \in deletion.resources : e.kind = k /\ SameName(e, r)}
    OBVIOUS
  <2>2. h.resources[k] = Within(s, S)
    BY <1>1, <2>1 DEF ApplyResourceGroupDeletions
  <2>3. Listed(s) /\ Distinct(s) /\ \A r \in Range(s) : r.kind = k
    BY <2>1, Groups
  <2>4. \A r \in Range(s), e \in deletion.resources :
           Declared!SameName(Declaration(r), e) <=> e.kind = k /\ SameName(e, r)
    BY <2>3 DEF Declared!SameName, Declaration, SameName
  <2>5. Listed(Within(s, S)) /\ Distinct(Within(s, S)) /\ Range(Within(s, S)) = Range(s) \cap S
    BY <2>3, Filtered
  <2>6. QED
    BY <2>1, <2>2, <2>3, <2>4, <2>5
<1>3. IsGroup(h)
  BY <1>2 DEF IsGroup, Listed
<1>4. NoTwins(h)
  BY <1>2, <1>3, Groups
<1>5. Declarations(h) = {d \in Declarations(g) : ~\E e \in deletion.resources : Declared!SameName(d, e)}
  <2>1. /\ Declarations(h) = UNION {Said(Range(h.resources[k])) : k \in Kinds}
        /\ Declarations(g) = UNION {Said(Range(g.resources[k])) : k \in Kinds}
    BY <1>3, Groups
  <2>2. ASSUME NEW k \in Kinds
        PROVE  Said(Range(h.resources[k])) =
                 {d \in Said(Range(g.resources[k])) : ~\E e \in deletion.resources : Declared!SameName(d, e)}
    BY <1>2 DEF Said
  <2>3. QED
    BY <2>1, <2>2
<1>6. QED
  BY <1>1, <1>3, <1>4, <1>5

\* What the plugins make of a group: a group whose declarations are the same where none of
\* the plugins touches them.
Touches(p) == {ResourceAt(additions[p], q) : q \in Places(additions[p])} \cup removals[p].resources
Touched == UNION {Touches(p) : p \in Plugins}
Untouched(d) == ~\E r \in Touched : r.kind = d.kind /\ SameName(r, d)

LEMMA TouchedBy ==
  ASSUME NEW p \in Plugins, NEW e \in Saying(additions[p])
  PROVE  \E r \in Touched : r.kind = e.kind /\ SameName(r, e)
<1>1. PICK k \in Kinds : e \in Said(Lasts(additions[p].resources[k]))
  BY DEF Saying
<1>2. PICK us : us = additions[p].resources[k]
  OBVIOUS
<1>3. Listed(us) /\ DOMAIN us = 1..Len(us) /\ IsGroup(additions[p])
  BY <1>2, GroupsAssumption, Groups, Lists
<1>4. PICK r \in Lasts(us) : e = Declaration(r)
  BY <1>1, <1>2 DEF Said
<1>5. PICK i \in DOMAIN us : r = us[i]
  BY <1>3, <1>4 DEF Lasts, LastsUpTo
<1>6. <<k, i>> \in Places(additions[p]) /\ ResourceAt(additions[p], <<k, i>>) = r
  BY <1>2, <1>5 DEF Places, ResourceAt
<1>7. r \in Touched
  BY <1>6 DEF Touched, Touches
<1>8. QED
  BY <1>4, <1>7 DEF Declaration, SameName

LEMMA Transformed ==
  ASSUME NEW ps \in Seq(Plugins), NEW g, IsGroup(g), NoTwins(g)
  PROVE  /\ IsGroup(TransformResourceGroup(ps, g)) /\ NoTwins(TransformResourceGroup(ps, g))
         /\ {d \in Declarations(TransformResourceGroup(ps, g)) : Untouched(d)} =
               {d \in Declarations(g) : Untouched(d)}
<1> DEFINE S(a) == {d \in Declarations(a) : Untouched(d)}
           Good(a) == IsGroup(a) /\ NoTwins(a) /\ S(a) = S(g)
<1>1. PICK n \in Nat : DOMAIN ps = 1..n /\ \A i \in 1..n : ps[i] \in Plugins
  OBVIOUS
<1>2. ASSUME NEW a, Good(a), NEW p \in Plugins
      PROVE  Good(TransformBy(a, p))
  <2>1. IsGroup(additions[p])
    BY GroupsAssumption
  <2>2. PICK h, b : h = ApplyResourceGroupDeletions(a, removals[p]) /\ b = ApplyResourceGroupUpdates(h, additions[p])
    OBVIOUS
  <2>3. /\ IsGroup(h) /\ NoTwins(h)
        /\ Declarations(h) = {d \in Declarations(a) : ~\E e \in removals[p].resources : Declared!SameName(d, e)}
    BY <1>2, <2>2, DeletedGroup
  <2>4. /\ IsGroup(b) /\ NoTwins(b)
        /\ Declarations(b) = {d \in Declarations(h) : ~\E e \in Saying(additions[p]) : Declared!SameName(d, e)}
                             \cup Saying(additions[p])
    BY <2>1, <2>2, <2>3, UpdatedGroup
  <2>5. \A d, e : e \in removals[p].resources /\ Declared!SameName(d, e) => ~Untouched(d)
    BY DEF Untouched, Touched, Touches, Declared!SameName, SameName
  <2>6. \A d, e : e \in Saying(additions[p]) /\ Declared!SameName(d, e) => ~Untouched(d)
    BY TouchedBy DEF Untouched, Declared!SameName, SameName
  <2>7. \A e \in Saying(additions[p]) : ~Untouched(e)
    BY TouchedBy DEF Untouched
  <2>8. S(h) = S(a)
    BY <2>3, <2>5
  <2>9. S(b) = S(h)
    BY <2>4, <2>6, <2>7
  <2>10. QED
    BY <1>2, <2>2, <2>4, <2>8, <2>9 DEF TransformBy
<1>3. PICK path : path[0] = g /\ path[n] = Transforms!Folded({}, g, ps) /\ Transforms!Path({}, ps, n, path)
  BY <1>1, Transforms!FoldPath
<1>4. PICK U : U = {k \in Nat : k <= n => Good(path[k])}
  OBVIOUS
<1>5. 0 \in U
  BY <1>3, <1>4
<1>6. ASSUME NEW k \in Nat, k \in U
      PROVE  k + 1 \in U
  <2>1. SUFFICES ASSUME k + 1 <= n
                 PROVE  Good(path[k + 1])
    BY <1>4
  <2>2. Good(path[k]) /\ k \in 0..(n - 1) /\ k + 1 \in 1..n
    BY <1>1, <1>4, <1>6, <2>1
  <2>3. PICK a, p : a = path[k] /\ p = ps[k + 1] /\ p \in Plugins
    BY <1>1, <2>2
  <2>4. path[k + 1] = TransformBy(a, p)
    BY <1>3, <2>2, <2>3 DEF Transforms!Path, Transforming
  <2> HIDE DEF Good
  <2>5. Good(TransformBy(a, p))
    BY <1>2, <2>2, <2>3
  <2>6. QED
    BY <2>4, <2>5
<1>7. n \in U
  BY <1>1, <1>5, <1>6, Transforms!SetInduction
<1>8. Good(path[n])
  BY <1>1, <1>4, <1>7
<1>9. path[n] = TransformResourceGroup(ps, g)
  BY <1>3, FoldsOf
<1>10. QED
  BY <1>8, <1>9
\* Two repositories are combined by one update, one by none.
LEMMA Combined ==
  ASSUME NEW g, NEW h
  PROVE  CombinedGroups(<<g>>) = g /\ CombinedGroups(<<g, h>>) = ApplyResourceGroupUpdates(g, h)
<1>1. ASSUME NEW groups, NEW n \in Nat, DOMAIN Tail(groups) = 1..n
      PROVE  \E path : /\ path[0] = groups[1] /\ path[n] = CombinedGroups(groups)
                       /\ Combines!Path({}, Tail(groups), n, path)
  <2>1. PICK path : /\ path[0] = groups[1] /\ path[n] = Combines!Folded({}, groups[1], Tail(groups))
                    /\ Combines!Path({}, Tail(groups), n, path)
    BY <1>1, Combines!FoldPath
  <2>2. QED
    BY <2>1, CombinedFold
<1>2. CombinedGroups(<<g>>) = g
  <2>1. DOMAIN Tail(<<g>>) = 1..0 /\ 0 \in Nat /\ <<g>>[1] = g
    OBVIOUS
  <2>2. PICK path : path[0] = <<g>>[1] /\ path[0] = CombinedGroups(<<g>>)
    BY <1>1, <2>1
  <2>3. QED
    BY <2>1, <2>2
<1>3. CombinedGroups(<<g, h>>) = ApplyResourceGroupUpdates(g, h)
  <2>1. PICK t : t = Tail(<<g, h>>)
    OBVIOUS
  <2>2. DOMAIN t = 1..1 /\ t[1] = h /\ <<g, h>>[1] = g /\ 1 \in Nat
    BY <2>1
  <2>3. PICK path : path[0] = <<g, h>>[1] /\ path[1] = CombinedGroups(<<g, h>>) /\ Combines!Path({}, t, 1, path)
    BY <1>1, <2>1, <2>2
  <2>4. 0 \in 0..(1 - 1) /\ 0 + 1 = 1
    OBVIOUS
  <2>5. path[1] = Combining({}, path[0], t[1])
    BY <2>3, <2>4 DEF Combines!Path
  <2>6. QED
    BY <2>2, <2>3, <2>5 DEF Combining
<1>4. QED
  BY <1>2, <1>3

----------------------------------------------------------------------------
(* Files. *)

\* Documents as they are read: records of their four parts.
Documents(documents) ==
    /\ Listed(documents)
    /\ \A d \in Range(documents) :
          d = [kind |-> d.kind, namespace |-> d.namespace, name |-> d.name, body |-> d.body]
Written(d) ==
    [kind |-> d.kind, namespace |-> d.namespace, name |-> d.name,
     body |-> Flat(IF d.kind = "Schema" THEN Range(d.body) ELSE d.body, d.kind)]

\* Merging the definitions of root types loses none of their fields.
LEMMA MergingKeepsFields ==
  ASSUME NEW body
  PROVE  Flat(MergedDefinitions(body), "Schema") = Flat(Range(body), "Schema")
<1> DEFINE Alone == {body[i] : i \in {j \in DOMAIN body : body[j].type \notin RootTypes}}
           Fields(t) == UNION {body[i].fields : i \in {j \in DOMAIN body : body[j].type = t}}
           Types == {body[i].type : i \in DOMAIN body} \cap RootTypes
           Merged == {[type |-> t, directives |-> FirstOfType(body, t).directives, fields |-> Fields(t)] : t \in Types}
<1>1. MergedDefinitions(body) = Alone \cup Merged
  BY DEF MergedDefinitions
<1>2. \A x : x \in Flat(MergedDefinitions(body), "Schema")
             <=> \E d \in MergedDefinitions(body) : \E f \in d.fields : x = <<d.type, f>>
  BY DEF Flat
<1>3. \A x : x \in Flat(Range(body), "Schema")
             <=> \E i \in DOMAIN body : \E f \in body[i].fields : x = <<body[i].type, f>>
  BY DEF Flat, Range
<1>4. ASSUME NEW i \in DOMAIN body, NEW f \in body[i].fields
      PROVE  \E d \in Alone \cup Merged : f \in d.fields /\ d.type = body[i].type
  <2>1. CASE body[i].type \notin RootTypes
    BY <2>1
  <2>2. CASE body[i].type \in RootTypes
    <3>1. PICK t : t = body[i].type
      OBVIOUS
    <3>2. PICK d : d = [type |-> t, directives |-> FirstOfType(body, t).directives, fields |-> Fields(t)]
      OBVIOUS
    <3>3. d \in Merged
      BY <2>2, <3>1, <3>2
    <3>4. f \in Fields(t)
      BY <3>1
    <3>5. QED
      BY <3>1, <3>2, <3>3, <3>4
  <2>3. QED
    BY <2>1, <2>2
<1>5. ASSUME NEW d \in Alone \cup Merged, NEW f \in d.fields
      PROVE  \E i \in DOMAIN body : f \in body[i].fields /\ d.type = body[i].type
  <2>1. CASE d \in Alone
    BY <2>1
  <2>2. CASE d \in Merged
    <3>1. PICK t : d = [type |-> t, directives |-> FirstOfType(body, t).directives, fields |-> Fields(t)]
      BY <2>2
    <3>2. d.type = t /\ f \in Fields(t)
      BY <3>1
    <3>3. QED
      BY <3>2
  <2>3. QED
    BY <2>1, <2>2
<1> HIDE DEF Alone, Merged
<1>6. \A x : x \in Flat(MergedDefinitions(body), "Schema") => x \in Flat(Range(body), "Schema")
  BY <1>1, <1>2, <1>3, <1>5
<1>7. \A x : x \in Flat(Range(body), "Schema") => x \in Flat(MergedDefinitions(body), "Schema")
  <2>1. SUFFICES ASSUME NEW x \in Flat(Range(body), "Schema")
                 PROVE  x \in Flat(MergedDefinitions(body), "Schema")
    OBVIOUS
  <2>2. PICK i \in DOMAIN body : \E f \in body[i].fields : x = <<body[i].type, f>>
    BY <1>3
  <2>3. PICK f \in body[i].fields : x = <<body[i].type, f>>
    BY <2>2
  <2>4. PICK d \in Alone \cup Merged : f \in d.fields /\ d.type = body[i].type
    BY <1>4
  <2>5. x = <<d.type, f>>
    BY <2>3, <2>4
  <2>6. QED
    BY <1>1, <1>2, <2>4, <2>5
<1>8. QED
  BY <1>6, <1>7

LEMMA Loaded ==
  ASSUME NEW d, d = [kind |-> d.kind, namespace |-> d.namespace, name |-> d.name, body |-> d.body]
  PROVE  /\ LoadedResource(d).kind = d.kind /\ LoadedResource(d).namespace = d.namespace
         /\ LoadedResource(d).name = d.name /\ Declaration(LoadedResource(d)) = Written(d)
<1>1. CASE d.kind = "Schema"
  <2>1. PICK r : r = [d EXCEPT !.body = MergedDefinitions(d.body)]
    OBVIOUS
  <2>2. /\ r.kind = d.kind /\ r.namespace = d.namespace /\ r.name = d.name
        /\ r.body = MergedDefinitions(d.body)
    BY <2>1
  <2>3. Flat(r.body, r.kind) = Flat(Range(d.body), d.kind)
    BY <1>1, <2>2, MergingKeepsFields
  <2>4. Declaration(r) = Written(d)
    BY <1>1, <2>2, <2>3 DEF Declaration, Written
  <2>5. LoadedResource(d) = r
    BY <1>1, <2>1 DEF LoadedResource
  <2>6. QED
    BY <2>2, <2>4, <2>5
<1>2. CASE d.kind # "Schema"
  BY <1>2 DEF LoadedResource, Declaration, Written
<1>3. QED
  BY <1>1, <1>2
\* The resources of one kind that files hold, and what they declare.
LEMMA ReadList ==
  ASSUME NEW docs, Documents(docs), NEW skip, NEW kind \in Kinds
  PROVE  /\ Listed(ResourcesIn(docs, skip, kind))
         /\ \A r \in Range(ResourcesIn(docs, skip, kind)) : r.kind = kind
         /\ Said(Lasts(ResourcesIn(docs, skip, kind))) = {e \in DeclaredIn(docs, skip) : e.kind = kind}
<1>1. PICK S : S = {d \in Wanted(docs, skip) : d.kind = kind}
  OBVIOUS
<1>2. PICK found : found = Within(docs, S)
  OBVIOUS
<1>3. PICK list : list = ResourcesIn(docs, skip, kind)
  OBVIOUS
<1>4. list = [i \in DOMAIN found |-> LoadedResource(found[i])]
  BY <1>1, <1>2, <1>3 DEF ResourcesIn
<1>5. /\ Len(docs) \in Nat /\ DOMAIN docs = 1..Len(docs) /\ \A i \in DOMAIN docs : docs[i] \in Range(docs)
  BY Lists DEF Documents
<1>6. \A i \in DOMAIN docs : docs[i] \in S <=> docs[i].kind = kind /\ kind \notin skip
  BY <1>1, <1>5 DEF Wanted
<1>7. /\ Listed(found) /\ Range(found) = Range(docs) \cap S
      /\ Lasts(found) =
            {docs[i] : i \in {j \in DOMAIN docs :
                                 /\ docs[j] \in S
                                 /\ \A l \in DOMAIN docs : l > j /\ docs[l] \in S => ~SameName(docs[l], docs[j])}}
  BY <1>2, Filtered DEF Documents
<1>8. PICK n \in Nat : n = Len(found) /\ DOMAIN found = 1..n /\ \A i \in 1..n : found[i] \in Range(docs) \cap S
  BY <1>7, Lists
<1>9. \A d \in Range(docs) : /\ LoadedResource(d).kind = d.kind /\ LoadedResource(d).namespace = d.namespace
                             /\ LoadedResource(d).name = d.name /\ Declaration(LoadedResource(d)) = Written(d)
  BY Loaded DEF Documents
<1>10. DOMAIN list = 1..n /\ \A i \in 1..n : list[i] = LoadedResource(found[i])
  BY <1>4, <1>8
<1>11. Listed(list) /\ Len(list) = n
  <2>1. list \in [1..n -> Range(list)]
    BY <1>4, <1>8 DEF Range
  <2>2. QED
    BY <2>1, ListOf
<1>12. \A r \in Range(list) : r.kind = kind
  <2>1. \A d \in S : d.kind = kind
    BY <1>1
  <2>2. \A r \in Range(list) : \E i \in 1..n : r = LoadedResource(found[i])
    BY <1>10 DEF Range
  <2>3. QED
    BY <1>8, <1>9, <2>1, <2>2
<1>13. Lasts(list) = {LoadedResource(r) : r \in Lasts(found)}
  <2>1. \A i, j \in 1..n : SameName(list[i], list[j]) <=> SameName(found[i], found[j])
    BY <1>8, <1>9, <1>10 DEF SameName
  <2>2. Lasts(list) = {list[i] : i \in {j \in 1..n : \A l \in 1..n : l > j => ~SameName(list[l], list[j])}}
    BY <1>11 DEF Lasts, LastsUpTo
  <2>3. Lasts(found) = {found[i] : i \in {j \in 1..n : \A l \in 1..n : l > j => ~SameName(found[l], found[j])}}
    BY <1>8 DEF Lasts, LastsUpTo
  <2>4. QED
    BY <1>10, <2>1, <2>2, <2>3
<1>14. Said(Lasts(list)) = {Written(r) : r \in Lasts(found)}
  <2>1. Lasts(found) \subseteq Range(docs)
    BY <1>5, <1>7
  <2>2. QED
    BY <1>9, <1>13, <2>1 DEF Said
<1>15. \A e : e \in DeclaredIn(docs, skip) <=>
          \E j \in DOMAIN docs :
             /\ e = Written(docs[j]) /\ docs[j].kind \in Kinds \ skip
             /\ \A k \in DOMAIN docs : k > j => ~(docs[k].kind = docs[j].kind /\ SameName(docs[k], docs[j]))
  BY DEF DeclaredIn, Written
<1>16. ASSUME NEW e \in Said(Lasts(list))
       PROVE  e \in DeclaredIn(docs, skip) /\ e.kind = kind
  <2>1. PICK r \in Lasts(found) : e = Written(r)
    BY <1>14
  <2>2. PICK j \in DOMAIN docs :
           /\ r = docs[j] /\ docs[j] \in S
           /\ \A l \in DOMAIN docs : l > j /\ docs[l] \in S => ~SameName(docs[l], docs[j])
    BY <1>7
  <2>3. docs[j].kind = kind /\ kind \notin skip
    BY <1>6, <2>2
  <2>4. \A k \in DOMAIN docs : k > j => ~(docs[k].kind = docs[j].kind /\ SameName(docs[k], docs[j]))
    BY <1>6, <2>2, <2>3
  <2>5. e \in DeclaredIn(docs, skip)
    BY <1>15, <2>1, <2>2, <2>3, <2>4
  <2>6. QED
    BY <2>1, <2>2, <2>3, <2>5 DEF Written
<1>17. ASSUME NEW e \in DeclaredIn(docs, skip), e.kind = kind
       PROVE  e \in Said(Lasts(list))
  <2>1. PICK j \in DOMAIN docs :
             /\ e = Written(docs[j]) /\ docs[j].kind \in Kinds \ skip
             /\ \A k \in DOMAIN docs : k > j => ~(docs[k].kind = docs[j].kind /\ SameName(docs[k], docs[j]))
    BY <1>15
  <2>2. docs[j].kind = kind /\ kind \notin skip
    BY <1>17, <2>1 DEF Written
  <2>3. docs[j] \in S
    BY <1>6, <2>2
  <2>4. \A l \in DOMAIN docs : l > j /\ docs[l] \in S => ~SameName(docs[l], docs[j])
    BY <1>6, <2>1, <2>2
  <2>5. docs[j] \in Lasts(found)
    BY <1>7, <2>3, <2>4
  <2>6. QED
    BY <1>14, <2>1, <2>5
<1>18. Said(Lasts(list)) = {e \in DeclaredIn(docs, skip) : e.kind = kind}
  BY <1>16, <1>17
<1>19. QED
  BY <1>3, <1>11, <1>12, <1>18

\* What a command sends is a group that declares what its files declare.
LEMMA ReadGroup ==
  ASSUME NEW docs, Documents(docs), NEW skip, NEW basePolicy, NEW group,
         group = [PathToResourceGroup(docs, skip) EXCEPT !.basePolicy = basePolicy]
  PROVE  IsGroup(group) /\ Saying(group) = DeclaredIn(docs, skip)
<1>1. group.resources = [k \in Kinds |-> ResourcesIn(docs, skip, k)]
  BY DEF PathToResourceGroup, EmptyGroup
<1>2. \A k \in Kinds : group.resources[k] = ResourcesIn(docs, skip, k)
  BY <1>1
<1>3. IsGroup(group)
  BY <1>2, ReadList DEF IsGroup, Listed
<1>4. \A k \in Kinds : Said(Lasts(group.resources[k])) = {e \in DeclaredIn(docs, skip) : e.kind = k}
  BY <1>2, ReadList
<1>5. \A e \in DeclaredIn(docs, skip) : e.kind \in Kinds
  BY DEF DeclaredIn
<1>6. Saying(group) = DeclaredIn(docs, skip)
  BY <1>4, <1>5 DEF Saying
<1>7. QED
  BY <1>3, <1>6

LEMMA Payloads ==
  ASSUME NEW m \in Loadable
  PROVE  /\ m \in Messages /\ IsGroup(payload[m])
         /\ Saying(payload[m]) = DeclaredIn(TextOf(m).documents, TextOf(m).skip)
<1>1. m \in Messages
  BY DEF Loadable
<1>2. PICK c \in Commands : \E n \in DOMAIN text[c] : m = [command |-> c, number |-> n]
  BY <1>1 DEF Messages
<1>3. PICK n \in DOMAIN text[c] : m = [command |-> c, number |-> n]
  BY <1>2
<1>4. TextOf(m) = text[c][n] /\ TextOf(m) \in Range(text[c])
  BY <1>3, TextAssumption, Lists DEF TextOf, Listed
<1>5. Documents(TextOf(m).documents)
  BY <1>4, TextAssumption DEF Documents, Listed
<1>6. payload[m] = [PathToResourceGroup(TextOf(m).documents, TextOf(m).skip) EXCEPT !.basePolicy = TextOf(m).basePolicy]
  BY DEF payload
<1>7. PICK docs, skip, basePolicy :
         docs = TextOf(m).documents /\ skip = TextOf(m).skip /\ basePolicy = TextOf(m).basePolicy
  OBVIOUS
<1>8. PICK group : group = payload[m]
  OBVIOUS
<1>9. Documents(docs) /\ group = [PathToResourceGroup(docs, skip) EXCEPT !.basePolicy = basePolicy]
  BY <1>5, <1>6, <1>7, <1>8
<1>10. IsGroup(group) /\ Saying(group) = DeclaredIn(docs, skip)
  BY <1>9, ReadGroup
<1>11. QED
  BY <1>1, <1>7, <1>8, <1>10
----------------------------------------------------------------------------
(* An update that is applied again. *)

\* Where a list has a resource of the name of an update, its positions keep their names.
LEMMA Replaced ==
  ASSUME NEW s, Listed(s), Distinct(s), NEW u, NEW i \in DOMAIN s, SameName(s[i], u)
  PROVE  Upsert(s, u) = [s EXCEPT ![i] = u]
<1> DEFINE places == {j \in DOMAIN s : SameName(s[j], u)}
<1>1. DOMAIN s = 1..Len(s) /\ Len(s) \in Nat
  BY Lists
<1>2. places = {i} /\ i \in Nat
  BY <1>1 DEF Distinct, SameName
<1>3. (CHOOSE k \in places : \A j \in places : k <= j) = i
  BY <1>2
<1>4. QED
  BY <1>2, <1>3 DEF Upsert

\* Updates whose effect a list already shows change nothing at the end, though each of them
\* may put an older resource in the place of a newer one.
LEMMA Again ==
  ASSUME NEW t, Listed(t), Distinct(t), NEW us, Listed(us),
         Lasts(us) \subseteq Range(t),
         \A r \in Range(t) : r \in Lasts(us) \/ \A i \in DOMAIN us : ~SameName(us[i], r)
  PROVE  ApplyResourceUpdates(t, us) = t
<1> DEFINE n == Len(us)
           U == Range(t) \cup Range(us)
           Shown(i, r, x) == /\ SameName(x, r)
                             /\ (\A l \in 1..i : ~SameName(us[l], r)) => x = r
                             /\ \A l \in 1..i : SameName(us[l], r) /\ (\A k \in 1..i : k > l => ~SameName(us[k], r)) => x = us[l]
           Good(i, a) == /\ Listed(a) /\ Distinct(a) /\ DOMAIN a = DOMAIN t /\ Range(a) \subseteq U
                         /\ \A j \in DOMAIN t : Shown(i, t[j], a[j])
           T == {x \in (0..n) \X Seq(U) : Good(x[1], x[2])}
<1>1. n \in Nat /\ DOMAIN us = 1..n /\ \A i \in DOMAIN us : us[i] \in Range(us)
  BY Lists
<1>2. /\ Len(t) \in Nat /\ DOMAIN t = 1..Len(t) /\ \A j \in DOMAIN t : t[j] \in Range(t)
      /\ \A r \in Range(t) : \E j \in DOMAIN t : r = t[j]
  BY Lists
<1>3. \A i \in 0..n : \A a : Good(i, a) => <<i, a>> \in T
  <2> SUFFICES ASSUME NEW i \in 0..n, NEW a, Good(i, a)
               PROVE  a \in Seq(U)
    OBVIOUS
  <2>1. Range(a) \subseteq U /\ a \in Seq(Range(a))
    BY DEF Listed
  <2> HIDE DEF U
  <2>2. QED
    BY <2>1
<1>4. <<0, t>> \in T
  <2>1. Good(0, t)
    BY DEF SameName
  <2>2. 0 \in 0..n
    BY <1>1
  <2> HIDE DEF T, Good, n
  <2>3. QED
    BY <1>3, <2>1, <2>2
<1>5. ASSUME NEW i \in 0..(n - 1), NEW a, <<i, a>> \in T
      PROVE  <<i + 1, Upserting({}, a, us[i + 1])>> \in T
  <2>1. Good(i, a)
    BY <1>5
  <2>2. PICK u : u = us[i + 1]
    OBVIOUS
  <2>3. /\ i \in Nat /\ i + 1 \in 1..(i + 1) /\ 1..i \subseteq 1..(i + 1) /\ i + 1 \in 0..n /\ i + 1 \in DOMAIN us
        /\ i + 1 \notin 1..i
        /\ \A j \in 1..(i + 1) : j = i + 1 \/ j \in 1..i
        /\ \A j, l \in 1..(i + 1) : l > j <=> (j \in 1..i /\ (l = i + 1 \/ (l \in 1..i /\ l > j)))
    BY <1>1
  <2>4. PICK q \in Lasts(us) : SameName(q, u)
    BY <2>2, <2>3, LastNamed
  <2>5. PICK p \in DOMAIN t : q = t[p]
    BY <1>2, <2>4
  <2>6. p \in DOMAIN a /\ SameName(a[p], t[p]) /\ SameName(a[p], u) /\ SameName(u, t[p])
    BY <2>1, <2>4, <2>5 DEF SameName
  <2>7. PICK b : b = [a EXCEPT ![p] = u]
    OBVIOUS
  <2>8. Upsert(a, u) = b
    BY <2>1, <2>6, <2>7, Replaced
  <2>9. DOMAIN b = DOMAIN a /\ b[p] = u /\ \A j \in DOMAIN a : j # p => b[j] = a[j]
    BY <2>6, <2>7
  <2>10. Listed(b) /\ Distinct(b) /\ Range(b) \subseteq U
    <3>1. /\ Listed(b) /\ Distinct(b) /\ Range(b) = {r \in Range(a) : ~SameName(u, r)} \cup {u}
      BY <2>1, <2>8, Upserted
    <3>2. u \in Range(us)
      BY <1>1, <2>2, <2>3
    <3>3. QED
      BY <2>1, <3>1, <3>2
  <2>11. ASSUME NEW j \in DOMAIN t, j # p
         PROVE  Shown(i + 1, t[j], b[j])
    <3>1. ~SameName(u, t[j])
      BY <2>6, <2>11 DEF Distinct, SameName
    <3>2. b[j] = a[j] /\ Shown(i, t[j], a[j])
      BY <2>1, <2>9, <2>11
    <3>3. QED
      BY <2>2, <2>3, <3>1, <3>2
  <2>12. Shown(i + 1, t[p], b[p])
    BY <2>2, <2>3, <2>6, <2>9
  <2>13. Good(i + 1, b)
    BY <2>1, <2>9, <2>10, <2>11, <2>12
  <2> HIDE DEF T, Good, n
  <2>14. QED
    BY <1>3, <2>2, <2>3, <2>8, <2>13 DEF Upserting
<1>6. PICK a : a = ApplyResourceUpdates(t, us)
  OBVIOUS
<1>7. <<n, a>> \in T
  <2>1. a = Upserts!Folded({}, t, us)
    BY <1>6, FoldsOf
  <2> HIDE DEF T, n
  <2>2. <<n, Upserts!Folded({}, t, us)>> \in T
    BY <1>1, <1>4, <1>5, Upserts!FoldSteps
  <2>3. QED
    BY <2>1, <2>2
<1>8. Good(n, a)
  BY <1>7
<1>9. ASSUME NEW j \in DOMAIN t
      PROVE  a[j] = t[j]
  <2>1. Shown(n, t[j], a[j])
    BY <1>8
  <2>2. CASE \A i \in DOMAIN us : ~SameName(us[i], t[j])
    BY <1>1, <2>1, <2>2
  <2>3. CASE t[j] \in Lasts(us)
    <3>1. PICK l \in 1..n : t[j] = us[l] /\ \A k \in 1..n : k > l => ~SameName(us[k], us[l])
      BY <2>3 DEF Lasts, LastsUpTo
    <3>2. SameName(us[l], t[j])
      BY <3>1 DEF SameName
    <3>3. QED
      BY <2>1, <3>1, <3>2
  <2>4. QED
    BY <1>2, <2>2, <2>3
<1>10. a = t
  <2>1. Listed(a) /\ DOMAIN a = DOMAIN t
    BY <1>8
  <2>2. a = [j \in DOMAIN t |-> a[j]] /\ t = [j \in DOMAIN t |-> t[j]]
    BY <2>1 DEF Listed
  <2>3. QED
    BY <1>9, <2>2
<1>11. QED
  BY <1>6, <1>10

LEMMA AppliedAgain ==
  ASSUME NEW g, IsGroup(g), NoTwins(g), NEW u, IsGroup(u), NEW h, h = ApplyResourceGroupUpdates(g, u)
  PROVE  ApplyResourceGroupUpdates(h, u) = h
<1>1. ASSUME NEW k \in Kinds
      PROVE  ApplyResourceUpdates(h.resources[k], u.resources[k]) = h.resources[k]
  <2>1. PICK s, us : s = g.resources[k] /\ us = u.resources[k]
    OBVIOUS
  <2>2. PICK t : t = h.resources[k]
    OBVIOUS
  <2>3. t = ApplyResourceUpdates(s, us)
    BY <2>1, <2>2 DEF ApplyResourceGroupUpdates
  <2>4. Listed(s) /\ Distinct(s) /\ Listed(us)
    BY <2>1, Groups
  <2>5. Listed(t) /\ Distinct(t) /\ Range(t) = Left(Range(s), us) \cup Lasts(us)
    BY <2>3, <2>4, Updated
  <2>6. Lasts(us) \subseteq Range(t) /\ \A r \in Range(t) : r \in Lasts(us) \/ \A i \in DOMAIN us : ~SameName(us[i], r)
    BY <2>5 DEF Left
  <2>7. QED
    BY <2>1, <2>2, <2>4, <2>5, <2>6, Again
<1>2. PICK b : b = h.basePolicy
  OBVIOUS
<1>3. b = IF u.basePolicy # None THEN u.basePolicy ELSE g.basePolicy
  BY <1>2 DEF ApplyResourceGroupUpdates
<1>4. h = [resources |-> [k \in Kinds |-> h.resources[k]], basePolicy |-> h.basePolicy]
  BY DEF ApplyResourceGroupUpdates
<1>5. [k \in Kinds |-> ApplyResourceUpdates(h.resources[k], u.resources[k])] = [k \in Kinds |-> h.resources[k]]
  BY <1>1
<1>6. (IF u.basePolicy # None THEN u.basePolicy ELSE h.basePolicy) = h.basePolicy
  BY <1>2, <1>3
<1>7. ApplyResourceGroupUpdates(h, u) = [resources |-> [k \in Kinds |-> h.resources[k]], basePolicy |-> h.basePolicy]
  BY <1>5, <1>6 DEF ApplyResourceGroupUpdates
<1>8. QED
  BY <1>4, <1>7
----------------------------------------------------------------------------
(* The inductive invariant. *)

\* The plugins that have loaded and those that have not.
PluginsInv ==
    /\ plugins \in Seq(Plugins) /\ loading = Plugins \ Range(plugins) /\ restarts \in 0..MaxRestarts
    /\ IsFiniteSet(Range(plugins)) /\ Len(plugins) = Cardinality(Range(plugins))

\* The registry's file r and the gateways' file w.
Fit(r, w) ==
    /\ IsGroup(r) /\ NoTwins(r) /\ IsGroup(w) /\ NoTwins(w)
    /\ {d \in Declarations(w) : Untouched(d)} = {d \in Declarations(r) : Untouched(d)}
    /\ w = EmptyGroup \/ ValidResourceGroup(w)
FilesInv == Fit(registryFile, gatewayFile)

\* All that the registry's file declares was in the files of a command that was applied.
DeclaredInv == Declarations(registryFile) \subseteq UNION {declaredBy[m] : m \in applied}

\* A request is of files that could be read; one that succeeded was applied.
States == {"idle", "waiting", "ok", "failed"}
CommandsInv ==
    /\ command \in [Commands -> [at : States, number : Nat]]
    /\ \A c \in Commands : command[c].number <= Len(text[c])
    /\ requests \cup applied \subseteq Loadable
    /\ \A a \in answers : a.to \in Loadable
    /\ \A m \in requests \cup {a.to : a \in answers} \cup applied : m.number <= command[m.command].number
    /\ \A a \in answers : a.success /\ ~TextOf(a.to).dryRun => a.to \in applied
    /\ \A c \in Commands : command[c].at = "ok" /\ ~TextOf(Current(c)).dryRun => Current(c) \in applied

\* The registry's file shows the request that was applied last, and would not change by it.
Shows(group, m) ==
    /\ m \in Loadable
    /\ DeclaredIn(TextOf(m).documents, TextOf(m).skip) \subseteq Declarations(group)
    /\ ApplyResourceGroupUpdates(group, payload[m]) = group
LastInv == last # None => Shows(registryFile, last)

Inv == PluginsInv /\ FilesInv /\ CommandsInv /\ LastInv /\ DeclaredInv

\* The group before the first command.
LEMMA EmptyGroups == IsGroup(EmptyGroup) /\ NoTwins(EmptyGroup) /\ Declarations(EmptyGroup) = {}
<1>1. PICK g : g = EmptyGroup
  OBVIOUS
<1>2. \A k \in Kinds : g.resources[k] = <<>>
  BY <1>1 DEF EmptyGroup
<1>3. IsGroup(g)
  <2>1. Range(<<>>) = {} /\ <<>> \in Seq(Range(<<>>))
    BY DEF Range
  <2>2. QED
    BY <1>2, <2>1 DEF IsGroup
<1>4. Places(g) = {}
  BY <1>2 DEF Places
<1>5. QED
  BY <1>1, <1>3, <1>4 DEF NoTwins, Declarations

LEMMA InvInit == Init => Inv
<1> SUFFICES ASSUME Init
             PROVE  Inv
  OBVIOUS
<1>1. PluginsInv
  <2>1. Range(plugins) = {} /\ plugins \in Seq(Plugins) /\ Len(plugins) = 0
    BY DEF Init, Range
  <2>2. QED
    BY <2>1, FS_EmptySet, BoundAssumption DEF Init, PluginsInv
<1>2. FilesInv
  BY EmptyGroups DEF Init, FilesInv, Fit
<1>3. CommandsInv
  <2>1. \A c \in Commands : command[c].at = "idle" /\ command[c].number = 0
    BY DEF Init
  <2>2. \A c \in Commands : Len(text[c]) \in Nat
    BY TextAssumption
  <2>3. command \in [Commands -> [at : States, number : Nat]]
    BY DEF Init, States
  <2>4. QED
    BY <2>1, <2>2, <2>3 DEF Init, CommandsInv
<1>4. LastInv
  BY DEF Init, LastInv
<1>5. DeclaredInv
  BY EmptyGroups DEF Init, DeclaredInv
<1>6. QED
  BY <1>1, <1>2, <1>3, <1>4, <1>5 DEF Inv

\* What is saved fits.
LEMMA Saved ==
  ASSUME NEW group, IsGroup(group), NoTwins(group), Inv, Save(group)
  PROVE  registryFile' = group /\ FilesInv'
<1>1. PICK ps \in Seq(Plugins) : ps = plugins
  BY DEF Inv, PluginsInv
<1>2. PICK h : h = TransformResourceGroup(ps, group)
  OBVIOUS
<1>3. registryFile' = group /\ gatewayFile' = h /\ ValidResourceGroup(h)
  BY <1>1, <1>2 DEF Save, SavedForRegistry, Validated
<1>4. Fit(group, h)
  BY <1>2, <1>3, Transformed DEF Fit
<1>5. QED
  BY <1>3, <1>4 DEF FilesInv

\* What a request makes of the registry's file.
LEMMA Updating ==
  ASSUME Inv, NEW m \in requests, NEW group, group = ApplyResourceGroupUpdates(registryFile, payload[m])
  PROVE  /\ m \in Loadable /\ IsGroup(group) /\ NoTwins(group) /\ Shows(group, m)
         /\ Declarations(group) =
               {d \in Declarations(registryFile) :
                  ~\E e \in DeclaredIn(TextOf(m).documents, TextOf(m).skip) : Declared!SameName(d, e)}
               \cup DeclaredIn(TextOf(m).documents, TextOf(m).skip)
<1>1. PICK g : g = registryFile
  OBVIOUS
<1>2. PICK u : u = payload[m]
  OBVIOUS
<1>3. m \in Loadable
  BY DEF Inv, CommandsInv
<1>4. IsGroup(u) /\ Saying(u) = DeclaredIn(TextOf(m).documents, TextOf(m).skip)
  BY <1>2, <1>3, Payloads
<1>5. IsGroup(g) /\ NoTwins(g) /\ group = ApplyResourceGroupUpdates(g, u)
  BY <1>1, <1>2 DEF Inv, FilesInv, Fit
<1>6. /\ IsGroup(group) /\ NoTwins(group)
      /\ Declarations(group) = {d \in Declarations(g) : ~\E e \in Saying(u) : Declared!SameName(d, e)} \cup Saying(u)
  BY <1>4, <1>5, UpdatedGroup
<1>7. ApplyResourceGroupUpdates(group, u) = group
  BY <1>4, <1>5, AppliedAgain
<1>8. Shows(group, m)
  BY <1>2, <1>3, <1>4, <1>6, <1>7 DEF Shows
<1>9. QED
  BY <1>1, <1>3, <1>4, <1>6, <1>8

\* The three outcomes of a request.
LEMMA Outcomes ==
  ASSUME Inv, NEW m \in requests, UpdateResources(m)
  PROVE  /\ requests' = requests \ {m} /\ UNCHANGED <<registry, command>>
         /\ \/ /\ ~TextOf(m).dryRun /\ Answer(m, TRUE) /\ applied' = applied \cup {m} /\ last' = m
               /\ registryFile' = ApplyResourceGroupUpdates(registryFile, payload[m]) /\ FilesInv'
            \/ TextOf(m).dryRun /\ Answer(m, TRUE) /\ UNCHANGED <<files, ghosts>>
            \/ Answer(m, FALSE) /\ UNCHANGED <<files, ghosts>>
<1>1. PICK group : group = ApplyResourceGroupUpdates(registryFile, payload[m])
  OBVIOUS
<1>2. IsGroup(group) /\ NoTwins(group)
  BY <1>1, Updating
<1>3. Save(group) => registryFile' = group /\ FilesInv'
  BY <1>2, Saved
<1>4. QED
  BY <1>1, <1>3 DEF UpdateResources
----------------------------------------------------------------------------
(* Every step keeps it. *)

LEMMA PluginsStep == Inv /\ [Next]_vars => PluginsInv'
<1> SUFFICES ASSUME Inv, [Next]_vars
             PROVE  PluginsInv'
  OBVIOUS
<1> USE DEF Inv
<1>1. ASSUME NEW p \in Plugins, LoadPlugin(p)
      PROVE  PluginsInv'
  <2>1. PICK ps : ps = plugins
    OBVIOUS
  <2>2. ps \in Seq(Plugins) /\ Listed(ps) /\ p \notin Range(ps) /\ IsFiniteSet(Range(ps)) /\ Len(ps) = Cardinality(Range(ps))
    BY <1>1, <2>1 DEF LoadPlugin, PluginsInv, Listed, Range
  <2>3. PICK qs : qs = Append(ps, p)
    OBVIOUS
  <2>4. qs \in Seq(Plugins) /\ Len(qs) = Len(ps) + 1
    BY <2>2, <2>3
  <2>5. Range(qs) = Range(ps) \cup {p}
    BY <2>2, <2>3, Appended
  <2>6. IsFiniteSet(Range(qs)) /\ Cardinality(Range(qs)) = Cardinality(Range(ps)) + 1
    BY <2>2, <2>5, FS_AddElement
  <2>7. plugins' = qs /\ loading' = loading \ {p} /\ restarts' = restarts
    BY <1>1, <2>1, <2>3 DEF LoadPlugin
  <2>8. loading' = Plugins \ Range(qs)
    BY <2>1, <2>5, <2>7 DEF PluginsInv
  <2>9. QED
    BY <2>2, <2>4, <2>6, <2>7, <2>8 DEF PluginsInv
<1>2. CASE Restart
  <2>1. Range(<<>>) = {} /\ <<>> \in Seq(Plugins) /\ Len(<<>>) = 0
    BY DEF Range
  <2>2. plugins' = <<>> /\ loading' = Plugins /\ restarts' \in 0..MaxRestarts
    BY <1>2, BoundAssumption DEF Restart, PluginsInv
  <2>3. QED
    BY <2>1, <2>2, FS_EmptySet DEF PluginsInv
<1>3. CASE UNCHANGED registry
  BY <1>3 DEF PluginsInv, registry
<1>4. QED
  BY <1>1, <1>2, <1>3 DEF Next, vars, RunCommand, ReceiveAnswer, TimeOut, UpdateResources, DeleteResources,
                          RebuildResourceGroup, registry

LEMMA Deleting ==
  ASSUME Inv, NEW d \in Deletions, NEW group, group = ApplyResourceGroupDeletions(registryFile, d)
  PROVE  /\ IsGroup(group) /\ NoTwins(group)
         /\ Declarations(group) = {x \in Declarations(registryFile) : ~\E e \in d.resources : Declared!SameName(x, e)}
<1>1. PICK g : g = registryFile
  OBVIOUS
<1>2. IsGroup(g) /\ NoTwins(g) /\ group = ApplyResourceGroupDeletions(g, d)
  BY <1>1 DEF Inv, FilesInv, Fit
<1>3. QED
  BY <1>1, <1>2, DeletedGroup

LEMMA FilesStep == Inv /\ [Next]_vars => FilesInv'
<1> SUFFICES ASSUME Inv, [Next]_vars
             PROVE  FilesInv'
  OBVIOUS
<1>1. CASE UNCHANGED files
  BY <1>1 DEF files, Inv, FilesInv
<1>2. ASSUME NEW m \in requests, UpdateResources(m)
      PROVE  FilesInv'
  BY <1>1, <1>2, Outcomes
<1>3. CASE DeleteResources
  <2>1. PICK d \in Deletions : Save(ApplyResourceGroupDeletions(registryFile, d))
    BY <1>3 DEF DeleteResources
  <2>2. PICK group : group = ApplyResourceGroupDeletions(registryFile, d)
    OBVIOUS
  <2>3. IsGroup(group) /\ NoTwins(group) /\ Save(group)
    BY <2>1, <2>2, Deleting
  <2>4. QED
    BY <2>3, Saved
<1>4. CASE RebuildResourceGroup
  <2>1. PICK group : group = registryFile
    OBVIOUS
  <2>2. IsGroup(group) /\ NoTwins(group) /\ Save(group)
    BY <1>4, <2>1 DEF RebuildResourceGroup, Inv, FilesInv, Fit
  <2>3. QED
    BY <2>2, Saved
<1>5. QED
  BY <1>1, <1>2, <1>3, <1>4 DEF Next, vars, RunCommand, ReceiveAnswer, TimeOut, LoadPlugin, Restart

LEMMA LastStep == Inv /\ [Next]_vars => LastInv'
<1> SUFFICES ASSUME Inv, [Next]_vars
             PROVE  LastInv'
  OBVIOUS
<1>1. CASE UNCHANGED <<registryFile, last>>
  BY <1>1 DEF Inv, LastInv
<1>2. ASSUME NEW m \in requests, UpdateResources(m)
      PROVE  LastInv'
  <2>1. CASE last' = m /\ registryFile' = ApplyResourceGroupUpdates(registryFile, payload[m])
    <3>1. PICK group : group = ApplyResourceGroupUpdates(registryFile, payload[m])
      OBVIOUS
    <3>2. Shows(group, m)
      BY <3>1, Updating
    <3>3. QED
      BY <2>1, <3>1, <3>2 DEF LastInv
  <2>2. QED
    BY <1>1, <1>2, <2>1, Outcomes DEF files, ghosts
<1>3. CASE DeleteResources
  BY <1>3 DEF DeleteResources, LastInv
<1>4. CASE RebuildResourceGroup
  BY <1>1, <1>4 DEF RebuildResourceGroup, Save, SavedForRegistry, ghosts
<1>5. QED
  BY <1>1, <1>2, <1>3, <1>4 DEF Next, vars, files, ghosts, RunCommand, ReceiveAnswer, TimeOut, LoadPlugin, Restart

\* What the registry's file declares stays in the files of applied commands.
LEMMA DeclaredStep == Inv /\ [Next]_vars => DeclaredInv'
<1> SUFFICES ASSUME Inv, [Next]_vars
             PROVE  DeclaredInv'
  OBVIOUS
<1>1. CASE UNCHANGED <<registryFile, applied>>
  BY <1>1 DEF Inv, DeclaredInv
<1>2. ASSUME NEW m \in requests, UpdateResources(m)
      PROVE  DeclaredInv'
  <2>1. CASE applied' = applied \cup {m} /\ registryFile' = ApplyResourceGroupUpdates(registryFile, payload[m])
    <3>1. PICK group : group = ApplyResourceGroupUpdates(registryFile, payload[m])
      OBVIOUS
    <3>2. Declarations(group) \subseteq Declarations(registryFile) \cup declaredBy[m]
      BY <3>1, Updating DEF declaredBy
    <3>3. QED
      BY <2>1, <3>1, <3>2 DEF Inv, DeclaredInv
  <2>2. QED
    BY <1>1, <1>2, <2>1, Outcomes DEF files, ghosts
<1>3. CASE DeleteResources
  <2>1. PICK d \in Deletions : Save(ApplyResourceGroupDeletions(registryFile, d))
    BY <1>3 DEF DeleteResources
  <2>2. PICK group : group = ApplyResourceGroupDeletions(registryFile, d)
    OBVIOUS
  <2>3. Declarations(group) \subseteq Declarations(registryFile) /\ registryFile' = group /\ applied' = applied
    BY <1>3, <2>1, <2>2, Deleting DEF Save, SavedForRegistry, DeleteResources
  <2>4. QED
    BY <2>3 DEF Inv, DeclaredInv
<1>4. CASE RebuildResourceGroup
  BY <1>1, <1>4 DEF RebuildResourceGroup, Save, SavedForRegistry, ghosts
<1>5. QED
  BY <1>1, <1>2, <1>3, <1>4 DEF Next, vars, files, ghosts, RunCommand, ReceiveAnswer, TimeOut, LoadPlugin, Restart

\* A command that ends keeps its number; the others stay where they are.
LEMMA Exited ==
  ASSUME CommandsInv, NEW c \in Commands, NEW at \in States, Exit(c, at)
  PROVE  /\ command' \in [Commands -> [at : States, number : Nat]]
         /\ command'[c].at = at /\ \A d \in Commands : d # c => command'[d] = command[d]
         /\ \A d \in Commands : command'[d].number = command[d].number /\ Current(d)' = Current(d)
<1>1. PICK f : f = command
  OBVIOUS
<1>2. PICK h : h = [f EXCEPT ![c].at = at]
  OBVIOUS
<1>3. f \in [Commands -> [at : States, number : Nat]]
  BY <1>1 DEF CommandsInv
<1>4. command' = h
  BY <1>1, <1>2 DEF Exit
<1>5. h \in [Commands -> [at : States, number : Nat]]
  BY <1>2, <1>3
<1>6. h[c].at = at /\ h[c].number = f[c].number /\ \A d \in Commands : d # c => h[d] = f[d]
  BY <1>2, <1>3
<1>7. \A d \in Commands : h[d].number = f[d].number
  BY <1>6
<1>8. QED
  BY <1>1, <1>4, <1>5, <1>6, <1>7 DEF Current

LEMMA LoadableOf ==
  ASSUME NEW m \in Loadable
  PROVE  m.command \in Commands /\ m = [command |-> m.command, number |-> m.number]
<1>1. PICK c \in Commands : \E n \in DOMAIN text[c] : m = [command |-> c, number |-> n]
  BY DEF Loadable, Messages
<1>2. QED
  BY <1>1

LEMMA CommandsStep == Inv /\ [Next]_vars => CommandsInv'
<1> SUFFICES ASSUME Inv, [Next]_vars
             PROVE  CommandsInv'
  OBVIOUS
<1>0. CommandsInv
  BY DEF Inv
<1>1. CASE UNCHANGED <<network, applied>>
  BY <1>0, <1>1 DEF CommandsInv, Current, network
<1>2. ASSUME NEW c \in Commands, RunCommand(c)
      PROVE  CommandsInv'
  <2>1. PICK n : n = command[c].number
    OBVIOUS
  <2>2. PICK m : m = [command |-> c, number |-> n + 1]
    OBVIOUS
  <2>3. PICK at : at = IF m \in Loadable THEN "waiting" ELSE "failed"
    OBVIOUS
  <2>4. n \in Nat /\ n < Len(text[c]) /\ Len(text[c]) \in Nat
    BY <1>0, <1>2, <2>1, TextAssumption DEF CommandsInv, RunCommand
  <2>5. command' = [command EXCEPT ![c] = [at |-> at, number |-> n + 1]]
    BY <1>2, <2>1, <2>2, <2>3 DEF RunCommand
  <2>6. at \in States /\ at # "ok"
    BY <2>3 DEF States
  <2>7. [at |-> at, number |-> n + 1] \in [at : States, number : Nat]
    BY <2>4, <2>6
  <2>8. /\ command' \in [Commands -> [at : States, number : Nat]]
        /\ command'[c] = [at |-> at, number |-> n + 1] /\ \A d \in Commands : d # c => command'[d] = command[d]
    BY <1>0, <2>5, <2>7 DEF CommandsInv
  <2>9. command'[c].at = at /\ command'[c].number = n + 1
    BY <2>8
  <2>10. ASSUME NEW d \in Commands
         PROVE  /\ command[d].number \in Nat /\ command'[d].number \in Nat /\ command[d].number <= command'[d].number
                /\ command'[d].number <= Len(text[d])
    <3>1. command[d].number \in Nat /\ command[d].number <= Len(text[d])
      BY <1>0 DEF CommandsInv
    <3>2. CASE d = c
      BY <2>1, <2>4, <2>9, <3>1, <3>2
    <3>3. CASE d # c
      <4>1. command'[d] = command[d]
        BY <2>8, <3>3
      <4>2. QED
        BY <3>1, <4>1
    <3>4. QED
      BY <3>2, <3>3
  <2>11. /\ requests' = IF m \in Loadable THEN requests \cup {m} ELSE requests
         /\ answers' = answers /\ applied' = applied
    BY <1>2, <2>1, <2>2 DEF RunCommand, ghosts
  <2>12. requests' \cup applied' \subseteq Loadable
    BY <1>0, <2>11 DEF CommandsInv
  <2>13. ASSUME NEW x \in requests' \cup {a.to : a \in answers'} \cup applied'
         PROVE  x.number <= command'[x.command].number
    <3>1. CASE x \in requests \cup {a.to : a \in answers} \cup applied
      <4>1. x \in Loadable /\ x.number <= command[x.command].number
        BY <1>0, <3>1 DEF CommandsInv
      <4>2. x.command \in Commands /\ x \in Messages
        BY <4>1, LoadableOf, Payloads
      <4>3. x.number \in Nat
        <5>1. PICK e \in Commands : \E k \in DOMAIN text[e] : x = [command |-> e, number |-> k]
          BY <4>2 DEF Messages
        <5>2. PICK k \in DOMAIN text[e] : x = [command |-> e, number |-> k]
          BY <5>1
        <5>3. k \in Nat
          BY TextAssumption
        <5>4. QED
          BY <5>2, <5>3
      <4>4. PICK e \in Commands : e = x.command
        BY <4>2
      <4>5. command[e].number \in Nat /\ command'[e].number \in Nat /\ command[e].number <= command'[e].number
        BY <2>8, <2>10
      <4>6. QED
        BY <4>1, <4>3, <4>4, <4>5
    <3>2. CASE x = m
      BY <2>2, <2>4, <2>9, <3>2
    <3>3. QED
      BY <2>11, <2>13, <3>1, <3>2
  <2>14. \A d \in Commands : command'[d].number <= Len(text[d])
    BY <2>10
  <2>15. \A d \in Commands : command'[d].at = "ok" /\ ~TextOf(Current(d)').dryRun => Current(d)' \in applied'
    <3>1. \A d \in Commands : d # c => Current(d)' = Current(d)
      BY <2>8 DEF Current
    <3>2. QED
      BY <1>0, <2>6, <2>8, <2>9, <2>11, <3>1 DEF CommandsInv
  <2>16. QED
    BY <1>0, <2>8, <2>11, <2>12, <2>13, <2>14, <2>15 DEF CommandsInv, TextOf, Current
<1>3. ASSUME NEW c \in Commands, NEW at \in States, Exit(c, at), answers' \subseteq answers,
             UNCHANGED <<requests, applied>>,
             at = "ok" /\ ~TextOf(Current(c)).dryRun => Current(c) \in applied
      PROVE  CommandsInv'
  <2>1. /\ command' \in [Commands -> [at : States, number : Nat]]
        /\ command'[c].at = at /\ \A d \in Commands : d # c => command'[d] = command[d]
        /\ \A d \in Commands : command'[d].number = command[d].number /\ Current(d)' = Current(d)
    BY <1>0, <1>3, Exited
  <2>2. \A x \in Loadable : x.command \in Commands
    BY LoadableOf
  <2>3. requests' \cup applied' \cup {a.to : a \in answers'} \subseteq requests \cup applied \cup {a.to : a \in answers}
    BY <1>3
  <2>4. ASSUME NEW x \in requests' \cup {a.to : a \in answers'} \cup applied'
        PROVE  x.number <= command'[x.command].number
    <3>1. x \in Loadable /\ x.number <= command[x.command].number
      BY <1>0, <2>3 DEF CommandsInv
    <3>2. PICK e \in Commands : e = x.command
      BY <2>2, <3>1
    <3>3. command'[e].number = command[e].number
      BY <2>1
    <3>4. QED
      BY <3>1, <3>2, <3>3
  <2>5. \A d \in Commands : command'[d].at = "ok" /\ ~TextOf(Current(d)').dryRun => Current(d)' \in applied'
    BY <1>0, <1>3, <2>1 DEF CommandsInv
  <2>6. \A d \in Commands : command'[d].number <= Len(text[d])
    BY <1>0, <2>1 DEF CommandsInv
  <2>7. QED
    BY <1>0, <1>3, <2>1, <2>4, <2>5, <2>6 DEF CommandsInv, TextOf, Current
<1>4. ASSUME NEW c \in Commands, ReceiveAnswer(c)
      PROVE  CommandsInv'
  <2>1. PICK a \in answers : /\ a.to = Current(c) /\ answers' = answers \ {a}
                             /\ Exit(c, IF a.success THEN "ok" ELSE "failed")
    BY <1>4 DEF ReceiveAnswer
  <2>2. PICK at : at = IF a.success THEN "ok" ELSE "failed"
    OBVIOUS
  <2>3. at \in States /\ (at = "ok" /\ ~TextOf(Current(c)).dryRun => Current(c) \in applied)
    BY <1>0, <2>1, <2>2 DEF States, CommandsInv
  <2>4. UNCHANGED <<requests, applied>>
    BY <1>4 DEF ReceiveAnswer, ghosts
  <2>5. QED
    BY <1>3, <2>1, <2>2, <2>3, <2>4
<1>5. ASSUME NEW c \in Commands, TimeOut(c)
      PROVE  CommandsInv'
  <2>1. answers' \subseteq answers /\ Exit(c, "failed") /\ UNCHANGED <<requests, applied>> /\ "failed" \in States
    BY <1>5 DEF TimeOut, ghosts, States
  <2>2. QED
    BY <1>3, <2>1
<1>6. ASSUME NEW m \in requests, UpdateResources(m)
      PROVE  CommandsInv'
  <2>1. m \in Loadable /\ m.number <= command[m.command].number
    BY <1>0 DEF CommandsInv
  <2>2. requests' = requests \ {m} /\ command' = command
    BY <1>6, Outcomes
  <2>3. \E success \in BOOLEAN : /\ answers' \subseteq answers \cup {[to |-> m, success |-> success]}
                                 /\ success /\ ~TextOf(m).dryRun => m \in applied'
    BY <1>6, Outcomes DEF Answer
  <2>4. PICK b, success : /\ b = [to |-> m, success |-> success] /\ answers' \subseteq answers \cup {b}
                          /\ success /\ ~TextOf(m).dryRun => m \in applied'
    BY <2>3
  <2>5. b.to = m /\ b.success = success
    BY <2>4
  <2>6. applied' \subseteq applied \cup {m} /\ applied \subseteq applied'
    BY <1>6, Outcomes DEF ghosts
  <2>7. \A a \in answers' : a \in answers \/ a = b
    BY <2>4
  <2>8. \A a \in answers' : a.to \in Loadable
    BY <1>0, <2>1, <2>5, <2>7 DEF CommandsInv
  <2>9. requests' \cup applied' \subseteq Loadable
    BY <1>0, <2>1, <2>2, <2>6 DEF CommandsInv
  <2>10. \A a \in answers' : a.success /\ ~TextOf(a.to).dryRun => a.to \in applied'
    BY <1>0, <2>4, <2>5, <2>6, <2>7 DEF CommandsInv
  <2>11. \A x \in requests' \cup {a.to : a \in answers'} \cup applied' : x.number <= command'[x.command].number
    BY <1>0, <2>1, <2>2, <2>5, <2>6, <2>7 DEF CommandsInv
  <2>12. \A d \in Commands : command'[d].at = "ok" /\ ~TextOf(Current(d)').dryRun => Current(d)' \in applied'
    BY <1>0, <2>2, <2>6 DEF CommandsInv, Current
  <2>13. QED
    BY <1>0, <2>2, <2>8, <2>9, <2>10, <2>11, <2>12 DEF CommandsInv, TextOf, Current
<1>7. QED
  BY <1>1, <1>2, <1>4, <1>5, <1>6 DEF Next, vars, network, ghosts, DeleteResources, RebuildResourceGroup, LoadPlugin, Restart

LEMMA Invariance == Spec => []Inv
<1>1. Inv /\ [Next]_vars => Inv'
  BY PluginsStep, FilesStep, CommandsStep, LastStep, DeclaredStep DEF Inv
<1>2. QED
  BY <1>1, InvInit, PTL DEF Spec
----------------------------------------------------------------------------
(* The theorems. *)

\* What a gateway combines, for each choice of repositories.
LEMMA Fetched ==
  ASSUME Inv, NEW w, w = gatewayFile
  PROVE  /\ IsGroup(w) /\ NoTwins(w) /\ IsGroup(FileSystemGroup) /\ NoTwins(FileSystemGroup)
         /\ FetchLatest({"s3"}) = w /\ FetchLatest({"fileSystem"}) = FileSystemGroup
         /\ FetchLatest(Repositories) = ApplyResourceGroupUpdates(w, FileSystemGroup)
<1>1. "s3" # "fileSystem"
  OBVIOUS
<1>2. PICK f : f = FileSystemGroup
  OBVIOUS
<1>3. /\ RepositoryGroups({"s3"}) = <<w>> \o <<>> /\ RepositoryGroups({"fileSystem"}) = <<>> \o <<f>>
      /\ RepositoryGroups(Repositories) = <<w>> \o <<f>>
  BY <1>1, <1>2 DEF RepositoryGroups, Repositories
<1>4. <<w>> \o <<>> = <<w>> /\ <<>> \o <<f>> = <<f>> /\ <<w>> \o <<f>> = <<w, f>>
  <2>1. PICK s, t : s = <<w>> /\ t = <<f>>
    OBVIOUS
  <2>2. s \in Seq({w, f}) /\ t \in Seq({w, f}) /\ Len(s) = 1 /\ Len(t) = 1 /\ s[1] = w /\ t[1] = f
    BY <2>1
  <2>3. s \o <<>> = s /\ <<>> \o t = t
    BY <2>2
  <2>4. PICK r : r = s \o t
    OBVIOUS
  <2>5. r \in Seq({w, f}) /\ Len(r) = 2 /\ r[1] = w /\ r[2] = f
    <3>1. r \in Seq({w, f}) /\ Len(r) = Len(s) + Len(t)
      BY <2>2, <2>4, ConcatProperties
    <3>2. \A i \in 1..(Len(s) + Len(t)) : r[i] = IF i <= Len(s) THEN s[i] ELSE t[i - Len(s)]
      BY <2>2, <2>4, ConcatProperties
    <3>3. 1 \in 1..(1 + 1) /\ 2 \in 1..(1 + 1) /\ 2 - 1 = 1 /\ 1 + 1 = 2 /\ ~(2 <= 1) /\ 1 <= 1
      OBVIOUS
    <3>4. QED
      BY <2>2, <3>1, <3>2, <3>3
  <2>6. r = <<w, f>>
    BY <2>5
  <2>7. QED
    BY <2>1, <2>3, <2>4, <2>6
<1>5. CombinedGroups(<<w>>) = w /\ CombinedGroups(<<f>>) = f /\ CombinedGroups(<<w, f>>) = ApplyResourceGroupUpdates(w, f)
  BY Combined
<1>6. IsGroup(w) /\ NoTwins(w)
  BY DEF Inv, FilesInv, Fit
<1>7. QED
  BY <1>2, <1>3, <1>4, <1>5, <1>6, GroupsAssumption DEF FetchLatest

\* Both files, and what a gateway combines from any of its repositories, have at most one
\* resource of each kind and name.
THEOREM NamesAreUnique == Spec => []OneOfEachName
<1>1. Inv => OneOfEachName
  <2>1. SUFFICES ASSUME Inv
                 PROVE  OneOfEachName
    OBVIOUS
  <2>2. PICK w : w = gatewayFile
    OBVIOUS
  <2>3. PICK f : f = FileSystemGroup
    OBVIOUS
  <2>4. /\ IsGroup(w) /\ NoTwins(w) /\ IsGroup(f) /\ NoTwins(f)
        /\ FetchLatest({"s3"}) = w /\ FetchLatest({"fileSystem"}) = f
        /\ FetchLatest(Repositories) = ApplyResourceGroupUpdates(w, f)
    BY <2>1, <2>2, <2>3, Fetched
  <2>5. NoTwins(ApplyResourceGroupUpdates(w, f))
    BY <2>4, UpdatedGroup
  <2>6. ASSUME NEW repositories \in (SUBSET Repositories) \ {{}}
        PROVE  repositories = {"s3"} \/ repositories = {"fileSystem"} \/ repositories = Repositories
    BY DEF Repositories
  <2>7. \A repositories \in (SUBSET Repositories) \ {{}} : NoTwins(FetchLatest(repositories))
    BY <2>4, <2>5, <2>6
  <2>8. NoTwins(registryFile) /\ NoTwins(gatewayFile)
    BY <2>1 DEF Inv, FilesInv, Fit
  <2>9. QED
    BY <2>7, <2>8 DEF OneOfEachName
<1>2. QED
  BY <1>1, Invariance, PTL

\* The gateways' file sends a host to one upstream and has no two resources that differ by
\* dashes only.
THEOREM FileIsUnambiguous == Spec => []Unambiguous
<1>1. Inv => Unambiguous
  <2>1. SUFFICES ASSUME Inv
                 PROVE  Unambiguous
    OBVIOUS
  <2>2. PICK g : g = gatewayFile
    OBVIOUS
  <2>3. IsGroup(g) /\ NoTwins(g) /\ (g = EmptyGroup \/ ValidResourceGroup(g))
    BY <2>1, <2>2 DEF Inv, FilesInv, Fit
  <2>4. PICK us : us = g.resources["Upstream"]
    OBVIOUS
  <2>5. ASSUME NEW u \in {us[i] : i \in DOMAIN us}, NEW v \in {us[i] : i \in DOMAIN us},
               Range(u.body.hosts) \cap Range(v.body.hosts) # {}
        PROVE  u = v
    <3>1. PICK i \in DOMAIN us, j \in DOMAIN us : u = us[i] /\ v = us[j]
      OBVIOUS
    <3>2. PICK x \in DOMAIN u.body.hosts, y \in DOMAIN v.body.hosts : u.body.hosts[x] = v.body.hosts[y]
      BY <2>5 DEF Range
    <3>3. CASE g = EmptyGroup
      BY <2>4, <3>1, <3>3 DEF EmptyGroup, Kinds
    <3>4. CASE ValidResourceGroup(g)
      <4> DEFINE upstreams == g.resources["Upstream"]
                 Claims(k) == {<<k, l>> : l \in DOMAIN upstreams[k].body.hosts}
                 Host(c) == upstreams[c[1]].body.hosts[c[2]]
                 claims == UNION {Claims(k) : k \in DOMAIN upstreams}
      <4>1. \A c, d \in claims : Host(c) = Host(d) => c = d
        BY <3>4, Zenon DEF ValidResourceGroup, ValidUpstreams
      <4>2. <<i, x>> \in claims /\ <<j, y>> \in claims
        BY <2>4, <3>1
      <4>3. Host(<<i, x>>) = Host(<<j, y>>)
        BY <2>4, <3>1, <3>2
      <4> HIDE DEF claims, Host
      <4>4. <<i, x>> = <<j, y>>
        BY <4>1, <4>2, <4>3
      <4>5. QED
        BY <3>1, <4>4
    <3>5. QED
      BY <2>3, <3>3, <3>4
  <2>6. ASSUME NEW p \in Places(g), NEW q \in Places(g), NEW r, NEW s, r = ResourceAt(g, p), s = ResourceAt(g, q),
               r.kind = s.kind, underscored[r.namespace] = underscored[s.namespace],
               underscored[r.name] = underscored[s.name]
        PROVE  r = s
    <3>1. PICK k \in Kinds : \E i \in DOMAIN g.resources[k] : p = <<k, i>>
      BY DEF Places
    <3>2. PICK l \in Kinds : \E i \in DOMAIN g.resources[l] : q = <<l, i>>
      BY DEF Places
    <3>3. r.kind = k /\ s.kind = l /\ p[1] = k /\ q[1] = l
      BY <2>3, <2>6, <3>1, <3>2, Groups, Lists DEF ResourceAt
    <3>4. CASE g = EmptyGroup
      BY <3>1, <3>4 DEF EmptyGroup
    <3>5. CASE ValidResourceGroup(g)
      <4>1. r.namespace = s.namespace
        BY <2>6, <3>5 DEF ValidResourceGroup, NoNameConflicts
      <4>2. r.name = s.name
        BY <2>6, <3>3, <3>5, <4>1 DEF ValidResourceGroup, NoNameConflicts
      <4>3. p = q
        BY <2>3, <2>6, <3>3, <4>1, <4>2 DEF NoTwins, SameName
      <4>4. QED
        BY <2>6, <4>3
    <3>6. QED
      BY <2>3, <3>4, <3>5
  <2>7. QED
    BY <2>2, <2>4, <2>5, <2>6 DEF Unambiguous
<1>2. QED
  BY <1>1, Invariance, PTL

\* A command that says ok was applied, and its files are declared while nothing was applied
\* after it.
THEOREM OkIsApplied == Spec => []OkMeansApplied
<1>1. Inv => OkMeansApplied
  <2>1. SUFFICES ASSUME Inv, NEW c \in Commands, command[c].at = "ok", ~TextOf(Current(c)).dryRun
                 PROVE  /\ Current(c) \in applied
                        /\ last = Current(c) =>
                              declaredBy[Current(c)] \subseteq Declarations(registryFile)
    BY DEF OkMeansApplied
  <2>2. PICK m : m = Current(c)
    OBVIOUS
  <2>3. m \in applied /\ m \in Loadable
    BY <2>1, <2>2 DEF Inv, CommandsInv
  <2>4. m # None
    BY <2>3, Payloads, NoneAssumption
  <2>5. last = m => declaredBy[m] \subseteq Declarations(registryFile)
    BY <2>1, <2>3, <2>4 DEF Inv, LastInv, Shows, declaredBy
  <2>6. QED
    BY <2>2, <2>3, <2>5
<1>2. QED
  BY <1>1, Invariance, PTL

\* The two files declare the same, but for what plugins touch, and the registry's declares
\* nothing but what applied commands did (update-resource-group.ts).
THEOREM PublishedAsDeclared == Spec => []DeclaredIsPublished
<1>1. Inv => DeclaredIsPublished
  BY DEF Inv, FilesInv, Fit, DeclaredInv, DeclaredIsPublished, Untouched, Touched, Touches
<1>2. QED
  BY <1>1, Invariance, PTL

\* A gateway serves its own resources and all of the registry's with other names.
THEOREM BothAreServed == Spec => []ServesBoth
<1>1. Inv => ServesBoth
  <2>1. SUFFICES ASSUME Inv
                 PROVE  ServesBoth
    OBVIOUS
  <2>2. PICK w : w = gatewayFile
    OBVIOUS
  <2>3. PICK f : f = FileSystemGroup
    OBVIOUS
  <2>4. PICK h : h = ApplyResourceGroupUpdates(w, f)
    OBVIOUS
  <2>5. IsGroup(w) /\ NoTwins(w) /\ IsGroup(f) /\ NoTwins(f) /\ FetchLatest(Repositories) = h
    BY <2>1, <2>2, <2>3, <2>4, Fetched
  <2>6. Declarations(h) = {d \in Declarations(w) : ~\E e \in Saying(f) : Declared!SameName(d, e)} \cup Saying(f)
    BY <2>4, <2>5, UpdatedGroup
  <2>7. Saying(f) = Declarations(f)
    <3>1. ASSUME NEW k \in Kinds
          PROVE  Lasts(f.resources[k]) = Range(f.resources[k])
      <4>1. PICK s : s = f.resources[k]
        OBVIOUS
      <4>2. Listed(s) /\ Distinct(s)
        BY <2>5, <4>1, Groups
      <4>3. DOMAIN s = 1..Len(s) /\ Len(s) \in Nat
        BY <4>2, Lists
      <4>4. \A j, l \in 1..Len(s) : l > j => ~SameName(s[l], s[j])
        BY <4>2, <4>3 DEF Distinct
      <4>5. QED
        BY <4>1, <4>3, <4>4 DEF Lasts, LastsUpTo, Range
    <3>2. Declarations(f) = UNION {Said(Range(f.resources[k])) : k \in Kinds}
      BY <2>5, Groups
    <3>3. QED
      BY <3>1, <3>2 DEF Saying
  <2>8. QED
    BY <2>2, <2>3, <2>5, <2>6, <2>7 DEF ServesBoth, Declared!SameName, SameName
<1>2. QED
  BY <1>1, Invariance, PTL

\* The state has its types, a plugin is loaded once, and requests are of commands that were run.
THEOREM TypeCorrect == Spec => []TypeOK
<1>1. Inv => TypeOK
  <2>1. SUFFICES ASSUME Inv
                 PROVE  TypeOK
    OBVIOUS
  <2>2. Range(plugins) \subseteq Plugins /\ loading \subseteq Plugins
    BY <2>1 DEF Inv, PluginsInv, Range
  <2>3. \A c \in Commands : command[c].at \in States /\ command[c].number \in 0..Len(text[c])
    <3>1. \A c \in Commands : Len(text[c]) \in Nat
      BY TextAssumption
    <3>2. QED
      BY <2>1, <3>1 DEF Inv, CommandsInv
  <2>4. QED
    BY <2>1, <2>2, <2>3 DEF Inv, PluginsInv, FilesInv, Fit, CommandsInv, States, TypeOK
<1>2. QED
  BY <1>1, Invariance, PTL

\* A request that is applied twice in a row changes the registry's file once.
THEOREM RepeatsAreHarmless == Spec => RepeatChangesNothing
<1>1. ASSUME Inv, [Next]_vars, NEW m \in requests, last # None, payload[m] = payload[last], UpdateResources(m)
      PROVE  UNCHANGED registryFile
  <2>1. ApplyResourceGroupUpdates(registryFile, payload[m]) = registryFile
    BY <1>1 DEF Inv, LastInv, Shows
  <2>2. QED
    BY <1>1, <2>1, Outcomes DEF files
<1>2. Inv /\ [Next]_vars =>
         [\A m \in requests : last # None /\ payload[m] = payload[last] /\ UpdateResources(m) => UNCHANGED registryFile]_vars
  BY <1>1
<1>3. QED
  BY <1>2, Invariance, PTL DEF Spec, RepeatChangesNothing

\* The registry's file implements the set of declarations that teams rely on.
THEOREM DeclaredImplemented == Spec => ImplementsDeclared
<1>1. Init => Declared!Init
  BY EmptyGroups DEF Init, Declared!Init
<1>2. ASSUME Inv, [Next]_vars
      PROVE  [Declared!Next]_(Declarations(registryFile))
  <2>1. CASE registryFile' = registryFile
    BY <2>1
  <2>2. ASSUME NEW m \in requests, UpdateResources(m)
        PROVE  [Declared!Next]_(Declarations(registryFile))
    <3>1. PICK group : group = ApplyResourceGroupUpdates(registryFile, payload[m])
      OBVIOUS
    <3>2. CASE ~TextOf(m).dryRun /\ registryFile' = group
      <4>1. PICK said : said = DeclaredIn(TextOf(m).documents, TextOf(m).skip)
        OBVIOUS
      <4>2. /\ m \in Loadable
            /\ Declarations(group) = {d \in Declarations(registryFile) : ~\E e \in said : Declared!SameName(d, e)} \cup said
        BY <1>2, <3>1, <4>1, Updating
      <4>3. said \in DeclaredByCommands
        BY <3>2, <4>1, <4>2 DEF DeclaredByCommands, declaredBy
      <4>4. Declared!Apply(said)
        BY <3>2, <4>2 DEF Declared!Apply
      <4>5. QED
        BY <4>3, <4>4 DEF Declared!Next
    <3>3. QED
      BY <1>2, <2>1, <2>2, <3>1, <3>2, Outcomes DEF files
  <2>3. CASE DeleteResources
    <3>1. PICK d \in Deletions : Save(ApplyResourceGroupDeletions(registryFile, d))
      BY <2>3 DEF DeleteResources
    <3>2. PICK group : group = ApplyResourceGroupDeletions(registryFile, d)
      OBVIOUS
    <3>3. Declarations(group) = {x \in Declarations(registryFile) : ~\E e \in d.resources : Declared!SameName(x, e)}
      BY <1>2, <3>2, Deleting
    <3>4. registryFile' = group
      BY <3>1, <3>2 DEF Save, SavedForRegistry
    <3>5. d.resources \in NamesDeleted
      BY DEF NamesDeleted
    <3>6. Declared!Delete(d.resources)
      BY <3>3, <3>4 DEF Declared!Delete
    <3>7. QED
      BY <3>5, <3>6 DEF Declared!Next
  <2>4. CASE RebuildResourceGroup
    BY <2>1, <2>4 DEF RebuildResourceGroup, Save, SavedForRegistry
  <2>5. QED
    BY <1>2, <2>1, <2>2, <2>3, <2>4 DEF Next, vars, files, RunCommand, ReceiveAnswer, TimeOut, LoadPlugin, Restart
<1>3. QED
  BY <1>1, <1>2, Invariance, PTL DEF Spec, ImplementsDeclared, Declared!Spec

=============================================================================
