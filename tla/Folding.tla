------------------------------ MODULE Folding ------------------------------
(***************************************************************************)
(* FoldLeft for any operator Op, which may have a parameter p: what it     *)
(* returns is reached from its base in one step for each element.  A       *)
(* module that folds an operator cites FoldSteps from an instance.         *)
(***************************************************************************)
EXTENDS SequencesExt, WellFoundedInduction, TLAPS

CONSTANT Op(_, _, _)

Folded(p, base, seq) == FoldLeft(LAMBDA a, x : Op(p, a, x), base, seq)

\* The function that FoldLeft chooses: what each set of positions folds to.
Greatest(s) == CHOOSE x \in s : \A y \in s : x >= y
Table(p, base, seq, S, g) ==
    g = [s \in SUBSET S |-> IF s = {} THEN base ELSE Op(p, g[s \ {Greatest(s)}], seq[Greatest(s)])]


\* The values that a fold goes through.
Path(p, seq, n, path) == \A i \in 0..(n - 1) : path[i + 1] = Op(p, path[i], seq[i + 1])

----------------------------------------------------------------------------
\* A set of numbers has a least element.
LEMMA LeastOf ==
  ASSUME NEW T, T \subseteq Nat, T # {}
  PROVE  \E i \in T : \A j \in T : i <= j
<1>1. PICK R : R = OpToRel(<, Nat)
  OBVIOUS
<1>2. IsWellFoundedOn(R, Nat)
  BY <1>1, NatLessThanWellFounded
<1>3. PICK i \in T : \A j \in T : <<j, i>> \notin R
  BY <1>2, WFMin
<1>4. \A k, j \in Nat : <<j, k>> \in R <=> j < k
  BY <1>1 DEF OpToRel
<1>5. ASSUME NEW j \in T
      PROVE  i <= j
  <2>1. i \in Nat /\ j \in Nat
    OBVIOUS
  <2>2. ~(j < i)
    BY <1>3, <1>4, <2>1, Zenon
  <2>3. QED
    BY <2>1, <2>2
<1>6. QED
  BY <1>5

\* Induction, for a set.
LEMMA SetInduction ==
  ASSUME NEW T, 0 \in T, \A n \in Nat : n \in T => n + 1 \in T
  PROVE  Nat \subseteq T
<1>1. SUFFICES ASSUME Nat \ T # {}
               PROVE  FALSE
  OBVIOUS
<1>2. PICK i \in Nat \ T : \A j \in Nat \ T : i <= j
  BY <1>1, LeastOf
<1>3. i # 0 /\ i - 1 \in Nat
  BY <1>2
<1>4. i - 1 \in T
  BY <1>2, <1>3
<1>5. QED
  BY <1>2, <1>3, <1>4

\* The greatest position of a set of positions.
LEMMA GreatestOf ==
  ASSUME NEW n \in Nat, NEW s, s \subseteq 1..n, s # {}
  PROVE  Greatest(s) \in s /\ \A y \in s : y <= Greatest(s)
<1>1. PICK U : U = {m \in Nat : \A y \in s : y <= m}
  OBVIOUS
<1>2. n \in U
  BY <1>1
<1>3. PICK m \in U : \A k \in U : m <= k
  BY <1>1, <1>2, LeastOf
<1>4. m \in s
  <2>1. SUFFICES ASSUME m \notin s
                 PROVE  FALSE
    OBVIOUS
  <2>2. \A y \in s : y \in Nat /\ y >= 1 /\ y <= m /\ y # m
    BY <1>1, <2>1
  <2>3. m \in Nat /\ m - 1 \in Nat
    <3>1. PICK y : y \in s
      OBVIOUS
    <3>2. y \in Nat /\ y >= 1 /\ y <= m /\ m \in Nat
      BY <1>1, <2>2, <3>1
    <3>3. QED
      BY <3>2
  <2>4. m - 1 \in U
    BY <1>1, <2>2, <2>3
  <2>5. QED
    BY <1>3, <2>3, <2>4
<1>5. \E x \in s : \A y \in s : x >= y
  BY <1>1, <1>4
<1>6. QED
  BY <1>5 DEF Greatest

\* The table exists: the one for n + 1 positions comes from the one for n.
LEMMA TableExists ==
  ASSUME NEW p, NEW base, NEW seq, NEW n \in Nat
  PROVE  \E g : Table(p, base, seq, 1..n, g)
<1>1. PICK T : T = {k \in Nat : \E g : Table(p, base, seq, 1..k, g)}
  OBVIOUS
<1>2. 0 \in T
  <2>1. PICK g : g = [s \in SUBSET {} |-> base]
    OBVIOUS
  <2>2. g = [s \in SUBSET {} |-> IF s = {} THEN base ELSE Op(p, g[s \ {Greatest(s)}], seq[Greatest(s)])]
    BY <2>1
  <2>3. 1..0 = {}
    OBVIOUS
  <2>4. QED
    BY <1>1, <2>2, <2>3 DEF Table
<1>3. ASSUME NEW k \in Nat, k \in T
      PROVE  k + 1 \in T
  <2>1. PICK g : Table(p, base, seq, 1..k, g)
    BY <1>1, <1>3
  <2>2. PICK h : h = [s \in SUBSET (1..(k + 1)) |->
                        IF k + 1 \in s THEN Op(p, g[s \ {k + 1}], seq[k + 1]) ELSE g[s]]
    OBVIOUS
  <2>3. ASSUME NEW s \in SUBSET (1..(k + 1))
        PROVE  h[s] = IF s = {} THEN base ELSE Op(p, h[s \ {Greatest(s)}], seq[Greatest(s)])
    <3>1. k + 1 \in s => Greatest(s) = k + 1
      <4>1. k + 1 \in Nat /\ s \subseteq 1..(k + 1)
        OBVIOUS
      <4>2. k + 1 \in s => Greatest(s) \in s /\ k + 1 <= Greatest(s)
        BY <4>1, GreatestOf
      <4>3. PICK m : m = Greatest(s)
        OBVIOUS
      <4>4. m \in s => m \in Nat /\ m <= k + 1
        BY <4>1
      <4>5. QED
        BY <4>1, <4>2, <4>3, <4>4
    <3>2. CASE k + 1 \in s
      <4>1. Greatest(s) = k + 1
        BY <3>1, <3>2
      <4>2. s \ {k + 1} \in SUBSET (1..(k + 1)) /\ k + 1 \notin s \ {k + 1}
        OBVIOUS
      <4>3. h[s \ {k + 1}] = g[s \ {k + 1}]
        BY <2>2, <4>2
      <4>4. h[s] = Op(p, g[s \ {k + 1}], seq[k + 1])
        BY <2>2, <3>2
      <4>5. QED
        BY <3>2, <4>1, <4>3, <4>4
    <3>3. CASE k + 1 \notin s
      <4>1. s \in SUBSET (1..k) /\ h[s] = g[s]
        BY <2>2, <3>3
      <4>2. g[s] = IF s = {} THEN base ELSE Op(p, g[s \ {Greatest(s)}], seq[Greatest(s)])
        BY <2>1, <4>1 DEF Table
      <4>3. s \ {Greatest(s)} \in SUBSET (1..(k + 1)) /\ k + 1 \notin s \ {Greatest(s)}
        BY <3>3
      <4>4. h[s \ {Greatest(s)}] = g[s \ {Greatest(s)}]
        BY <2>2, <4>3
      <4>5. QED
        BY <4>1, <4>2, <4>4
    <3>4. QED
      BY <3>2, <3>3
  <2>4. Table(p, base, seq, 1..(k + 1), h)
    <3>1. h = [s \in SUBSET (1..(k + 1)) |-> h[s]]
      BY <2>2
    <3>2. QED
      BY <2>3, <3>1 DEF Table
  <2>5. QED
    BY <1>1, <2>4
<1>4. n \in T
  BY <1>2, <1>3, SetInduction
<1>5. QED
  BY <1>1, <1>4

\* FoldLeft reads its result from such a table.
LEMMA FoldTable ==
  ASSUME NEW p, NEW base, NEW seq, NEW n \in Nat, DOMAIN seq = 1..n
  PROVE  \E g : Table(p, base, seq, 1..n, g) /\ Folded(p, base, seq) = g[1..n]
<1>1. PICK g : g = CHOOSE h : Table(p, base, seq, 1..n, h)
  OBVIOUS
<1>2. Table(p, base, seq, 1..n, g)
  BY <1>1, TableExists
<1>3. Folded(p, base, seq) = (CHOOSE h : Table(p, base, seq, DOMAIN seq, h))[DOMAIN seq]
  BY DEF Folded, FoldLeft, MapThenFoldSet, Max, Table, Greatest
<1>4. QED
  BY <1>1, <1>2, <1>3

\* The values that a fold goes through, from its base to its result.
LEMMA FoldPath ==
  ASSUME NEW p, NEW base, NEW seq, NEW n \in Nat, DOMAIN seq = 1..n
  PROVE  \E path : path[0] = base /\ path[n] = Folded(p, base, seq) /\ Path(p, seq, n, path)
<1>1. PICK g : Table(p, base, seq, 1..n, g) /\ Folded(p, base, seq) = g[1..n]
  BY FoldTable
<1>2. PICK path : path = [i \in 0..n |-> g[1..i]]
  OBVIOUS
<1>3. path[0] = base
  <2>1. 1..0 = {} /\ {} \in SUBSET (1..n)
    OBVIOUS
  <2>2. g[1..0] = base
    BY <1>1, <2>1 DEF Table
  <2>3. QED
    BY <1>2, <2>2
<1>4. ASSUME NEW k \in 0..(n - 1)
      PROVE  path[k + 1] = Op(p, path[k], seq[k + 1])
  <2>1. PICK s : s = 1..(k + 1)
    OBVIOUS
  <2>2. s \in SUBSET (1..n) /\ s # {} /\ s \subseteq 1..(k + 1) /\ k + 1 \in s
    <3>1. k \in Nat /\ k + 1 <= n
      OBVIOUS
    <3>2. k + 1 \in 1..(k + 1) /\ 1..(k + 1) \subseteq 1..n
      BY <3>1
    <3>3. QED
      BY <2>1, <3>2
  <2>3. Greatest(s) = k + 1
    <3>1. k + 1 \in Nat
      OBVIOUS
    <3>2. Greatest(s) \in s /\ k + 1 <= Greatest(s)
      BY <2>2, <3>1, GreatestOf
    <3>3. Greatest(s) \in Nat /\ Greatest(s) <= k + 1
      BY <2>1, <3>2
    <3>4. QED
      BY <3>1, <3>2, <3>3
  <2>4. s \ {k + 1} = 1..k
    BY <2>1
  <2>5. g[s] = Op(p, g[s \ {Greatest(s)}], seq[Greatest(s)])
    BY <1>1, <2>2 DEF Table
  <2>6. g[s] = Op(p, g[1..k], seq[k + 1])
    BY <2>3, <2>4, <2>5
  <2>7. path[k + 1] = g[s] /\ path[k] = g[1..k]
    BY <1>2, <2>1
  <2>8. QED
    BY <2>6, <2>7
<1>5. path[n] = Folded(p, base, seq)
  BY <1>1, <1>2
<1>6. QED
  BY <1>3, <1>4, <1>5 DEF Path

\* What holds of the base before the first element, and is kept by a step from each element
\* to the next, holds of the result: T is a set of pairs of a position and a value.
LEMMA FoldSteps ==
  ASSUME NEW p, NEW base, NEW seq, NEW n \in Nat, DOMAIN seq = 1..n,
         NEW T, <<0, base>> \in T,
         \A i \in 0..(n - 1) : \A a : <<i, a>> \in T => <<i + 1, Op(p, a, seq[i + 1])>> \in T
  PROVE  <<n, Folded(p, base, seq)>> \in T
<1>1. PICK path : path[0] = base /\ path[n] = Folded(p, base, seq) /\ Path(p, seq, n, path)
  BY FoldPath
<1>2. PICK U : U = {k \in Nat : k <= n => <<k, path[k]>> \in T}
  OBVIOUS
<1>3. 0 \in U
  BY <1>1, <1>2
<1>4. ASSUME NEW k \in Nat, k \in U
      PROVE  k + 1 \in U
  <2>1. SUFFICES ASSUME k + 1 <= n
                 PROVE  <<k + 1, path[k + 1]>> \in T
    BY <1>2
  <2>2. k \in 0..(n - 1) /\ <<k, path[k]>> \in T
    BY <1>2, <1>4, <2>1
  <2>3. path[k + 1] = Op(p, path[k], seq[k + 1])
    BY <1>1, <2>2 DEF Path
  <2>4. QED
    BY <2>2, <2>3
<1>5. n \in U
  BY <1>3, <1>4, SetInduction
<1>6. QED
  BY <1>1, <1>2, <1>5

=============================================================================
