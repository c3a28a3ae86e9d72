-------------------------- MODULE AllocationProofs --------------------------
(***************************************************************************)
(* allocate_proportionally divides exactly, for any number of recipients.  *)
(*                                                                         *)
(* A sum is a fold over the subsets of its domain.  Inductions are stated  *)
(* about sets, as is the existence of the folding function.                *)
(***************************************************************************)
EXTENDS Allocation, FiniteSetTheorems, WellFoundedInduction, TLAPS

-----------------------------------------------------------------------------
(* Induction over sets of numbers and over subsets.                        *)

LEMMA NaturalOrder ==
  \E R : IsWellFoundedOn(R, Nat) /\ \A x, y \in Nat : x < y => <<x, y>> \in R
<1>1. \A x, y \in Nat : x < y => <<x, y>> \in OpToRel(<, Nat)
  BY DEF OpToRel
<1> QED BY <1>1, NatLessThanWellFounded

LEMMA Minimal ==
  ASSUME NEW R, IsWellFoundedOn(R, Nat), NEW T, T \subseteq Nat, T # {}
  PROVE  \E n \in T : \A m \in T : ~(<<m, n>> \in R)
  BY WFMin, Zenon

\* A set of numbers that has 0 and with each number the next one has them all.
LEMMA NumbersAll ==
  ASSUME NEW G, 0 \in G, \A n \in Nat : n \in G => n + 1 \in G
  PROVE  \A n \in Nat : n \in G
<1> SUFFICES ASSUME \E n \in Nat : n \notin G PROVE FALSE
  OBVIOUS
<1>1. PICK T : T = {n \in Nat : n \notin G}
  OBVIOUS
<1>2. T \subseteq Nat /\ T # {}
  BY <1>1
<1>3. PICK R : IsWellFoundedOn(R, Nat) /\ \A x, y \in Nat : x < y => <<x, y>> \in R
  BY NaturalOrder
<1>4. IsWellFoundedOn(R, Nat)
  BY <1>3
<1>5. PICK n \in T : \A m \in T : ~(<<m, n>> \in R)
  BY <1>2, <1>4, Minimal, Zenon
<1>6. n \in Nat /\ n \notin G /\ n # 0
  BY <1>1, <1>5
<1>7. n - 1 \in Nat /\ n - 1 < n /\ (n - 1) + 1 = n
  BY <1>6
<1>8. n - 1 \in T
  BY <1>1, <1>6, <1>7
<1> QED BY <1>3, <1>5, <1>6, <1>7, <1>8

\* The element the sum takes next.
Pick(s) == CHOOSE x \in s : TRUE

LEMMA PickIs == \A s : s # {} => Pick(s) \in s
  BY DEF Pick

LEMMA Smaller ==
  ASSUME NEW S, IsFiniteSet(S), NEW s \in SUBSET S
  PROVE  /\ IsFiniteSet(s) /\ Cardinality(s) \in Nat
         /\ Cardinality(s) = 0 <=> s = {}
         /\ s # {} => /\ s \ {Pick(s)} \in SUBSET S
                      /\ Cardinality(s \ {Pick(s)}) = Cardinality(s) - 1
<1>1. IsFiniteSet(s) /\ Cardinality(s) \in Nat
  BY FS_Subset, FS_CardinalityType
<1>2. Cardinality(s) = 0 <=> s = {}
  BY <1>1, FS_EmptySet
<1>3. ASSUME s # {} PROVE Cardinality(s \ {Pick(s)}) = Cardinality(s) - 1
  BY <1>1, <1>3, PickIs, FS_RemoveElement
<1> QED BY <1>1, <1>2, <1>3

\* A set of subsets that has the empty one and each one whose smaller one it has, has them all.
LEMMA SubsetsAll ==
  ASSUME NEW S, IsFiniteSet(S), NEW G, {} \in G,
         \A s \in SUBSET S : s # {} /\ s \ {Pick(s)} \in G => s \in G
  PROVE  \A s \in SUBSET S : s \in G
<1>1. PICK H : H = {n \in Nat : \A s \in SUBSET S : Cardinality(s) = n => s \in G}
  OBVIOUS
<1>2. 0 \in H
  BY <1>1, Smaller
<1>3. ASSUME NEW n \in Nat, n \in H PROVE n + 1 \in H
  <2>1. SUFFICES ASSUME NEW s \in SUBSET S, Cardinality(s) = n + 1 PROVE s \in G
    BY <1>1
  <2>2. s # {} /\ s \ {Pick(s)} \in SUBSET S /\ Cardinality(s \ {Pick(s)}) = n
    <3>1. /\ Cardinality(s) = 0 <=> s = {}
          /\ s # {} => /\ s \ {Pick(s)} \in SUBSET S
                       /\ Cardinality(s \ {Pick(s)}) = Cardinality(s) - 1
      BY Smaller
    <3>2. s # {}
      BY <2>1, <3>1
    <3> QED BY <2>1, <3>1, <3>2
  <2> QED BY <1>1, <1>3, <2>2
<1>4. \A n \in Nat : n \in H
  BY <1>2, <1>3, NumbersAll
<1>5. ASSUME NEW s \in SUBSET S PROVE s \in G
  <2>1. Cardinality(s) \in Nat
    BY Smaller
  <2> QED BY <1>1, <1>4, <2>1
<1> QED BY <1>5

-----------------------------------------------------------------------------
(* The sum is the fold it says it is.                                      *)

Fold(F, f, D) ==
  F = [s \in D |-> IF s = {} THEN 0 ELSE f[Pick(s)] + F[s \ {Pick(s)}]]
Upto(S, n) == {s \in SUBSET S : Cardinality(s) <= n}

LEMMA FoldExists ==
  ASSUME NEW S, IsFiniteSet(S), NEW f
  PROVE  \E F : Fold(F, f, SUBSET S)
<1>1. PICK G : G = {n \in Nat : \E F : Fold(F, f, Upto(S, n))}
  OBVIOUS
<1>2. 0 \in G
  <2>1. PICK F : F = [s \in Upto(S, 0) |-> 0]
    OBVIOUS
  <2>2. ASSUME NEW s \in Upto(S, 0) PROVE s = {}
    <3>1. s \in SUBSET S /\ Cardinality(s) <= 0
      BY DEF Upto
    <3>2. Cardinality(s) \in Nat /\ (Cardinality(s) = 0 <=> s = {})
      BY <3>1, Smaller
    <3> QED BY <3>1, <3>2
  <2>3. Fold(F, f, Upto(S, 0))
    BY <2>1, <2>2 DEF Fold
  <2> QED BY <1>1, <2>3
<1>3. ASSUME NEW n \in Nat, n \in G PROVE n + 1 \in G
  <2>1. PICK E : Fold(E, f, Upto(S, n))
    BY <1>1, <1>3
  <2>2. PICK F : F = [s \in Upto(S, n + 1) |->
                        IF s = {} THEN 0 ELSE f[Pick(s)] + E[s \ {Pick(s)}]]
    OBVIOUS
  <2>3. ASSUME NEW s \in Upto(S, n) PROVE s \in Upto(S, n + 1)
    <3>1. s \in SUBSET S /\ Cardinality(s) <= n
      BY DEF Upto
    <3>2. Cardinality(s) \in Nat
      BY <3>1, Smaller
    <3>3. Cardinality(s) <= n + 1
      BY <3>1, <3>2
    <3> QED BY <3>1, <3>3 DEF Upto
  <2>4. \A s \in Upto(S, n) : F[s] = E[s]
    BY <2>1, <2>2, <2>3 DEF Fold
  <2>5. ASSUME NEW s \in Upto(S, n + 1), s # {} PROVE s \ {Pick(s)} \in Upto(S, n)
    <3>1. s \in SUBSET S /\ Cardinality(s) <= n + 1
      BY DEF Upto
    <3>2. Cardinality(s) \in Nat /\ s \ {Pick(s)} \in SUBSET S
          /\ Cardinality(s \ {Pick(s)}) = Cardinality(s) - 1
      BY <2>5, <3>1, Smaller
    <3>3. Cardinality(s \ {Pick(s)}) <= n
      BY <3>1, <3>2
    <3> QED BY <3>2, <3>3 DEF Upto
  <2>6. ASSUME NEW s \in Upto(S, n + 1), s # {}
        PROVE  f[Pick(s)] + E[s \ {Pick(s)}] = f[Pick(s)] + F[s \ {Pick(s)}]
    <3>1. s \ {Pick(s)} \in Upto(S, n)
      BY <2>5, <2>6
    <3> QED BY <2>4, <3>1
  <2>7. F = [s \in Upto(S, n + 1) |-> IF s = {} THEN 0 ELSE f[Pick(s)] + F[s \ {Pick(s)}]]
    BY <2>2, <2>6
  <2>8. Fold(F, f, Upto(S, n + 1))
    BY <2>7, Zenon DEF Fold
  <2>9. n + 1 \in Nat
    OBVIOUS
  <2> QED BY <1>1, <2>8, <2>9, Zenon
<1>4. \A n \in Nat : n \in G
  BY <1>2, <1>3, NumbersAll
<1>5. Cardinality(S) \in Nat /\ Upto(S, Cardinality(S)) = SUBSET S
  BY FS_CardinalityType, FS_Subset DEF Upto
<1> QED BY <1>1, <1>4, <1>5

LEMMA TotalIs ==
  ASSUME NEW S, IsFiniteSet(S), NEW f, DOMAIN f = S
  PROVE  \E F : /\ F[{}] = 0
                /\ \A s \in SUBSET S : s # {} => F[s] = f[Pick(s)] + F[s \ {Pick(s)}]
                /\ Total(f) = F[S]
<1>1. Total(f) =
        (CHOOSE F : F = [s \in SUBSET DOMAIN f |->
                           IF s = {} THEN 0 ELSE f[Pick(s)] + F[s \ {Pick(s)}]])[DOMAIN f]
  BY DEF Total, MapThenSumSet, MapThenFoldSet, Pick
<1>2. PICK F : F = CHOOSE H : Fold(H, f, SUBSET S)
  OBVIOUS
<1>3. Fold(F, f, SUBSET S)
  BY <1>2, FoldExists, Zenon
<1>4. Total(f) = F[S]
  BY <1>1, <1>2 DEF Fold
<1>5. F = [s \in SUBSET S |-> IF s = {} THEN 0 ELSE f[Pick(s)] + F[s \ {Pick(s)}]]
  BY <1>3 DEF Fold
<1>6. F[{}] = 0 /\ \A s \in SUBSET S : s # {} => F[s] = f[Pick(s)] + F[s \ {Pick(s)}]
  <2>1. {} \in SUBSET S
    OBVIOUS
  <2> QED BY <1>5, <2>1
<1> QED BY <1>4, <1>6

-----------------------------------------------------------------------------
(* What sums do.                                                           *)

LEMMA TotalType ==
  ASSUME NEW S, IsFiniteSet(S), NEW f \in [S -> Int]
  PROVE  Total(f) \in Int
<1>1. PICK F : /\ F[{}] = 0
               /\ \A s \in SUBSET S : s # {} => F[s] = f[Pick(s)] + F[s \ {Pick(s)}]
               /\ Total(f) = F[S]
  BY TotalIs
<1>2. PICK G : G = {s \in SUBSET S : F[s] \in Int}
  OBVIOUS
<1>3. {} \in G
  BY <1>1, <1>2
<1>4. ASSUME NEW s \in SUBSET S, s # {}, s \ {Pick(s)} \in G PROVE s \in G
  <2>1. PICK x \in S : x = Pick(s)
    BY <1>4, PickIs
  <2>2. f[x] \in Int /\ F[s \ {x}] \in Int
    BY <1>2, <1>4, <2>1
  <2>3. F[s] = f[x] + F[s \ {x}]
    BY <1>1, <1>4, <2>1
  <2> QED BY <1>2, <2>2, <2>3
<1>5. S \in G
  <2>1. \A s \in SUBSET S : s \in G
    BY <1>3, <1>4, SubsetsAll
  <2> QED BY <2>1
<1> QED BY <1>1, <1>2, <1>5

\* Sums add up, and take a factor.
LEMMA TotalAdds ==
  ASSUME NEW S, IsFiniteSet(S),
         NEW f \in [S -> Int], NEW g \in [S -> Int], NEW h \in [S -> Int],
         \A r \in S : h[r] = f[r] + g[r]
  PROVE  Total(h) = Total(f) + Total(g)
<1>1. PICK F : /\ F[{}] = 0
               /\ \A s \in SUBSET S : s # {} => F[s] = f[Pick(s)] + F[s \ {Pick(s)}]
               /\ Total(f) = F[S]
  BY TotalIs
<1>2. PICK E : /\ E[{}] = 0
               /\ \A s \in SUBSET S : s # {} => E[s] = g[Pick(s)] + E[s \ {Pick(s)}]
               /\ Total(g) = E[S]
  BY TotalIs
<1>3. PICK H : /\ H[{}] = 0
               /\ \A s \in SUBSET S : s # {} => H[s] = h[Pick(s)] + H[s \ {Pick(s)}]
               /\ Total(h) = H[S]
  BY TotalIs
<1>4. PICK G : G = {s \in SUBSET S : F[s] \in Int /\ E[s] \in Int /\ H[s] = F[s] + E[s]}
  OBVIOUS
<1>5. {} \in G
  BY <1>1, <1>2, <1>3, <1>4
<1>6. ASSUME NEW s \in SUBSET S, s # {}, s \ {Pick(s)} \in G PROVE s \in G
  <2>1. PICK x \in S : x = Pick(s)
    BY <1>6, PickIs
  <2>2. /\ F[s \ {x}] \in Int /\ E[s \ {x}] \in Int
        /\ H[s \ {x}] = F[s \ {x}] + E[s \ {x}]
    BY <1>4, <1>6, <2>1
  <2>3. f[x] \in Int /\ g[x] \in Int /\ h[x] = f[x] + g[x]
    OBVIOUS
  <2>4. /\ F[s] = f[x] + F[s \ {x}] /\ E[s] = g[x] + E[s \ {x}]
        /\ H[s] = h[x] + H[s \ {x}]
    BY <1>1, <1>2, <1>3, <1>6, <2>1
  <2> QED BY <1>4, <2>2, <2>3, <2>4
<1>7. S \in G
  <2>1. \A s \in SUBSET S : s \in G
    BY <1>5, <1>6, SubsetsAll
  <2> QED BY <2>1
<1> QED BY <1>1, <1>2, <1>3, <1>4, <1>7

LEMMA TotalScaled ==
  ASSUME NEW S, IsFiniteSet(S), NEW c \in Int, NEW f \in [S -> Int], NEW h \in [S -> Int],
         \A r \in S : h[r] = c * f[r]
  PROVE  Total(h) = c * Total(f)
<1>1. PICK F : /\ F[{}] = 0
               /\ \A s \in SUBSET S : s # {} => F[s] = f[Pick(s)] + F[s \ {Pick(s)}]
               /\ Total(f) = F[S]
  BY TotalIs
<1>2. PICK H : /\ H[{}] = 0
               /\ \A s \in SUBSET S : s # {} => H[s] = h[Pick(s)] + H[s \ {Pick(s)}]
               /\ Total(h) = H[S]
  BY TotalIs
<1>3. PICK G : G = {s \in SUBSET S : F[s] \in Int /\ H[s] = c * F[s]}
  OBVIOUS
<1>4. {} \in G
  <2>1. c * 0 = 0
    OBVIOUS
  <2> QED BY <1>1, <1>2, <1>3, <2>1
<1>5. ASSUME NEW s \in SUBSET S, s # {}, s \ {Pick(s)} \in G PROVE s \in G
  <2>1. PICK x \in S : x = Pick(s)
    BY <1>5, PickIs
  <2>2. PICK u \in Int, a \in Int : u = F[s \ {x}] /\ a = f[x]
    BY <1>3, <1>5, <2>1
  <2>3. H[s \ {x}] = c * u /\ h[x] = c * a
    BY <1>3, <1>5, <2>1, <2>2
  <2>4. F[s] = a + u /\ H[s] = c * a + c * u
    BY <1>1, <1>2, <1>5, <2>1, <2>2, <2>3
  <2>5. c * a + c * u = c * (a + u) /\ a + u \in Int
    OBVIOUS
  <2> QED BY <1>3, <2>4, <2>5
<1>6. S \in G
  <2>1. \A s \in SUBSET S : s \in G
    BY <1>4, <1>5, SubsetsAll
  <2> QED BY <2>1
<1> QED BY <1>1, <1>2, <1>3, <1>6

LEMMA TotalAtMost ==
  ASSUME NEW S, IsFiniteSet(S), NEW f \in [S -> Int], NEW g \in [S -> Int],
         \A r \in S : f[r] <= g[r]
  PROVE  Total(f) <= Total(g)
<1>1. PICK F : /\ F[{}] = 0
               /\ \A s \in SUBSET S : s # {} => F[s] = f[Pick(s)] + F[s \ {Pick(s)}]
               /\ Total(f) = F[S]
  BY TotalIs
<1>2. PICK E : /\ E[{}] = 0
               /\ \A s \in SUBSET S : s # {} => E[s] = g[Pick(s)] + E[s \ {Pick(s)}]
               /\ Total(g) = E[S]
  BY TotalIs
<1>3. PICK G : G = {s \in SUBSET S : F[s] \in Int /\ E[s] \in Int /\ F[s] <= E[s]}
  OBVIOUS
<1>4. {} \in G
  BY <1>1, <1>2, <1>3
<1>5. ASSUME NEW s \in SUBSET S, s # {}, s \ {Pick(s)} \in G PROVE s \in G
  <2>1. PICK x \in S : x = Pick(s)
    BY <1>5, PickIs
  <2>2. f[x] \in Int /\ g[x] \in Int /\ f[x] <= g[x]
    OBVIOUS
  <2>3. F[s \ {x}] \in Int /\ E[s \ {x}] \in Int /\ F[s \ {x}] <= E[s \ {x}]
    BY <1>3, <1>5, <2>1
  <2>4. F[s] = f[x] + F[s \ {x}] /\ E[s] = g[x] + E[s \ {x}]
    BY <1>1, <1>2, <1>5, <2>1
  <2> QED BY <1>3, <2>2, <2>3, <2>4
<1>6. S \in G
  <2>1. \A s \in SUBSET S : s \in G
    BY <1>4, <1>5, SubsetsAll
  <2> QED BY <2>1
<1> QED BY <1>1, <1>2, <1>3, <1>6

\* A sum of ones and zeros counts the ones.
LEMMA TotalCounts ==
  ASSUME NEW S, IsFiniteSet(S), NEW T \in SUBSET S, NEW f \in [S -> Int],
         \A r \in S : f[r] = IF r \in T THEN 1 ELSE 0
  PROVE  Total(f) = Cardinality(T)
<1>1. PICK F : /\ F[{}] = 0
               /\ \A s \in SUBSET S : s # {} => F[s] = f[Pick(s)] + F[s \ {Pick(s)}]
               /\ Total(f) = F[S]
  BY TotalIs
<1>2. PICK G : G = {s \in SUBSET S : F[s] = Cardinality(s \cap T)}
  OBVIOUS
<1>3. {} \in G
  <2>1. {} \cap T = {} /\ Cardinality({}) = 0
    BY FS_EmptySet
  <2> QED BY <1>1, <1>2, <2>1
<1>4. ASSUME NEW s \in SUBSET S, s # {}, s \ {Pick(s)} \in G PROVE s \in G
  <2>1. PICK x \in s : x = Pick(s)
    BY <1>4, PickIs
  <2>2. PICK t : t = s \ {x}
    OBVIOUS
  <2>3. IsFiniteSet(s \cap T) /\ IsFiniteSet(t \cap T)
    BY <2>2, FS_Subset
  <2>4. F[s] = f[x] + Cardinality(t \cap T)
    BY <1>1, <1>2, <1>4, <2>1, <2>2
  <2>5. Cardinality(t \cap T) \in Nat
    BY <2>3, FS_CardinalityType
  <2>6. CASE x \in T
    <3>1. s \cap T = (t \cap T) \cup {x} /\ x \notin t \cap T
      BY <2>2, <2>6
    <3>2. Cardinality(s \cap T) = Cardinality(t \cap T) + 1
      BY <2>3, <3>1, FS_AddElement
    <3>3. f[x] = 1
      BY <2>6
    <3> QED BY <1>2, <2>4, <2>5, <3>2, <3>3
  <2>7. CASE x \notin T
    <3>1. s \cap T = t \cap T /\ f[x] = 0
      BY <2>2, <2>7
    <3> QED BY <1>2, <2>4, <2>5, <3>1
  <2> QED BY <2>6, <2>7
<1>5. S \in G
  <2>1. \A s \in SUBSET S : s \in G
    BY <1>3, <1>4, SubsetsAll
  <2> QED BY <2>1
<1>6. S \cap T = T
  OBVIOUS
<1> QED BY <1>1, <1>2, <1>5, <1>6

-----------------------------------------------------------------------------
(* The order in which the units that are left over are given away.         *)

LEMMA Order ==
  ASSUME NEW S \in SUBSET Int, NEW rest \in [S -> Int], NEW r \in S, NEW s \in S
  PROVE  /\ Ahead(rest, r) \in SUBSET S /\ r \notin Ahead(rest, r)
         /\ r # s => r \in Ahead(rest, s) \/ s \in Ahead(rest, r)
         /\ s \in Ahead(rest, r) => Ahead(rest, s) \subseteq Ahead(rest, r)
<1>1. /\ \A q \in S : q \in Int /\ rest[q] \in Int
      /\ \A p, q \in S : p \in Ahead(rest, q) <=>
           rest[p] > rest[q] \/ (rest[p] = rest[q] /\ p < q)
      /\ Ahead(rest, r) \in SUBSET S /\ Ahead(rest, s) \in SUBSET S
  BY DEF Ahead
<1>2. r \notin Ahead(rest, r)
  BY <1>1
<1>3. r # s => r \in Ahead(rest, s) \/ s \in Ahead(rest, r)
  BY <1>1
<1>4. ASSUME s \in Ahead(rest, r), NEW q \in Ahead(rest, s) PROVE q \in Ahead(rest, r)
  <2>1. q \in S /\ q \in Int /\ s \in Int /\ r \in Int
        /\ rest[q] \in Int /\ rest[s] \in Int /\ rest[r] \in Int
    BY <1>1, <1>4
  <2>2. /\ rest[q] > rest[s] \/ (rest[q] = rest[s] /\ q < s)
        /\ rest[s] > rest[r] \/ (rest[s] = rest[r] /\ s < r)
    BY <1>1, <1>4, <2>1
  <2>3. rest[q] > rest[r] \/ (rest[q] = rest[r] /\ q < r)
    BY <2>1, <2>2
  <2> QED BY <1>1, <2>1, <2>3
<1> QED BY <1>1, <1>2, <1>3, <1>4

\* One who is ahead has fewer before.
LEMMA Ranks ==
  ASSUME NEW S \in SUBSET Int, IsFiniteSet(S), NEW rest \in [S -> Int], NEW r \in S
  PROVE  /\ Cardinality(Ahead(rest, r)) \in Nat
         /\ Cardinality(Ahead(rest, r)) < Cardinality(S)
         /\ \A s \in Ahead(rest, r) : Cardinality(Ahead(rest, s)) < Cardinality(Ahead(rest, r))
<1>1. Ahead(rest, r) \in SUBSET S /\ r \notin Ahead(rest, r)
  BY Order
<1>2. IsFiniteSet(Ahead(rest, r)) /\ Cardinality(Ahead(rest, r)) \in Nat /\ Cardinality(S) \in Nat
  BY <1>1, FS_Subset, FS_CardinalityType
<1>3. Cardinality(Ahead(rest, r)) < Cardinality(S)
  <2>1. Cardinality(Ahead(rest, r) \cup {r}) = Cardinality(Ahead(rest, r)) + 1
    BY <1>1, <1>2, FS_AddElement
  <2>2. Ahead(rest, r) \cup {r} \in SUBSET S
    BY <1>1
  <2>3. Cardinality(Ahead(rest, r) \cup {r}) <= Cardinality(S)
    BY <2>2, FS_Subset
  <2> QED BY <1>2, <2>1, <2>3
<1>4. ASSUME NEW s \in Ahead(rest, r)
      PROVE  Cardinality(Ahead(rest, s)) < Cardinality(Ahead(rest, r))
  <2>1. s \in S
    BY <1>1
  <2>2. Ahead(rest, s) \in SUBSET S /\ s \notin Ahead(rest, s)
        /\ Ahead(rest, s) \subseteq Ahead(rest, r)
    BY <2>1, Order
  <2>3. IsFiniteSet(Ahead(rest, s)) /\ Cardinality(Ahead(rest, s)) \in Nat
    BY <2>2, FS_Subset, FS_CardinalityType
  <2>4. Cardinality(Ahead(rest, s) \cup {s}) = Cardinality(Ahead(rest, s)) + 1
    BY <2>2, <2>3, FS_AddElement
  <2>5. Ahead(rest, s) \cup {s} \in SUBSET Ahead(rest, r)
    BY <2>2
  <2>6. Cardinality(Ahead(rest, s) \cup {s}) <= Cardinality(Ahead(rest, r))
    BY <1>2, <2>5, FS_Subset
  <2> QED BY <1>2, <2>3, <2>4, <2>6
<1> QED BY <1>2, <1>3, <1>4

\* As many recipients have fewer than u before them as u says.
LEMMA FirstOnes ==
  ASSUME NEW S \in SUBSET Int, IsFiniteSet(S), NEW rest \in [S -> Int],
         NEW u \in 0 .. Cardinality(S)
  PROVE  Cardinality({r \in S : Cardinality(Ahead(rest, r)) < u}) = u
<1>1. PICK n \in Nat : n = Cardinality(S)
  BY FS_CardinalityType
<1>2. PICK R : R = [r \in S |-> Cardinality(Ahead(rest, r))]
  OBVIOUS
<1>3. R \in [S -> 0 .. (n - 1)]
  <2>1. ASSUME NEW r \in S PROVE R[r] \in 0 .. (n - 1)
    <3>1. R[r] \in Nat /\ R[r] < n
      BY <1>1, <1>2, Ranks
    <3> QED BY <3>1
  <2> QED BY <1>2, <2>1
<1>4. ASSUME NEW r \in S, NEW s \in S, R[r] = R[s] PROVE r = s
  <2>1. R[r] \in Nat /\ R[s] \in Nat
    BY <1>2, Ranks
  <2>2. CASE r \in Ahead(rest, s)
    <3>1. R[r] < R[s]
      BY <1>2, <2>2, Ranks
    <3> QED BY <1>4, <2>1, <3>1
  <2>3. CASE s \in Ahead(rest, r)
    <3>1. R[s] < R[r]
      BY <1>2, <2>3, Ranks
    <3> QED BY <1>4, <2>1, <3>1
  <2> QED BY <2>2, <2>3, Order
<1>5. R \in Surjection(S, 0 .. (n - 1))
  <2>1. R \in Injection(S, 0 .. (n - 1))
    BY <1>3, <1>4 DEF Injection, IsInjective
  <2>2. IsFiniteSet(0 .. (n - 1)) /\ Cardinality(0 .. (n - 1)) = n
    <3>1. 0 \in Int /\ n - 1 \in Int /\ (IF 0 > n - 1 THEN 0 ELSE (n - 1) - 0 + 1) = n
      OBVIOUS
    <3> QED BY <3>1, FS_Interval
  <2> QED BY <1>1, <2>1, <2>2, FS_Injection
<1>6. \A k \in 0 .. (n - 1) : \E r \in S : R[r] = k
  BY <1>5 DEF Surjection
<1>7. PICK C : C = {r \in S : Cardinality(Ahead(rest, r)) < u}
  OBVIOUS
<1>8. \A r \in S : r \in C <=> R[r] < u
  BY <1>2, <1>7
<1>9. PICK Q : Q = [r \in C |-> R[r]]
  OBVIOUS
<1>10. Q \in [C -> 0 .. (u - 1)]
  <2>1. ASSUME NEW r \in C PROVE R[r] \in 0 .. (u - 1)
    <3>1. r \in S /\ R[r] < u
      BY <1>7, <1>8
    <3>2. R[r] \in 0 .. (n - 1)
      BY <1>3, <3>1
    <3> QED BY <3>1, <3>2
  <2> QED BY <1>9, <2>1
<1>11. \A r, s \in C : Q[r] = Q[s] => r = s
  <2>1. \A r \in C : r \in S /\ Q[r] = R[r]
    BY <1>7, <1>9
  <2> QED BY <1>4, <2>1
<1>12. ASSUME NEW k \in 0 .. (u - 1) PROVE \E r \in C : Q[r] = k
  <2>1. k \in 0 .. (n - 1) /\ k < u
    BY <1>1
  <2>2. PICK r \in S : R[r] = k
    BY <1>6, <2>1
  <2>3. r \in C
    BY <1>8, <2>1, <2>2
  <2> QED BY <1>9, <2>2, <2>3
<1>13. Q \in Bijection(C, 0 .. (u - 1))
  BY <1>10, <1>11, <1>12 DEF Bijection, Injection, IsInjective, Surjection
<1>14. ExistsBijection(C, 0 .. (u - 1))
  BY <1>13 DEF ExistsBijection
<1>15. IsFiniteSet(C)
  <2>1. C \in SUBSET S
    BY <1>7
  <2> QED BY <2>1, FS_Subset
<1>16. Cardinality(0 .. (u - 1)) = u
  <2>1. 0 \in Int /\ u - 1 \in Int /\ (IF 0 > u - 1 THEN 0 ELSE (u - 1) - 0 + 1) = u
    BY <1>1
  <2> QED BY <2>1, FS_Interval
<1>17. Cardinality(0 .. (u - 1)) = Cardinality(C)
  BY <1>14, <1>15, FS_Bijection
<1> QED BY <1>7, <1>16, <1>17

-----------------------------------------------------------------------------
(* The division.                                                           *)

\* What the quotient and the remainder of the code's divmod are.
LEMMA Divided ==
  ASSUME NEW a \in Nat, NEW b \in Nat \ {0}
  PROVE  a \div b \in Nat /\ a % b \in 0 .. (b - 1) /\ a = b * (a \div b) + (a % b)
  OBVIOUS

LEMMA Between ==
  ASSUME NEW b \in Nat \ {0}, NEW u \in Int, NEW k \in Int, 0 <= b * u, b * u <= b * k
  PROVE  0 <= u /\ u <= k
<1>1. ASSUME u < 0 PROVE FALSE
  <2>1. PICK v \in Nat : u = -(v + 1)
    <3>1. -(u + 1) \in Nat /\ u = -(-(u + 1) + 1)
      BY <1>1
    <3> QED BY <3>1
  <2>2. b * u = -(b * v) - b /\ b * v >= 0
    BY <2>1
  <2> QED BY <2>2
<1>2. ASSUME u > k PROVE FALSE
  <2>1. PICK v \in Nat : u = k + v + 1
    <3>1. u - k - 1 \in Nat /\ u = k + (u - k - 1) + 1
      BY <1>2
    <3> QED BY <3>1
  <2>2. b * u = b * k + b * v + b /\ b * v >= 0 /\ b * k \in Int
    BY <2>1
  <2> QED BY <2>2
<1> QED BY <1>1, <1>2

LEMMA Times ==
  ASSUME NEW a \in Nat, NEW b \in Nat
  PROVE  a * b \in Nat
  OBVIOUS

\* Shares have a positive sum.
LEMMA SharesAdd ==
  ASSUME NEW S, IsFiniteSet(S), S # {}, NEW shares \in [S -> Nat \ {0}]
  PROVE  Total(shares) \in Nat \ {0}
<1>1. PICK ones : ones = [r \in S |-> IF r \in S THEN 1 ELSE 0]
  OBVIOUS
<1>2. ones \in [S -> Int] /\ shares \in [S -> Int]
  BY <1>1
<1>3. \A r \in S : ones[r] <= shares[r]
  BY <1>1
<1>4. Total(ones) = Cardinality(S)
  <2>1. S \in SUBSET S /\ \A r \in S : ones[r] = IF r \in S THEN 1 ELSE 0
    BY <1>1
  <2> QED BY <1>2, <2>1, TotalCounts
<1>5. Cardinality(S) \in Nat /\ Cardinality(S) # 0
  BY FS_CardinalityType, FS_EmptySet
<1>6. Total(ones) <= Total(shares) /\ Total(shares) \in Int
  BY <1>2, <1>3, TotalAtMost, TotalType
<1> QED BY <1>4, <1>5, <1>6

\* Quotients and remainders of the recipients.
LEMMA Parts ==
  ASSUME NEW S, IsFiniteSet(S), S # {}, NEW total \in Nat, NEW shares \in [S -> Nat \ {0}]
  PROVE  /\ Floor(total, shares) \in [S -> Nat]
         /\ Remainder(total, shares) \in [S -> 0 .. (Total(shares) - 1)]
         /\ \A r \in S : total * shares[r] =
              Total(shares) * Floor(total, shares)[r] + Remainder(total, shares)[r]
<1>1. PICK sum \in Nat \ {0} : sum = Total(shares)
  BY SharesAdd
<1>2. ASSUME NEW r \in S
      PROVE  /\ (total * shares[r]) \div sum \in Nat
             /\ (total * shares[r]) % sum \in 0 .. (sum - 1)
             /\ total * shares[r] =
                  sum * ((total * shares[r]) \div sum) + ((total * shares[r]) % sum)
  <2>1. PICK a \in Nat : a = total * shares[r]
    BY Times
  <2> QED BY <2>1, Divided
<1>3. DOMAIN shares = S
  OBVIOUS
<1> QED BY <1>1, <1>2, <1>3 DEF Floor, Remainder

\* What is left over is a unit or less for each recipient whose share does not divide evenly.
LEMMA LeftOver ==
  ASSUME NEW S, IsFiniteSet(S), S # {}, NEW total \in Nat, NEW shares \in [S -> Nat \ {0}],
         NEW rest, rest = Remainder(total, shares), NEW floor, floor = Floor(total, shares)
  PROVE  /\ total - Total(floor) \in Int
         /\ 0 <= total - Total(floor)
         /\ total - Total(floor) <= Cardinality({r \in S : rest[r] > 0})
<1>1. PICK sum \in Nat \ {0} : sum = Total(shares)
  BY SharesAdd
<1>2. floor \in [S -> Int] /\ rest \in [S -> Int] /\ shares \in [S -> Int]
  BY <1>1, Parts
<1>3. \A r \in S : /\ rest[r] \in 0 .. (sum - 1)
                   /\ total * shares[r] = sum * floor[r] + rest[r]
  BY <1>1, Parts
<1>4. PICK none : none = [r \in S |-> IF r \in {} THEN 1 ELSE 0]
  OBVIOUS
<1>5. none \in [S -> Int] /\ Total(none) = 0 /\ \A r \in S : none[r] = 0
  <2>1. {} \in SUBSET S /\ Cardinality({}) = 0
    BY FS_EmptySet
  <2>2. none \in [S -> Int] /\ \A r \in S : none[r] = IF r \in {} THEN 1 ELSE 0
    BY <1>4
  <2>3. Total(none) = 0
    BY <2>1, <2>2, TotalCounts
  <2> QED BY <2>2, <2>3
<1>6. PICK some \in SUBSET S : some = {r \in S : rest[r] > 0}
  OBVIOUS
<1>7. PICK marks : marks = [r \in S |-> IF r \in some THEN 1 ELSE 0]
  OBVIOUS
<1>8. marks \in [S -> Int] /\ Total(marks) = Cardinality(some) /\ Cardinality(some) \in Nat
  <2>1. marks \in [S -> Int] /\ \A r \in S : marks[r] = IF r \in some THEN 1 ELSE 0
    BY <1>7
  <2>2. Total(marks) = Cardinality(some)
    BY <2>1, TotalCounts
  <2>3. Cardinality(some) \in Nat
    BY FS_Subset, FS_CardinalityType
  <2> QED BY <2>1, <2>2, <2>3
<1>9. PICK whole : whole = [r \in S |-> total * shares[r]]
  OBVIOUS
<1>10. whole \in [S -> Int]
  <2>1. ASSUME NEW r \in S PROVE total * shares[r] \in Int
    BY Times
  <2> QED BY <1>9, <2>1
<1>11. Total(whole) = total * sum
  <2>1. \A r \in S : whole[r] = total * shares[r]
    BY <1>9
  <2>2. total \in Int
    OBVIOUS
  <2> QED BY <1>1, <1>2, <1>10, <2>1, <2>2, TotalScaled
<1>12. Total(whole) = sum * Total(floor) + Total(rest)
  <2>1. PICK even : even = [r \in S |-> sum * floor[r]]
    OBVIOUS
  <2>2. even \in [S -> Int]
    <3>1. ASSUME NEW r \in S PROVE sum * floor[r] \in Int
      BY <1>2
    <3> QED BY <2>1, <3>1
  <2>3. sum \in Int /\ \A r \in S : even[r] = sum * floor[r]
    BY <2>1
  <2>4. Total(even) = sum * Total(floor)
    BY <1>2, <2>2, <2>3, TotalScaled
  <2>5. \A r \in S : whole[r] = even[r] + rest[r]
    BY <1>3, <1>9, <2>1
  <2> QED BY <1>2, <1>10, <2>2, <2>4, <2>5, TotalAdds
<1>13. PICK most : most = [r \in S |-> sum * marks[r]]
  OBVIOUS
<1>14. most \in [S -> Int] /\ \A r \in S : most[r] = IF r \in some THEN sum ELSE 0
  BY <1>7, <1>13
<1>15. Total(most) = sum * Cardinality(some)
  <2>1. \A r \in S : most[r] = sum * marks[r]
    BY <1>13
  <2>2. sum \in Int
    OBVIOUS
  <2> QED BY <1>8, <1>14, <2>1, <2>2, TotalScaled
<1>16. Total(rest) <= Total(most)
  <2>1. \A r \in S : rest[r] <= most[r]
    BY <1>3, <1>6, <1>14
  <2> QED BY <1>2, <1>14, <2>1, TotalAtMost
<1>17. 0 <= Total(rest)
  <2>1. \A r \in S : none[r] <= rest[r]
    BY <1>3, <1>5
  <2> QED BY <1>2, <1>5, <2>1, TotalAtMost
<1>18. PICK t \in Int : t = Total(floor)
  BY <1>2, TotalType
<1>19. PICK k \in Int : k = Cardinality(some)
  BY <1>8
<1>20. total - t \in Int /\ sum * (total - t) = total * sum - sum * t
  OBVIOUS
<1>21. 0 <= sum * (total - t) /\ sum * (total - t) <= sum * k
  <2>1. sum * (total - t) = Total(rest)
    <3>1. Total(rest) \in Int
      BY <1>2, TotalType
    <3>2. total * sum \in Int /\ sum * t \in Int
      OBVIOUS
    <3> QED BY <1>11, <1>12, <1>18, <1>20, <3>1, <3>2
  <2> QED BY <1>15, <1>16, <1>17, <1>19, <2>1
<1>22. 0 <= total - t /\ total - t <= k
  BY <1>20, <1>21, Between
<1> QED BY <1>6, <1>18, <1>19, <1>20, <1>22

\* The budget is divided exactly: its units are all given away, everyone is within a unit of
\* the exact share, and a smaller share never gets more (allocate_proportionally).
THEOREM AllocationIsExact ==
  ASSUME NEW S, IsFiniteSet(S), S # {}, \A r \in S : r \in Int,
         NEW total \in Nat, NEW shares \in [S -> Nat \ {0}]
  PROVE  ExactDivision(total, shares, Allocate(total, shares))
<1>1. PICK floor, rest, sum, u, amounts :
        /\ floor = Floor(total, shares) /\ rest = Remainder(total, shares)
        /\ sum = Total(shares) /\ u = total - Total(floor)
        /\ amounts = Allocate(total, shares)
  OBVIOUS
<1>2. /\ sum \in Nat \ {0}
      /\ floor \in [S -> Nat] /\ rest \in [S -> 0 .. (sum - 1)]
      /\ \A r \in S : total * shares[r] = sum * floor[r] + rest[r]
  <2>1. /\ Total(shares) \in Nat \ {0}
        /\ Floor(total, shares) \in [S -> Nat]
        /\ Remainder(total, shares) \in [S -> 0 .. (Total(shares) - 1)]
        /\ \A r \in S : total * shares[r] =
             Total(shares) * Floor(total, shares)[r] + Remainder(total, shares)[r]
    <3>1. Total(shares) \in Nat \ {0}
      BY SharesAdd
    <3> QED BY <3>1, Parts
  <2> QED BY <1>1, <2>1, Zenon
<1>3. PICK some \in SUBSET S : some = {r \in S : rest[r] > 0}
  OBVIOUS
<1>4. u \in Int /\ 0 <= u /\ u <= Cardinality(some)
  <2>1. rest = Remainder(total, shares) /\ floor = Floor(total, shares)
    BY <1>1
  <2>2. /\ total - Total(floor) \in Int /\ 0 <= total - Total(floor)
        /\ total - Total(floor) <= Cardinality({r \in S : rest[r] > 0})
    BY <2>1, LeftOver
  <2> QED BY <1>1, <1>3, <2>2
<1>5. /\ Cardinality(some) \in Nat /\ Cardinality(S) \in Nat
      /\ Cardinality(some) <= Cardinality(S) /\ IsFiniteSet(some)
  BY FS_Subset, FS_CardinalityType
<1>6. floor \in [S -> Int] /\ rest \in [S -> Int]
  BY <1>2
<1>7. PICK first \in SUBSET S : first = {r \in S : Cardinality(Ahead(rest, r)) < u}
  OBVIOUS
<1>8. Cardinality(first) = u
  <2>1. u \in 0 .. Cardinality(S)
    BY <1>4, <1>5
  <2>2. S \in SUBSET Int
    OBVIOUS
  <2> QED BY <1>6, <1>7, <2>1, <2>2, FirstOnes
<1>9. amounts = [r \in S |-> IF r \in first THEN floor[r] + 1 ELSE floor[r]]
  <2>1. DOMAIN shares = S
    OBVIOUS
  <2>2. amounts = [r \in S |-> IF Cardinality(Ahead(rest, r)) < u THEN floor[r] + 1 ELSE floor[r]]
    BY <1>1, <2>1 DEF Allocate
  <2> QED BY <1>7, <2>2
<1>10. amounts \in [S -> Int]
  BY <1>6, <1>9
<1>11. Total(amounts) = total
  <2>1. PICK extra : extra = [r \in S |-> IF r \in first THEN 1 ELSE 0]
    OBVIOUS
  <2>2. extra \in [S -> Int]
    BY <2>1
  <2>3. Total(extra) = u
    <3>1. Total(extra) = Cardinality(first)
      <4>1. \A r \in S : extra[r] = IF r \in first THEN 1 ELSE 0
        BY <2>1
      <4> QED BY <2>2, <4>1, TotalCounts
    <3> QED BY <1>8, <3>1
  <2>4. Total(amounts) = Total(floor) + Total(extra)
    <3>1. \A r \in S : amounts[r] = floor[r] + extra[r]
      BY <1>6, <1>9, <2>1
    <3> QED BY <1>6, <1>10, <2>2, <3>1, TotalAdds
  <2>5. Total(floor) \in Int
    BY <1>6, TotalType
  <2> QED BY <1>1, <2>3, <2>4, <2>5
<1>12. ASSUME NEW r \in first PROVE rest[r] > 0
  <2>1. r \in S /\ Cardinality(Ahead(rest, r)) < u
    BY <1>7
  <2>2. SUFFICES ASSUME rest[r] = 0 PROVE FALSE
    <3>1. rest[r] \in 0 .. (sum - 1)
      BY <1>2, <2>1
    <3> QED BY <3>1
  <2>3. some \in SUBSET Ahead(rest, r)
    BY <1>3, <1>6, <2>1, <2>2 DEF Ahead
  <2>4. Ahead(rest, r) \in SUBSET S
    BY <1>6, <2>1, Order
  <2>5. IsFiniteSet(Ahead(rest, r)) /\ Cardinality(Ahead(rest, r)) \in Nat
    BY <2>4, FS_Subset, FS_CardinalityType
  <2>6. Cardinality(some) <= Cardinality(Ahead(rest, r))
    BY <2>3, <2>5, FS_Subset
  <2> QED BY <1>4, <1>5, <2>1, <2>5, <2>6
<1>13. ASSUME NEW r \in S
       PROVE  /\ amounts[r] * sum < total * shares[r] + sum
              /\ amounts[r] * sum > total * shares[r] - sum
  <2>1. PICK q \in Nat, m \in 0 .. (sum - 1) : q = floor[r] /\ m = rest[r]
    BY <1>2
  <2>2. total * shares[r] = sum * q + m
    BY <1>2, <2>1
  <2>3. sum * q \in Nat /\ q * sum = sum * q /\ (q + 1) * sum = sum * q + sum
    BY <1>2, <2>1
  <2>4. CASE r \in first
    <3>1. amounts[r] = q + 1 /\ m > 0
      BY <1>9, <1>12, <2>1, <2>4
    <3> QED BY <1>2, <2>1, <2>2, <2>3, <3>1
  <2>5. CASE r \notin first
    <3>1. amounts[r] = q
      BY <1>9, <2>1, <2>5
    <3> QED BY <1>2, <2>1, <2>2, <2>3, <3>1
  <2> QED BY <2>4, <2>5
<1>14. ASSUME NEW r \in S, NEW s \in S, shares[r] < shares[s] PROVE amounts[r] <= amounts[s]
  <2>1. PICK a \in Nat, b \in Nat, q \in Nat, p \in Nat, m \in 0 .. (sum - 1), n \in 0 .. (sum - 1) :
          /\ a = shares[r] /\ b = shares[s]
          /\ q = floor[r] /\ p = floor[s]
          /\ m = rest[r] /\ n = rest[s]
    BY <1>2
  <2>2. total * a = sum * q + m /\ total * b = sum * p + n
    BY <1>2, <2>1
  <2>3. PICK c \in Nat : b = a + c + 1
    <3>1. b - a - 1 \in Nat /\ b = a + (b - a - 1) + 1
      BY <1>14, <2>1
    <3> QED BY <3>1
  <2>4. total * b = total * a + total * c + total /\ total * c \in Nat
    BY <2>3
  <2>5. q <= p
    <3>1. SUFFICES ASSUME q > p PROVE FALSE
      OBVIOUS
    <3>2. PICK e \in Nat : q = p + e + 1
      <4>1. q - p - 1 \in Nat /\ q = p + (q - p - 1) + 1
        BY <3>1
      <4> QED BY <4>1
    <3>3. sum * q = sum * p + sum * e + sum /\ sum * e \in Nat /\ sum * p \in Nat
      BY <1>2, <3>2
    <3>4. total * a \in Nat
      OBVIOUS
    <3> QED BY <1>2, <2>1, <2>2, <2>4, <3>3, <3>4
  <2>8. /\ r \in first => amounts[r] = q + 1
        /\ r \notin first => amounts[r] = q
        /\ s \in first => amounts[s] = p + 1
        /\ s \notin first => amounts[s] = p
    BY <1>9, <2>1
  <2>6. CASE q < p
    BY <2>6, <2>8
  <2>7. CASE q = p
    <3>1. total = 0 \/ n > m
      <4>1. sum * q \in Nat /\ total * a \in Nat
        BY <1>2
      <4>2. sum * p = sum * q
        BY <2>7
      <4> QED BY <2>1, <2>2, <2>4, <4>1, <4>2
    <3>2. CASE r \notin first
      BY <2>7, <2>8, <3>2
    <3>3. CASE r \in first
      <4>1. m > 0
        BY <1>12, <2>1, <3>3
      <4>2. n > m
        <5>1. CASE total = 0
          <6>1. total * a = 0 /\ sum * q \in Nat
            BY <1>2, <5>1
          <6> QED BY <2>1, <2>2, <4>1, <6>1
        <5> QED BY <3>1, <5>1
      <4>3. s \in Ahead(rest, r)
        BY <1>6, <2>1, <4>2 DEF Ahead
      <4>4. Cardinality(Ahead(rest, s)) < Cardinality(Ahead(rest, r))
        BY <1>6, <4>3, Ranks
      <4>5. Cardinality(Ahead(rest, r)) < u /\ Cardinality(Ahead(rest, r)) \in Nat
            /\ Cardinality(Ahead(rest, s)) \in Nat
        BY <1>6, <1>7, <3>3, Ranks
      <4>6. s \in first
        BY <1>4, <1>7, <4>4, <4>5
      <4> QED BY <2>7, <2>8, <3>3, <4>6
    <3> QED BY <3>2, <3>3
  <2> QED BY <2>5, <2>6, <2>7
<1>15. DOMAIN shares = S
  OBVIOUS
<1> QED BY <1>1, <1>11, <1>13, <1>14, <1>15 DEF ExactDivision
=============================================================================
