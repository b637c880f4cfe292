---------------------------- MODULE DiskQueueProofs ----------------------------
(***************************************************************************)
(* Proofs about DiskQueue for all sizes of files, limits and bounds: the    *)
(* list of a running queue is its directory, the bytes accounted for cover  *)
(* it, and a push that succeeds leaves it within the limit.                *)
(***************************************************************************)
EXTENDS DiskQueue, FiniteSetTheorems, SequenceTheorems, TLAPS

Entries == [n : Nat, size : Nat]

-----------------------------------------------------------------------------
(* Natural numbers: a least element, and induction stated on sets.         *)

LEMMA LeastElement ==
    ASSUME NEW T \in SUBSET Nat, T # {}
    PROVE  \E x \in T : \A y \in T : x <= y
<1> DEFINE R == {ss \in Nat \X Nat : ss[1] < ss[2]}
<1>1. IsWellFoundedOn(R, Nat)
  BY NatLessThanWellFounded DEF OpToRel
<1>2. \E x \in T : \A y \in T : ~ (<<y, x>> \in R)
  <2> HIDE DEF R
  <2>1. QED
    BY <1>1, WFMin
<1>3. \A x, y \in Nat : y < x => <<y, x>> \in R
  OBVIOUS
<1> HIDE DEF R
<1>4. PICK x \in T : \A y \in T : ~ (<<y, x>> \in R)
  BY <1>2
<1>5. ASSUME NEW y \in T PROVE x <= y
  <2>1. <<y, x>> \notin R
    BY <1>4
  <2>2. x \in Nat /\ y \in Nat
    OBVIOUS
  <2>3. ~ (y < x)
    BY <1>3, <2>1, <2>2
  <2>4. QED
    BY <2>2, <2>3
<1>6. QED
  BY <1>5

LEMMA SetInduction ==
    ASSUME NEW T, 0 \in T, \A k \in Nat : k \in T => k + 1 \in T
    PROVE  Nat \subseteq T
<1>1. SUFFICES ASSUME Nat \ T # {} PROVE FALSE
  OBVIOUS
<1>2. PICK x \in Nat \ T : \A y \in Nat \ T : x <= y
  BY <1>1, LeastElement
<1>3. x - 1 \in Nat /\ x - 1 \notin T
  BY <1>2
<1>4. QED
  BY <1>2, <1>3

LEMMA LargestElement ==
    ASSUME NEW b \in Nat, NEW T \in SUBSET (0 .. b), T # {}
    PROVE  \E x \in T : \A y \in T : x >= y
<1> DEFINE U == {b - t : t \in T}
<1>1. U \in SUBSET Nat /\ U # {}
  <2>1. PICK t \in T : TRUE
    OBVIOUS
  <2>2. b - t \in U
    OBVIOUS
  <2>3. U \subseteq Nat
    OBVIOUS
  <2> HIDE DEF U
  <2>4. QED
    BY <2>2, <2>3
<1>2. PICK u \in U : \A y \in U : u <= y
  BY <1>1, LeastElement
<1>3. QED
  <2>1. PICK x \in T : u = b - x
    OBVIOUS
  <2>2. ASSUME NEW y \in T PROVE x >= y
    <3>1. u <= b - y
      BY <1>2
    <3>2. QED
      BY <2>1, <3>1
  <2>3. QED
    BY <2>2

-----------------------------------------------------------------------------
(* The sums of the sizes of a list. *)

LEMMA SumsDefined ==
    ASSUME NEW l \in Seq(Entries)
    PROVE  Sums(l) = [i \in 0 .. Len(l) |-> IF i = 0 THEN 0 ELSE Sums(l)[i - 1] + l[i].size]
<1> DEFINE IsSum(f, n) == f = [i \in 0 .. n |-> IF i = 0 THEN 0 ELSE f[i - 1] + l[i].size]
           T == {n \in Nat : \E f : IsSum(f, n)}
<1>1. 0 \in T
  <2>1. IsSum([i \in 0 .. 0 |-> 0], 0)
    OBVIOUS
  <2>2. QED
    BY <2>1
<1>2. ASSUME NEW k \in Nat, k \in T PROVE k + 1 \in T
  <2>1. PICK f : IsSum(f, k)
    BY <1>2
  <2> DEFINE g == [i \in 0 .. k + 1 |-> IF i = k + 1 THEN f[k] + l[k + 1].size ELSE f[i]]
  <2>2. \A i \in 0 .. k + 1 : g[i] = IF i = 0 THEN 0 ELSE g[i - 1] + l[i].size
    <3>1. ASSUME NEW i \in 0 .. k PROVE f[i] = IF i = 0 THEN 0 ELSE f[i - 1] + l[i].size
      BY <2>1
    <3>2. /\ \A i \in 0 .. k : g[i] = f[i]
          /\ g[k + 1] = f[k] + l[k + 1].size
      OBVIOUS
    <3> HIDE DEF g
    <3>3. ASSUME NEW i \in 0 .. k PROVE g[i] = IF i = 0 THEN 0 ELSE g[i - 1] + l[i].size
      <4>1. CASE i = 0
        BY <3>1, <3>2, <4>1
      <4>2. CASE i # 0
        <5>1. i - 1 \in 0 .. k
          BY <4>2
        <5>2. QED
          BY <3>1, <3>2, <4>2, <5>1
      <4>3. QED
        BY <4>1, <4>2
    <3>4. k \in 0 .. k /\ k + 1 # 0 /\ (k + 1) - 1 = k
      OBVIOUS
    <3>5. \A i \in 0 .. k + 1 : i \in 0 .. k \/ i = k + 1
      OBVIOUS
    <3>6. g[k + 1] = IF k + 1 = 0 THEN 0 ELSE g[(k + 1) - 1] + l[k + 1].size
      BY <3>2, <3>4
    <3>7. QED
      BY <3>3, <3>5, <3>6
  <2>3. IsSum(g, k + 1)
    <3>1. g = [i \in 0 .. k + 1 |-> g[i]]
      OBVIOUS
    <3> HIDE DEF g
    <3>2. QED
      BY <2>2, <3>1
  <2>4. \E h : IsSum(h, k + 1)
    <3> HIDE DEF g, IsSum
    <3>1. QED
      BY <2>3
  <2> HIDE DEF IsSum
  <2>5. k + 1 \in Nat
    OBVIOUS
  <2>6. QED
    BY <2>4, <2>5
<1>3. Nat \subseteq T
  <2> HIDE DEF T
  <2>1. QED
    BY <1>1, <1>2, SetInduction
<1>4. Len(l) \in Nat
  OBVIOUS
<1>5. \E f : IsSum(f, Len(l))
  BY <1>3, <1>4
<1>6. Sums(l) = CHOOSE f : IsSum(f, Len(l))
  BY DEF Sums
<1> HIDE DEF IsSum
<1>7. IsSum(Sums(l), Len(l))
  BY <1>5, <1>6
<1>8. QED
  BY <1>7 DEF IsSum

LEMMA SumsStep ==
    ASSUME NEW l \in Seq(Entries)
    PROVE  /\ Sums(l)[0] = 0
           /\ \A i \in 1 .. Len(l) : Sums(l)[i] = Sums(l)[i - 1] + l[i].size
<1> DEFINE F == Sums(l)
<1>1. F = [i \in 0 .. Len(l) |-> IF i = 0 THEN 0 ELSE F[i - 1] + l[i].size]
  BY SumsDefined
<1>2. Len(l) \in Nat
  OBVIOUS
<1> HIDE DEF F
<1>3. F[0] = 0 /\ \A i \in 1 .. Len(l) : F[i] = F[i - 1] + l[i].size
  BY <1>1, <1>2
<1>4. QED
  BY <1>3 DEF F

LEMMA SumsNat ==
    ASSUME NEW l \in Seq(Entries)
    PROVE  \A i \in 0 .. Len(l) : Sums(l)[i] \in Nat
<1> DEFINE T == {n \in Nat : n <= Len(l) => Sums(l)[n] \in Nat}
<1>1. 0 \in T
  BY SumsStep
<1>2. ASSUME NEW k \in Nat, k \in T PROVE k + 1 \in T
  <2>1. SUFFICES ASSUME k + 1 <= Len(l) PROVE Sums(l)[k + 1] \in Nat
    OBVIOUS
  <2>2. Sums(l)[k] \in Nat
    BY <1>2, <2>1
  <2>3. l[k + 1] \in Entries
    BY <2>1
  <2>4. Sums(l)[k + 1] = Sums(l)[k] + l[k + 1].size
    <3>1. k + 1 \in 1 .. Len(l) /\ (k + 1) - 1 = k
      BY <2>1
    <3>2. QED
      BY <3>1, SumsStep
  <2>5. QED
    BY <2>2, <2>3, <2>4 DEF Entries
<1>3. Nat \subseteq T
  <2> HIDE DEF T
  <2>1. QED
    BY <1>1, <1>2, SetInduction
<1>4. QED
  BY <1>3

LEMMA BytesNat ==
    ASSUME NEW l \in Seq(Entries)
    PROVE  Bytes(l) \in Nat
<1>1. Len(l) \in 0 .. Len(l)
  OBVIOUS
<1>2. QED
  BY <1>1, SumsNat DEF Bytes

LEMMA BytesEmpty == Bytes(<<>>) = 0
<1>1. <<>> \in Seq(Entries) /\ Len(<<>>) = 0
  OBVIOUS
<1>2. QED
  BY <1>1, SumsStep DEF Bytes

(* Two lists with the same first n entries have the same first sums. *)
LEMMA SumsOfConcat ==
    ASSUME NEW s \in Seq(Entries), NEW t \in Seq(Entries)
    PROVE  \A i \in 0 .. Len(s) : Sums(s \o t)[i] = Sums(s)[i]
<1> DEFINE c == s \o t
           T == {n \in Nat : n <= Len(s) => Sums(c)[n] = Sums(s)[n]}
<1>0. /\ c \in Seq(Entries) /\ Len(c) = Len(s) + Len(t)
      /\ \A i \in 1 .. Len(s) : c[i] = s[i]
  OBVIOUS
<1> HIDE DEF c
<1>1. 0 \in T
  BY <1>0, SumsStep
<1>2. ASSUME NEW k \in Nat, k \in T PROVE k + 1 \in T
  <2>1. SUFFICES ASSUME k + 1 <= Len(s) PROVE Sums(c)[k + 1] = Sums(s)[k + 1]
    OBVIOUS
  <2>2. k + 1 \in 1 .. Len(s) /\ k + 1 \in 1 .. Len(c) /\ (k + 1) - 1 = k
    BY <1>0, <2>1
  <2>3. Sums(s)[k + 1] = Sums(s)[k] + s[k + 1].size
    BY <2>2, SumsStep
  <2>4. Sums(c)[k + 1] = Sums(c)[k] + c[k + 1].size
    BY <1>0, <2>2, SumsStep
  <2>5. QED
    BY <1>0, <1>2, <2>1, <2>2, <2>3, <2>4
<1>3. Nat \subseteq T
  <2> HIDE DEF T
  <2>1. QED
    BY <1>1, <1>2, SetInduction
<1>4. QED
  BY <1>3 DEF c

LEMMA BytesOfConcat ==
    ASSUME NEW s \in Seq(Entries), NEW t \in Seq(Entries)
    PROVE  Bytes(s \o t) = Bytes(s) + Bytes(t)
<1> DEFINE c == s \o t
           T == {n \in Nat : n <= Len(t) => Sums(c)[Len(s) + n] = Bytes(s) + Sums(t)[n]}
<1>0. /\ c \in Seq(Entries) /\ Len(c) = Len(s) + Len(t) /\ Len(s) \in Nat /\ Len(t) \in Nat
      /\ \A i \in 1 .. Len(t) : c[Len(s) + i] = t[i]
  OBVIOUS
<1>1. 0 \in T
  <2>1. Sums(c)[Len(s)] = Sums(s)[Len(s)]
    BY <1>0, SumsOfConcat
  <2>2. Sums(t)[0] = 0 /\ Bytes(s) \in Nat
    BY SumsStep, BytesNat
  <2> HIDE DEF c
  <2>3. QED
    BY <1>0, <2>1, <2>2 DEF Bytes
<1> HIDE DEF c
<1>2. ASSUME NEW k \in Nat, k \in T PROVE k + 1 \in T
  <2>1. SUFFICES ASSUME k + 1 <= Len(t)
                 PROVE  Sums(c)[Len(s) + (k + 1)] = Bytes(s) + Sums(t)[k + 1]
    OBVIOUS
  <2>2. /\ k + 1 \in 1 .. Len(t) /\ (k + 1) - 1 = k
        /\ Len(s) + (k + 1) \in 1 .. Len(c) /\ (Len(s) + (k + 1)) - 1 = Len(s) + k
    BY <1>0, <2>1
  <2>3. Sums(t)[k + 1] = Sums(t)[k] + t[k + 1].size
    BY <2>2, SumsStep
  <2>4. Sums(c)[Len(s) + (k + 1)] = Sums(c)[Len(s) + k] + c[Len(s) + (k + 1)].size
    BY <1>0, <2>2, SumsStep
  <2>5. t[k + 1].size \in Nat /\ Sums(t)[k] \in Nat /\ Bytes(s) \in Nat
    <3>1. t[k + 1] \in Entries /\ k \in 0 .. Len(t)
      BY <2>2
    <3>2. QED
      BY <3>1, SumsNat, BytesNat DEF Entries
  <2>6. Sums(c)[Len(s) + k] = Bytes(s) + Sums(t)[k] /\ c[Len(s) + (k + 1)] = t[k + 1]
    BY <1>0, <1>2, <2>1, <2>2
  <2>7. QED
    BY <2>3, <2>4, <2>5, <2>6
<1>3. Nat \subseteq T
  <2> HIDE DEF T
  <2>1. QED
    BY <1>1, <1>2, SetInduction
<1>4. QED
  BY <1>0, <1>3 DEF Bytes, c

-----------------------------------------------------------------------------
(* Numbers in their order: the rank of a number among a finite set. *)

Rank(D, n) == Cardinality({m \in D : m < n})

LEMMA RankType ==
    ASSUME NEW D \in SUBSET Nat, IsFiniteSet(D), NEW n \in D
    PROVE  Rank(D, n) \in 0 .. Cardinality(D) - 1
<1> DEFINE B == {m \in D : m < n}
<1>1. B \in SUBSET D /\ n \in D /\ n \notin B
  OBVIOUS
<1> HIDE DEF B
<1>2. IsFiniteSet(B) /\ Cardinality(B) <= Cardinality(D) /\ Cardinality(B) # Cardinality(D)
  BY <1>1, FS_Subset
<1>3. Cardinality(B) \in Nat /\ Cardinality(D) \in Nat
  BY <1>2, FS_CardinalityType
<1>4. Cardinality(B) \in 0 .. Cardinality(D) - 1
  BY <1>2, <1>3
<1>5. QED
  BY <1>4 DEF Rank, B

LEMMA RankGrows ==
    ASSUME NEW D \in SUBSET Nat, IsFiniteSet(D), NEW n \in D, NEW m \in D, n < m
    PROVE  Rank(D, n) < Rank(D, m)
<1> DEFINE B == {k \in D : k < n}
           C == {k \in D : k < m}
<1>1. B \in SUBSET C /\ C \in SUBSET D /\ n \in C /\ n \notin B
  <2>1. n \in Int /\ m \in Int /\ \A k \in D : k \in Int
    OBVIOUS
  <2>2. \A k \in D : k < n => k < m
    BY <2>1
  <2>3. n \in C /\ n \notin B
    BY <2>1
  <2>4. QED
    BY <2>2, <2>3
<1> HIDE DEF B, C
<1>2. IsFiniteSet(C)
  BY <1>1, FS_Subset
<1>3. IsFiniteSet(B) /\ Cardinality(B) <= Cardinality(C) /\ Cardinality(B) # Cardinality(C)
  BY <1>1, <1>2, FS_Subset
<1>4. Cardinality(B) \in Nat /\ Cardinality(C) \in Nat
  BY <1>2, <1>3, FS_CardinalityType
<1>5. Cardinality(B) < Cardinality(C)
  BY <1>3, <1>4
<1>6. QED
  BY <1>5 DEF Rank, B, C

LEMMA RankInjective ==
    ASSUME NEW D \in SUBSET Nat, IsFiniteSet(D), NEW n \in D, NEW m \in D,
           Rank(D, n) = Rank(D, m)
    PROVE  n = m
<1>1. ~ (n < m) /\ ~ (m < n)
  <2>1. Rank(D, n) \in Int /\ Rank(D, m) \in Int
    BY RankType
  <2>2. QED
    BY <2>1, RankGrows
<1>2. QED
  BY <1>1

LEMMA RankOnto ==
    ASSUME NEW D \in SUBSET Nat, IsFiniteSet(D), NEW i \in 0 .. Cardinality(D) - 1
    PROVE  \E n \in D : Rank(D, n) = i
<1> DEFINE c == Cardinality(D)
           f == [n \in D |-> Rank(D, n)]
<1>1. c \in Nat
  BY FS_CardinalityType
<1>2. IsFiniteSet(0 .. c - 1) /\ Cardinality(0 .. c - 1) = c
  <2>1. 0 \in Int /\ c - 1 \in Int
    BY <1>1
  <2>2. /\ IsFiniteSet(0 .. c - 1)
        /\ Cardinality(0 .. c - 1) = IF 0 > c - 1 THEN 0 ELSE (c - 1) - 0 + 1
    BY <2>1, FS_Interval
  <2> HIDE DEF c
  <2>3. QED
    BY <1>1, <2>2
<1>3. f \in Injection(D, 0 .. c - 1)
  <2>1. f \in [D -> 0 .. c - 1]
    BY RankType
  <2>2. \A n, m \in D : f[n] = f[m] => n = m
    BY RankInjective
  <2> HIDE DEF f
  <2>3. QED
    BY <2>1, <2>2 DEF Injection, IsInjective
<1>4. f \in Surjection(D, 0 .. c - 1)
  <2> HIDE DEF f
  <2>1. QED
    BY <1>2, <1>3, FS_Injection DEF c
<1>5. \A j \in 0 .. c - 1 : \E n \in D : f[n] = j
  BY <1>4 DEF Surjection
<1>6. QED
  BY <1>5

-----------------------------------------------------------------------------
(* The files of a directory in their order, and a list that names them. *)

Lists(l, files) ==
    /\ \A i, j \in DOMAIN l : i < j => l[i].n < l[j].n
    /\ Numbers(l) = DOMAIN files
    /\ \A i \in DOMAIN l : l[i].size = files[l[i].n].size

Directory(files) ==
    /\ DOMAIN files \in SUBSET Nat /\ IsFiniteSet(DOMAIN files)
    /\ \A n \in DOMAIN files : files[n].size \in Nat /\ files[n].item \in Nat

LEMMA NthFacts ==
    ASSUME NEW D \in SUBSET Nat, IsFiniteSet(D), NEW i \in 1 .. Cardinality(D)
    PROVE  Nth(D, i) \in D /\ Rank(D, Nth(D, i)) = i - 1
<1>1. Cardinality(D) \in Nat
  BY FS_CardinalityType
<1>2. i - 1 \in 0 .. Cardinality(D) - 1
  BY <1>1
<1>3. \E n \in D : Rank(D, n) = i - 1
  BY <1>2, RankOnto
<1>4. QED
  BY <1>3 DEF Nth, Rank

LEMMA ListedFacts ==
    ASSUME NEW files, Directory(files)
    PROVE  Listed(files) \in Seq(Entries) /\ Lists(Listed(files), files)
<1> DEFINE D == DOMAIN files
           c == Cardinality(D)
           L == Listed(files)
<1>1. D \in SUBSET Nat /\ IsFiniteSet(D) /\ c \in Nat
  BY FS_CardinalityType DEF Directory
<1>2. L = [i \in 1 .. c |-> [n |-> Nth(D, i), size |-> files[Nth(D, i)].size]]
  BY DEF Listed
<1>3. \A i \in 1 .. c : Nth(D, i) \in D /\ Rank(D, Nth(D, i)) = i - 1
  <2> HIDE DEF D
  <2>1. QED
    BY <1>1, NthFacts
<1> HIDE DEF L
<1>4. DOMAIN L = 1 .. c /\ \A i \in 1 .. c : L[i].n = Nth(D, i)
                                        /\ L[i].size = files[Nth(D, i)].size
  BY <1>2
<1>5. L \in Seq(Entries)
  <2>1. \A i \in 1 .. c : [n |-> Nth(D, i), size |-> files[Nth(D, i)].size] \in Entries
    BY <1>1, <1>3 DEF Directory, Entries
  <2>2. L \in [1 .. c -> Entries]
    BY <1>2, <2>1
  <2>3. QED
    BY <1>1, <2>2, SeqDef
<1>6. ASSUME NEW i \in DOMAIN L, NEW j \in DOMAIN L, i < j PROVE L[i].n < L[j].n
  <2> DEFINE a == Nth(D, i)
             b == Nth(D, j)
  <2>1. /\ a \in D /\ b \in D /\ Rank(D, a) = i - 1 /\ Rank(D, b) = j - 1
        /\ i \in Int /\ j \in Int /\ L[i].n = a /\ L[j].n = b
    BY <1>1, <1>3, <1>4
  <2> HIDE DEF a, b, D, c
  <2>2. Rank(D, a) < Rank(D, b)
    BY <1>6, <2>1
  <2>3. a \in Nat /\ b \in Nat /\ a # b
    BY <1>1, <2>1, <2>2
  <2>4. ~ (b < a)
    <3>1. ~ (Rank(D, b) < Rank(D, a))
      BY <1>6, <2>1
    <3>2. QED
      BY <1>1, <2>1, <3>1, RankGrows
  <2>5. QED
    BY <2>1, <2>3, <2>4
<1>7. Numbers(L) = D
  <2>1. Numbers(L) \subseteq D
    BY <1>3, <1>4 DEF Numbers
  <2>2. ASSUME NEW n \in D PROVE n \in Numbers(L)
    <3>1. Rank(D, n) \in 0 .. c - 1
      BY <1>1, RankType
    <3> DEFINE i == Rank(D, n) + 1
    <3>2. i \in 1 .. c /\ i - 1 = Rank(D, n)
      BY <1>1, <3>1
    <3> HIDE DEF i
    <3>3. Nth(D, i) = n
      BY <1>1, <1>3, <3>2, RankInjective
    <3>4. QED
      BY <1>4, <3>2, <3>3 DEF Numbers
  <2>3. QED
    BY <2>1, <2>2
<1>8. \A i \in DOMAIN L : L[i].size = files[L[i].n].size
  BY <1>4
<1>9. QED
  BY <1>5, <1>6, <1>7, <1>8 DEF Lists, L

LEMMA ListIsListed ==
    ASSUME NEW files, Directory(files), NEW l \in Seq(Entries), Lists(l, files)
    PROVE  l = Listed(files)
<1> DEFINE D == DOMAIN files
           c == Cardinality(D)
<1>1. D \in SUBSET Nat /\ IsFiniteSet(D) /\ c \in Nat
  BY FS_CardinalityType DEF Directory
<1>2. Len(l) \in Nat /\ DOMAIN l = 1 .. Len(l) /\ \A i \in 1 .. Len(l) : l[i] \in Entries
  OBVIOUS
<1>3. \A i, j \in 1 .. Len(l) : l[i].n = l[j].n => i = j
  <2>1. \A i, j \in 1 .. Len(l) : i < j => l[i].n < l[j].n
    BY <1>2 DEF Lists
  <2>2. \A i \in 1 .. Len(l) : l[i].n \in Nat /\ i \in Nat
    BY <1>2 DEF Entries
  <2>3. QED
    BY <2>1, <2>2
<1>4. /\ \A i \in 1 .. Len(l) : l[i].n \in D
      /\ \A n \in D : \E i \in 1 .. Len(l) : l[i].n = n
  BY <1>2 DEF Lists, Numbers
<1>5. Len(l) = c
  <2> DEFINE f == [i \in 1 .. Len(l) |-> l[i].n]
  <2>1. f \in [1 .. Len(l) -> D] /\ \A i \in 1 .. Len(l) : f[i] = l[i].n
    BY <1>4
  <2> HIDE DEF f
  <2>2. f \in Bijection(1 .. Len(l), D)
    BY <1>3, <1>4, <2>1 DEF Bijection, Injection, Surjection, IsInjective
  <2>3. IsFiniteSet(1 .. Len(l)) /\ Cardinality(1 .. Len(l)) = Len(l)
    <3>1. /\ IsFiniteSet(1 .. Len(l))
          /\ Cardinality(1 .. Len(l)) = IF 1 > Len(l) THEN 0 ELSE Len(l) - 1 + 1
      BY <1>2, FS_Interval
    <3>2. QED
      BY <1>2, <3>1
  <2>4. QED
    BY <2>2, <2>3, FS_Bijection DEF ExistsBijection
<1>6. ASSUME NEW i \in 1 .. Len(l) PROVE Rank(D, l[i].n) = i - 1
  <2> DEFINE B == {m \in D : m < l[i].n}
             f == [j \in 1 .. i - 1 |-> l[j].n]
  <2>0. i \in Nat /\ i - 1 \in Nat /\ \A j \in 1 .. i - 1 : j \in 1 .. Len(l) /\ j < i
    BY <1>2
  <2>1. \A j \in 1 .. i - 1 : l[j].n \in B
    BY <1>2, <1>4, <2>0 DEF Lists
  <2>2. ASSUME NEW m \in B PROVE \E j \in 1 .. i - 1 : l[j].n = m
    <3>1. PICK j \in 1 .. Len(l) : l[j].n = m
      BY <1>4
    <3>2. j < i
      <4>1. CASE j = i
        BY <1>2, <3>1, <4>1 DEF Entries
      <4>2. CASE i < j
        <5>1. l[i].n < l[j].n
          BY <1>2, <4>2 DEF Lists
        <5>2. l[i].n \in Nat /\ l[j].n \in Nat /\ l[j].n < l[i].n
          BY <1>2, <3>1 DEF Entries
        <5>3. QED
          BY <5>1, <5>2
      <4>3. QED
        BY <1>2, <4>1, <4>2
    <3>3. QED
      BY <2>0, <3>1, <3>2
  <2>3. f \in [1 .. i - 1 -> B] /\ \A j \in 1 .. i - 1 : f[j] = l[j].n
    BY <2>1
  <2> HIDE DEF f, B
  <2>4. f \in Bijection(1 .. i - 1, B)
    BY <1>3, <2>0, <2>2, <2>3 DEF Bijection, Injection, Surjection, IsInjective
  <2>5. IsFiniteSet(1 .. i - 1) /\ Cardinality(1 .. i - 1) = i - 1
    <3>1. /\ IsFiniteSet(1 .. i - 1)
          /\ Cardinality(1 .. i - 1) = IF 1 > i - 1 THEN 0 ELSE (i - 1) - 1 + 1
      BY <2>0, FS_Interval
    <3>2. QED
      BY <2>0, <3>1
  <2>6. Cardinality(B) = i - 1
    BY <2>4, <2>5, FS_Bijection DEF ExistsBijection
  <2>7. QED
    BY <2>6 DEF Rank, B
<1>7. \A i \in 1 .. c : Nth(D, i) = l[i].n
  <2>1. \A i \in 1 .. c : Nth(D, i) \in D /\ Rank(D, Nth(D, i)) = i - 1
    <3> HIDE DEF D
    <3>1. QED
      BY <1>1, NthFacts
  <2>2. SUFFICES ASSUME NEW i \in 1 .. c PROVE Nth(D, i) = l[i].n
    OBVIOUS
  <2>3. Rank(D, l[i].n) = i - 1 /\ l[i].n \in D
    BY <1>4, <1>5, <1>6
  <2> DEFINE a == Nth(D, i)
             b == l[i].n
  <2>4. a \in D /\ b \in D /\ Rank(D, a) = Rank(D, b)
    BY <2>1, <2>3
  <2> HIDE DEF D, c, a, b
  <2>5. a = b
    BY <1>1, <2>4, RankInjective
  <2>6. QED
    BY <2>5 DEF a, b
<1>8. Listed(files) = [i \in 1 .. c |-> [n |-> Nth(D, i), size |-> files[Nth(D, i)].size]]
  BY DEF Listed
<1>9. \A i \in 1 .. c : l[i] = [n |-> Nth(D, i), size |-> files[Nth(D, i)].size]
  <2>1. \A i \in 1 .. c : l[i] = [n |-> l[i].n, size |-> l[i].size]
    BY <1>2, <1>5 DEF Entries
  <2>2. \A i \in 1 .. c : l[i].size = files[l[i].n].size
    BY <1>2, <1>5 DEF Lists
  <2>3. QED
    BY <1>7, <2>1, <2>2
<1>10. l = [i \in 1 .. c |-> l[i]]
  BY <1>2, <1>5
<1>11. QED
  BY <1>8, <1>9, <1>10

-----------------------------------------------------------------------------
(* What is left of a list and of its directory. *)

LEMMA RestrictFacts ==
    ASSUME NEW f, NEW S
    PROVE  /\ DOMAIN RestrictTo(f, S) = DOMAIN f \cap S
           /\ \A n \in DOMAIN f \cap S : RestrictTo(f, S)[n] = f[n]
BY DEF RestrictTo

LEMMA PartFacts ==
    ASSUME NEW l \in Seq(Entries), NEW a \in 1 .. Len(l) + 1, NEW b \in 0 .. Len(l)
    PROVE  /\ SubSeq(l, a, b) \in Seq(Entries)
           /\ DOMAIN SubSeq(l, a, b) = 1 .. (b - a + 1)
           /\ \A i \in 1 .. (b - a + 1) :
                 i + a - 1 \in DOMAIN l /\ SubSeq(l, a, b)[i] = l[i + a - 1]
<1>1. Len(l) \in Nat /\ a \in Int /\ b \in Int
  OBVIOUS
<1>2. \A i \in a .. b : i \in 1 .. Len(l)
  BY <1>1
<1>3. \A i \in a .. b : l[i] \in Entries
  BY <1>2
<1>4. /\ SubSeq(l, a, b) \in Seq(Entries)
      /\ Len(SubSeq(l, a, b)) = IF a <= b THEN b - a + 1 ELSE 0
      /\ \A i \in 1 .. b - a + 1 : SubSeq(l, a, b)[i] = l[a + i - 1]
  BY <1>1, <1>3, SubSeqProperties
<1>5. DOMAIN SubSeq(l, a, b) = 1 .. (b - a + 1)
  <2>1. DOMAIN SubSeq(l, a, b) = 1 .. Len(SubSeq(l, a, b))
    BY <1>4
  <2>2. QED
    BY <1>1, <1>4, <2>1
<1>6. ASSUME NEW i \in 1 .. (b - a + 1)
      PROVE  i + a - 1 \in DOMAIN l /\ SubSeq(l, a, b)[i] = l[i + a - 1]
  <2>1. i + a - 1 \in 1 .. Len(l) /\ i + a - 1 = a + i - 1
    BY <1>1
  <2>2. QED
    BY <1>4, <2>1
<1>7. QED
  BY <1>4, <1>5, <1>6

\* A part of a list names the files that are left when the others go.
LEMMA PartListed ==
    ASSUME NEW l \in Seq(Entries), NEW files, Lists(l, files),
           NEW a \in 1 .. Len(l) + 1, NEW b \in 0 .. Len(l)
    PROVE  /\ Numbers(SubSeq(l, a, b)) \subseteq DOMAIN files
           /\ Lists(SubSeq(l, a, b), RestrictTo(files, Numbers(SubSeq(l, a, b))))
<1> DEFINE s == SubSeq(l, a, b)
           g == RestrictTo(files, Numbers(s))
<1>1. /\ s \in Seq(Entries) /\ DOMAIN s = 1 .. (b - a + 1) /\ a \in Int /\ b \in Int
      /\ \A i \in 1 .. (b - a + 1) : i + a - 1 \in DOMAIN l /\ s[i] = l[i + a - 1]
  BY PartFacts
<1> HIDE DEF s
<1>2. Numbers(s) \subseteq DOMAIN files
  BY <1>1 DEF Lists, Numbers
<1>3. DOMAIN g = Numbers(s) /\ \A n \in Numbers(s) : g[n] = files[n]
  <2>1. /\ DOMAIN g = DOMAIN files \cap Numbers(s)
        /\ \A n \in DOMAIN files \cap Numbers(s) : g[n] = files[n]
    BY RestrictFacts
  <2> HIDE DEF g
  <2>2. QED
    BY <1>2, <2>1
<1> HIDE DEF g
<1>4. ASSUME NEW i \in DOMAIN s, NEW j \in DOMAIN s, i < j PROVE s[i].n < s[j].n
  <2>1. i + a - 1 < j + a - 1
    BY <1>1, <1>4
  <2>2. QED
    BY <1>1, <2>1 DEF Lists
<1>5. ASSUME NEW i \in DOMAIN s PROVE s[i].size = g[s[i].n].size
  <2>1. s[i].n \in Numbers(s)
    BY DEF Numbers
  <2>2. s[i].size = files[s[i].n].size
    BY <1>1 DEF Lists
  <2>3. QED
    BY <1>3, <2>1, <2>2
<1>6. Lists(s, g)
  BY <1>3, <1>4, <1>5 DEF Lists
<1>7. QED
  BY <1>2, <1>6 DEF s, g

\* When the first k files go, the rest of the list names those that are left,
\* and its bytes are those of the list less those of the first k.
LEMMA RestListed ==
    ASSUME NEW l \in Seq(Entries), NEW files, Lists(l, files), NEW k \in 0 .. Len(l)
    PROVE  /\ SubSeq(l, k + 1, Len(l)) \in Seq(Entries)
           /\ SubSeq(l, 1, k) \in Seq(Entries)
           /\ DOMAIN files \ Numbers(SubSeq(l, 1, k)) = Numbers(SubSeq(l, k + 1, Len(l)))
           /\ Lists(SubSeq(l, k + 1, Len(l)),
                    RestrictTo(files, DOMAIN files \ Numbers(SubSeq(l, 1, k))))
           /\ Bytes(l) = Bytes(SubSeq(l, 1, k)) + Bytes(SubSeq(l, k + 1, Len(l)))
<1> DEFINE pre == SubSeq(l, 1, k)
           suf == SubSeq(l, k + 1, Len(l))
<1>1. Len(l) \in Nat /\ k \in Nat /\ k <= Len(l) /\ DOMAIN l = 1 .. Len(l)
  OBVIOUS
<1>2. /\ 1 \in 1 .. Len(l) + 1 /\ k \in 0 .. Len(l)
      /\ k + 1 \in 1 .. Len(l) + 1 /\ Len(l) \in 0 .. Len(l)
  BY <1>1
<1>3. /\ pre \in Seq(Entries) /\ DOMAIN pre = 1 .. k
      /\ \A i \in 1 .. k : i \in DOMAIN l /\ pre[i] = l[i]
  <2>1. /\ pre \in Seq(Entries) /\ DOMAIN pre = 1 .. (k - 1 + 1)
        /\ \A i \in 1 .. (k - 1 + 1) : i + 1 - 1 \in DOMAIN l /\ pre[i] = l[i + 1 - 1]
    BY <1>2, PartFacts
  <2> HIDE DEF pre
  <2>2. k - 1 + 1 = k /\ \A i \in 1 .. k : i + 1 - 1 = i
    BY <1>1
  <2>3. QED
    BY <2>1, <2>2
<1>4. /\ suf \in Seq(Entries) /\ DOMAIN suf = 1 .. Len(l) - k
      /\ \A i \in 1 .. Len(l) - k : i + k \in DOMAIN l /\ suf[i] = l[i + k]
  <2>1. /\ suf \in Seq(Entries) /\ DOMAIN suf = 1 .. (Len(l) - (k + 1) + 1)
        /\ \A i \in 1 .. (Len(l) - (k + 1) + 1) :
              i + (k + 1) - 1 \in DOMAIN l /\ suf[i] = l[i + (k + 1) - 1]
    BY <1>2, PartFacts
  <2> HIDE DEF suf
  <2>2. Len(l) - (k + 1) + 1 = Len(l) - k /\ \A i \in 1 .. Len(l) - k : i + (k + 1) - 1 = i + k
    BY <1>1
  <2>3. QED
    BY <2>1, <2>2
<1>5. Numbers(suf) \subseteq DOMAIN files
      /\ Lists(suf, RestrictTo(files, Numbers(suf)))
  BY <1>2, PartListed, SMTT(30)
<1>6. Bytes(l) = Bytes(pre) + Bytes(suf)
  <2>1. pre \o suf = SubSeq(l, 1, Len(l))
    <3>1. 1 \in 1 .. Len(l) + 1 /\ k \in 1 - 1 .. Len(l) /\ Len(l) \in k .. Len(l)
      BY <1>1
    <3>2. QED
      BY <3>1, ConcatAdjacentSubSeq
  <2>2. SubSeq(l, 1, Len(l)) = l
    BY SubSeqFull
  <2> HIDE DEF pre, suf
  <2>3. QED
    BY <1>3, <1>4, <2>1, <2>2, BytesOfConcat
<1> HIDE DEF pre, suf
<1>7. ASSUME NEW n \in DOMAIN files, n \notin Numbers(pre) PROVE n \in Numbers(suf)
  <2>1. PICK i \in DOMAIN l : l[i].n = n
    BY DEF Lists, Numbers
  <2>2. i \notin 1 .. k
    BY <1>3, <1>7, <2>1 DEF Numbers
  <2>3. i - k \in 1 .. Len(l) - k /\ (i - k) + k = i
    BY <1>1, <2>2
  <2>4. QED
    BY <1>4, <2>1, <2>3 DEF Numbers
<1>8. ASSUME NEW n \in Numbers(suf) PROVE n \notin Numbers(pre)
  <2>1. PICK j \in 1 .. Len(l) - k : suf[j].n = n
    BY <1>4 DEF Numbers
  <2>2. SUFFICES ASSUME NEW i \in 1 .. k, pre[i].n = n PROVE FALSE
    BY <1>3 DEF Numbers
  <2>3. i < j + k /\ i \in DOMAIN l /\ j + k \in DOMAIN l /\ l[i].n = n /\ l[j + k].n = n
    BY <1>1, <1>3, <1>4, <2>1, <2>2
  <2>4. l[i].n < l[j + k].n
    BY <2>3 DEF Lists
  <2>5. n \in Nat
    <3>1. l[i] \in Entries
      BY <2>3
    <3>2. QED
      BY <2>3, <3>1 DEF Entries
  <2>6. QED
    BY <2>3, <2>4, <2>5
<1>9. DOMAIN files \ Numbers(pre) = Numbers(suf)
  BY <1>5, <1>7, <1>8
<1>10. QED
  BY <1>3, <1>4, <1>5, <1>6, <1>9 DEF pre, suf

-----------------------------------------------------------------------------
(* The inductive invariant.  Every file has a number below the number of     *)
(* messages pushed, a queue that does not run has no list, and a running one  *)
(* accounts for the bytes of its list.                                      *)

Numbered == \A n \in DOMAIN disk : n < made
Idle == ~running => list = <<>>
Accounted == running => current >= Bytes(list)
IInv == TypeOK /\ Numbered /\ Idle /\ ListIsDisk /\ Accounted

LEMMA TypedDirectory ==
    ASSUME DiskAssumption, NEW files,
           DOMAIN files \subseteq 0 .. MaxItems, \A n \in DOMAIN files : files[n] \in Files
    PROVE  Directory(files)
<1>1. DOMAIN files \in SUBSET (0 .. MaxItems) /\ MaxItems \in Int
  BY DEF DiskAssumption
<1>2. IsFiniteSet(0 .. MaxItems)
  BY <1>1, FS_Interval
<1>3. IsFiniteSet(DOMAIN files)
  BY <1>1, <1>2, FS_Subset
<1>4. /\ DOMAIN files \in SUBSET Nat
      /\ \A n \in DOMAIN files : files[n].size \in Nat /\ files[n].item \in Nat
  BY <1>1 DEF Files
<1>5. QED
  BY <1>3, <1>4 DEF Directory

LEMMA ListTyped ==
    ASSUME IInv
    PROVE  /\ list \in Seq(Entries) /\ current \in Nat /\ made \in Nat
           /\ running => Lists(list, disk)
BY DEF IInv, TypeOK, Entries, ListIsDisk, Ordered, Lists

LEMMA InitInvariant ==
    ASSUME DiskAssumption, Init
    PROVE  IInv
<1> USE DEF Init
<1>1. TypeOK
  <2>1. DOMAIN disk = {} /\ list \in Seq([n : Nat, size : Nat])
    OBVIOUS
  <2>2. made \in 0 .. MaxItems
    BY DEF DiskAssumption
  <2>3. QED
    BY <2>1, <2>2 DEF TypeOK, Policies
<1>2. Numbered
  <2>1. DOMAIN disk = {}
    OBVIOUS
  <2>2. QED
    BY <2>1 DEF Numbered
<1>3. QED
  BY <1>1, <1>2 DEF IInv, Idle, ListIsDisk, Accounted

\* A step that leaves the queue stopped needs only the types of what it writes.
LEMMA Stopped ==
    ASSUME IInv, ~running', list' = <<>>, current' \in Nat, limit' \in Limits \cup {0},
           policy' \in Policies, fault' \in BOOLEAN, returned' \in BOOLEAN,
           made' \in 0 .. MaxItems,
           DOMAIN disk' \subseteq 0 .. MaxItems, \A n \in DOMAIN disk' : disk'[n] \in Files,
           \A n \in DOMAIN disk' : n < made', running' \in BOOLEAN
    PROVE  IInv'
<1>1. list' \in Seq([n : Nat, size : Nat])
  OBVIOUS
<1>2. TypeOK'
  BY <1>1 DEF TypeOK
<1>3. QED
  BY <1>2 DEF IInv, Numbered, Idle, ListIsDisk, Accounted

\* Files that are removed leave a directory of the same type and numbering.
LEMMA Removed ==
    ASSUME IInv, NEW S
    PROVE  /\ DOMAIN RestrictTo(disk, S) \subseteq 0 .. MaxItems
           /\ \A n \in DOMAIN RestrictTo(disk, S) : RestrictTo(disk, S)[n] \in Files
           /\ \A n \in DOMAIN RestrictTo(disk, S) : n < made
<1> DEFINE g == RestrictTo(disk, S)
<1>1. DOMAIN g = DOMAIN disk \cap S /\ \A n \in DOMAIN disk \cap S : g[n] = disk[n]
  BY RestrictFacts
<1> HIDE DEF g
<1>2. /\ DOMAIN disk \subseteq 0 .. MaxItems /\ \A n \in DOMAIN disk : disk[n] \in Files
      /\ \A n \in DOMAIN disk : n < made
  BY DEF IInv, TypeOK, Numbered
<1>3. /\ DOMAIN g \subseteq 0 .. MaxItems /\ \A n \in DOMAIN g : g[n] \in Files
      /\ \A n \in DOMAIN g : n < made
  BY <1>1, <1>2
<1>4. QED
  BY <1>3 DEF g

-----------------------------------------------------------------------------
(* A push writes a file with a number that is free. *)

LEMMA LessFacts ==
    ASSUME NEW used \in Nat, NEW gone \in Int
    PROVE  Less(used, gone) \in Nat /\ Less(used, gone) >= used - gone
BY DEF Less

LEMMA NextNumberFacts ==
    ASSUME DiskAssumption, IInv, running
    PROVE  /\ NextNumber \in Nat /\ NextNumber <= made /\ NextNumber \notin DOMAIN disk
           /\ \A n \in DOMAIN disk : n < NextNumber
<1>1. list \in Seq(Entries) /\ made \in Nat /\ Lists(list, disk)
  BY ListTyped
<1>2. CASE list = <<>>
  <2>1. NextNumber = 0
    BY <1>2 DEF NextNumber
  <2>2. DOMAIN disk = {}
    <3>1. Numbers(list) = {}
      <4>1. DOMAIN list = {}
        BY <1>2
      <4>2. QED
        BY <4>1 DEF Numbers
    <3>2. QED
      BY <1>1, <3>1 DEF Lists
  <2>3. QED
    BY <1>1, <2>1, <2>2
<1>3. CASE list # <<>>
  <2> DEFINE k == Len(list)
  <2>1. k \in Nat /\ k \in DOMAIN list /\ DOMAIN list = 1 .. k /\ \A i \in 1 .. k : list[i] \in Entries
    BY <1>1, <1>3
  <2>2. NextNumber = list[k].n + 1
    BY <1>3 DEF NextNumber
  <2> HIDE DEF k
  <2>3. ASSUME NEW n \in DOMAIN disk PROVE n <= list[k].n
    <3>1. PICK i \in 1 .. k : list[i].n = n
      BY <1>1, <2>1 DEF Lists, Numbers
    <3>2. list[i].n \in Nat /\ list[k].n \in Nat
      BY <2>1 DEF Entries
    <3>3. i < k => list[i].n < list[k].n
      BY <1>1, <2>1 DEF Lists
    <3>4. i < k \/ i = k
      BY <2>1
    <3>5. QED
      BY <3>1, <3>2, <3>3, <3>4
  <2>4. list[k].n \in Nat /\ list[k].n < made
    <3>1. list[k].n \in DOMAIN disk
      BY <1>1, <2>1 DEF Lists, Numbers
    <3>2. QED
      BY <2>1, <3>1 DEF IInv, Numbered, Entries
  <2>5. \A n \in DOMAIN disk : n \in Int
    BY DEF IInv, TypeOK
  <2>6. QED
    BY <1>1, <2>2, <2>3, <2>4, <2>5
<1>4. QED
  BY <1>2, <1>3

LEMMA WithFileFacts ==
    ASSUME DiskAssumption, IInv, Accepts, NEW size \in Nat, NEW whole \in BOOLEAN
    PROVE  /\ DOMAIN WithFile(size, whole) = DOMAIN disk \cup {NextNumber}
           /\ DOMAIN WithFile(size, whole) \subseteq 0 .. MaxItems
           /\ \A n \in DOMAIN WithFile(size, whole) :
                 WithFile(size, whole)[n] \in Files /\ n < made + 1
           /\ \A n \in DOMAIN disk : WithFile(size, whole)[n] = disk[n]
           /\ WithFile(size, whole)[NextNumber].size = size
           /\ WithFile(size, whole)[NextNumber].item = made + 1
           /\ WithFile(size, whole)[NextNumber].whole = whole
<1> DEFINE W == WithFile(size, whole)
           new == [item |-> made + 1, size |-> size, whole |-> whole]
<1>1. /\ running /\ made < MaxItems /\ made \in Nat /\ MaxItems \in Nat
      /\ DOMAIN disk \subseteq 0 .. MaxItems /\ \A n \in DOMAIN disk : disk[n] \in Files
      /\ \A n \in DOMAIN disk : n < made
  BY DEF Accepts, IInv, TypeOK, DiskAssumption, Numbered
<1>2. NextNumber \in Nat /\ NextNumber <= made /\ NextNumber \notin DOMAIN disk
  BY <1>1, NextNumberFacts
<1>3. /\ DOMAIN W = DOMAIN disk \cup {NextNumber}
      /\ \A n \in DOMAIN disk \cup {NextNumber} : W[n] = IF n = NextNumber THEN new ELSE disk[n]
  BY DEF WithFile
<1>4. new \in Files
  BY <1>1 DEF Files
<1>5. new.size = size /\ new.item = made + 1 /\ new.whole = whole
  OBVIOUS
<1> HIDE DEF W, new
<1>6. /\ \A n \in DOMAIN disk : W[n] = disk[n] 
      /\ W[NextNumber].size = size /\ W[NextNumber].item = made + 1 /\ W[NextNumber].whole = whole
      /\ \A n \in DOMAIN W : W[n] \in Files
  BY <1>1, <1>2, <1>3, <1>4, <1>5
<1>7. DOMAIN W \subseteq 0 .. MaxItems /\ \A n \in DOMAIN W : n < made + 1
  BY <1>1, <1>2, <1>3
<1>8. QED
  BY <1>3, <1>6, <1>7 DEF W

LEMMA WrittenFacts ==
    ASSUME DiskAssumption, IInv, Accepts, NEW size \in Nat
    PROVE  /\ Written(size) \in Seq(Entries)
           /\ Len(Written(size)) = Len(list) + 1 /\ Len(list) \in Nat
           /\ Written(size)[Len(Written(size))].size = size
           /\ Bytes(Written(size)) = Bytes(list) + size
           /\ Lists(Written(size), WithFile(size, TRUE))
<1> DEFINE e == [n |-> NextNumber, size |-> size]
           l == Written(size)
           W == WithFile(size, TRUE)
<1>1. list \in Seq(Entries) /\ Lists(list, disk) /\ running
  BY ListTyped DEF Accepts
<1>2. NextNumber \in Nat /\ NextNumber \notin DOMAIN disk /\ \A n \in DOMAIN disk : n < NextNumber
  BY <1>1, NextNumberFacts
<1>3. e \in Entries /\ e.n = NextNumber /\ e.size = size
  BY <1>2 DEF Entries
<1>4. l = Append(list, e)
  BY DEF Written
<1>5. /\ DOMAIN W = DOMAIN disk \cup {NextNumber} /\ \A n \in DOMAIN disk : W[n] = disk[n]
      /\ W[NextNumber].size = size
  BY WithFileFacts
<1> HIDE DEF e, l, W
<1>6. /\ l \in Seq(Entries) /\ Len(l) = Len(list) + 1 /\ Len(list) \in Nat
      /\ DOMAIN l = 1 .. Len(list) + 1 /\ DOMAIN list = 1 .. Len(list)
      /\ \A i \in 1 .. Len(list) : l[i] = list[i]
      /\ l[Len(list) + 1] = e
  BY <1>1, <1>3, <1>4
<1>7. Bytes(l) = Bytes(list) + size
  <2>1. <<e>> \in Seq(Entries) /\ Len(<<e>>) = 1 /\ <<e>>[1] = e
    BY <1>3
  <2>2. Bytes(<<e>>) = size
    <3> DEFINE t == <<e>>
    <3>1. t \in Seq(Entries) /\ Len(t) = 1 /\ t[1].size = size /\ 1 \in 1 .. Len(t) /\ 1 - 1 = 0
      BY <1>3, <2>1
    <3> HIDE DEF t
    <3>2. Sums(t)[0] = 0 /\ Sums(t)[1] = Sums(t)[1 - 1] + t[1].size
      BY <3>1, SumsStep
    <3>3. Bytes(t) = size
      BY <3>1, <3>2 DEF Bytes
    <3>4. QED
      BY <3>3 DEF t
  <2>3. l = list \o <<e>>
    BY <1>1, <1>3, <1>4, AppendIsConcat
  <2>4. QED
    BY <1>1, <2>1, <2>2, <2>3, BytesOfConcat
<1>8. ASSUME NEW i \in DOMAIN l, NEW j \in DOMAIN l, i < j PROVE l[i].n < l[j].n
  <2>1. i \in DOMAIN list /\ i \in 1 .. Len(list)
    BY <1>6, <1>8
  <2>2. CASE j \in DOMAIN list
    BY <1>1, <1>6, <1>8, <2>1, <2>2 DEF Lists
  <2>3. CASE j = Len(list) + 1
    <3>1. list[i].n \in DOMAIN disk
      BY <1>1, <2>1 DEF Lists, Numbers
    <3>2. QED
      BY <1>2, <1>3, <1>6, <2>1, <2>3, <3>1
  <2>4. QED
    BY <1>6, <2>2, <2>3
<1>9. Numbers(l) = DOMAIN W
  <2>1. Numbers(list) = DOMAIN disk
    BY <1>1 DEF Lists
  <2>2. Numbers(l) = Numbers(list) \cup {e.n}
    <3>1. ASSUME NEW i \in DOMAIN l PROVE l[i].n \in Numbers(list) \cup {e.n}
      BY <1>6 DEF Numbers
    <3>2. ASSUME NEW i \in DOMAIN list PROVE list[i].n \in Numbers(l)
      <4>1. i \in DOMAIN l /\ l[i].n = list[i].n
        BY <1>6
      <4>2. QED
        BY <4>1 DEF Numbers
    <3>3. e.n \in Numbers(l)
      BY <1>6 DEF Numbers
    <3>4. QED
      BY <3>1, <3>2, <3>3 DEF Numbers
  <2>3. QED
    BY <1>3, <1>5, <2>1, <2>2
<1>10. ASSUME NEW i \in DOMAIN l PROVE l[i].size = W[l[i].n].size
  <2>1. CASE i \in DOMAIN list
    <3>1. list[i].n \in DOMAIN disk /\ list[i].size = disk[list[i].n].size /\ l[i] = list[i]
      BY <1>1, <1>6, <2>1 DEF Lists, Numbers
    <3>2. QED
      BY <1>5, <3>1
  <2>2. CASE i = Len(list) + 1
    BY <1>3, <1>5, <1>6, <2>2
  <2>3. QED
    BY <1>6, <2>1, <2>2
<1>11. Lists(l, W)
  BY <1>8, <1>9, <1>10 DEF Lists
<1>12. l[Len(l)].size = size
  BY <1>3, <1>6
<1>13. QED
  BY <1>6, <1>7, <1>11, <1>12 DEF l, W

LEMMA MinFacts ==
    ASSUME NEW T \in SUBSET Nat, T # {}
    PROVE  Min(T) \in T
BY LeastElement DEF Min

LEMMA MaxFacts ==
    ASSUME NEW b \in Nat, NEW T \in SUBSET (0 .. b), T # {}
    PROVE  Max(T) \in T
BY LargestElement DEF Max

LEMMA SurvivorFacts ==
    ASSUME policy \in Policies, NEW l \in Seq(Entries), NEW k \in 0 .. Len(l),
           NEW files, Lists(l, files)
    PROVE  /\ Survivors(l, k) \in Seq(Entries)
           /\ Numbers(Survivors(l, k)) \subseteq DOMAIN files
           /\ Lists(Survivors(l, k), RestrictTo(files, Numbers(Survivors(l, k))))
<1>1. Len(l) \in Nat
  OBVIOUS
<1>2. /\ k + 1 \in 1 .. Len(l) + 1 /\ Len(l) \in 0 .. Len(l)
      /\ 1 \in 1 .. Len(l) + 1 /\ Len(l) - k \in 0 .. Len(l)
  BY <1>1
<1>3. CASE policy = "FifoDeleteOld"
  BY <1>2, <1>3, PartFacts, PartListed DEF Survivors
<1>4. CASE policy = "FifoDeleteNew"
  BY <1>2, <1>4, PartFacts, PartListed DEF Survivors
<1>5. QED
  BY <1>3, <1>4 DEF Policies

\* After k evictions the bytes accounted for cover those of the files that are left.
LEMMA UsedFacts ==
    ASSUME DiskAssumption, IInv, Accepts, NEW size \in Nat, NEW k \in 0 .. Len(Written(size))
    PROVE  /\ Used(Written(size), k) \in Nat
           /\ Used(Written(size), k) >= Bytes(Survivors(Written(size), k))
<1> DEFINE l == Written(size)
           s == Survivors(l, k)
<1>1. /\ l \in Seq(Entries) /\ l[Len(l)].size = size /\ Bytes(l) = Bytes(list) + size
      /\ Lists(l, WithFile(size, TRUE))
  BY WrittenFacts
<1>2. current \in Nat /\ list \in Seq(Entries) /\ current >= Bytes(list)
  BY ListTyped DEF IInv, Accounted, Accepts
<1>3. s \in Seq(Entries)
  <2>1. policy \in Policies
    BY DEF IInv, TypeOK
  <2> HIDE DEF l
  <2>2. QED
    BY <1>1, <2>1, SurvivorFacts DEF l
<1>4. Used(l, k) = Less(current + size, Bytes(l) - Bytes(s))
  BY <1>1 DEF Used
<1> HIDE DEF l, s
<1>5. Bytes(l) \in Nat /\ Bytes(list) \in Nat /\ Bytes(s) \in Nat
  BY <1>1, <1>2, <1>3, BytesNat
<1>6. /\ current + size \in Nat /\ Bytes(l) - Bytes(s) \in Int
      /\ (current + size) - (Bytes(l) - Bytes(s)) >= Bytes(s)
  BY <1>1, <1>2, <1>5
<1>7. /\ Less(current + size, Bytes(l) - Bytes(s)) \in Nat
      /\ Less(current + size, Bytes(l) - Bytes(s)) >= (current + size) - (Bytes(l) - Bytes(s))
  BY <1>6, LessFacts
<1>8. Used(l, k) \in Nat /\ Used(l, k) >= Bytes(s)
  BY <1>4, <1>5, <1>6, <1>7
<1>9. QED
  BY <1>8 DEF l, s

\* A push keeps the invariant, and its files fit the limit.
LEMMA PushFacts ==
    ASSUME DiskAssumption, IInv, NEW size \in Sizes, Push(size)
    PROVE  IInv' /\ Bytes(list') <= limit'
<1> DEFINE l == Written(size)
           k == Min(Enough(l))
           W == WithFile(size, TRUE)
           s == Survivors(l, k)
<1>1. Accepts /\ size \in Nat
  BY DEF Push, DiskAssumption
<1>2. /\ l \in Seq(Entries) /\ Len(l) = Len(list) + 1 /\ Len(list) \in Nat /\ Lists(l, W)
  BY <1>1, WrittenFacts
<1>3. k \in 0 .. Len(l) /\ Used(l, k) <= limit
  <2> DEFINE E == Enough(l)
  <2>1. E \in SUBSET (0 .. Len(l)) /\ E # {} /\ \A j \in E : Used(l, j) <= limit
    BY DEF Push, Enough
  <2>2. E \in SUBSET Nat
    BY <1>2, <2>1
  <2> HIDE DEF E
  <2>3. Min(E) \in E
    BY <2>1, <2>2, MinFacts
  <2>4. QED
    BY <2>1, <2>3 DEF E
<1>4. Used(l, k) \in Nat /\ Used(l, k) >= Bytes(s)
  <2> HIDE DEF k
  <2>1. QED
    BY <1>1, <1>3, UsedFacts
<1>5. /\ s \in Seq(Entries) /\ Numbers(s) \subseteq DOMAIN W
      /\ Lists(s, RestrictTo(W, Numbers(s)))
  <2>1. policy \in Policies
    BY DEF IInv, TypeOK
  <2> HIDE DEF l, k, W
  <2>2. QED
    BY <1>2, <1>3, <2>1, SurvivorFacts
<1>6. /\ DOMAIN W = DOMAIN disk \cup {NextNumber} /\ DOMAIN W \subseteq 0 .. MaxItems
      /\ \A n \in DOMAIN W : W[n] \in Files /\ n < made + 1
  BY <1>1, WithFileFacts
<1>7. /\ list' = s /\ current' = Used(l, k)
      /\ disk' = RestrictTo(W, (DOMAIN disk \cup {NextNumber}) \ (Numbers(l) \ Numbers(list')))
      /\ made' = made + 1 /\ returned' = TRUE
      /\ limit' = limit /\ policy' = policy /\ running' = running /\ fault' = fault
  BY DEF Push
<1>8. limit \in Nat /\ made' \in 0 .. MaxItems /\ running
  BY <1>1, <1>7 DEF Accepts, IInv, TypeOK, DiskAssumption
<1> HIDE DEF l, k, W, s
<1>9. disk' = RestrictTo(W, Numbers(s))
  <2>1. Numbers(l) = DOMAIN W
    BY <1>2 DEF Lists
  <2>2. (DOMAIN disk \cup {NextNumber}) \ (Numbers(l) \ Numbers(s)) = Numbers(s)
    BY <1>5, <1>6, <2>1
  <2>3. QED
    BY <1>7, <2>2
<1>10. /\ DOMAIN disk' = Numbers(s) /\ \A n \in Numbers(s) : disk'[n] = W[n]
  <2>1. /\ DOMAIN RestrictTo(W, Numbers(s)) = DOMAIN W \cap Numbers(s)
        /\ \A n \in DOMAIN W \cap Numbers(s) : RestrictTo(W, Numbers(s))[n] = W[n]
    BY RestrictFacts
  <2>2. QED
    BY <1>5, <1>9, <2>1
<1>11. TypeOK'
  <2>1. DOMAIN disk' \subseteq 0 .. MaxItems /\ \A n \in DOMAIN disk' : disk'[n] \in Files
    BY <1>5, <1>6, <1>10
  <2>2. list' \in Seq([n : Nat, size : Nat]) /\ current' \in Nat
    BY <1>4, <1>5, <1>7 DEF Entries
  <2>3. /\ limit' \in Limits \cup {0} /\ policy' \in Policies /\ running' \in BOOLEAN
        /\ returned' \in BOOLEAN /\ fault' \in BOOLEAN
    BY <1>7 DEF IInv, TypeOK
  <2>4. QED
    BY <1>8, <2>1, <2>2, <2>3 DEF TypeOK
<1>12. Numbered'
  BY <1>5, <1>6, <1>7, <1>10 DEF Numbered
<1>13. ListIsDisk'
  BY <1>5, <1>7, <1>9 DEF ListIsDisk, Ordered, Lists
<1>14. Idle' /\ Accounted'
  BY <1>4, <1>7, <1>8 DEF Idle, Accounted
<1>15. Bytes(list') <= limit'
  <2>1. Bytes(s) \in Nat
    BY <1>5, BytesNat
  <2>2. QED
    BY <1>3, <1>4, <1>7, <1>8, <2>1
<1>16. QED
  BY <1>11, <1>12, <1>13, <1>14, <1>15 DEF IInv

-----------------------------------------------------------------------------
(* The other steps. *)

LEMMA StartFacts ==
    ASSUME DiskAssumption, IInv, NEW l \in Limits, NEW p \in Policies, Start(l, p)
    PROVE  IInv'
<1>1. /\ limit' = l /\ disk' = disk /\ made' = made /\ returned' = returned /\ fault' = fault
  BY DEF Start
<1>2. CASE running
  <2>1. list' = list /\ current' = current /\ policy' = policy /\ running' = running
    BY <1>2 DEF Start
  <2>2. QED
    BY <1>1, <2>1
       DEF IInv, TypeOK, Numbered, Idle, ListIsDisk, Ordered, Numbers, Accounted
<1>3. CASE ~running
  <2> DEFINE L == Listed(disk)
  <2>1. Directory(disk)
    BY TypedDirectory DEF IInv, TypeOK
  <2>2. L \in Seq(Entries) /\ Lists(L, disk)
    BY <2>1, ListedFacts
  <2>3. /\ list' = list \o L /\ current' = current + Bytes(L) /\ policy' = p /\ running' = TRUE
    BY <1>3 DEF Start, Counted
  <2> HIDE DEF L
  <2>4. list = <<>> /\ current \in Nat
    BY <1>3 DEF IInv, Idle, TypeOK
  <2>5. list' = L
    BY <2>2, <2>3, <2>4, ConcatEmptySeq
  <2>6. Bytes(L) \in Nat
    BY <2>2, BytesNat
  <2>7. TypeOK'
    BY <1>1, <2>2, <2>3, <2>4, <2>5, <2>6 DEF IInv, TypeOK, Entries
  <2>8. Numbered' /\ Idle' /\ Accounted'
    BY <1>1, <2>3, <2>4, <2>5, <2>6 DEF IInv, Numbered, Idle, Accounted
  <2>9. ListIsDisk'
    BY <1>1, <2>2, <2>5 DEF ListIsDisk, Ordered, Lists
  <2>10. QED
    BY <2>7, <2>8, <2>9 DEF IInv
<1>4. QED
  BY <1>2, <1>3

LEMMA StopFacts ==
    ASSUME DiskAssumption, IInv, Stop \/ FactoryReset
    PROVE  IInv'
<1>1. /\ running' = FALSE /\ list' = <<>> /\ current' = current /\ limit' = limit
      /\ policy' = policy /\ made' = made /\ returned' = returned /\ fault' = fault
  BY DEF Stop, FactoryReset
<1>2. /\ DOMAIN disk' \subseteq 0 .. MaxItems /\ \A n \in DOMAIN disk' : disk'[n] \in Files
      /\ \A n \in DOMAIN disk' : n < made
  <2>1. CASE disk' = disk
    BY <2>1 DEF IInv, TypeOK, Numbered
  <2>2. CASE disk' = RestrictTo(disk, DOMAIN disk \ Numbers(list))
    BY <2>2, Removed
  <2>3. QED
    BY <2>1, <2>2 DEF Stop, FactoryReset
<1>3. QED
  BY <1>1, <1>2, Stopped DEF IInv, TypeOK

\* The power goes between the steps, in a reset or in a push.
LEMMA CrashFacts ==
    ASSUME DiskAssumption, IInv,
           \/ Crash \/ CrashInReset
           \/ \E size \in Sizes : CrashTearsPush(size) \/ CrashAfterPush(size)
    PROVE  IInv'
<1>1. /\ running' = FALSE /\ list' = <<>> /\ current' = 0 /\ limit' = 0
      /\ policy' = "FifoDeleteOld" /\ returned' = returned /\ fault' = fault
  BY DEF Crash, CrashInReset, CrashTearsPush, CrashAfterPush, Reboot
<1>2. /\ made' \in 0 .. MaxItems
      /\ DOMAIN disk' \subseteq 0 .. MaxItems /\ \A n \in DOMAIN disk' : disk'[n] \in Files
      /\ \A n \in DOMAIN disk' : n < made'
  <2>1. CASE Crash
    BY <2>1 DEF Crash, IInv, TypeOK, Numbered
  <2>2. CASE CrashInReset
    <3>1. PICK S : disk' = RestrictTo(disk, S)
      BY <2>2 DEF CrashInReset
    <3>2. made' = made /\ made \in 0 .. MaxItems
      BY <2>2 DEF CrashInReset, IInv, TypeOK
    <3>3. QED
      BY <3>1, <3>2, Removed
  <2>3. ASSUME NEW size \in Sizes, CrashTearsPush(size) \/ CrashAfterPush(size)
        PROVE  /\ made' \in 0 .. MaxItems
               /\ DOMAIN disk' \subseteq 0 .. MaxItems
               /\ \A n \in DOMAIN disk' : disk'[n] \in Files
               /\ \A n \in DOMAIN disk' : n < made'
    <3>1. Accepts /\ size \in Nat /\ made' = made + 1 /\ \A torn \in 0 .. size - 1 : torn \in Nat
      <4>1. Accepts /\ made' = made + 1
        BY <2>3 DEF CrashTearsPush, CrashAfterPush
      <4>2. size \in Nat
        BY DEF DiskAssumption
      <4>3. QED
        BY <4>1, <4>2
    <3>2. made' \in 0 .. MaxItems
      BY <3>1 DEF Accepts, IInv, TypeOK
    <3>3. CASE CrashTearsPush(size)
      <4>1. PICK torn \in 0 .. size - 1 : disk' = WithFile(torn, FALSE)
        BY <3>3 DEF CrashTearsPush
      <4>2. QED
        BY <3>1, <3>2, <4>1, WithFileFacts
    <3>4. CASE CrashAfterPush(size)
      <4> DEFINE W == WithFile(size, TRUE)
      <4>1. PICK S : disk' = RestrictTo(W, S)
        BY <3>4 DEF CrashAfterPush
      <4>2. /\ DOMAIN W \subseteq 0 .. MaxItems
            /\ \A n \in DOMAIN W : W[n] \in Files /\ n < made + 1
        BY <3>1, WithFileFacts
      <4> HIDE DEF W
      <4>3. /\ DOMAIN RestrictTo(W, S) = DOMAIN W \cap S
            /\ \A n \in DOMAIN W \cap S : RestrictTo(W, S)[n] = W[n]
        BY RestrictFacts
      <4>4. QED
        BY <3>1, <3>2, <4>1, <4>2, <4>3
    <3>5. QED
      BY <2>3, <3>3, <3>4
  <2>4. QED
    BY <2>1, <2>2, <2>3
<1>3. QED
  BY <1>1, <1>2, Stopped DEF IInv, TypeOK, Policies

\* The first k files go, torn or read: the rest is listed and accounted for.
LEMMA FrontGone ==
    ASSUME DiskAssumption, IInv, running, NEW k \in 0 .. Len(list),
           list' = SubSeq(list, k + 1, Len(list)),
           current' = Less(current, Bytes(SubSeq(list, 1, k))),
           disk' = RestrictTo(disk, DOMAIN disk \ Numbers(SubSeq(list, 1, k))),
           UNCHANGED <<limit, policy, running, made, returned, fault>>
    PROVE  IInv'
<1> DEFINE pre == SubSeq(list, 1, k)
           suf == SubSeq(list, k + 1, Len(list))
<1>1. list \in Seq(Entries) /\ current \in Nat /\ Lists(list, disk) /\ current >= Bytes(list)
  BY ListTyped DEF IInv, Accounted
<1>2. /\ suf \in Seq(Entries) /\ pre \in Seq(Entries)
      /\ Lists(suf, RestrictTo(disk, DOMAIN disk \ Numbers(pre)))
      /\ Bytes(list) = Bytes(pre) + Bytes(suf)
  BY <1>1, RestListed
<1> HIDE DEF pre, suf
<1>3. Bytes(pre) \in Nat /\ Bytes(suf) \in Nat
  BY <1>2, BytesNat
<1>4. current' \in Nat /\ current' >= Bytes(suf)
  <2>0. Bytes(pre) \in Int
    BY <1>3
  <2>1. Less(current, Bytes(pre)) \in Nat /\ Less(current, Bytes(pre)) >= current - Bytes(pre)
    BY <1>1, <2>0, LessFacts
  <2>2. QED
    BY <1>1, <1>2, <1>3, <2>1 DEF pre
<1>5. list' = suf /\ Lists(suf, disk')
  BY <1>2 DEF pre, suf
<1>6. /\ DOMAIN disk' \subseteq 0 .. MaxItems /\ \A n \in DOMAIN disk' : disk'[n] \in Files
      /\ \A n \in DOMAIN disk' : n < made
  BY Removed
<1>7. TypeOK'
  BY <1>2, <1>4, <1>5, <1>6 DEF IInv, TypeOK, Entries
<1>8. ListIsDisk'
  BY <1>5 DEF ListIsDisk, Ordered, Lists
<1>9. Numbered' /\ Idle' /\ Accounted'
  BY <1>4, <1>5, <1>6 DEF Numbered, Idle, Accounted
<1>10. QED
  BY <1>7, <1>8, <1>9 DEF IInv

LEMMA PeekFacts ==
    ASSUME DiskAssumption, IInv, PeekFront
    PROVE  IInv'
<1> DEFINE torn == {k \in 1..Len(list) : \A i \in 1..k : ~disk[list[i].n].whole}
<1>1. list \in Seq(Entries) /\ Len(list) \in Nat /\ running /\ list # <<>>
  BY ListTyped DEF PeekFront
<1>2. torn \in SUBSET (0 .. Len(list)) /\ torn # {}
  <2>1. 1 \in 1 .. Len(list) /\ \A i \in 1 .. 1 : i = 1
    BY <1>1
  <2>2. 1 \in torn
    BY <2>1 DEF PeekFront
  <2>3. QED
    BY <2>2
<1>3. /\ list' = SubSeq(list, Max(torn) + 1, Len(list))
      /\ current' = Less(current, Bytes(SubSeq(list, 1, Max(torn))))
      /\ disk' = RestrictTo(disk, DOMAIN disk \ Numbers(SubSeq(list, 1, Max(torn))))
      /\ UNCHANGED <<limit, policy, running, made, returned, fault>>
  BY DEF PeekFront
<1> HIDE DEF torn
<1>4. Max(torn) \in 0 .. Len(list)
  BY <1>1, <1>2, MaxFacts
<1>5. QED
  BY <1>1, <1>3, <1>4, FrontGone

LEMMA PopFacts ==
    ASSUME DiskAssumption, IInv, PopFront
    PROVE  IInv'
<1> DEFINE e == list[1]
<1>1. list \in Seq(Entries) /\ Len(list) \in Nat /\ running /\ 1 \in 0 .. Len(list) /\ e \in Entries
  BY ListTyped DEF PopFront
<1>2. SubSeq(list, 1, 1) = <<e>>
  <2>1. 1 \in 1 .. Len(list) /\ 1 \in 1 .. 1 /\ 1 - 1 + 1 = 1
    BY <1>1
  <2>2. SubSeq(list, 1, 1) = SubSeq(list, 1, 1 - 1) \o <<list[1]>>
    BY <1>1, <2>1, SubSeqRecursiveSecond
  <2>3. SubSeq(list, 1, 1 - 1) = <<>>
    BY SubSeqEmpty
  <2>4. <<e>> \in Seq(Entries)
    BY <1>1
  <2>5. QED
    BY <2>2, <2>3, <2>4, ConcatEmptySeq
<1>3. list' = SubSeq(list, 1 + 1, Len(list))
  <2>1. list' = SubSeq(list, 1, 1 - 1) \o SubSeq(list, 1 + 1, Len(list))
    BY DEF PopFront, ReadIndex, RemoveAt
  <2>2. SubSeq(list, 1, 1 - 1) = <<>>
    BY SubSeqEmpty
  <2>3. SubSeq(list, 1 + 1, Len(list)) \in Seq(Entries)
    BY <1>1
  <2>4. QED
    BY <2>1, <2>2, <2>3, ConcatEmptySeq
<1>4. Bytes(<<e>>) = e.size /\ Numbers(<<e>>) = {e.n}
  <2> DEFINE t == <<e>>
  <2>1. t \in Seq(Entries) /\ Len(t) = 1 /\ t[1] = e /\ 1 \in 1 .. Len(t) /\ 1 - 1 = 0 /\ DOMAIN t = {1}
    BY <1>1
  <2> HIDE DEF t
  <2>2. Sums(t)[0] = 0 /\ Sums(t)[1] = Sums(t)[1 - 1] + t[1].size
    BY <2>1, SumsStep
  <2>3. Bytes(t) = e.size
    BY <1>1, <2>1, <2>2 DEF Bytes, Entries
  <2>4. Numbers(t) = {e.n}
    BY <2>1 DEF Numbers
  <2>5. QED
    BY <2>3, <2>4 DEF t
<1>5. /\ current' = Less(current, e.size) /\ disk' = RestrictTo(disk, DOMAIN disk \ {e.n})
      /\ UNCHANGED <<limit, policy, running, made, returned, fault>>
  BY DEF PopFront, ReadIndex
<1> HIDE DEF e
<1>6. QED
  BY <1>1, <1>2, <1>3, <1>4, <1>5, FrontGone

\* The eviction loop that reads past the end leaves neither list nor files.
LEMMA FaultFacts ==
    ASSUME DiskAssumption, IInv, NEW size \in Sizes, PushFaults(size)
    PROVE  IInv' /\ list' = <<>>
<1>1. Accepts /\ running /\ made < MaxItems /\ list' = <<>> /\ made' = made + 1 /\ fault' = TRUE
  BY DEF PushFaults, Accepts
<1>2. disk' = RestrictTo(disk, DOMAIN disk \ Numbers(list))
  BY DEF PushFaults
<1>3. UNCHANGED <<current, limit, policy, running, returned>>
  BY DEF PushFaults
<1>4. /\ DOMAIN disk' \subseteq 0 .. MaxItems /\ \A n \in DOMAIN disk' : disk'[n] \in Files
      /\ \A n \in DOMAIN disk' : n < made
  BY <1>2, Removed
<1>5. DOMAIN disk' = {} /\ Numbers(list') = {} /\ DOMAIN list' = {}
  <2>1. Numbers(list) = DOMAIN disk
    BY <1>1 DEF IInv, ListIsDisk
  <2>2. DOMAIN disk' = DOMAIN disk \cap (DOMAIN disk \ Numbers(list))
    BY <1>2, RestrictFacts
  <2>3. DOMAIN list' = {}
    BY <1>1
  <2>4. QED
    BY <2>1, <2>2, <2>3 DEF Numbers
<1>6. TypeOK'
  <2>1. list' \in Seq([n : Nat, size : Nat]) /\ made' \in 0 .. MaxItems
    BY <1>1 DEF IInv, TypeOK
  <2>2. QED
    BY <1>1, <1>3, <1>4, <2>1 DEF IInv, TypeOK
<1>7. ListIsDisk' /\ Idle'
  BY <1>1, <1>5 DEF ListIsDisk, Ordered, Idle
<1>8. Numbered'
  BY <1>5 DEF Numbered
<1>9. Accounted'
  BY <1>1, <1>3, BytesEmpty DEF Accounted, IInv, TypeOK
<1>10. QED
  BY <1>1, <1>6, <1>7, <1>8, <1>9 DEF IInv

LEMMA RefusedFacts ==
    ASSUME DiskAssumption, IInv, PushRefused \/ PushFails
    PROVE  IInv'
<1>1. /\ disk' = disk /\ list' = list /\ current' = current /\ limit' = limit
      /\ policy' = policy /\ running' = running /\ fault' = fault
      /\ made' = made + 1 /\ returned' = FALSE /\ made < MaxItems
  BY DEF PushRefused, PushFails, Accepts
<1>2. TypeOK' /\ Numbered'
  <2>1. made \in 0 .. MaxItems /\ DOMAIN disk \subseteq 0 .. MaxItems
    BY DEF IInv, TypeOK
  <2>2. made' \in 0 .. MaxItems /\ \A n \in DOMAIN disk : n < made => n < made'
    BY <1>1, <2>1
  <2>3. TypeOK'
    BY <1>1, <2>2 DEF IInv, TypeOK
  <2>4. Numbered'
    BY <1>1, <2>2 DEF IInv, Numbered
  <2>5. QED
    BY <2>3, <2>4
<1>3. Idle' /\ ListIsDisk' /\ Accounted'
  BY <1>1 DEF IInv, Idle, ListIsDisk, Ordered, Numbers, Accounted
<1>4. QED
  BY <1>2, <1>3 DEF IInv

LEMMA NextInvariant ==
    ASSUME DiskAssumption, IInv, [Next]_vars
    PROVE  IInv'
<1>1. CASE UNCHANGED vars
  BY <1>1 DEF vars, IInv, TypeOK, Numbered, Idle, ListIsDisk, Ordered, Numbers, Accounted
<1>2. CASE \E l \in Limits, p \in Policies : Start(l, p)
  BY <1>2, StartFacts
<1>3. CASE Stop \/ FactoryReset
  BY <1>3, StopFacts
<1>4. CASE \/ Crash \/ CrashInReset
           \/ \E size \in Sizes : CrashTearsPush(size) \/ CrashAfterPush(size)
  BY <1>4, CrashFacts
<1>5. CASE PushRefused \/ PushFails
  BY <1>5, RefusedFacts
<1>6. CASE \E size \in Sizes : Push(size) \/ PushFaults(size)
  BY <1>6, PushFacts, FaultFacts
<1>7. CASE PeekFront
  BY <1>7, PeekFacts
<1>8. CASE PopFront
  BY <1>8, PopFacts
<1>9. QED
  BY <1>1, <1>2, <1>3, <1>4, <1>5, <1>6, <1>7, <1>8 DEF Next

\* DiskBytes is what the list names.
LEMMA ListedBytes ==
    ASSUME DiskAssumption, IInv, running
    PROVE  Listed(disk) = list
<1>1. Directory(disk)
  BY TypedDirectory DEF IInv, TypeOK
<1>2. list \in Seq(Entries) /\ Lists(list, disk)
  BY ListTyped
<1>3. QED
  BY <1>1, <1>2, ListIsListed

-----------------------------------------------------------------------------
(* Every variable keeps its type: the numbers of the files stay below the  *)
(* number of messages pushed, although they are used again from 0.          *)
THEOREM TypeCorrect == Spec => []TypeOK
<1>1. Init => IInv
  BY DiskAssumption, InitInvariant
<1>2. IInv /\ [Next]_vars => IInv'
  BY DiskAssumption, NextInvariant
<1>3. IInv => TypeOK
  BY DEF IInv
<1>4. QED
  BY <1>1, <1>2, <1>3, PTL DEF Spec

(* The list of a running queue is its directory, in the order of the        *)
(* numbers, whatever was pushed, evicted, torn or lost before.              *)
THEOREM ListMatches == Spec => []ListIsDisk
<1>1. Init => IInv
  BY DiskAssumption, InitInvariant
<1>2. IInv /\ [Next]_vars => IInv'
  BY DiskAssumption, NextInvariant
<1>3. IInv => ListIsDisk
  BY DEF IInv
<1>4. QED
  BY <1>1, <1>2, <1>3, PTL DEF Spec

(* A running queue never accounts for less than its files take.             *)
THEOREM UsageCorrect == Spec => []UsageCovers
<1>1. Init => IInv
  BY DiskAssumption, InitInvariant
<1>2. IInv /\ [Next]_vars => IInv'
  BY DiskAssumption, NextInvariant
<1>3. IInv => UsageCovers
  BY DiskAssumption, ListedBytes DEF IInv, Accounted, UsageCovers, DiskBytes
<1>4. QED
  BY <1>1, <1>2, <1>3, PTL DEF Spec

(* So the state in memory may be acted on for what is on the disk. *)
THEOREM StateMatches == Spec => []StateMatchesDisk
BY ListMatches, UsageCorrect, PTL DEF StateMatchesDisk

(* After a push that returned true the files fit the limit.                 *)
THEOREM QuotaKept == Spec => QuotaRespected
<1>1. Init => IInv
  BY DiskAssumption, InitInvariant
<1>2. IInv /\ [Next]_vars => IInv'
  BY DiskAssumption, NextInvariant
<1>3. IInv /\ IInv' /\ [Next]_vars =>
        [made' # made /\ returned' /\ running' => DiskBytes' <= limit]_vars
  <2>1. SUFFICES ASSUME IInv, IInv', Next, made' # made, returned', running'
                 PROVE  DiskBytes' <= limit
    BY DEF vars
  <2>2. DiskBytes' = Bytes(list')
    <3>1. Directory(disk')
      BY <2>1, DiskAssumption, TypedDirectory DEF IInv, TypeOK
    <3>2. list' \in Seq(Entries) /\ Lists(list', disk')
      BY <2>1 DEF IInv, TypeOK, Entries, ListIsDisk, Ordered, Lists
    <3>3. Listed(disk') = list'
      BY <3>1, <3>2, ListIsListed
    <3>4. QED
      BY <3>3 DEF DiskBytes
  <2>3. CASE \E size \in Sizes : Push(size)
    <3>1. PICK size \in Sizes : Push(size)
      BY <2>3
    <3>2. Bytes(list') <= limit' /\ limit' = limit
      BY <2>1, <3>1, PushFacts, DiskAssumption DEF Push
    <3>3. QED
      BY <2>2, <3>2
  <2>4. CASE \E size \in Sizes : PushFaults(size)
    <3>1. list' = <<>> /\ limit > 0
      BY <2>1, <2>4, FaultFacts, DiskAssumption DEF PushFaults, Accepts
    <3>2. limit \in Nat
      BY <2>1, DiskAssumption DEF DiskAssumption, IInv, TypeOK
    <3>3. QED
      BY <2>2, <3>1, <3>2, BytesEmpty
  <2>5. ASSUME ~ \E size \in Sizes : Push(size), ~ \E size \in Sizes : PushFaults(size)
        PROVE  FALSE
    BY <2>1, <2>5
       DEF Next, Start, Stop, FactoryReset, Crash, CrashInReset, Reboot, PushRefused,
           PushFails, CrashTearsPush, CrashAfterPush, PeekFront, PopFront
  <2>6. QED
    BY <2>3, <2>4, <2>5
<1>4. QED
  BY <1>1, <1>2, <1>3, PTL DEF Spec, QuotaRespected

-----------------------------------------------------------------------------
(* The messages of a directory, in order, when files are cut off or added.  *)

LEMMA ItemsFacts ==
    ASSUME NEW files, Directory(files)
    PROVE  /\ Whole(files) \in SUBSET Nat /\ IsFiniteSet(Whole(files))
           /\ Cardinality(Whole(files)) \in Nat
           /\ Items(files) \in Seq(Nat) /\ Len(Items(files)) = Cardinality(Whole(files))
           /\ \A i \in 1 .. Cardinality(Whole(files)) :
                 Items(files)[i] = files[Nth(Whole(files), i)].item
<1> DEFINE W == Whole(files)
           Q == Items(files)
<1>1. /\ DOMAIN files \in SUBSET Nat /\ IsFiniteSet(DOMAIN files)
      /\ \A n \in DOMAIN files : files[n].item \in Nat
  BY DEF Directory
<1>2. W \in SUBSET (DOMAIN files)
  BY DEF Whole
<1> HIDE DEF W
<1>3. W \in SUBSET Nat /\ IsFiniteSet(W)
  BY <1>1, <1>2, FS_Subset
<1>4. Cardinality(W) \in Nat
  BY <1>3, FS_CardinalityType
<1>5. \A i \in 1 .. Cardinality(W) : files[Nth(W, i)].item \in Nat
  BY <1>1, <1>2, <1>3, NthFacts
<1>6. Q = [i \in 1 .. Cardinality(W) |-> files[Nth(W, i)].item]
  BY DEF Items, W
<1> HIDE DEF Q
<1>7. /\ Q \in [1 .. Cardinality(W) -> Nat]
      /\ \A i \in 1 .. Cardinality(W) : Q[i] = files[Nth(W, i)].item
  BY <1>5, <1>6
<1>8. Q \in Seq(Nat) /\ Len(Q) = Cardinality(W)
  BY <1>4, <1>7
<1>9. QED
  BY <1>3, <1>4, <1>7, <1>8 DEF W, Q

\* Two directories with the same whole files hold the same messages.
LEMMA SameItems ==
    ASSUME NEW f, NEW g, Whole(g) = Whole(f), Directory(f),
           \A n \in Whole(f) : g[n].item = f[n].item
    PROVE  Items(g) = Items(f)
<1>1. \A i \in 1 .. Cardinality(Whole(f)) : Nth(Whole(f), i) \in Whole(f)
  BY ItemsFacts, NthFacts
<1>2. QED
  BY <1>1 DEF Items

\* Without the files below a number, the messages lose their first ones.
LEMMA ItemsAbove ==
    ASSUME NEW f, Directory(f), NEW g, Directory(g), NEW a \in Int,
           Whole(g) = {n \in Whole(f) : n >= a}, \A n \in Whole(g) : g[n].item = f[n].item
    PROVE  LET c == Cardinality({n \in Whole(f) : n < a})
           IN  /\ c \in 0 .. Len(Items(f))
               /\ Items(g) = SubSeq(Items(f), c + 1, Len(Items(f)))
<1> DEFINE W == Whole(f)
           S == Whole(g)
           B == {n \in W : n < a}
           c == Cardinality(B)
           w == Cardinality(W)
           s == Cardinality(S)
<1>1. /\ W \in SUBSET Nat /\ IsFiniteSet(W) /\ w \in Nat /\ Items(f) \in Seq(Nat)
      /\ Len(Items(f)) = w /\ \A i \in 1 .. w : Items(f)[i] = f[Nth(W, i)].item
  BY ItemsFacts
<1>2. /\ S \in SUBSET Nat /\ IsFiniteSet(S) /\ s \in Nat /\ Items(g) \in Seq(Nat)
      /\ Len(Items(g)) = s /\ \A i \in 1 .. s : Items(g)[i] = g[Nth(S, i)].item
  BY ItemsFacts
<1>3. /\ S = {n \in W : n >= a} /\ S \in SUBSET W /\ B \in SUBSET W
      /\ \A n \in S : g[n].item = f[n].item
  OBVIOUS
<1> HIDE DEF W, S
<1>4. IsFiniteSet(B) /\ c \in Nat
  BY <1>1, <1>3, FS_Subset, FS_CardinalityType
<1>5. B \cup S = W /\ B \cap S = {}
  <2>1. \A n \in W : n \in Int
    BY <1>1
  <2>2. \A n \in W : (n \in B \/ n \in S) /\ ~ (n \in B /\ n \in S)
    BY <1>3, <2>1
  <2> HIDE DEF B
  <2>3. QED
    BY <1>3, <2>2
<1> HIDE DEF B
<1>6. w = c + s
  <2>1. Cardinality(B \cup S) = Cardinality(B) + Cardinality(S) - Cardinality(B \cap S)
    BY <1>2, <1>4, FS_Union
  <2>2. Cardinality(W) = Cardinality(B) + Cardinality(S) - Cardinality({})
    BY <1>5, <2>1
  <2>3. w = c + s - 0
    BY <2>2, FS_EmptySet
  <2> HIDE DEF w, c, s
  <2>4. QED
    BY <1>2, <1>4, <2>3
<1>7. ASSUME NEW n \in S PROVE Rank(W, n) = c + Rank(S, n)
  <2> DEFINE R == {m \in S : m < n}
  <2>1. R \in SUBSET S /\ B \cap R = {}
    BY <1>5
  <2>2. {m \in W : m < n} = B \cup R
    <3>1. \A m \in B : m < n
      <4>1. \A m \in B : m < a /\ m \in Int
        BY <1>1, <1>3 DEF B
      <4>2. n >= a /\ n \in Int
        BY <1>2, <1>3
      <4>3. QED
        BY <4>1, <4>2
    <3>2. QED
      BY <1>5, <3>1
  <2> HIDE DEF R
  <2>3. IsFiniteSet(R) /\ Cardinality(R) \in Nat
    BY <1>2, <2>1, FS_Subset, FS_CardinalityType
  <2>4. Cardinality(B \cup R) = Cardinality(B) + Cardinality(R) - Cardinality(B \cap R)
    BY <1>4, <2>3, FS_Union
  <2>5. Rank(W, n) = Cardinality(B) + Cardinality(R) - Cardinality({})
    BY <2>1, <2>2, <2>4 DEF Rank
  <2>6. Rank(W, n) = c + Rank(S, n) - 0
    BY <2>5, FS_EmptySet DEF Rank, R
  <2>7. Rank(S, n) \in Nat
    BY <2>3 DEF Rank, R
  <2> HIDE DEF c
  <2>8. QED
    BY <1>4, <2>6, <2>7
<1>8. ASSUME NEW i \in 1 .. s PROVE Items(g)[i] = Items(f)[c + i]
  <2> DEFINE n == Nth(S, i)
             m == Nth(W, c + i)
  <2>1. n \in S /\ Rank(S, n) = i - 1
    BY <1>2, NthFacts
  <2>2. c + i \in 1 .. w
    BY <1>2, <1>4, <1>6
  <2>3. m \in W /\ Rank(W, m) = (c + i) - 1
    BY <1>1, <2>2, NthFacts
  <2>4. Items(g)[i] = g[n].item /\ Items(f)[c + i] = f[m].item
    BY <1>1, <1>2, <2>2
  <2> HIDE DEF n, m
  <2>5. Rank(W, n) = Rank(W, m) /\ n \in W
    BY <1>3, <1>4, <1>7, <2>1, <2>3
  <2>6. n = m
    BY <1>1, <2>3, <2>5, RankInjective
  <2>7. QED
    BY <1>3, <2>1, <2>4, <2>6
<1>9. Items(g) = SubSeq(Items(f), c + 1, Len(Items(f)))
  <2> DEFINE P == SubSeq(Items(f), c + 1, w)
  <2> HIDE DEF c, s, w
  <2>0. c + 1 \in Int /\ w \in Int /\ \A i \in c + 1 .. w : i \in 1 .. w
    BY <1>1, <1>4
  <2>1. \A i \in c + 1 .. w : Items(f)[i] \in Nat
    BY <1>1, <2>0
  <2>2. /\ P \in Seq(Nat) /\ Len(P) = IF c + 1 <= w THEN w - (c + 1) + 1 ELSE 0
        /\ \A i \in 1 .. w - (c + 1) + 1 : P[i] = Items(f)[(c + 1) + i - 1]
    BY <2>0, <2>1, SubSeqProperties
  <2> HIDE DEF P
  <2>3. Len(P) = s
    BY <1>2, <1>4, <1>6, <2>2
  <2>4. ASSUME NEW i \in 1 .. s PROVE P[i] = Items(g)[i]
    <3>1. i \in 1 .. w - (c + 1) + 1 /\ (c + 1) + i - 1 = c + i
      BY <1>2, <1>4, <1>6
    <3>2. QED
      BY <1>8, <2>2, <3>1
  <2>5. Items(g) = P
    BY <1>2, <2>2, <2>3, <2>4, SeqEqual
  <2>6. QED
    BY <1>1, <2>5 DEF P
<1>10. c \in 0 .. Len(Items(f))
  BY <1>1, <1>2, <1>4, <1>6
<1>11. QED
  BY <1>9, <1>10 DEF B, W

\* Without the files above a number, they lose their last ones.
LEMMA ItemsBelow ==
    ASSUME NEW f, Directory(f), NEW g, Directory(g), NEW b \in Int,
           Whole(g) = {n \in Whole(f) : n <= b}, \A n \in Whole(g) : g[n].item = f[n].item
    PROVE  /\ Len(Items(g)) \in 0 .. Len(Items(f))
           /\ Items(g) = SubSeq(Items(f), 1, Len(Items(g)))
<1> DEFINE W == Whole(f)
           S == Whole(g)
           w == Cardinality(W)
           s == Cardinality(S)
<1>1. /\ W \in SUBSET Nat /\ IsFiniteSet(W) /\ w \in Nat /\ Items(f) \in Seq(Nat)
      /\ Len(Items(f)) = w /\ \A i \in 1 .. w : Items(f)[i] = f[Nth(W, i)].item
  BY ItemsFacts
<1>2. /\ S \in SUBSET Nat /\ IsFiniteSet(S) /\ s \in Nat /\ Items(g) \in Seq(Nat)
      /\ Len(Items(g)) = s /\ \A i \in 1 .. s : Items(g)[i] = g[Nth(S, i)].item
  BY ItemsFacts
<1>3. /\ S = {n \in W : n <= b} /\ S \in SUBSET W
      /\ \A n \in S : g[n].item = f[n].item
  OBVIOUS
<1> HIDE DEF W, S
<1>4. s <= w
  BY <1>1, <1>3, FS_Subset
<1>5. ASSUME NEW n \in S PROVE Rank(W, n) = Rank(S, n)
  <2>1. {m \in W : m < n} = {m \in S : m < n}
    BY <1>1, <1>3
  <2>2. QED
    BY <2>1 DEF Rank
<1>6. ASSUME NEW i \in 1 .. s PROVE Items(g)[i] = Items(f)[i]
  <2> DEFINE n == Nth(S, i)
             m == Nth(W, i)
  <2>1. n \in S /\ Rank(S, n) = i - 1
    BY <1>2, NthFacts
  <2>2. i \in 1 .. w
    BY <1>1, <1>2, <1>4
  <2>3. m \in W /\ Rank(W, m) = i - 1
    BY <1>1, <2>2, NthFacts
  <2>4. Items(g)[i] = g[n].item /\ Items(f)[i] = f[m].item
    BY <1>1, <1>2, <2>2
  <2> HIDE DEF n, m
  <2>5. Rank(W, n) = Rank(W, m) /\ n \in W
    BY <1>3, <1>5, <2>1, <2>3
  <2>6. n = m
    BY <1>1, <2>3, <2>5, RankInjective
  <2>7. QED
    BY <1>3, <2>1, <2>4, <2>6
<1>7. Items(g) = SubSeq(Items(f), 1, s)
  <2> DEFINE P == SubSeq(Items(f), 1, s)
  <2>1. \A i \in 1 .. s : Items(f)[i] \in Nat
    BY <1>1, <1>2, <1>4
  <2>2. /\ P \in Seq(Nat) /\ Len(P) = IF 1 <= s THEN s - 1 + 1 ELSE 0
        /\ \A i \in 1 .. s - 1 + 1 : P[i] = Items(f)[1 + i - 1]
    BY <1>2, <2>1, SubSeqProperties
  <2> HIDE DEF P, s, w
  <2>3. Len(P) = s
    BY <1>2, <2>2
  <2>4. ASSUME NEW i \in 1 .. s PROVE P[i] = Items(g)[i]
    <3>1. i \in 1 .. s - 1 + 1 /\ 1 + i - 1 = i
      BY <1>2
    <3>2. QED
      BY <1>6, <2>2, <3>1
  <2>5. Items(g) = P
    BY <1>2, <2>2, <2>3, <2>4, SeqEqual
  <2>6. QED
    BY <2>5 DEF P
<1>8. QED
  BY <1>1, <1>2, <1>4, <1>7

\* The first files of a list have the numbers up to some number.
LEMMA CutFront ==
    ASSUME NEW l \in Seq(Entries), NEW files, Directory(files), Lists(l, files),
           NEW k \in 0 .. Len(l)
    PROVE  \E b \in Int : Numbers(SubSeq(l, 1, k)) = {n \in DOMAIN files : n <= b}
<1> DEFINE pre == SubSeq(l, 1, k)
           b == IF k = 0 THEN -1 ELSE l[k].n
<1>1. /\ Len(l) \in Nat /\ k \in Nat /\ k <= Len(l) /\ DOMAIN l = 1 .. Len(l)
      /\ \A i \in 1 .. Len(l) : l[i] \in Entries
  OBVIOUS
<1>2. DOMAIN pre = 1 .. k /\ \A i \in 1 .. k : i \in DOMAIN l /\ pre[i] = l[i]
  <2>1. 1 \in 1 .. Len(l) + 1 /\ k - 1 + 1 = k /\ \A i \in 1 .. k : i + 1 - 1 = i
    BY <1>1
  <2>2. /\ DOMAIN pre = 1 .. (k - 1 + 1)
        /\ \A i \in 1 .. (k - 1 + 1) : i + 1 - 1 \in DOMAIN l /\ pre[i] = l[i + 1 - 1]
    BY <2>1, PartFacts
  <2> HIDE DEF pre
  <2>3. QED
    BY <2>1, <2>2
<1> HIDE DEF pre
<1>3. \A i \in 1 .. Len(l) : l[i].n \in Nat
  BY <1>1 DEF Entries
<1>4. b \in Int
  <2>1. k # 0 => k \in 1 .. Len(l)
    BY <1>1
  <2>2. QED
    BY <1>3, <2>1
<1>5. ASSUME NEW n \in Numbers(pre) PROVE n \in DOMAIN files /\ n <= b
  <2>1. PICK i \in 1 .. k : l[i].n = n /\ i \in DOMAIN l
    BY <1>2 DEF Numbers
  <2>2. n \in DOMAIN files
    BY <2>1 DEF Lists, Numbers
  <2>3. k \in 1 .. Len(l) /\ (i < k \/ i = k) /\ b = l[k].n
    BY <1>1, <2>1
  <2>4. i < k => l[i].n < l[k].n
    BY <1>1, <2>1, <2>3 DEF Lists
  <2>5. l[i].n \in Nat /\ l[k].n \in Nat
    BY <1>1, <1>3, <2>1, <2>3
  <2> HIDE DEF b
  <2>6. QED
    BY <2>1, <2>2, <2>3, <2>4, <2>5
<1>6. ASSUME NEW n \in DOMAIN files, n <= b PROVE n \in Numbers(pre)
  <2>1. PICK i \in DOMAIN l : l[i].n = n
    BY DEF Lists, Numbers
  <2>2. l[i].n \in Nat
    BY <1>1, <1>3
  <2>3. k # 0 /\ k \in 1 .. Len(l) /\ b = l[k].n
    BY <1>1, <1>6, <2>1, <2>2
  <2>4. ~ (k < i)
    <3>1. k < i => l[k].n < l[i].n
      BY <1>1, <2>3 DEF Lists
    <3>2. l[k].n \in Nat
      BY <1>3, <2>3
    <3>3. QED
      BY <1>6, <2>1, <2>2, <2>3, <3>1, <3>2
  <2>5. i \in 1 .. k
    BY <1>1, <2>4
  <2>6. QED
    BY <1>2, <2>1, <2>5 DEF Numbers
<1> HIDE DEF b
<1>7. Numbers(pre) = {n \in DOMAIN files : n <= b}
  BY <1>5, <1>6
<1>8. QED
  BY <1>4, <1>7 DEF pre

\* A part of a directory is a directory, and its whole files are among its own.
LEMMA PartDirectory ==
    ASSUME NEW files, Directory(files), NEW S
    PROVE  /\ Directory(RestrictTo(files, S))
           /\ Whole(RestrictTo(files, S)) = {n \in Whole(files) : n \in S}
           /\ \A n \in Whole(RestrictTo(files, S)) : RestrictTo(files, S)[n].item = files[n].item
<1> DEFINE g == RestrictTo(files, S)
<1>1. DOMAIN g = DOMAIN files \cap S /\ \A n \in DOMAIN files \cap S : g[n] = files[n]
  BY RestrictFacts
<1> HIDE DEF g
<1>2. DOMAIN g \in SUBSET (DOMAIN files)
  BY <1>1
<1>3. IsFiniteSet(DOMAIN g)
  BY <1>2, FS_Subset DEF Directory
<1>4. Directory(g)
  BY <1>1, <1>2, <1>3 DEF Directory
<1>5. Whole(g) = {n \in Whole(files) : n \in S} /\ \A n \in Whole(g) : g[n].item = files[n].item
  BY <1>1 DEF Whole
<1>6. QED
  BY <1>4, <1>5 DEF g

\* When the first files go, the messages lose their first ones.
LEMMA RestItems ==
    ASSUME NEW l \in Seq(Entries), NEW files, Directory(files), Lists(l, files),
           NEW k \in 0 .. Len(l)
    PROVE  LET g == RestrictTo(files, DOMAIN files \ Numbers(SubSeq(l, 1, k)))
           IN  \E c \in 0 .. Len(Items(files)) :
                 Items(g) = SubSeq(Items(files), c + 1, Len(Items(files)))
<1> DEFINE S == DOMAIN files \ Numbers(SubSeq(l, 1, k))
           g == RestrictTo(files, S)
<1>1. PICK b \in Int : Numbers(SubSeq(l, 1, k)) = {n \in DOMAIN files : n <= b}
  BY CutFront
<1>2. /\ Directory(g) /\ Whole(g) = {n \in Whole(files) : n \in S}
      /\ \A n \in Whole(g) : g[n].item = files[n].item
  BY PartDirectory
<1>3. \A n \in Whole(files) : n \in DOMAIN files /\ n \in Int
  BY DEF Directory, Whole
<1>4. \A n \in Whole(files) : n \in S <=> n >= b + 1
  BY <1>1, <1>3
<1> HIDE DEF S, g
<1>5. Whole(g) = {n \in Whole(files) : n >= b + 1}
  BY <1>2, <1>4
<1>6. b + 1 \in Int
  OBVIOUS
<1>7. \E c \in 0 .. Len(Items(files)) :
        Items(g) = SubSeq(Items(files), c + 1, Len(Items(files)))
  BY <1>2, <1>5, <1>6, ItemsAbove
<1>8. QED
  BY <1>7 DEF S, g

\* Evictions leave a part of the messages without a gap.
LEMMA SurvivorItems ==
    ASSUME policy \in Policies, NEW l \in Seq(Entries), NEW files, Directory(files),
           Lists(l, files), NEW k \in 0 .. Len(l)
    PROVE  LET g == RestrictTo(files, Numbers(Survivors(l, k)))
           IN  \E first \in 1 .. Len(Items(files)) + 1, last \in 0 .. Len(Items(files)) :
                 Items(g) = SubSeq(Items(files), first, last)
<1> DEFINE g == RestrictTo(files, Numbers(Survivors(l, k)))
           Q == Items(files)
<1>0. Len(Q) \in Nat /\ Q \in Seq(Nat)
  BY ItemsFacts
<1>1. CASE policy = "FifoDeleteOld"
  <2>1. Survivors(l, k) = SubSeq(l, k + 1, Len(l))
    BY <1>1 DEF Survivors
  <2>2. g = RestrictTo(files, DOMAIN files \ Numbers(SubSeq(l, 1, k)))
    BY <2>1, RestListed
  <2> HIDE DEF g
  <2>3. PICK c \in 0 .. Len(Q) : Items(g) = SubSeq(Q, c + 1, Len(Q))
    BY <2>2, RestItems
  <2> HIDE DEF Q
  <2>4. c + 1 \in 1 .. Len(Q) + 1 /\ Len(Q) \in 0 .. Len(Q)
    BY <1>0
  <2>5. QED
    BY <2>3, <2>4 DEF g, Q
<1>2. CASE policy = "FifoDeleteNew"
  <2>1. Survivors(l, k) = SubSeq(l, 1, Len(l) - k) /\ Len(l) - k \in 0 .. Len(l)
    BY <1>2 DEF Survivors
  <2>2. PICK b \in Int : Numbers(Survivors(l, k)) = {n \in DOMAIN files : n <= b}
    BY <2>1, CutFront
  <2>3. /\ Directory(g) /\ Whole(g) = {n \in Whole(files) : n \in Numbers(Survivors(l, k))}
        /\ \A n \in Whole(g) : g[n].item = files[n].item
    BY PartDirectory
  <2> HIDE DEF g
  <2>4. Whole(g) = {n \in Whole(files) : n <= b}
    BY <2>2, <2>3 DEF Whole
  <2>5. Len(Items(g)) \in 0 .. Len(Q) /\ Items(g) = SubSeq(Q, 1, Len(Items(g)))
    BY <2>3, <2>4, ItemsBelow
  <2> HIDE DEF Q
  <2>6. 1 \in 1 .. Len(Q) + 1
    BY <1>0
  <2>7. QED
    BY <2>5, <2>6 DEF g, Q
<1>3. QED
  BY <1>1, <1>2 DEF Policies

\* A file that is written whole adds its message behind the others.
LEMMA AddedItem ==
    ASSUME DiskAssumption, IInv, Accepts, NEW size \in Nat
    PROVE  /\ Directory(WithFile(size, TRUE))
           /\ Items(WithFile(size, TRUE)) = Append(Items(disk), made + 1)
<1> DEFINE W == WithFile(size, TRUE)
           A == Whole(disk)
           B == Whole(W)
           a == Cardinality(A)
<1>1. /\ DOMAIN W = DOMAIN disk \cup {NextNumber} /\ DOMAIN W \subseteq 0 .. MaxItems
      /\ \A n \in DOMAIN W : W[n] \in Files
      /\ \A n \in DOMAIN disk : W[n] = disk[n]
      /\ W[NextNumber].item = made + 1 /\ W[NextNumber].whole = TRUE
  BY WithFileFacts
<1>2. NextNumber \in Nat /\ NextNumber \notin DOMAIN disk /\ \A n \in DOMAIN disk : n < NextNumber
  BY NextNumberFacts DEF Accepts
<1> HIDE DEF W
<1>3. Directory(W) /\ Directory(disk)
  BY <1>1, TypedDirectory DEF IInv, TypeOK
<1>4. /\ A \in SUBSET Nat /\ IsFiniteSet(A) /\ a \in Nat
      /\ Items(disk) \in Seq(Nat) /\ Len(Items(disk)) = a
  BY <1>3, ItemsFacts
<1>5. /\ B \in SUBSET Nat /\ IsFiniteSet(B)
      /\ Items(W) \in Seq(Nat) /\ Len(Items(W)) = Cardinality(B)
      /\ \A i \in 1 .. Cardinality(B) : Items(W)[i] = W[Nth(B, i)].item
  BY <1>3, ItemsFacts
<1>6. B = A \cup {NextNumber} /\ NextNumber \notin A /\ \A n \in A : n < NextNumber
  BY <1>1, <1>2 DEF Whole
<1>7. \A n \in A : W[n].item = disk[n].item
  BY <1>1 DEF Whole
<1> HIDE DEF A, B
<1>8. Cardinality(B) = a + 1
  BY <1>4, <1>6, FS_AddElement
<1> DEFINE x == NextNumber
<1>x. x \in Nat /\ \A n \in B : n \in Nat /\ (n \in A <=> n < x)
  BY <1>2, <1>4, <1>6
<1> HIDE DEF x
<1>9. Items(disk) = SubSeq(Items(W), 1, a)
  <2>1. x - 1 \in Int /\ \A n \in B : n \in A <=> n <= x - 1
    BY <1>x
  <2>2. A = {n \in B : n <= x - 1}
    BY <1>6, <2>1
  <2>3. QED
    BY <1>3, <1>4, <1>7, <2>1, <2>2, ItemsBelow DEF A, B
<1>10. Items(W)[a + 1] = made + 1
  <2>1. {m \in B : m < x} = A
    BY <1>6, <1>x
  <2>2. Rank(B, NextNumber) = a
    BY <2>1 DEF Rank, x
  <2>3. a + 1 \in 1 .. Cardinality(B) /\ (a + 1) - 1 = a
    BY <1>4, <1>8
  <2>4. Nth(B, a + 1) \in B /\ Rank(B, Nth(B, a + 1)) = a
    BY <1>5, <2>3, NthFacts
  <2>5. Nth(B, a + 1) = NextNumber
    BY <1>5, <1>6, <2>2, <2>4, RankInjective
  <2>6. QED
    BY <1>1, <1>5, <2>3, <2>5
<1>11. Items(W) = Append(Items(disk), made + 1)
  <2> DEFINE P == Append(Items(disk), made + 1)
             Q == Items(W)
  <2>1. made + 1 \in Nat
    BY DEF IInv, TypeOK
  <2>2. /\ P \in Seq(Nat) /\ Len(P) = a + 1 /\ P[a + 1] = made + 1
        /\ \A i \in 1 .. a : P[i] = Items(disk)[i]
    BY <1>4, <2>1
  <2>3. \A i \in 1 .. a : Items(disk)[i] = Q[i]
    <3>1. \A i \in 1 .. a : Q[i] \in Nat
      BY <1>4, <1>5, <1>8
    <3>2. \A i \in 1 .. a - 1 + 1 : SubSeq(Q, 1, a)[i] = Q[1 + i - 1]
      BY <1>4, <3>1, SubSeqProperties
    <3> HIDE DEF Q
    <3>3. a - 1 + 1 = a /\ \A i \in 1 .. a : 1 + i - 1 = i
      BY <1>4
    <3>4. QED
      BY <1>9, <3>2, <3>3 DEF Q
  <2> HIDE DEF P, Q
  <2>4. Q \in Seq(Nat) /\ Len(Q) = a + 1 /\ Q[a + 1] = made + 1
    BY <1>5, <1>8, <1>10 DEF Q
  <2>5. \A i \in 1 .. Len(Q) : Q[i] = P[i]
    BY <1>4, <2>2, <2>3, <2>4
  <2>6. Q = P
    BY <2>2, <2>4, <2>5, SeqEqual
  <2>7. QED
    BY <2>6 DEF P, Q
<1>12. QED
  BY <1>3, <1>11 DEF W

-----------------------------------------------------------------------------
(* Every step is a step of the durable FIFO, or leaves it as it is. *)

\* A push that is written whole, with any number of its evictions done.
LEMMA PushKeeps ==
    ASSUME DiskAssumption, IInv, Accepts, NEW size \in Nat,
           NEW k \in 0 .. Len(Written(size)), made' = made + 1,
           disk' = RestrictTo(WithFile(size, TRUE), (DOMAIN disk \cup {NextNumber})
                     \ (Numbers(Written(size)) \ Numbers(Survivors(Written(size), k))))
    PROVE  Fifo!Keep
<1> DEFINE l == Written(size)
           W == WithFile(size, TRUE)
           s == Numbers(Survivors(l, k))
<1>1. policy \in Policies
  BY DEF IInv, TypeOK
<1>2. l \in Seq(Entries) /\ Lists(l, W)
  BY WrittenFacts
<1>3. Directory(W) /\ Items(W) = Append(Queue, made')
  BY AddedItem DEF Queue
<1>4. DOMAIN W = DOMAIN disk \cup {NextNumber}
  BY WithFileFacts
<1>5. Len(Queue) \in Nat /\ Queue \in Seq(Nat)
  BY TypedDirectory, ItemsFacts DEF IInv, TypeOK, Queue
<1>6. Len(Items(W)) = Len(Queue) + 1
  <2>1. made' \in Nat
    BY DEF IInv, TypeOK
  <2> HIDE DEF W
  <2>2. Len(Append(Queue, made')) = Len(Queue) + 1
    BY <1>5, <2>1, AppendProperties
  <2>3. QED
    BY <1>3, <2>2
<1> HIDE DEF l, W
<1>k. k \in 0 .. Len(l)
  BY DEF l
<1>7. s \subseteq DOMAIN W /\ Numbers(l) = DOMAIN W
  BY <1>1, <1>2, <1>k, SurvivorFacts DEF Lists
<1>8. disk' = RestrictTo(W, s)
  <2>1. (DOMAIN disk \cup {NextNumber}) \ (Numbers(l) \ s) = s
    BY <1>4, <1>7
  <2>2. QED
    BY <2>1 DEF l, W
<1>9. PICK first \in 1 .. Len(Items(W)) + 1, last \in 0 .. Len(Items(W)) :
         Items(disk') = SubSeq(Items(W), first, last)
  <2> DEFINE g == RestrictTo(W, s)
  <2>1. \E first \in 1 .. Len(Items(W)) + 1, last \in 0 .. Len(Items(W)) :
           Items(g) = SubSeq(Items(W), first, last)
    BY <1>1, <1>2, <1>3, <1>k, SurvivorItems
  <2> HIDE DEF g
  <2>2. disk' = g
    BY <1>8 DEF g
  <2>3. QED
    BY <2>1, <2>2
<1>10. first \in 1 .. Len(Queue) + 2 /\ last \in 0 .. Len(Queue) + 1
  BY <1>5, <1>6
<1>11. Queue' = SubSeq(Append(Queue, made'), first, last)
  BY <1>3, <1>9 DEF Queue
<1>12. QED
  BY <1>10, <1>11 DEF Fifo!Keep

\* The first files of the list go: the messages lose their first ones.
LEMMA FrontClears ==
    ASSUME DiskAssumption, IInv, running, made' = made, NEW k \in 0 .. Len(list),
           disk' = RestrictTo(disk, DOMAIN disk \ Numbers(SubSeq(list, 1, k)))
    PROVE  Fifo!Clear
<1>1. Directory(disk) /\ list \in Seq(Entries) /\ Lists(list, disk)
  BY TypedDirectory, ListTyped DEF IInv, TypeOK
<1>2. PICK c \in 0 .. Len(Queue) : Queue' = SubSeq(Queue, c + 1, Len(Queue))
  BY <1>1, RestItems DEF Queue
<1>3. Len(Queue) \in Nat
  BY <1>1, ItemsFacts DEF Queue
<1>4. c + 1 \in 1 .. Len(Queue) + 1
  BY <1>3
<1>5. QED
  BY <1>2, <1>4 DEF Fifo!Clear

\* Files that are not whole go: the messages stay.
LEMMA TornGoes ==
    ASSUME DiskAssumption, IInv, NEW S, \A n \in S \cap DOMAIN disk : ~disk[n].whole,
           disk' = RestrictTo(disk, DOMAIN disk \ S)
    PROVE  Queue' = Queue
<1>1. Directory(disk)
  BY TypedDirectory DEF IInv, TypeOK
<1> DEFINE T == DOMAIN disk \ S
<1>2. /\ Whole(disk') = {n \in Whole(disk) : n \in T}
      /\ \A n \in Whole(disk') : disk'[n].item = disk[n].item
  BY <1>1, PartDirectory
<1>3. Whole(disk') = Whole(disk)
  BY <1>2 DEF Whole
<1>4. Items(disk') = Items(disk)
  BY <1>1, <1>2, <1>3, SameItems
<1>5. QED
  BY <1>4 DEF Queue

LEMMA PopRefines ==
    ASSUME DiskAssumption, IInv, PopFront
    PROVE  Fifo!Take \/ UNCHANGED Fifo!vars
<1> DEFINE e == list[1]
           W == Whole(disk)
<1>1. /\ Directory(disk) /\ list \in Seq(Entries) /\ Lists(list, disk) /\ running
      /\ DOMAIN list = 1 .. Len(list) /\ Len(list) \in Nat /\ 1 \in DOMAIN list
  BY TypedDirectory, ListTyped DEF IInv, TypeOK, PopFront
<1>2. e \in Entries /\ e.n \in Nat /\ e.n \in DOMAIN disk
  <2>1. e \in Entries
    BY <1>1, ElementOfSeq
  <2>2. e.n \in Numbers(list)
    BY <1>1 DEF Numbers
  <2> HIDE DEF e
  <2>3. QED
    BY <1>1, <2>1, <2>2 DEF Entries, Lists
<1>3. disk' = RestrictTo(disk, DOMAIN disk \ {e.n}) /\ made' = made
  BY DEF PopFront, ReadIndex
<1> HIDE DEF e
<1>4. CASE ~disk[e.n].whole
  <2>1. \A n \in {e.n} \cap DOMAIN disk : ~disk[n].whole
    BY <1>4
  <2>2. Queue' = Queue
    BY <1>3, <2>1, TornGoes
  <2>3. QED
    BY <1>3, <2>2 DEF Fifo!vars
<1>5. CASE disk[e.n].whole
  <2>1. \A n \in DOMAIN disk : n \in Nat /\ (n # e.n => n >= e.n + 1)
    <3>1. ASSUME NEW n \in DOMAIN disk, n # e.n PROVE n >= e.n + 1
      <4>1. PICK i \in DOMAIN list : list[i].n = n
        BY <1>1 DEF Lists, Numbers
      <4>2. 1 < i
        BY <1>1, <3>1, <4>1 DEF e
      <4>3. e.n < n
        BY <1>1, <4>1, <4>2 DEF Lists, e
      <4>4. n \in Nat
        BY <1>1 DEF Directory
      <4>5. QED
        BY <1>2, <4>3, <4>4
    <3>2. \A n \in DOMAIN disk : n \in Nat
      BY <1>1 DEF Directory
    <3>3. QED
      BY <3>1, <3>2
  <2>2. /\ Directory(disk') /\ Whole(disk') = {n \in W : n \in DOMAIN disk \ {e.n}}
        /\ \A n \in Whole(disk') : disk'[n].item = disk[n].item
    BY <1>1, <1>3, PartDirectory
  <2>3. W \subseteq DOMAIN disk /\ e.n \in W
    BY <1>2, <1>5 DEF Whole
  <2> HIDE DEF W
  <2>4. Whole(disk') = {n \in W : n >= e.n + 1}
    <3>1. ~ (e.n >= e.n + 1)
      BY <1>2
    <3>2. QED
      BY <2>1, <2>2, <2>3, <3>1
  <2>5. {n \in W : n < e.n + 1} = {e.n}
    <3>1. \A n \in W : n < e.n + 1 => n = e.n
      BY <1>2, <2>1, <2>3
    <3>2. e.n < e.n + 1
      BY <1>2
    <3>3. QED
      BY <2>3, <3>1, <3>2
  <2>6. Cardinality({n \in W : n < e.n + 1}) = 1
    BY <2>5, FS_Singleton
  <2>7. 1 \in 0 .. Len(Queue) /\ Queue' = SubSeq(Queue, 1 + 1, Len(Queue))
    <3>1. e.n + 1 \in Int
      BY <1>2
    <3>2. QED
      BY <1>1, <2>2, <2>4, <2>6, <3>1, ItemsAbove, SMTT(30) DEF Queue, W
  <2>8. Queue \in Seq(Nat)
    BY <1>1, ItemsFacts DEF Queue
  <2>9. Queue # <<>> /\ Queue' = Tail(Queue)
    <3>1. Queue # <<>>
      BY <2>7, <2>8
    <3>2. Tail(Queue) = SubSeq(Queue, 2, Len(Queue))
      BY <2>8, <3>1, TailIsSubSeq
    <3>3. QED
      BY <2>7, <3>1, <3>2
  <2>10. QED
    BY <1>3, <2>9 DEF Fifo!Take
<1>6. QED
  BY <1>4, <1>5

LEMMA PeekRefines ==
    ASSUME DiskAssumption, IInv, PeekFront
    PROVE  UNCHANGED Fifo!vars
<1> DEFINE torn == {k \in 1..Len(list) : \A i \in 1..k : ~disk[list[i].n].whole}
           S == Numbers(SubSeq(list, 1, Max(torn)))
<1>1. /\ list \in Seq(Entries) /\ Len(list) \in Nat /\ DOMAIN list = 1 .. Len(list)
      /\ 1 \in DOMAIN list /\ ~disk[list[1].n].whole
  BY ListTyped DEF PeekFront
<1>2. torn \in SUBSET (0 .. Len(list)) /\ torn # {}
  <2>1. 1 \in 1 .. Len(list) /\ \A i \in 1 .. 1 : i = 1
    BY <1>1
  <2>2. 1 \in torn
    BY <1>1, <2>1
  <2>3. QED
    BY <2>2
<1>3. Max(torn) \in torn
  BY <1>1, <1>2, MaxFacts
<1>4. disk' = RestrictTo(disk, DOMAIN disk \ S) /\ made' = made
  BY DEF PeekFront
<1>5. \A n \in S : ~disk[n].whole
  <2> DEFINE k == Max(torn)
             pre == SubSeq(list, 1, k)
  <2>1. k \in 1 .. Len(list) /\ \A i \in 1 .. k : ~disk[list[i].n].whole
    BY <1>3
  <2> HIDE DEF k
  <2>2. /\ DOMAIN pre = 1 .. (k - 1 + 1)
        /\ \A i \in 1 .. (k - 1 + 1) : pre[i] = list[i + 1 - 1]
    <3>1. 1 \in 1 .. Len(list) + 1 /\ k \in 0 .. Len(list)
      BY <1>1, <2>1
    <3>2. QED
      BY <1>1, <3>1, PartFacts
  <2> HIDE DEF pre
  <2>3. k - 1 + 1 = k /\ \A i \in 1 .. k : i + 1 - 1 = i
    BY <2>1
  <2>4. \A i \in DOMAIN pre : ~disk[pre[i].n].whole
    BY <2>1, <2>2, <2>3
  <2>5. QED
    BY <2>4 DEF Numbers, pre, k
<1> HIDE DEF S
<1>6. Queue' = Queue
  BY <1>4, <1>5, TornGoes
<1>7. QED
  BY <1>4, <1>6 DEF Fifo!vars

\* All files of the list go; a queue that does not run has none.
LEMMA ResetClears ==
    ASSUME DiskAssumption, IInv, made' = made,
           disk' = RestrictTo(disk, DOMAIN disk \ Numbers(list))
    PROVE  Fifo!Clear \/ UNCHANGED Fifo!vars
<1>1. list \in Seq(Entries) /\ Len(list) \in Nat
  BY ListTyped
<1>2. CASE running
  <2>1. SubSeq(list, 1, Len(list)) = list /\ Len(list) \in 0 .. Len(list)
    BY <1>1, SubSeqFull
  <2>2. QED
    BY <1>2, <2>1, FrontClears
<1>3. CASE ~running
  <2>1. Numbers(list) = {}
    <3>1. DOMAIN list = {}
      BY <1>3 DEF IInv, Idle
    <3>2. QED
      BY <3>1 DEF Numbers
  <2>2. Queue' = Queue
    BY <2>1, TornGoes
  <2>3. QED
    BY <2>2 DEF Fifo!vars
<1>4. QED
  BY <1>2, <1>3

LEMMA CrashRefines ==
    ASSUME DiskAssumption, IInv, NEW size \in Sizes,
           CrashTearsPush(size) \/ CrashAfterPush(size)
    PROVE  Fifo!Keep \/ Fifo!Refuse
<1>1. Accepts /\ made' = made + 1
  BY DEF CrashTearsPush, CrashAfterPush
<1>2. size \in Nat /\ \A torn \in 0 .. size - 1 : torn \in Nat
  BY DEF DiskAssumption
<1>3. CASE CrashTearsPush(size)
  <2>1. PICK torn \in 0 .. size - 1 : disk' = WithFile(torn, FALSE)
    BY <1>3 DEF CrashTearsPush
  <2>2. Directory(disk)
    BY TypedDirectory DEF IInv, TypeOK
  <2>3. /\ DOMAIN disk' = DOMAIN disk \cup {NextNumber}
        /\ \A n \in DOMAIN disk : disk'[n] = disk[n]
        /\ disk'[NextNumber].whole = FALSE
    <3> DEFINE W == WithFile(torn, FALSE)
    <3>1. torn \in Nat /\ FALSE \in BOOLEAN
      BY <1>2
    <3>2. /\ DOMAIN W = DOMAIN disk \cup {NextNumber}
          /\ \A n \in DOMAIN disk : W[n] = disk[n]
          /\ W[NextNumber].whole = FALSE
      BY <1>1, <3>1, WithFileFacts
    <3> HIDE DEF W
    <3>3. QED
      BY <2>1, <3>2 DEF W
  <2>4. NextNumber \notin DOMAIN disk
    BY <1>1, NextNumberFacts DEF Accepts
  <2>5. Whole(disk') = Whole(disk) /\ \A n \in Whole(disk) : disk'[n].item = disk[n].item
    BY <2>3, <2>4 DEF Whole
  <2>6. Queue' = Queue
    BY <2>2, <2>5, SameItems DEF Queue
  <2>7. QED
    BY <1>1, <2>6 DEF Fifo!Refuse
<1>4. CASE CrashAfterPush(size)
  <2> DEFINE l == Written(size)
             m == Min(Enough(l))
  <2>1. l \in Seq(Entries) /\ Len(l) \in Nat
    <3>1. l \in Seq(Entries)
      BY <1>1, <1>2, WrittenFacts
    <3> HIDE DEF l
    <3>2. QED
      BY <3>1
  <2>2. m \in 0 .. Len(l)
    <3>1. Enough(l) \in SUBSET (0 .. Len(l)) /\ Enough(l) # {}
      BY <1>4 DEF CrashAfterPush, Enough
    <3>2. Enough(l) \in SUBSET Nat
      BY <2>1, <3>1
    <3> HIDE DEF l
    <3>3. m \in Enough(l)
      BY <3>1, <3>2, MinFacts
    <3>4. QED
      BY <3>1, <3>3
  <2>3. PICK k \in 0 .. m :
           disk' = RestrictTo(WithFile(size, TRUE), (DOMAIN disk \cup {NextNumber})
                     \ (Numbers(l) \ Numbers(Survivors(l, k))))
    BY <1>4 DEF CrashAfterPush
  <2> HIDE DEF m
  <2>4. k \in 0 .. Len(l)
    BY <2>1, <2>2
  <2>5. QED
    BY <1>1, <1>2, <2>3, <2>4, PushKeeps
<1>5. QED
  BY <1>3, <1>4

LEMMA PushRefines ==
    ASSUME DiskAssumption, IInv, NEW size \in Sizes, Push(size)
    PROVE  Fifo!Keep
<1> DEFINE l == Written(size)
           k == Min(Enough(l))
<1>1. Accepts /\ made' = made + 1 /\ size \in Nat
  BY DEF Push, DiskAssumption
<1>2. l \in Seq(Entries) /\ Len(l) \in Nat
  <2>1. l \in Seq(Entries)
    BY <1>1, WrittenFacts
  <2> HIDE DEF l
  <2>2. QED
    BY <2>1
<1>3. k \in 0 .. Len(l)
  <2>1. Enough(l) \in SUBSET (0 .. Len(l)) /\ Enough(l) # {}
    BY DEF Push, Enough
  <2>2. Enough(l) \in SUBSET Nat
    BY <1>2, <2>1
  <2> HIDE DEF l
  <2>3. k \in Enough(l)
    BY <2>1, <2>2, MinFacts
  <2>4. QED
    BY <2>1, <2>3
<1>4. disk' = RestrictTo(WithFile(size, TRUE), (DOMAIN disk \cup {NextNumber})
                \ (Numbers(l) \ Numbers(Survivors(l, k))))
  BY DEF Push
<1> HIDE DEF k
<1>5. QED
  BY <1>1, <1>3, <1>4, PushKeeps

\* The files that an eviction past the end leaves: none, of all that were pushed.
LEMMA FaultRefines ==
    ASSUME DiskAssumption, IInv, NEW size \in Sizes, PushFaults(size)
    PROVE  Fifo!Keep
<1>1. Accepts /\ running /\ made' = made + 1
  BY DEF PushFaults, Accepts
<1>2. disk' = RestrictTo(disk, DOMAIN disk \ Numbers(list)) /\ Numbers(list) = DOMAIN disk
  BY <1>1 DEF PushFaults, IInv, ListIsDisk
<1>3. Queue' = <<>>
  <2>1. DOMAIN disk' = {}
    BY <1>2, RestrictFacts
  <2>2. Whole(disk') = {} /\ Cardinality({}) = 0
    BY <2>1, FS_EmptySet DEF Whole
  <2>3. 1 .. 0 = {}
    OBVIOUS
  <2>4. QED
    BY <2>2, <2>3 DEF Queue, Items
<1>4. Len(Queue) \in Nat
  BY TypedDirectory, ItemsFacts DEF IInv, TypeOK, Queue
<1>5. /\ 1 \in 1 .. Len(Queue) + 2 /\ 0 \in 0 .. Len(Queue) + 1
      /\ SubSeq(Append(Queue, made'), 1, 0) = <<>>
  BY <1>4, SubSeqEmpty
<1>6. QED
  BY <1>1, <1>3, <1>5 DEF Fifo!Keep

LEMMA StepRefines ==
    ASSUME DiskAssumption, IInv, [Next]_vars
    PROVE  Fifo!Next \/ UNCHANGED Fifo!vars
<1> USE DEF Fifo!Next
<1>1. ASSUME UNCHANGED <<disk, made>> PROVE UNCHANGED Fifo!vars
  BY <1>1 DEF Fifo!vars, Queue
<1>2. CASE \/ UNCHANGED vars \/ Stop \/ Crash
           \/ \E l \in Limits, p \in Policies : Start(l, p)
  <2>1. UNCHANGED <<disk, made>>
    BY <1>2 DEF vars, Stop, Crash, Start
  <2>2. QED
    BY <1>1, <2>1
<1>3. CASE FactoryReset
  BY <1>3, ResetClears DEF FactoryReset
<1>4. CASE CrashInReset
  <2>1. list \in Seq(Entries) /\ DOMAIN list = 1 .. Len(list) /\ Len(list) \in Nat
    BY ListTyped
  <2>2. PICK k \in DOMAIN list :
          disk' = RestrictTo(disk, DOMAIN disk \ Numbers(SubSeq(list, 1, k)))
    BY <1>4 DEF CrashInReset
  <2>3. running /\ k \in 0 .. Len(list)
    <3>1. list # <<>>
      BY <2>1, <2>2
    <3>2. QED
      BY <2>1, <3>1 DEF IInv, Idle, TypeOK
  <2>4. QED
    BY <1>4, <2>2, <2>3, FrontClears DEF CrashInReset
<1>5. CASE PushRefused \/ PushFails
  BY <1>5 DEF PushRefused, PushFails, Fifo!Refuse, Queue
<1>6. CASE \E size \in Sizes : Push(size) \/ PushFaults(size)
  BY <1>6, PushRefines, FaultRefines
<1>7. CASE \E size \in Sizes : CrashTearsPush(size) \/ CrashAfterPush(size)
  BY <1>7, CrashRefines
<1>8. CASE PeekFront
  BY <1>8, PeekRefines
<1>9. CASE PopFront
  BY <1>9, PopRefines
<1>10. QED
  BY <1>2, <1>3, <1>4, <1>5, <1>6, <1>7, <1>8, <1>9 DEF Next

(* The files of the directory are a durable FIFO: messages leave it in the  *)
(* order they came, none twice, across power losses.                        *)
THEOREM Refinement == Spec => ImplementsDurableFifo
<1>1. Init => IInv
  BY DiskAssumption, InitInvariant
<1>2. IInv /\ [Next]_vars => IInv'
  BY DiskAssumption, NextInvariant
<1>3. Init => Fifo!Init
  <2>1. SUFFICES ASSUME Init PROVE Queue = <<>> /\ made = 0
    BY DEF Fifo!Init
  <2>2. DOMAIN disk = {}
    BY <2>1 DEF Init
  <2>3. Whole(disk) = {} /\ Cardinality({}) = 0 /\ 1 .. 0 = {}
    BY <2>2, FS_EmptySet DEF Whole
  <2>4. Queue = <<>>
    BY <2>3 DEF Queue, Items
  <2>5. QED
    BY <2>1, <2>4 DEF Init
<1>4. IInv /\ [Next]_vars => [Fifo!Next]_(Fifo!vars)
  BY DiskAssumption, StepRefines
<1>5. QED
  BY <1>1, <1>2, <1>3, <1>4, PTL DEF Spec, Fifo!Spec, ImplementsDurableFifo

-----------------------------------------------------------------------------
(* What the durable FIFO means for the messages: each step leaves a part of    *)
(* the messages kept, and adds at most the new one, at the end.              *)

Rising(q, n) ==
    /\ \A i \in DOMAIN q : q[i] \in 1 .. n
    /\ \A i, j \in DOMAIN q : i < j => q[i] < q[j]

PartOf(r, q) == \E a \in Nat \ {0}, b \in 0 .. Len(q) : r = SubSeq(q, a, b)

LEMMA PartRises ==
    ASSUME NEW q \in Seq(Nat), NEW n \in Nat, Rising(q, n), NEW r, PartOf(r, q)
    PROVE  /\ r \in Seq(Nat) /\ Rising(r, n)
           /\ \A i \in DOMAIN r : \E k \in DOMAIN q : r[i] = q[k]
<1>0. PICK a \in Nat \ {0}, b \in 0 .. Len(q) : r = SubSeq(q, a, b)
  BY DEF PartOf
<1>1. r \in Seq(Nat)
  BY <1>0
<1>2. \A i \in DOMAIN r : i \in Int /\ r[i] = q[a + i - 1] /\ a + i - 1 \in DOMAIN q
  BY <1>0
<1>3. Rising(r, n)
  <2>1. \A i \in DOMAIN r : r[i] \in 1 .. n
    BY <1>2 DEF Rising
  <2>2. ASSUME NEW i \in DOMAIN r, NEW j \in DOMAIN r, i < j PROVE r[i] < r[j]
    <3>1. a + i - 1 < a + j - 1 /\ a + i - 1 \in DOMAIN q /\ a + j - 1 \in DOMAIN q
      BY <1>2, <2>2
    <3>2. q[a + i - 1] < q[a + j - 1]
      BY <3>1 DEF Rising
    <3>3. QED
      BY <1>2, <3>2
  <2>3. QED
    BY <2>1, <2>2 DEF Rising
<1>4. QED
  BY <1>1, <1>2, <1>3

LEMMA AppendRises ==
    ASSUME NEW q \in Seq(Nat), NEW n \in Nat, Rising(q, n)
    PROVE  /\ Append(q, n + 1) \in Seq(Nat) /\ Rising(Append(q, n + 1), n + 1)
           /\ \A i \in DOMAIN Append(q, n + 1) :
                 Append(q, n + 1)[i] = n + 1 \/ \E k \in DOMAIN q : Append(q, n + 1)[i] = q[k]
<1> DEFINE r == Append(q, n + 1)
<1>1. /\ r \in Seq(Nat) /\ Len(r) = Len(q) + 1 /\ Len(q) \in Nat
      /\ DOMAIN r = 1 .. Len(q) + 1 /\ DOMAIN q = 1 .. Len(q)
      /\ r[Len(q) + 1] = n + 1 /\ \A i \in 1 .. Len(q) : r[i] = q[i]
  OBVIOUS
<1> HIDE DEF r
<1>2. \A i \in DOMAIN r : i \in DOMAIN q \/ i = Len(q) + 1
  BY <1>1
<1>3. \A i \in DOMAIN q : r[i] = q[i] /\ q[i] \in 1 .. n
  BY <1>1 DEF Rising
<1>4. Rising(r, n + 1)
  <2>1. \A i \in DOMAIN r : r[i] \in 1 .. n + 1
    BY <1>1, <1>2, <1>3
  <2>2. ASSUME NEW i \in DOMAIN r, NEW j \in DOMAIN r, i < j PROVE r[i] < r[j]
    <3>1. i \in DOMAIN q
      BY <1>1, <2>2
    <3>2. CASE j \in DOMAIN q
      BY <1>3, <2>2, <3>1, <3>2 DEF Rising
    <3>3. CASE j = Len(q) + 1
      BY <1>1, <1>3, <3>1, <3>3
    <3>4. QED
      BY <1>2, <3>2, <3>3
  <2>3. QED
    BY <2>1, <2>2 DEF Rising
<1>5. \A i \in DOMAIN r : r[i] = n + 1 \/ \E k \in DOMAIN q : r[i] = q[k]
  BY <1>1, <1>2, <1>3
<1>6. QED
  BY <1>1, <1>4, <1>5 DEF r

LEMMA FifoRises ==
    ASSUME Queue \in Seq(Nat), made \in Nat, Rising(Queue, made), Fifo!Next
    PROVE  /\ Queue' \in Seq(Nat) /\ made' \in Nat /\ Rising(Queue', made')
           /\ made' >= made
           /\ \A i \in DOMAIN Queue' : Queue'[i] > made
                                       \/ \E k \in DOMAIN Queue : Queue'[i] = Queue[k]
<1> HIDE DEF Queue
<1>0. /\ Queue \in Seq(Nat) /\ made \in Nat /\ Rising(Queue, made)
      /\ Len(Queue) \in Nat /\ Len(Queue) <= Len(Queue)
  OBVIOUS
<1>1. CASE Fifo!Keep
  <2> DEFINE longer == Append(Queue, made + 1)
  <2>1. made' = made + 1
    BY <1>1 DEF Fifo!Keep
  <2>2. PICK first \in 1 .. Len(Queue) + 2, last \in 0 .. Len(Queue) + 1 :
          Queue' = SubSeq(longer, first, last)
    BY <1>1, <2>1 DEF Fifo!Keep
  <2>3. /\ longer \in Seq(Nat) /\ Rising(longer, made + 1)
        /\ \A i \in DOMAIN longer : longer[i] = made + 1
                                    \/ \E k \in DOMAIN Queue : longer[i] = Queue[k]
    BY AppendRises
  <2>4. Len(longer) = Len(Queue) + 1
    OBVIOUS
  <2> HIDE DEF longer
  <2>5. last \in Nat /\ first \in Nat \ {0} /\ last <= Len(longer) /\ made + 1 \in Nat
    BY <2>4
  <2>6. /\ Queue' \in Seq(Nat) /\ Rising(Queue', made + 1)
        /\ \A i \in DOMAIN Queue' : \E k \in DOMAIN longer : Queue'[i] = longer[k]
    <3>1. PartOf(Queue', longer)
      <4>1. first \in Nat \ {0} /\ last \in 0 .. Len(longer)
        BY <2>4, <2>5
      <4>2. QED
        BY <2>2, <4>1, Zenon DEF PartOf
    <3>2. QED
      BY ONLY <2>3, <2>5, <3>1, PartRises
  <2>7. Rising(Queue', made') /\ made' \in Nat /\ made' >= made
    BY <2>1, <2>6
  <2>8. ASSUME NEW i \in DOMAIN Queue'
        PROVE  Queue'[i] > made \/ \E k \in DOMAIN Queue : Queue'[i] = Queue[k]
    <3>1. PICK k \in DOMAIN longer : Queue'[i] = longer[k]
      BY <2>6
    <3>2. CASE longer[k] = made + 1
      BY <3>1, <3>2
    <3>3. CASE longer[k] # made + 1
      BY <2>3, <3>1, <3>3
    <3>4. QED
      BY <3>2, <3>3
  <2>9. QED
    BY <2>6, <2>7, <2>8
<1>2. CASE Fifo!Refuse
  BY <1>2 DEF Fifo!Refuse, Rising
<1>3. CASE Fifo!Take
  <2>1. Queue # <<>> /\ Queue' = Tail(Queue) /\ made' = made
    BY <1>3 DEF Fifo!Take
  <2>2. PICK first \in Nat \ {0} : first = 2 /\ Queue' = SubSeq(Queue, first, Len(Queue))
    BY <2>1
  <2>3. /\ Queue' \in Seq(Nat) /\ Rising(Queue', made)
        /\ \A i \in DOMAIN Queue' : \E k \in DOMAIN Queue : Queue'[i] = Queue[k]
    <3>1. PartOf(Queue', Queue)
      <4>1. first \in Nat \ {0} /\ Len(Queue) \in 0 .. Len(Queue)
        BY <1>0, <2>2
      <4>2. QED
        BY <2>2, <4>1, Zenon DEF PartOf
    <3>2. QED
      BY ONLY <1>0, <3>1, PartRises
  <2>4. QED
    BY <2>1, <2>3
<1>4. CASE Fifo!Clear
  <2>1. made' = made
    BY <1>4 DEF Fifo!Clear
  <2>2. PICK first \in 1 .. Len(Queue) + 1 : Queue' = SubSeq(Queue, first, Len(Queue))
    BY <1>4 DEF Fifo!Clear
  <2>3. /\ Queue' \in Seq(Nat) /\ Rising(Queue', made)
        /\ \A i \in DOMAIN Queue' : \E k \in DOMAIN Queue : Queue'[i] = Queue[k]
    <3>1. PartOf(Queue', Queue)
      <4>1. first \in Nat \ {0} /\ Len(Queue) \in 0 .. Len(Queue)
        BY <1>0, <2>2
      <4>2. QED
        BY <2>2, <4>1, Zenon DEF PartOf
    <3>2. QED
      BY ONLY <1>0, <3>1, PartRises
  <2>4. QED
    BY <2>1, <2>3
<1>5. QED
  BY <1>1, <1>2, <1>3, <1>4 DEF Fifo!Next

Kept == Queue \in Seq(Nat) /\ made \in Nat /\ Rising(Queue, made)

LEMMA FifoKept == Kept /\ [Fifo!Next]_(Fifo!vars) => Kept'
<1> SUFFICES ASSUME Kept, [Fifo!Next]_(Fifo!vars) PROVE Kept'
  OBVIOUS
<1>1. CASE Fifo!Next
  BY <1>1, FifoRises DEF Kept
<1>2. CASE UNCHANGED Fifo!vars
  BY <1>2 DEF Fifo!vars, Kept
<1>3. QED
  BY <1>1, <1>2

LEMMA KeptAlways == Fifo!Spec => []Kept
<1>1. Fifo!Init => Kept
  BY DEF Fifo!Init, Kept, Rising
<1>2. QED
  BY <1>1, FifoKept, PTL DEF Fifo!Spec

\* The messages kept are in the order of their pushes, for any number of
\* messages, although the numbers of the files start again from 0.
THEOREM OrderKept == Spec => []InOrder
<1>1. Kept => InOrder
  BY DEF Kept, Rising, InOrder, StoredItems
<1>2. QED
  BY <1>1, KeptAlways, Refinement, PTL DEF ImplementsDurableFifo

\* A message that was taken, given up or torn is not seen again, whatever
\* power losses, restarts and resets follow.
THEOREM GoneForGood == Spec => NeverReturns
<1>1. Kept /\ [Fifo!Next]_(Fifo!vars) =>
        [\A x \in 1 .. made : x \notin StoredItems => x \notin StoredItems']_vars
  <2> SUFFICES ASSUME Kept, [Fifo!Next]_(Fifo!vars), NEW x \in 1 .. made, x \in StoredItems'
               PROVE  x \in StoredItems
    OBVIOUS
  <2>1. PICK i \in DOMAIN Queue' : x = Queue'[i]
    BY DEF StoredItems
  <2>2. CASE Fifo!Next
    <3>1. x > made \/ \E k \in DOMAIN Queue : x = Queue[k]
      BY <2>1, <2>2, FifoRises DEF Kept
    <3>2. made \in Nat
      BY DEF Kept
    <3>3. QED
      BY <3>1, <3>2 DEF StoredItems
  <2>3. CASE UNCHANGED Fifo!vars
    BY <2>1, <2>3 DEF Fifo!vars, StoredItems
  <2>4. QED
    BY <2>2, <2>3
<1>2. QED
  BY <1>1, KeptAlways, Refinement, PTL DEF ImplementsDurableFifo, Fifo!Spec, NeverReturns
=============================================================================
