------------------------------ MODULE ListLemmas ------------------------------
(***************************************************************************)
(* What the operators of Lists return, and those of the library that       *)
(* TrainingSet and RankRequest are built from, for lists of any length.    *)
(***************************************************************************)
EXTENDS Lists, FiniteSetTheorems, SequenceTheorems, WellFoundedInduction, TLAPS

-------------------------------------------------------------------------------
(* Induction, over sets of numbers: what is true of n is that it is in S.  *)

LEMMA LeastOne ==
  ASSUME NEW T, T \subseteq Nat, T # {}
  PROVE  \E n \in T : \A m \in T : n <= m
<1> DEFINE R == OpToRel(<, Nat)
<1>1. IsWellFoundedOn(R, Nat)
  BY NatLessThanWellFounded
<1>2. \A m, n \in Nat : m < n => <<m, n>> \in R
  BY DEF OpToRel
<1> HIDE DEF R
<1>3. PICK n \in T : \A m \in T : ~(<<m, n>> \in R)
  BY <1>1, WFMin
<1>4. n \in Nat /\ \A m \in T : m \in Nat /\ ~(m < n)
  BY <1>2, <1>3
<1> QED BY <1>4

LEMMA Induction ==
  ASSUME NEW S, 0 \in S, \A n \in Nat : n \in S => n + 1 \in S
  PROVE  Nat \subseteq S
<1> DEFINE T == Nat \ S
<1>1. SUFFICES ASSUME T # {} PROVE FALSE
  OBVIOUS
<1>2. PICK n \in T : \A m \in T : n <= m
  <2> HIDE DEF T
  <2>1. T \subseteq Nat
    BY DEF T
  <2> QED BY <1>1, <2>1, LeastOne
<1>3. n \in Nat /\ n # 0
  OBVIOUS
<1>4. n - 1 \in Nat /\ n - 1 \notin T
  BY <1>2, <1>3
<1> QED BY <1>3, <1>4

LEMMA Greatest ==
  ASSUME NEW m \in Nat, NEW T, T \subseteq 0..m, T # {}
  PROVE  Max(T) \in T /\ \A x \in T : Max(T) >= x
<1> DEFINE U == {x \in 0..m : m - x \in T}
<1>1. U \subseteq Nat
  OBVIOUS
<1>2. U # {}
  <2>1. PICK x \in T : TRUE
    OBVIOUS
  <2>2. m - x \in 0..m /\ m - (m - x) = x
    OBVIOUS
  <2>3. m - x \in U
    BY <2>1, <2>2
  <2> QED BY <2>3
<1>3. PICK n \in U : \A x \in U : n <= x
  <2> HIDE DEF U
  <2> QED BY <1>1, <1>2, LeastOne
<1>4. \A x \in T : m - x \in U /\ x \in 0..m
  <2> TAKE x \in T
  <2>1. m - x \in 0..m /\ m - (m - x) = x /\ x \in 0..m
    OBVIOUS
  <2> QED BY <2>1
<1>5. m - n \in T /\ \A x \in T : m - n >= x
  <2>1. n \in 0..m /\ m - n \in T
    OBVIOUS
  <2>2. \A x \in T : n <= m - x /\ x \in 0..m
    BY <1>3, <1>4
  <2> HIDE DEF U
  <2> QED BY <2>1, <2>2
<1> HIDE DEF U
<1> QED BY <1>5 DEF Max

LEMMA Lesser ==
  ASSUME NEW a \in Int, NEW b \in Int
  PROVE  Min({a, b}) = IF a <= b THEN a ELSE b
<1>1. \E x \in {a, b} : \A y \in {a, b} : x <= y
  OBVIOUS
<1>2. Min({a, b}) \in {a, b} /\ \A y \in {a, b} : Min({a, b}) <= y
  BY <1>1 DEF Min
<1> QED BY <1>2

-------------------------------------------------------------------------------
(* Finite sets.                                                            *)

LEMMA ImageFinite ==
  ASSUME NEW S, IsFiniteSet(S), NEW f
  PROVE  LET T == {f[x] : x \in S} IN
         IsFiniteSet(T) /\ Cardinality(T) <= Cardinality(S)
<1> DEFINE T == {f[x] : x \in S}
           g == [x \in S |-> f[x]]
<1>1. g \in Surjection(S, T)
  BY DEF Surjection
<1> HIDE DEF T, g
<1> QED BY <1>1, FS_Surjection DEF T

-------------------------------------------------------------------------------
(* The entries at some positions.                                          *)

(* Counting from the smallest: each number of a finite set has its place.  *)
LEMMA NthProperties ==
  ASSUME NEW I, I \subseteq Int, IsFiniteSet(I)
  PROVE  /\ Cardinality(I) \in Nat
         /\ \A n \in 1..Cardinality(I) : Nth(I, n) \in I
         /\ \A n, m \in 1..Cardinality(I) : n < m => Nth(I, n) < Nth(I, m)
         /\ \A i \in I : \E n \in 1..Cardinality(I) : Nth(I, n) = i
<1> DEFINE below(i) == {j \in I : j < i}
           place == [i \in I |-> Cardinality(below(i)) + 1]
<1>1. Cardinality(I) \in Nat
  BY FS_CardinalityType
<1>2. \A i \in I : /\ IsFiniteSet(below(i)) /\ Cardinality(below(i)) \in Nat
                   /\ Cardinality(below(i)) + 1 \in 1..Cardinality(I)
  <2> TAKE i \in I
  <2>1. IsFiniteSet(below(i))
    BY FS_Subset
  <2>2. below(i) \subseteq I /\ below(i) # I
    OBVIOUS
  <2>3. Cardinality(below(i)) \in Nat
    BY <2>1, FS_CardinalityType
  <2>4. Cardinality(below(i)) < Cardinality(I)
    <3> HIDE DEF below
    <3>1. Cardinality(below(i)) <= Cardinality(I) /\ Cardinality(below(i)) # Cardinality(I)
      BY <2>2, FS_Subset
    <3> QED BY <1>1, <2>3, <3>1
  <2> HIDE DEF below
  <2> QED BY <1>1, <2>1, <2>3, <2>4
<1>3. \A i, j \in I : i < j => Cardinality(below(i)) < Cardinality(below(j))
  <2> TAKE i, j \in I
  <2> HAVE i < j
  <2>1. below(i) \subseteq below(j) /\ i \in below(j) /\ i \notin below(i)
    <3>1. \A k \in I : k \in Int
      OBVIOUS
    <3>2. \A k \in I : k < i => k < j
      BY <3>1
    <3>3. ~(i < i)
      BY <3>1
    <3> QED BY <3>2, <3>3
  <2>2. Cardinality(below(i)) \in Nat /\ Cardinality(below(j)) \in Nat /\ IsFiniteSet(below(j))
    BY <1>2
  <2> HIDE DEF below
  <2>3. Cardinality(below(i)) <= Cardinality(below(j)) /\ Cardinality(below(i)) # Cardinality(below(j))
    BY <2>1, <2>2, FS_Subset
  <2> QED BY <2>2, <2>3
<1>4. \A i, j \in I : i # j => place[i] # place[j]
  <2> TAKE i, j \in I
  <2> HAVE i # j
  <2>1. CASE i < j
    BY <1>2, <1>3, <2>1
  <2>2. CASE j < i
    BY <1>2, <1>3, <2>2
  <2> QED BY <2>1, <2>2
<1> DEFINE N == 1..Cardinality(I)
<1>5. place \in [I -> N]
  BY <1>2
<1>6. \A n \in N : \E i \in I : place[i] = n
  <2>1. IsFiniteSet(N) /\ Cardinality(N) = Cardinality(I)
    <3> DEFINE c == Cardinality(I)
    <3>1. c \in Nat
      BY <1>1
    <3> HIDE DEF c
    <3>2. IsFiniteSet(1..c) /\ Cardinality(1..c) = IF 1 > c THEN 0 ELSE c - 1 + 1
      BY <3>1, FS_Interval
    <3>3. Cardinality(1..c) = c
      BY <3>1, <3>2
    <3> QED BY <3>2, <3>3 DEF c
  <2> HIDE DEF place, N
  <2>2. place \in Injection(I, N)
    BY <1>4, <1>5 DEF Injection, IsInjective
  <2>3. place \in Surjection(I, N)
    BY <2>1, <2>2, FS_Injection
  <2> QED BY <2>3 DEF Surjection
<1>7. \A n \in N : Nth(I, n) \in I /\ place[Nth(I, n)] = n
  <2> TAKE n \in N
  <2>1. PICK i \in I : Cardinality(below(i)) + 1 = n
    BY <1>6
  <2>2. Cardinality(below(i)) = n - 1
    BY <1>2, <2>1
  <2>3. Nth(I, n) \in I /\ Cardinality(below(Nth(I, n))) = n - 1
    BY <2>2 DEF Nth
  <2> HIDE DEF below
  <2> QED BY <2>3, <1>1
<1>8. \A n, m \in N : n < m => Nth(I, n) < Nth(I, m)
  <2> TAKE n, m \in N
  <2> HAVE n < m
  <2>1. Nth(I, n) \in I /\ Nth(I, m) \in I /\ place[Nth(I, n)] = n /\ place[Nth(I, m)] = m
    BY <1>7
  <2>2. ~(Nth(I, m) < Nth(I, n)) /\ Nth(I, m) # Nth(I, n)
    <3> DEFINE x == Nth(I, n)
               y == Nth(I, m)
    <3> HIDE DEF x, y, N
    <3>1. x \in I /\ y \in I /\ place[x] = n /\ place[y] = m /\ n < m /\ n \in Int /\ m \in Int
      BY <2>1 DEF x, y, N
    <3>2. y < x => place[y] < place[x]
      BY SMTT(30), <1>2, <1>3, <3>1
    <3>3. ~(y < x) /\ x # y
      <4> HIDE DEF place
      <4> QED BY <3>1, <3>2
    <3> QED BY <3>3 DEF x, y
  <2>3. Nth(I, n) \in Int /\ Nth(I, m) \in Int
    BY <2>1
  <2> QED BY <2>2, <2>3
<1>9. \A i \in I : \E n \in N : Nth(I, n) = i
  <2> TAKE i \in I
  <2>1. place[i] \in N
    BY <1>5
  <2>2. Nth(I, place[i]) \in I /\ place[Nth(I, place[i])] = place[i]
    BY <1>7, <2>1
  <2> HIDE DEF place
  <2>3. Nth(I, place[i]) = i
    BY <1>4, <2>2
  <2> QED BY <2>1, <2>3
<1> QED BY <1>1, <1>7, <1>8, <1>9

LEMMA AtProperties ==
  ASSUME NEW S, NEW s \in Seq(S), NEW I \in SUBSET DOMAIN s
  PROVE  /\ IsFiniteSet(I) /\ Cardinality(I) \in Nat
         /\ At(s, I) \in Seq(S) /\ Len(At(s, I)) = Cardinality(I)
         /\ \A n \in 1..Cardinality(I) : Nth(I, n) \in I /\ At(s, I)[n] = s[Nth(I, n)]
         /\ \A i \in I : \E n \in 1..Cardinality(I) : Nth(I, n) = i
<1>1. DOMAIN s = 1..Len(s) /\ Len(s) \in Nat
  OBVIOUS
<1>2. IsFiniteSet(I)
  <2>1. PICK n \in Nat : DOMAIN s = 1..n
    BY <1>1
  <2>2. IsFiniteSet(1..n)
    BY FS_Interval
  <2> QED BY <2>1, <2>2, FS_Subset
<1>3. I \subseteq Int
  BY <1>1
<1>4. /\ Cardinality(I) \in Nat
      /\ \A n \in 1..Cardinality(I) : Nth(I, n) \in I
      /\ \A i \in I : \E n \in 1..Cardinality(I) : Nth(I, n) = i
  BY <1>2, <1>3, NthProperties
<1>5. \A n \in 1..Cardinality(I) : s[Nth(I, n)] \in S
  BY <1>4
<1>6. PICK c \in Nat : c = Cardinality(I)
  BY <1>4
<1>7. At(s, I) = [n \in 1..c |-> s[Nth(I, n)]]
  BY <1>6 DEF At
<1>8. At(s, I) \in [1..c -> S]
  BY <1>5, <1>6, <1>7
<1>9. At(s, I) \in Seq(S) /\ Len(At(s, I)) = c
  BY <1>8
<1> QED BY <1>2, <1>4, <1>6, <1>7, <1>9

-------------------------------------------------------------------------------
(* Lists that are defined from one entry to the next.                      *)

(* The first entry is base, and each other is made from the one before it. *)
Follows(f, n, base, step) ==
  \A i \in 1..n : f[i] = IF i = 1 THEN base ELSE step[<<i, f[i - 1]>>]

LEMMA RecursiveList ==
  ASSUME NEW V, NEW n \in Nat, NEW base \in V, NEW step \in [(1..n) \X V -> V]
  PROVE  \E f \in [1..n -> V] : Follows(f, n, base, step)
<1> DEFINE Upto(m) ==
             \E f \in [1..m -> V] :
               \A i \in 1..m : f[i] = IF i = 1 THEN base ELSE step[<<i, f[i - 1]>>]
           S == {m \in Nat : m <= n => Upto(m)}
<1>1. Upto(0)
  <2> DEFINE f == [i \in 1..0 |-> base]
  <2>1. f \in [1..0 -> V] /\ 1..0 = {}
    OBVIOUS
  <2> HIDE DEF f
  <2> QED BY <2>1
<1>2. ASSUME NEW m \in Nat, m + 1 <= n, Upto(m) PROVE Upto(m + 1)
  <2>1. PICK f \in [1..m -> V] :
          \A i \in 1..m : f[i] = IF i = 1 THEN base ELSE step[<<i, f[i - 1]>>]
    BY <1>2
  <2> DEFINE next == IF m = 0 THEN base ELSE step[<<m + 1, f[m]>>]
             g == [i \in 1..m + 1 |-> IF i = m + 1 THEN next ELSE f[i]]
  <2>2. next \in V
    <3>1. CASE m = 0
      BY <3>1
    <3>2. CASE m # 0
      <4>1. m \in 1..m /\ m + 1 \in 1..n
        BY <1>2, <3>2
      <4>2. <<m + 1, f[m]>> \in (1..n) \X V
        BY <4>1
      <4> QED BY <3>2, <4>2
    <3> QED BY <3>1, <3>2
  <2> HIDE DEF next
  <2>3. g \in [1..m + 1 -> V]
    <3>1. \A i \in 1..m + 1 : i = m + 1 \/ i \in 1..m
      OBVIOUS
    <3> QED BY <2>2, <3>1
  <2>4. \A i \in 1..m + 1 : g[i] = IF i = 1 THEN base ELSE step[<<i, g[i - 1]>>]
    <3> TAKE i \in 1..m + 1
    <3>1. CASE i = m + 1 /\ m = 0
      BY <3>1 DEF next
    <3>2. CASE i = m + 1 /\ m # 0
      <4>1. g[i] = next /\ g[i - 1] = f[m] /\ i # 1
        BY <3>2
      <4> QED BY <3>2, <4>1 DEF next
    <3>3. CASE i # m + 1
      <4>1. i \in 1..m /\ (i # 1 => i - 1 \in 1..m /\ i - 1 # m + 1 /\ i - 1 \in 1..m + 1)
        BY <3>3
      <4>2. g[i] = f[i] /\ (i # 1 => g[i - 1] = f[i - 1])
        BY <4>1
      <4> QED BY <2>1, <4>1, <4>2
    <3> QED BY <3>1, <3>2, <3>3
  <2> HIDE DEF g
  <2> QED BY <2>3, <2>4
<1> HIDE DEF Upto
<1>3. \A m \in Nat : m \in S => m + 1 \in S
  <2> TAKE m \in Nat
  <2> HAVE m \in S
  <2>1. m + 1 <= n => m <= n
    OBVIOUS
  <2> QED BY <1>2, <2>1
<1>4. Nat \subseteq S
  <2>1. 0 \in S
    BY <1>1
  <2> HIDE DEF S
  <2> QED BY <1>3, <2>1, Induction
<1>5. Upto(n)
  BY <1>4
<1> QED BY <1>5 DEF Upto, Follows

(* Runs begin where the ones before them end.                              *)
LEMMA OffsetProperties ==
  ASSUME NEW l \in Seq(Nat)
  PROVE  /\ Offset(l, 1) = 0
         /\ \A i \in 1..Len(l) : Offset(l, i + 1) = Offset(l, i) + l[i]
         /\ \A i \in 1..Len(l) + 1 : Offset(l, i) \in Nat
<1>1. PICK n \in Nat : n = Len(l)
  OBVIOUS
<1> DEFINE Starts(f) == f = [j \in 1..n + 1 |-> IF j = 1 THEN 0 ELSE f[j - 1] + l[j - 1]]
           start == CHOOSE f : Starts(f)
<1>2. \E f : Starts(f)
  <2>1. PICK N \in Nat : N = n + 1
    OBVIOUS
  <2> DEFINE step == [x \in (1..N) \X Nat |-> IF x[1] = 1 THEN 0 ELSE x[2] + l[x[1] - 1]]
  <2>2. step \in [(1..N) \X Nat -> Nat]
    <3> SUFFICES ASSUME NEW j \in 1..N, NEW v \in Nat, j # 1 PROVE v + l[j - 1] \in Nat
      OBVIOUS
    <3>1. j - 1 \in 1..Len(l)
      BY <1>1, <2>1
    <3>2. l[j - 1] \in Nat
      BY <3>1
    <3> QED BY <3>2
  <2>3. \A j \in 1..N, v \in Nat : j # 1 => step[<<j, v>>] = v + l[j - 1]
    OBVIOUS
  <2> HIDE DEF step
  <2>4. PICK f \in [1..N -> Nat] : Follows(f, N, 0, step)
    <3>1. 0 \in Nat
      OBVIOUS
    <3> QED BY <2>2, <3>1, RecursiveList
  <2>5. \A i \in 1..N : i # 1 => step[<<i, f[i - 1]>>] = f[i - 1] + l[i - 1]
    <3> TAKE i \in 1..N
    <3> HAVE i # 1
    <3>1. i - 1 \in 1..N
      OBVIOUS
    <3> QED BY <2>3, <3>1
  <2>6. f = [i \in 1..n + 1 |-> IF i = 1 THEN 0 ELSE f[i - 1] + l[i - 1]]
    BY ZenonT(60), <2>1, <2>4, <2>5 DEF Follows
  <2> QED BY <2>6
<1>3. Starts(start)
  <2> HIDE DEF Starts
  <2> QED BY <1>2
<1>4. \A i : Offset(l, i) = start[i]
  BY <1>1 DEF Offset
<1>5. /\ start[1] = 0
      /\ \A i \in 1..n : start[i + 1] = start[i] + l[i]
  <2> HIDE DEF start
  <2>1. \A j \in 1..n + 1 : start[j] = IF j = 1 THEN 0 ELSE start[j - 1] + l[j - 1]
    BY <1>3
  <2>2. 1 \in 1..n + 1
    OBVIOUS
  <2>3. \A i \in 1..n : i + 1 \in 1..n + 1 /\ i + 1 # 1 /\ (i + 1) - 1 = i
    OBVIOUS
  <2> HIDE DEF Starts
  <2> QED BY <2>1, <2>2, <2>3
<1> HIDE DEF start
<1> DEFINE S == {m \in Nat : m <= n => start[m + 1] \in Nat}
<1>6. Nat \subseteq S
  <2>1. 0 \in S
    BY <1>5
  <2>2. \A m \in Nat : m \in S => m + 1 \in S
    <3> TAKE m \in Nat
    <3> HAVE m \in S
    <3>1. ASSUME m + 1 <= n PROVE start[m + 1 + 1] \in Nat
      <4>1. m + 1 \in 1..Len(l) /\ start[m + 1] \in Nat
        BY <1>1, <3>1
      <4>2. l[m + 1] \in Nat
        BY <4>1
      <4>3. start[m + 1 + 1] = start[m + 1] + l[m + 1]
        BY <1>1, <1>5, <4>1
      <4> QED BY <4>1, <4>2, <4>3
    <3> QED BY <3>1
  <2> HIDE DEF S
  <2> QED BY <2>1, <2>2, Induction
<1>7. \A i \in 1..n + 1 : start[i] \in Nat
  <2> TAKE i \in 1..n + 1
  <2>1. i - 1 \in Nat /\ i - 1 <= n /\ (i - 1) + 1 = i
    OBVIOUS
  <2>2. i - 1 \in S
    BY <1>6, <2>1
  <2> QED BY <2>1, <2>2
<1> QED BY <1>1, <1>4, <1>5, <1>7

(* What flattening adds up: the lists one after the other.                 *)
Joins(h, ss, n) ==
  /\ h[0] = <<>> /\ h[n] = FlattenSeq(ss)
  /\ \A i \in 1..n : h[i] = h[i - 1] \o ss[i]

LEMMA FlattenFolds ==
  ASSUME NEW S, NEW ss \in Seq(Seq(S)), NEW n \in Nat, n = Len(ss)
  PROVE  \E h \in [0..n -> Seq(S)] : Joins(h, ss, n)
<1>1. CASE n = 0
  <2>1. ss = <<>>
    BY <1>1, EmptySeq
  <2>2. FlattenSeq(ss) = <<>>
    BY <2>1 DEF FlattenSeq
  <2> DEFINE h == [i \in 0..0 |-> <<>>]
  <2>3. h \in [0..0 -> Seq(S)] /\ h[0] = <<>>
    OBVIOUS
  <2>4. \A i \in 1..0 : FALSE
    OBVIOUS
  <2> HIDE DEF h
  <2> QED BY <1>1, <2>2, <2>3, <2>4 DEF Joins
<1>2. CASE n # 0
  <2> DEFINE Flattens(f) == f = [i \in 1..n |-> IF i = 1 THEN ss[i] ELSE f[i - 1] \o ss[i]]
             g == CHOOSE f : Flattens(f)
             step == [x \in (1..n) \X Seq(S) |-> x[2] \o ss[x[1]]]
  <2>1. \A i \in 1..n : ss[i] \in Seq(S)
    OBVIOUS
  <2>2. step \in [(1..n) \X Seq(S) -> Seq(S)]
    <3> SUFFICES ASSUME NEW i \in 1..n, NEW v \in Seq(S) PROVE v \o ss[i] \in Seq(S)
      OBVIOUS
    <3> QED BY <2>1
  <2>3. \A i \in 1..n, v \in Seq(S) : step[<<i, v>>] = v \o ss[i]
    OBVIOUS
  <2>4. ss[1] \in Seq(S)
    BY <1>2, <2>1
  <2> HIDE DEF step
  <2>5. PICK f \in [1..n -> Seq(S)] : Follows(f, n, ss[1], step)
    BY <2>2, <2>4, RecursiveList
  <2>6. \A i \in 1..n : i # 1 => f[i - 1] \in Seq(S)
    <3> TAKE i \in 1..n
    <3> HAVE i # 1
    <3>1. i - 1 \in 1..n
      OBVIOUS
    <3> QED BY <3>1
  <2>7. \A i \in 1..n : f[i] = IF i = 1 THEN ss[i] ELSE f[i - 1] \o ss[i]
    BY <2>3, <2>5, <2>6 DEF Follows
  <2>8. Flattens(f)
    BY <2>7
  <2>9. Flattens(g)
    <3> HIDE DEF Flattens
    <3> QED BY <2>8
  <2>10. FlattenSeq(ss) = g[n]
    BY <1>2 DEF FlattenSeq
  <2> HIDE DEF g
  <2>11. \A i \in 1..n : g[i] = IF i = 1 THEN ss[i] ELSE g[i - 1] \o ss[i]
    BY <2>9
  <2> HIDE DEF Flattens
  <2> DEFINE T == {m \in Nat : m + 1 <= n => g[m + 1] \in Seq(S)}
  <2>12. Nat \subseteq T
    <3>1. 0 \in T
      <4>1. 1 \in 1..n
        BY <1>2
      <4> QED BY <2>4, <2>11, <4>1
    <3>2. \A m \in Nat : m \in T => m + 1 \in T
      <4> TAKE m \in Nat
      <4> HAVE m \in T
      <4>1. ASSUME m + 1 + 1 <= n PROVE g[m + 1 + 1] \in Seq(S)
        <5>1. m + 2 \in 1..n /\ m + 2 # 1 /\ m + 1 + 1 = m + 2 /\ (m + 2) - 1 = m + 1
          BY <4>1
        <5>2. g[m + 1] \in Seq(S)
          BY <4>1
        <5>3. g[m + 2] = g[(m + 2) - 1] \o ss[m + 2]
          BY <2>11, <5>1
        <5>4. ss[m + 2] \in Seq(S)
          BY <2>1, <5>1
        <5>5. g[m + 1] \o ss[m + 2] \in Seq(S)
          BY <5>2, <5>4, ConcatProperties
        <5>6. g[m + 2] = g[m + 1] \o ss[m + 2]
          BY <5>1, <5>3
        <5> QED BY <5>1, <5>5, <5>6
      <4> QED BY <4>1
    <3> HIDE DEF T
    <3> QED BY <3>1, <3>2, Induction
  <2>13. \A i \in 1..n : g[i] \in Seq(S)
    <3> TAKE i \in 1..n
    <3>1. i - 1 \in Nat /\ (i - 1) + 1 = i
      OBVIOUS
    <3>2. i - 1 \in T
      BY <2>12, <3>1
    <3> QED BY <3>1, <3>2
  <2> HIDE DEF T
  <2> DEFINE h == [i \in 0..n |-> IF i = 0 THEN <<>> ELSE g[i]]
  <2>14. h \in [0..n -> Seq(S)]
    <3>1. \A i \in 0..n : i = 0 \/ i \in 1..n
      OBVIOUS
    <3>2. <<>> \in Seq(S)
      OBVIOUS
    <3> QED BY <2>13, <3>1, <3>2
  <2>15. h[0] = <<>> /\ h[n] = FlattenSeq(ss)
    <3>1. 0 \in 0..n /\ n \in 0..n
      OBVIOUS
    <3> QED BY <1>2, <2>10, <3>1
  <2>16. \A i \in 1..n : h[i] = h[i - 1] \o ss[i]
    <3> TAKE i \in 1..n
    <3>1. i \in 0..n /\ i - 1 \in 0..n /\ i # 0
      OBVIOUS
    <3>2. CASE i = 1
      <4>1. h[i] = ss[i] /\ h[i - 1] = <<>>
        BY <2>11, <3>1, <3>2
      <4> HIDE DEF h
      <4> QED BY <2>1, <4>1
    <3>3. CASE i # 1
      <4>1. h[i] = g[i] /\ h[i - 1] = g[i - 1]
        BY <3>1, <3>3
      <4> QED BY <2>11, <3>3, <4>1
    <3> QED BY <3>2, <3>3
  <2> HIDE DEF h
  <2> QED BY <2>14, <2>15, <2>16 DEF Joins
<1> QED BY <1>1, <1>2

(* The m entries of a and then the n of b.                                 *)
Joined(c, a, b, m, n) ==
  /\ Len(c) = m + n
  /\ \A x \in 1..m : c[x] = a[x]
  /\ \A k \in 1..n : c[m + k] = b[k]
  /\ \A x \in 1..m + n : x \in 1..m \/ \E k \in 1..n : x = m + k

LEMMA ConcatJoins ==
  ASSUME NEW S, NEW a \in Seq(S), NEW b \in Seq(S), NEW m, m = Len(a), NEW n, n = Len(b)
  PROVE  a \o b \in Seq(S) /\ Joined(a \o b, a, b, m, n)
<1>0. m \in Nat /\ n \in Nat
  OBVIOUS
<1>1. /\ a \o b \in Seq(S) /\ Len(a \o b) = m + n
      /\ \A x \in 1..m + n : (a \o b)[x] = IF x <= m THEN a[x] ELSE b[x - m]
  BY ConcatProperties
<1>2. \A x \in 1..m : x \in 1..m + n /\ x <= m
  BY <1>0
<1>3. \A k \in 1..n : m + k \in 1..m + n /\ ~(m + k <= m) /\ (m + k) - m = k
  BY <1>0
<1>4. \A x \in 1..m + n : x \in 1..m \/ (x - m \in 1..n /\ x = m + (x - m))
  BY <1>0
<1>5. \A x \in 1..m + n : x \in 1..m \/ \E k \in 1..n : x = m + k
  BY <1>4
<1>6. (\A x \in 1..m : (a \o b)[x] = a[x]) /\ \A k \in 1..n : (a \o b)[m + k] = b[k]
  BY <1>1, <1>2, <1>3
<1> QED BY <1>1, <1>5, <1>6 DEF Joined

(* t is in s behind o entries.                                             *)
StandsAt(t, s, o) == \A k \in 1..Len(t) : o + k \in 1..Len(s) /\ s[o + k] = t[k]

(* A run is what can be found from its offset on.                          *)
LEMMA RunIs ==
  ASSUME NEW S, NEW s \in Seq(S), NEW t \in Seq(S), NEW l, NEW i,
         Offset(l, i) \in Nat, l[i] = Len(t), StandsAt(t, s, Offset(l, i))
  PROVE  Run(s, l, i) = t
<1>1. PICK p \in Nat : p = Offset(l, i)
  OBVIOUS
<1>2. PICK q \in Nat : q = Len(t)
  OBVIOUS
<1> DEFINE run == SubSeq(s, p + 1, p + q)
<1>3. Run(s, l, i) = run
  BY <1>1, <1>2 DEF Run
<1>4. \A k \in 1..q : p + k \in 1..Len(s) /\ s[p + k] = t[k]
  BY <1>1, <1>2 DEF StandsAt
<1>5. \A x \in p + 1..p + q : s[x] \in S
  <2> TAKE x \in p + 1..p + q
  <2>1. x - p \in 1..q /\ p + (x - p) = x
    OBVIOUS
  <2>2. x \in 1..Len(s)
    BY <1>4, <2>1
  <2> QED BY <2>2, ElementOfSeq
<1>6. /\ run \in Seq(S)
      /\ Len(run) = IF p + 1 <= p + q THEN (p + q) - (p + 1) + 1 ELSE 0
      /\ \A k \in 1..(p + q) - (p + 1) + 1 : run[k] = s[(p + 1) + k - 1]
  BY <1>5, SubSeqProperties
<1>7. (p + q) - (p + 1) + 1 = q /\ (IF p + 1 <= p + q THEN q ELSE 0) = q
  OBVIOUS
<1>8. \A k \in 1..q : (p + 1) + k - 1 = p + k
  OBVIOUS
<1> HIDE DEF run
<1>9. run \in Seq(S) /\ Len(run) = q /\ \A k \in 1..q : run[k] = t[k]
  BY <1>4, <1>6, <1>7, <1>8
<1>10. run = t
  BY <1>2, <1>9, SeqEqual
<1> QED BY <1>3, <1>10

LEMMA Prefix ==
  ASSUME NEW S, NEW s \in Seq(S), NEW u \in Nat, u <= Len(s)
  PROVE  /\ SubSeq(s, 1, u) \in Seq(S) /\ Len(SubSeq(s, 1, u)) = u
         /\ \A i \in 1..u : SubSeq(s, 1, u)[i] = s[i]
<1> DEFINE top == SubSeq(s, 1, u)
<1>1. \A i \in 1..u : s[i] \in S
  <2>1. \A i \in 1..u : i \in 1..Len(s)
    <3>1. PICK n \in Nat : n = Len(s)
      OBVIOUS
    <3> QED BY <3>1
  <2> QED BY <2>1, ElementOfSeq
<1>2. /\ top \in Seq(S)
      /\ Len(top) = IF 1 <= u THEN u - 1 + 1 ELSE 0
      /\ \A i \in 1..u - 1 + 1 : top[i] = s[1 + i - 1]
  BY <1>1, SubSeqProperties
<1> HIDE DEF top
<1>3. u - 1 + 1 = u /\ (IF 1 <= u THEN u ELSE 0) = u /\ \A i \in 1..u : 1 + i - 1 = i
  OBVIOUS
<1>4. top \in Seq(S) /\ Len(top) = u /\ \A i \in 1..u : top[i] = s[i]
  BY <1>2, <1>3
<1> QED BY <1>4 DEF top

(* Cutting a flattened list by the lengths of what it was made of gives    *)
(* that back, and there is nothing else in it.                             *)
LEMMA FlattenRuns ==
  ASSUME NEW S, NEW ss \in Seq(Seq(S)), NEW l \in Seq(Nat), Len(l) = Len(ss),
         \A i \in 1..Len(ss) : l[i] = Len(ss[i])
  PROVE  /\ FlattenSeq(ss) \in Seq(S)
         /\ Len(FlattenSeq(ss)) = Offset(l, Len(l) + 1)
         /\ \A i \in 1..Len(ss) : Run(FlattenSeq(ss), l, i) = ss[i]
         /\ \A i \in 1..Len(ss) : StandsAt(ss[i], FlattenSeq(ss), Offset(l, i))
         /\ \A x \in 1..Len(FlattenSeq(ss)) :
              \E i \in 1..Len(ss) : \E k \in 1..Len(ss[i]) : FlattenSeq(ss)[x] = ss[i][k]
<1>1. PICK n \in Nat : n = Len(ss)
  OBVIOUS
<1>2. PICK h \in [0..n -> Seq(S)] : Joins(h, ss, n)
  BY <1>1, FlattenFolds
<1>0. h[0] = <<>> /\ h[n] = FlattenSeq(ss) /\ \A i \in 1..n : h[i] = h[i - 1] \o ss[i]
  BY <1>2 DEF Joins
<1> DEFINE o == [i \in 1..n + 1 |-> Offset(l, i)]
<1>3. /\ o \in [1..n + 1 -> Nat] /\ o[1] = 0
      /\ \A i \in 1..n : o[i + 1] = o[i] + Len(ss[i]) /\ l[i] = Len(ss[i])
      /\ \A i \in 1..n : Offset(l, i) = o[i]
      /\ Offset(l, Len(l) + 1) = o[n + 1]
  <2>1. \A i \in 1..n + 1 : Offset(l, i) \in Nat
    BY <1>1, OffsetProperties
  <2>2. \A i \in 1..n : i \in 1..n + 1 /\ i + 1 \in 1..n + 1
    OBVIOUS
  <2>3. \A i \in 1..n : Offset(l, i + 1) = Offset(l, i) + Len(ss[i])
    BY <1>1, OffsetProperties
  <2>4. o[1] = 0
    BY OffsetProperties
  <2>5. n + 1 \in 1..n + 1
    OBVIOUS
  <2> QED BY <1>1, <2>1, <2>2, <2>3, <2>4, <2>5
<1> HIDE DEF o
<1>4. \A i \in 1..n : ss[i] \in Seq(S) /\ Len(ss[i]) \in Nat
  BY <1>1
<1> DEFINE Placed(m) == \A i \in 1..m : \A k \in 1..Len(ss[i]) :
                          o[i] + k \in 1..Len(h[m]) /\ h[m][o[i] + k] = ss[i][k]
           Covered(m) == \A x \in 1..Len(h[m]) :
                           \E i \in 1..m : \E k \in 1..Len(ss[i]) : h[m][x] = ss[i][k]
           T == {m \in Nat : m <= n => Len(h[m]) = o[m + 1] /\ Placed(m) /\ Covered(m)}
<1>5. 0 \in T
  <2>1. Len(h[0]) = 0 /\ 1..0 = {}
    BY <1>0
  <2>2. Placed(0) /\ Covered(0)
    BY <2>1
  <2> QED BY <1>3, <2>1, <2>2
<1>6. ASSUME NEW m \in Nat, m + 1 <= n, Len(h[m]) = o[m + 1], Placed(m), Covered(m)
      PROVE  Len(h[m + 1]) = o[m + 1 + 1] /\ Placed(m + 1) /\ Covered(m + 1)
  <2>1. m \in 0..n /\ m + 1 \in 1..n /\ m + 1 \in 0..n /\ (m + 1) - 1 = m
    BY <1>6
  <2> DEFINE a == h[m]
             b == ss[m + 1]
             c == a \o b
  <2>2. a \in Seq(S) /\ b \in Seq(S)
    BY <1>4, <2>1
  <2>3. h[m + 1] = c
    BY <1>0, <2>1
  <2>4. PICK p \in Nat : p = Len(a)
    BY <2>2
  <2>5. PICK q \in Nat : q = Len(b)
    BY <2>2
  <2>51. /\ Len(c) = p + q
         /\ \A x \in 1..p : c[x] = a[x]
         /\ \A k \in 1..q : c[p + k] = b[k]
         /\ \A x \in 1..p + q : x \in 1..p \/ \E k \in 1..q : x = p + k
    <3> HIDE DEF a, b
    <3>1. Joined(a \o b, a, b, p, q)
      BY <2>2, <2>4, <2>5, ConcatJoins
    <3> QED BY <3>1 DEF Joined
  <2>52. /\ \A i \in 1..m : \A k \in 1..Len(ss[i]) :
              o[i] + k \in 1..p /\ a[o[i] + k] = ss[i][k]
         /\ \A x \in 1..p : \E i \in 1..m : \E k \in 1..Len(ss[i]) : a[x] = ss[i][k]
    BY <1>6, <2>4
  <2>53. ss[m + 1] = b /\ o[m + 1] = p
    BY <1>6, <2>4
  <2> HIDE DEF a, b, c
  <2>7. Len(h[m + 1]) = o[m + 1 + 1]
    BY <1>3, <2>1, <2>3, <2>5, <2>51, <2>53
  <2>8. \A i \in 1..m + 1 : i \in 1..m \/ i = m + 1
    OBVIOUS
  <2>9. \A i \in 1..m + 1 : \A k \in 1..Len(ss[i]) :
          o[i] + k \in 1..p + q /\ c[o[i] + k] = ss[i][k]
    <3> TAKE i \in 1..m + 1
    <3> TAKE k \in 1..Len(ss[i])
    <3>1. CASE i \in 1..m
      <4>1. o[i] + k \in 1..p /\ a[o[i] + k] = ss[i][k]
        BY <2>52, <3>1
      <4>2. \A x \in 1..p : x \in 1..p + q
        OBVIOUS
      <4> QED BY <2>51, <4>1, <4>2
    <3>2. CASE i = m + 1
      <4>1. k \in 1..q /\ o[i] = p /\ ss[i] = b
        BY <2>5, <2>53, <3>2
      <4>2. p + k \in 1..p + q
        BY <4>1
      <4> QED BY <2>51, <4>1, <4>2
    <3> QED BY <2>8, <3>1, <3>2
  <2>10. \A x \in 1..p + q : \E i \in 1..m + 1 : \E k \in 1..Len(ss[i]) : c[x] = ss[i][k]
    <3> TAKE x \in 1..p + q
    <3>1. CASE x \in 1..p
      <4>1. PICK i \in 1..m : \E k \in 1..Len(ss[i]) : a[x] = ss[i][k]
        BY <2>52, <3>1
      <4>2. i \in 1..m + 1 /\ c[x] = a[x]
        BY <2>51, <3>1
      <4> QED BY <4>1, <4>2
    <3>2. ASSUME NEW k \in 1..q, x = p + k
          PROVE  \E i \in 1..m + 1 : \E j \in 1..Len(ss[i]) : c[x] = ss[i][j]
      <4>1. c[x] = b[k]
        BY <2>51, <3>2
      <4>2. k \in 1..Len(ss[m + 1]) /\ m + 1 \in 1..m + 1 /\ b[k] = ss[m + 1][k]
        BY <2>5, <2>53
      <4> QED BY <4>1, <4>2
    <3> QED BY <2>51, <3>1, <3>2
  <2> QED BY <2>3, <2>51, <2>7, <2>9, <2>10
<1> HIDE DEF Placed, Covered
<1>7. Nat \subseteq T
  <2>1. \A m \in Nat : m \in T => m + 1 \in T
    <3> TAKE m \in Nat
    <3> HAVE m \in T
    <3>1. m + 1 <= n => m <= n
      OBVIOUS
    <3> QED BY <1>6, <3>1
  <2> HIDE DEF T
  <2> QED BY <1>5, <2>1, Induction
<1>8. Len(h[n]) = o[n + 1] /\ Placed(n) /\ Covered(n)
  BY <1>7
<1>9. \A i \in 1..n : Run(h[n], l, i) = ss[i]
  <2> TAKE i \in 1..n
  <2>1. h[n] \in Seq(S) /\ ss[i] \in Seq(S) /\ Offset(l, i) \in Nat /\ l[i] = Len(ss[i])
    BY SMTT(30), <1>2, <1>3, <1>4
  <2>2. StandsAt(ss[i], h[n], Offset(l, i))
    BY <1>3, <1>8 DEF Placed, StandsAt
  <2>3. PICK s \in Seq(S) : s = h[n]
    BY <2>1
  <2>4. PICK t \in Seq(S) : t = ss[i]
    BY <2>1
  <2>5. Offset(l, i) \in Nat /\ l[i] = Len(t) /\ StandsAt(t, s, Offset(l, i))
    BY <2>1, <2>2, <2>3, <2>4
  <2>6. Run(s, l, i) = t
    BY <2>5, RunIs
  <2> QED BY <2>3, <2>4, <2>6
<1>11. h[n] \in Seq(S)
  BY <1>2
<1>12. \A x \in 1..Len(h[n]) : \E i \in 1..n : \E k \in 1..Len(ss[i]) : h[n][x] = ss[i][k]
  BY <1>8 DEF Covered
<1>13. \A i \in 1..n : StandsAt(ss[i], h[n], Offset(l, i))
  BY <1>3, <1>8 DEF Placed, StandsAt
<1>14. Len(h[n]) = Offset(l, Len(l) + 1)
  BY <1>3, <1>8
<1> QED BY <1>0, <1>1, <1>9, <1>11, <1>12, <1>13, <1>14

(* A list made of the lists ss[i] with i in I, and what cuts it into them. *)
IsCut(flat, cut, S, ss, I) ==
  /\ cut \in Seq(Nat) /\ Len(cut) = Cardinality(I)
  /\ flat \in Seq(S) /\ Len(flat) = Offset(cut, Len(cut) + 1)
  /\ \A n \in 1..Cardinality(I) : Nth(I, n) \in I /\ Run(flat, cut, n) = ss[Nth(I, n)]
  /\ \A x \in 1..Len(flat) : \E i \in I : \E k \in 1..Len(ss[i]) : flat[x] = ss[i][k]
  /\ \A i \in I : \A k \in 1..Len(ss[i]) : \E x \in 1..Len(flat) : flat[x] = ss[i][k]

(* Taking some of the runs of a list and their lengths takes a list with   *)
(* run lengths of its own.                                                 *)
LEMMA PartRuns ==
  ASSUME NEW S, NEW ss \in Seq(Seq(S)), NEW l \in Seq(Nat), Len(l) = Len(ss),
         \A i \in 1..Len(ss) : l[i] = Len(ss[i]), NEW I \in SUBSET DOMAIN ss
  PROVE  IsCut(FlattenSeq(At(ss, I)), At(l, I), S, ss, I)
<1>1. DOMAIN l = DOMAIN ss /\ DOMAIN ss = 1..Len(ss)
  OBVIOUS
<1>2. PICK c \in Nat : c = Cardinality(I)
  BY AtProperties
<1> DEFINE some == At(ss, I)
           lengths == At(l, I)
<1>3. /\ some \in Seq(Seq(S)) /\ Len(some) = c
      /\ \A n \in 1..c : Nth(I, n) \in I /\ some[n] = ss[Nth(I, n)]
      /\ \A i \in I : \E n \in 1..c : Nth(I, n) = i
  BY SMTT(30), <1>2, AtProperties
<1>4. /\ lengths \in Seq(Nat) /\ Len(lengths) = c
      /\ \A n \in 1..c : lengths[n] = l[Nth(I, n)]
  BY <1>1, <1>2, AtProperties
<1> HIDE DEF some, lengths
<1>5. \A n \in 1..c : lengths[n] = Len(some[n])
  BY <1>1, <1>3, <1>4
<1>6. /\ FlattenSeq(some) \in Seq(S)
      /\ Len(FlattenSeq(some)) = Offset(lengths, Len(lengths) + 1)
      /\ \A n \in 1..c : Run(FlattenSeq(some), lengths, n) = some[n]
      /\ \A n \in 1..c : StandsAt(some[n], FlattenSeq(some), Offset(lengths, n))
      /\ \A x \in 1..Len(FlattenSeq(some)) :
           \E n \in 1..c : \E k \in 1..Len(some[n]) : FlattenSeq(some)[x] = some[n][k]
  <2>1. Len(lengths) = Len(some) /\ \A n \in 1..Len(some) : lengths[n] = Len(some[n])
    BY <1>3, <1>4, <1>5
  <2>2. /\ FlattenSeq(some) \in Seq(S)
        /\ Len(FlattenSeq(some)) = Offset(lengths, Len(lengths) + 1)
        /\ \A n \in 1..Len(some) : Run(FlattenSeq(some), lengths, n) = some[n]
        /\ \A n \in 1..Len(some) : StandsAt(some[n], FlattenSeq(some), Offset(lengths, n))
        /\ \A x \in 1..Len(FlattenSeq(some)) :
             \E n \in 1..Len(some) : \E k \in 1..Len(some[n]) : FlattenSeq(some)[x] = some[n][k]
    BY ZenonT(60), <1>3, <1>4, <2>1, FlattenRuns
  <2> QED BY <1>3, <2>2
<1>7. \A x \in 1..Len(FlattenSeq(some)) :
        \E i \in I : \E k \in 1..Len(ss[i]) : FlattenSeq(some)[x] = ss[i][k]
  <2> TAKE x \in 1..Len(FlattenSeq(some))
  <2>1. PICK n \in 1..c : \E k \in 1..Len(some[n]) : FlattenSeq(some)[x] = some[n][k]
    BY <1>6
  <2>2. Nth(I, n) \in I /\ some[n] = ss[Nth(I, n)]
    BY <1>3
  <2> QED BY <2>1, <2>2
<1>8. \A n \in 1..c : Nth(I, n) \in I /\ Run(FlattenSeq(some), lengths, n) = ss[Nth(I, n)]
  BY <1>3, <1>6
<1>9. \A i \in I : \A k \in 1..Len(ss[i]) :
        \E x \in 1..Len(FlattenSeq(some)) : FlattenSeq(some)[x] = ss[i][k]
  <2> TAKE i \in I
  <2> TAKE k \in 1..Len(ss[i])
  <2>1. PICK n \in 1..c : some[n] = ss[i]
    BY <1>3
  <2>2. Offset(lengths, n) + k \in 1..Len(FlattenSeq(some))
        /\ FlattenSeq(some)[Offset(lengths, n) + k] = some[n][k]
    BY <1>6, <2>1 DEF StandsAt
  <2> QED BY <2>1, <2>2
<1>10. IsCut(FlattenSeq(some), lengths, S, ss, I)
  BY <1>2, <1>4, <1>6, <1>7, <1>8, <1>9 DEF IsCut
<1> QED BY <1>10 DEF some, lengths

-------------------------------------------------------------------------------
(* The elements of a set in a list.                                        *)

LEMMA SetToSeqsProperties ==
  ASSUME NEW S, IsFiniteSet(S), NEW s \in SetToSeqs(S)
  PROVE  /\ s \in Seq(S) /\ Len(s) = Cardinality(S) /\ Cardinality(S) \in Nat
         /\ \A i, j \in DOMAIN s : s[i] = s[j] => i = j
         /\ \A x \in S : \E i \in DOMAIN s : s[i] = x
<1>1. PICK n \in Nat : n = Cardinality(S)
  BY FS_CardinalityType
<1>2. s \in [1..n -> S] /\ \A i, j \in 1..n : i # j => s[i] # s[j]
  BY <1>1 DEF SetToSeqs
<1>3. s \in Injection(1..n, S)
  BY <1>2 DEF Injection, IsInjective
<1>4. IsFiniteSet(1..n) /\ Cardinality(1..n) = n
  <2>1. IsFiniteSet(1..n) /\ Cardinality(1..n) = IF 1 > n THEN 0 ELSE n - 1 + 1
    BY FS_Interval
  <2> QED BY <2>1
<1>5. s \in Surjection(1..n, S)
  BY <1>1, <1>3, <1>4, FS_Injection
<1>6. \A x \in S : \E i \in 1..n : s[i] = x
  BY <1>5 DEF Surjection
<1>7. s \in Seq(S) /\ Len(s) = n /\ DOMAIN s = 1..n
  BY <1>2
<1> QED BY <1>1, <1>2, <1>6, <1>7

LEMMA SetToSeqIsOne ==
  ASSUME NEW S, IsFiniteSet(S) PROVE SetToSeq(S) \in SetToSeqs(S)
<1>1. PICK n \in Nat : n = Cardinality(S)
  BY FS_CardinalityType
<1>2. ExistsBijection(1..n, S)
  BY <1>1, FS_CardinalityType
<1>3. PICK f \in Bijection(1..n, S) : TRUE
  BY <1>2 DEF ExistsBijection
<1>4. f \in [1..n -> S] /\ IsInjective(f)
  BY <1>3 DEF Bijection, Injection
<1>5. SetToSeq(S) \in [1..n -> S] /\ IsInjective(SetToSeq(S))
  BY <1>1, <1>4 DEF SetToSeq
<1>6. \A i, j \in 1..n : i # j => SetToSeq(S)[i] # SetToSeq(S)[j]
  BY <1>5 DEF IsInjective
<1> QED BY <1>1, <1>5, <1>6 DEF SetToSeqs

-------------------------------------------------------------------------------
(* The order of a list by value: its places are a permutation, because     *)
(* nothing shares its place and the places are as many as the entries.     *)

LEMMA FunctionIsList ==
  ASSUME NEW S, NEW n \in Nat, NEW f \in [1..n -> S] PROVE f \in Seq(S) /\ Len(f) = n
OBVIOUS

LEMMA Domain ==
  ASSUME NEW S, NEW s \in Seq(S), NEW n, n = Len(s)
  PROVE  /\ n \in Nat /\ DOMAIN s = 1..n /\ \A i \in 1..n : s[i] \in S
         /\ IsFiniteSet(1..n) /\ Cardinality(1..n) = n
<1>1. n \in Nat /\ DOMAIN s = 1..n /\ \A i \in 1..n : s[i] \in S
  OBVIOUS
<1>2. IsFiniteSet(1..n) /\ Cardinality(1..n) = IF 1 > n THEN 0 ELSE n - 1 + 1
  <2>1. 1 \in Int /\ n \in Int
    BY <1>1
  <2> QED BY <2>1, FS_Interval
<1>3. (IF 1 > n THEN 0 ELSE n - 1 + 1) = n
  BY <1>1
<1> QED BY <1>1, <1>2, <1>3

LEMMA AheadIsOrder ==
  ASSUME NEW s \in Seq(Int), NEW i \in DOMAIN s, NEW j \in DOMAIN s
  PROVE  /\ ~Ahead(s, i, i)
         /\ i # j => Ahead(s, i, j) \/ Ahead(s, j, i)
         /\ \A k \in DOMAIN s : Ahead(s, k, j) /\ Ahead(s, j, i) => Ahead(s, k, i)
<1>1. \A k \in DOMAIN s : s[k] \in Int /\ k \in Int
  OBVIOUS
<1> QED BY <1>1 DEF Ahead

LEMMA PlaceProperties ==
  ASSUME NEW s \in Seq(Int), NEW n, n = Len(s)
  PROVE  /\ \A i \in 1..n : Place(s, i) \in 1..n
         /\ \A i, j \in 1..n : Ahead(s, i, j) => Place(s, i) < Place(s, j)
         /\ \A i, j \in 1..n : Place(s, i) = Place(s, j) => i = j
<1> DEFINE ahead(i) == {j \in DOMAIN s : Ahead(s, j, i)}
<1>1. /\ n \in Nat /\ DOMAIN s = 1..n
      /\ IsFiniteSet(1..n) /\ Cardinality(1..n) = n
  BY Domain
<1>2. \A i : /\ ahead(i) \in SUBSET (1..n) /\ IsFiniteSet(ahead(i))
             /\ Cardinality(ahead(i)) \in Nat /\ Place(s, i) = 1 + Cardinality(ahead(i))
  <2> TAKE i
  <2>1. ahead(i) \in SUBSET (1..n) /\ Place(s, i) = 1 + Cardinality(ahead(i))
    BY <1>1 DEF Place
  <2> HIDE DEF ahead
  <2> QED BY <1>1, <2>1, FS_Subset, FS_CardinalityType
<1>3. ASSUME NEW i \in 1..n, NEW j \in 1..n, Ahead(s, i, j)
      PROVE  Place(s, i) < Place(s, j)
  <2>1. ahead(i) \in SUBSET ahead(j) /\ i \in ahead(j) /\ i \notin ahead(i)
    BY <1>1, <1>3, AheadIsOrder
  <2> HIDE DEF ahead
  <2>2. /\ Cardinality(ahead(i)) <= Cardinality(ahead(j))
        /\ Cardinality(ahead(i)) # Cardinality(ahead(j))
    BY <1>2, <2>1, FS_Subset
  <2> QED BY <1>2, <2>2
<1>4. ASSUME NEW i \in 1..n PROVE Place(s, i) \in 1..n
  <2>1. ahead(i) \in SUBSET (1..n) /\ ahead(i) # 1..n
    BY <1>1, <1>2, <1>4, AheadIsOrder
  <2> HIDE DEF ahead
  <2>2. Cardinality(ahead(i)) <= n /\ Cardinality(ahead(i)) # n
    BY <1>1, <2>1, FS_Subset
  <2> QED BY <1>1, <1>2, <2>2
<1>5. ASSUME NEW i \in 1..n, NEW j \in 1..n, Place(s, i) = Place(s, j) PROVE i = j
  <2>1. ~(Place(s, i) < Place(s, j)) /\ ~(Place(s, j) < Place(s, i))
    <3>1. PICK x \in 1..n : x = Place(s, i) /\ x = Place(s, j)
      BY <1>4, <1>5
    <3>2. ~(x < x)
      BY <1>1
    <3> QED BY <3>1, <3>2
  <2>2. ~Ahead(s, i, j) /\ ~Ahead(s, j, i)
    BY <1>3, <2>1
  <2> QED BY <1>1, <2>2, AheadIsOrder
<1> HIDE DEF ahead
<1> QED BY <1>3, <1>4, <1>5

(* What comes k-th and where it comes are each other's inverse, and the    *)
(* values fall.                                                            *)
LEMMA OrderProperties ==
  ASSUME NEW s \in Seq(Int), NEW n, n = Len(s)
  PROVE  /\ Order(s) \in Bijection(1..n, 1..n)
         /\ \A k \in 1..n : Order(s)[k] \in 1..n /\ Place(s, Order(s)[k]) = k
         /\ \A i \in 1..n : Place(s, i) \in 1..n /\ Order(s)[Place(s, i)] = i
         /\ \A k, l \in 1..n : k <= l => s[Order(s)[k]] >= s[Order(s)[l]]
<1> DEFINE place == [i \in 1..n |-> Place(s, i)]
           at == Order(s)
<1>1. /\ n \in Nat /\ DOMAIN s = 1..n /\ \A i \in 1..n : s[i] \in Int
      /\ IsFiniteSet(1..n)
  BY Domain
<1>2. /\ \A i \in 1..n : Place(s, i) \in 1..n
      /\ \A i, j \in 1..n : Ahead(s, i, j) => Place(s, i) < Place(s, j)
      /\ \A i, j \in 1..n : Place(s, i) = Place(s, j) => i = j
  BY PlaceProperties
<1>3. \A k \in 1..n : \E i \in 1..n : Place(s, i) = k
  <2>1. place \in Injection(1..n, 1..n)
    BY <1>2 DEF Injection, IsInjective
  <2>2. place \in Surjection(1..n, 1..n)
    <3> HIDE DEF place
    <3> QED BY <1>1, <2>1, FS_Injection
  <2> QED BY <2>2 DEF Surjection
<1>4. at = [k \in 1..n |-> CHOOSE i \in 1..n : Place(s, i) = k]
  BY <1>1 DEF Order
<1> HIDE DEF at, place
<1>5. \A k \in 1..n : at[k] \in 1..n /\ Place(s, at[k]) = k
  <2> TAKE k \in 1..n
  <2>1. at[k] = CHOOSE i \in 1..n : Place(s, i) = k
    BY <1>4
  <2> QED BY <1>3, <2>1
<1>6. \A i \in 1..n : at[Place(s, i)] = i
  <2> TAKE i \in 1..n
  <2>1. PICK k \in 1..n : k = Place(s, i)
    BY <1>2
  <2>2. at[k] \in 1..n /\ Place(s, at[k]) = Place(s, i)
    BY <1>5, <2>1
  <2> QED BY <1>2, <2>1, <2>2
<1>7. at \in Bijection(1..n, 1..n)
  <2>1. at \in [1..n -> 1..n]
    BY <1>4, <1>5
  <2>2. \A k, l \in 1..n : at[k] = at[l] => k = l
    BY <1>5
  <2>3. \A i \in 1..n : \E k \in 1..n : at[k] = i
    BY <1>2, <1>6
  <2> QED BY <2>1, <2>2, <2>3 DEF Bijection, Injection, Surjection, IsInjective
<1>8. ASSUME NEW k \in 1..n, NEW l \in 1..n, k <= l PROVE s[at[k]] >= s[at[l]]
  <2>1. at[k] \in 1..n /\ at[l] \in 1..n
    BY <1>5
  <2>2. s[at[k]] \in Int /\ s[at[l]] \in Int
    BY <1>1, <2>1
  <2>3. ~Ahead(s, at[l], at[k])
    <3>1. Place(s, at[k]) = k /\ Place(s, at[l]) = l
      BY <1>5
    <3>2. ~(l < k)
      BY <1>1, <1>8
    <3>3. Ahead(s, at[l], at[k]) => Place(s, at[l]) < Place(s, at[k])
      BY <1>2, <2>1
    <3> QED BY <3>1, <3>2, <3>3
  <2> QED BY <2>2, <2>3 DEF Ahead
<1> QED BY <1>2, <1>5, <1>6, <1>7, <1>8 DEF at

(* The values in descending order are those of the entries in order.       *)
LEMMA DescendingIsOrdered ==
  ASSUME NEW s \in Seq(Int), NEW n, n = Len(s)
  PROVE  Descending(s) = [k \in 1..n |-> s[Order(s)[k]]]
<1> DEFINE over(x) == {j \in 1..n : s[j] > x}
           reach(x) == {j \in 1..n : s[j] >= x}
           Fits(k, x) == Cardinality(over(x)) < k /\ Cardinality(reach(x)) >= k
<1>1. /\ n \in Nat /\ DOMAIN s = 1..n /\ \A i \in 1..n : s[i] \in Int
      /\ IsFiniteSet(1..n)
  BY Domain
<1>2. \A x : /\ IsFiniteSet(over(x)) /\ Cardinality(over(x)) \in Nat
             /\ IsFiniteSet(reach(x)) /\ Cardinality(reach(x)) \in Nat
  <2> TAKE x
  <2>1. over(x) \in SUBSET (1..n) /\ reach(x) \in SUBSET (1..n)
    OBVIOUS
  <2> HIDE DEF over, reach
  <2> QED BY <1>1, <2>1, FS_Subset, FS_CardinalityType
<1>3. ASSUME NEW k \in 1..n PROVE Fits(k, s[Order(s)[k]])
  <2>1. PICK i \in 1..n : i = Order(s)[k] /\ Place(s, i) = k
    BY OrderProperties
  <2> DEFINE ahead == {j \in 1..n : Ahead(s, j, i)}
  <2>2. k = 1 + Cardinality(ahead)
    BY <1>1, <2>1 DEF Place
  <2>3. /\ over(s[i]) \in SUBSET ahead /\ ahead \in SUBSET (1..n)
        /\ ahead \cup {i} \in SUBSET reach(s[i]) /\ i \notin ahead
    BY <1>1 DEF Ahead
  <2> HIDE DEF ahead, over, reach
  <2>4. IsFiniteSet(ahead)
    BY <1>1, <2>3, FS_Subset
  <2>5. Cardinality(ahead) \in Nat /\ Cardinality(over(s[i])) <= Cardinality(ahead)
    BY <2>3, <2>4, FS_Subset, FS_CardinalityType
  <2>6. Cardinality(ahead \cup {i}) = Cardinality(ahead) + 1
    BY <2>3, <2>4, FS_AddElement
  <2>7. Cardinality(ahead \cup {i}) <= Cardinality(reach(s[i]))
    BY <1>2, <2>3, FS_Subset
  <2>8. Fits(k, s[i])
    BY <1>2, <2>2, <2>5, <2>6, <2>7
  <2> QED BY <2>1, <2>8
<1>4. ASSUME NEW k \in 1..n, NEW x \in Int, NEW y \in Int, Fits(k, x), Fits(k, y), x > y
      PROVE  FALSE
  <2>1. reach(x) \in SUBSET over(y)
    BY <1>1, <1>4
  <2>2. Cardinality(reach(x)) <= Cardinality(over(y))
    <3> HIDE DEF over, reach
    <3> QED BY <1>2, <2>1, FS_Subset
  <2> HIDE DEF over, reach
  <2> QED BY <1>2, <1>4, <2>2
<1>5. Range(s) = {s[i] : i \in 1..n}
  BY <1>1 DEF Range
<1>6. Descending(s) = [k \in 1..n |-> CHOOSE x \in Range(s) : Fits(k, x)]
  BY <1>1 DEF Descending
<1> HIDE DEF Fits, over, reach
<1>7. ASSUME NEW k \in 1..n PROVE Descending(s)[k] = s[Order(s)[k]]
  <2>1. PICK v : v = s[Order(s)[k]]
    OBVIOUS
  <2>2. v \in Range(s) /\ Fits(k, v)
    BY <1>3, <1>5, <2>1, OrderProperties
  <2>3. Descending(s)[k] = CHOOSE x \in Range(s) : Fits(k, x)
    BY <1>6
  <2>4. PICK x : x = Descending(s)[k]
    OBVIOUS
  <2>5. x \in Range(s) /\ Fits(k, x)
    BY <2>2, <2>3, <2>4
  <2>6. x \in Int /\ v \in Int
    BY <1>1, <1>5, <2>2, <2>5
  <2>7. ~(x > v) /\ ~(v > x)
    BY <1>4, <2>2, <2>5, <2>6
  <2> QED BY <2>1, <2>4, <2>6, <2>7
<1>8. Descending(s) = [k \in 1..n |-> Descending(s)[k]]
  BY <1>6
<1> QED BY <1>7, <1>8

-------------------------------------------------------------------------------
(* Running totals.                                                         *)

LEMMA Entry ==
  ASSUME NEW S, NEW s \in Seq(S), NEW t \in Nat, t <= Len(s), NEW i \in 1..t
  PROVE  i \in 1..Len(s) /\ s[i] \in S
<1>1. PICK n \in Nat : n = Len(s)
  OBVIOUS
<1>2. i \in 1..n
  BY <1>1
<1> QED BY <1>1, <1>2

LEMMA OffsetStep ==
  ASSUME NEW a \in Seq(Nat), NEW t \in Nat, t <= Len(a), NEW j \in 1..t
  PROVE  \E o, v \in Nat : Offset(a, j) = o /\ a[j] = v /\ Offset(a, j + 1) = o + v
<1>1. j \in 1..Len(a) /\ a[j] \in Nat
  BY Entry
<1>2. j \in 1..Len(a) + 1
  BY <1>1
<1>3. Offset(a, j) \in Nat /\ Offset(a, j + 1) = Offset(a, j) + a[j]
  BY <1>1, <1>2, OffsetProperties
<1> QED BY <1>1, <1>3

(* What rises from each entry to the next rises.                           *)
LEMMA Rises ==
  ASSUME NEW n \in Nat, NEW f, \A i \in 0..n : f[i] \in Int,
         \A i \in 1..n : f[i - 1] <= f[i]
  PROVE  \A i, j \in 0..n : i <= j => f[i] <= f[j]
<1> DEFINE S == {d \in Nat : \A i \in 0..n : i + d <= n => f[i] <= f[i + d]}
<1>1. 0 \in S
  <2>1. \A i \in 0..n : f[i] <= f[i] /\ i + 0 = i
    OBVIOUS
  <2> QED BY <2>1
<1>2. \A d \in Nat : d \in S => d + 1 \in S
  <2> TAKE d \in Nat
  <2> HAVE d \in S
  <2>1. ASSUME NEW i \in 0..n, i + (d + 1) <= n PROVE f[i] <= f[i + (d + 1)]
    <3>1. PICK k \in 1..n : k = i + (d + 1)
      BY <2>1
    <3>2. k - 1 = i + d /\ i + d <= n /\ k - 1 \in 0..n /\ k \in 0..n
      BY <3>1
    <3>3. f[i] <= f[k - 1] /\ f[k - 1] <= f[k]
      BY <3>2
    <3>4. f[i] \in Int /\ f[k - 1] \in Int /\ f[k] \in Int
      BY <3>2
    <3>5. f[i] <= f[k]
      BY <3>3, <3>4
    <3> QED BY <3>1, <3>5
  <2> QED BY <2>1
<1>3. Nat \subseteq S
  <2> HIDE DEF S
  <2> QED BY <1>1, <1>2, Induction
<1>4. ASSUME NEW i \in 0..n, NEW j \in 0..n, i <= j PROVE f[i] <= f[j]
  <2>1. PICK d \in Nat : j = i + d
    <3>1. j - i \in Nat /\ j = i + (j - i)
      BY <1>4
    <3> QED BY <3>1
  <2>2. d \in S
    <3> HIDE DEF S
    <3> QED BY <1>3
  <2>3. i + d <= n
    BY <2>1
  <2> QED BY <2>1, <2>2, <2>3
<1> QED BY <1>4

LEMMA OffsetRises ==
  ASSUME NEW a \in Seq(Nat), NEW n, n = Len(a)
  PROVE  \A i, j \in 0..n : i <= j => Offset(a, i + 1) <= Offset(a, j + 1)
<1> DEFINE f == [i \in 0..n |-> Offset(a, i + 1)]
<1>1. n \in Nat
  OBVIOUS
<1>2. ASSUME NEW i \in 1..n PROVE \E o, v \in Nat : f[i - 1] = o /\ f[i] = o + v
  <2>1. n <= Len(a) /\ (i - 1) + 1 = i /\ i - 1 \in 0..n /\ i \in 0..n
    BY <1>1
  <2>2. \E o, v \in Nat : Offset(a, i) = o /\ a[i] = v /\ Offset(a, i + 1) = o + v
    BY <1>1, <2>1, OffsetStep
  <2> QED BY <2>1, <2>2
<1>3. f[0] = 0
  <2>1. 0 \in 0..n /\ 0 + 1 = 1
    BY <1>1
  <2> QED BY <2>1, OffsetProperties
<1>4. \A i \in 0..n : f[i] = Offset(a, i + 1)
  OBVIOUS
<1> HIDE DEF f
<1>5. \A i \in 0..n : f[i] \in Int
  <2> TAKE i \in 0..n
  <2>1. CASE i = 0
    BY <1>3, <2>1
  <2>2. CASE i # 0
    <3>1. i \in 1..n
      BY <1>1, <2>2
    <3>2. PICK o, v \in Nat : f[i] = o + v
      BY <1>2, <3>1
    <3> QED BY <3>2
  <2> QED BY <2>1, <2>2
<1>6. \A i \in 1..n : f[i - 1] <= f[i]
  <2> TAKE i \in 1..n
  <2>1. PICK o, v \in Nat : f[i - 1] = o /\ f[i] = o + v
    BY <1>2
  <2> QED BY <2>1
<1>7. \A i, j \in 0..n : i <= j => f[i] <= f[j]
  BY <1>1, <1>5, <1>6, Rises
<1> QED BY <1>4, <1>7

(* What grows by at least each entry bounds the total.                     *)
LEMMA OffsetBounded ==
  ASSUME NEW a \in Seq(Nat), NEW t \in Nat, t <= Len(a),
         NEW g, \A i \in 0..t : g[i] \in Nat, \A i \in 1..t : g[i - 1] + a[i] <= g[i]
  PROVE  Offset(a, t + 1) <= g[t]
<1> DEFINE S == {i \in Nat : i <= t => Offset(a, i + 1) <= g[i]}
<1>1. 0 \in S
  <2>1. 0 \in 0..t /\ 0 + 1 = 1
    OBVIOUS
  <2>2. PICK x \in Nat : x = g[0]
    BY <2>1
  <2>3. Offset(a, 0 + 1) = 0
    BY <2>1, OffsetProperties
  <2>4. Offset(a, 0 + 1) <= g[0]
    BY <2>2, <2>3
  <2> QED BY <2>4
<1>2. ASSUME NEW i \in Nat, i + 1 <= t, Offset(a, i + 1) <= g[i]
      PROVE  Offset(a, i + 1 + 1) <= g[i + 1]
  <2>1. PICK j \in 1..t : j = i + 1
    BY <1>2
  <2>2. PICK o, v \in Nat : Offset(a, j) = o /\ a[j] = v /\ Offset(a, j + 1) = o + v
    BY OffsetStep
  <2>3. j - 1 = i /\ i \in 0..t /\ j \in 0..t
    BY <1>2, <2>1
  <2>4. PICK x, y \in Nat : x = g[i] /\ y = g[j]
    BY <2>3
  <2>5. o <= x /\ x + v <= y
    <3>1. g[j - 1] + a[j] <= g[j]
      OBVIOUS
    <3> QED BY <1>2, <2>1, <2>2, <2>3, <2>4, <3>1
  <2>6. o + v <= y
    BY <2>5
  <2> QED BY <2>1, <2>2, <2>4, <2>6
<1>3. \A i \in Nat : i \in S => i + 1 \in S
  <2> TAKE i \in Nat
  <2> HAVE i \in S
  <2>1. i + 1 <= t => i <= t
    OBVIOUS
  <2> QED BY <1>2, <2>1
<1>4. Nat \subseteq S
  <2> HIDE DEF S
  <2> QED BY <1>1, <1>3, Induction
<1>5. t \in S
  BY <1>4
<1> QED BY <1>5

(* What grows by each entry is the total.                                  *)
LEMMA OffsetGrows ==
  ASSUME NEW a \in Seq(Nat), NEW t \in Nat, t <= Len(a),
         NEW g, g[0] = 0, \A i \in 1..t : g[i] = g[i - 1] + a[i]
  PROVE  Offset(a, t + 1) = g[t]
<1> DEFINE S == {i \in Nat : i <= t => Offset(a, i + 1) = g[i]}
<1>1. 0 \in S
  <2>1. 0 + 1 = 1
    OBVIOUS
  <2> QED BY <2>1, OffsetProperties
<1>2. ASSUME NEW i \in Nat, i + 1 <= t, Offset(a, i + 1) = g[i]
      PROVE  Offset(a, i + 1 + 1) = g[i + 1]
  <2>1. PICK j \in 1..t : j = i + 1
    BY <1>2
  <2>2. PICK o, v \in Nat : Offset(a, j) = o /\ a[j] = v /\ Offset(a, j + 1) = o + v
    BY OffsetStep
  <2>3. j - 1 = i
    BY <1>2, <2>1
  <2>4. g[j] = g[j - 1] + a[j]
    OBVIOUS
  <2> QED BY <1>2, <2>1, <2>2, <2>3, <2>4
<1>3. \A i \in Nat : i \in S => i + 1 \in S
  <2> TAKE i \in Nat
  <2> HAVE i \in S
  <2>1. i + 1 <= t => i <= t
    OBVIOUS
  <2> QED BY <1>2, <2>1
<1>4. Nat \subseteq S
  <2> HIDE DEF S
  <2> QED BY <1>1, <1>3, Induction
<1>5. t \in S
  BY <1>4
<1> QED BY <1>5

(* A list that its runs take up is cut into lists of their lengths.        *)
LEMMA RunLength ==
  ASSUME NEW S, NEW s \in Seq(S), NEW l \in Seq(Nat), Len(s) = Offset(l, Len(l) + 1),
         NEW i \in 1..Len(l)
  PROVE  Run(s, l, i) \in Seq(S) /\ Len(Run(s, l, i)) = l[i] /\ l[i] \in Nat
<1>1. PICK n \in Nat : n = Len(l)
  OBVIOUS
<1>2. PICK o, v \in Nat : Offset(l, i) = o /\ l[i] = v /\ Offset(l, i + 1) = o + v
  <2>1. i \in 1..n /\ n <= Len(l)
    BY <1>1
  <2> QED BY <2>1, OffsetStep
<1>3. Offset(l, i + 1) <= Offset(l, n + 1)
  <2>1. i \in 0..n /\ n \in 0..n /\ i <= n
    BY <1>1
  <2> QED BY <1>1, <2>1, OffsetRises
<1>4. PICK m \in Nat : m = Len(s)
  OBVIOUS
<1>5. o + v <= m
  BY <1>1, <1>2, <1>3, <1>4
<1> DEFINE run == SubSeq(s, o + 1, o + v)
<1>6. Run(s, l, i) = run
  BY <1>2 DEF Run
<1>7. \A x \in o + 1..o + v : s[x] \in S
  <2> TAKE x \in o + 1..o + v
  <2>1. x \in 1..Len(s)
    BY <1>4, <1>5
  <2> QED BY <2>1, ElementOfSeq
<1>8. run \in Seq(S) /\ Len(run) = IF o + 1 <= o + v THEN (o + v) - (o + 1) + 1 ELSE 0
  <2>1. o + 1 \in Int /\ o + v \in Int
    OBVIOUS
  <2> QED BY <1>7, <2>1, SubSeqProperties
<1>9. (IF o + 1 <= o + v THEN (o + v) - (o + 1) + 1 ELSE 0) = v
  OBVIOUS
<1> HIDE DEF run
<1> QED BY <1>2, <1>6, <1>8, <1>9

(* What is nowhere larger adds up to no more.                              *)
LEMMA OffsetBelow ==
  ASSUME NEW a \in Seq(Nat), NEW b \in Seq(Nat), NEW t \in Nat, t <= Len(a), t <= Len(b),
         \A i \in 1..t : a[i] <= b[i]
  PROVE  Offset(a, t + 1) <= Offset(b, t + 1)
<1> DEFINE S == {i \in Nat : i <= t => Offset(a, i + 1) <= Offset(b, i + 1)}
<1>1. 0 \in S
  BY OffsetProperties
<1>2. ASSUME NEW i \in Nat, i + 1 <= t, Offset(a, i + 1) <= Offset(b, i + 1)
      PROVE  Offset(a, i + 1 + 1) <= Offset(b, i + 1 + 1)
  <2>1. PICK j \in 1..t : j = i + 1
    BY <1>2
  <2>2. PICK o, v \in Nat : Offset(a, j) = o /\ a[j] = v /\ Offset(a, j + 1) = o + v
    BY OffsetStep
  <2>3. PICK q, w \in Nat : Offset(b, j) = q /\ b[j] = w /\ Offset(b, j + 1) = q + w
    BY OffsetStep
  <2>4. o <= q /\ v <= w
    BY <1>2, <2>1, <2>2, <2>3
  <2>5. o + v <= q + w
    BY <2>4
  <2> QED BY <2>1, <2>2, <2>3, <2>5
<1>3. \A i \in Nat : i \in S => i + 1 \in S
  <2> TAKE i \in Nat
  <2> HAVE i \in S
  <2>1. i + 1 <= t => i <= t
    OBVIOUS
  <2> QED BY <1>2, <2>1
<1>4. Nat \subseteq S
  <2> HIDE DEF S
  <2> QED BY <1>1, <1>3, Induction
<1>5. t \in S
  BY <1>4
<1> QED BY <1>5

(* Replacing one entry changes the total by the difference.                *)
LEMMA OffsetReplaced ==
  ASSUME NEW a \in Seq(Nat), NEW b \in Seq(Nat), NEW t \in Nat, t <= Len(a), t <= Len(b),
         NEW m \in 1..t, \A i \in 1..t : i # m => a[i] = b[i]
  PROVE  Offset(a, t + 1) + b[m] = Offset(b, t + 1) + a[m]
<1> DEFINE Same(i) == IF i < m THEN Offset(a, i + 1) = Offset(b, i + 1)
                      ELSE Offset(a, i + 1) + b[m] = Offset(b, i + 1) + a[m]
           S == {i \in Nat : i <= t => Same(i)}
<1>1. PICK x, y \in Nat : a[m] = x /\ b[m] = y
  BY Entry
<1>2. 0 \in S
  BY OffsetProperties
<1>3. ASSUME NEW i \in Nat, i + 1 <= t, Same(i) PROVE Same(i + 1)
  <2>1. PICK j \in 1..t : j = i + 1
    BY <1>3
  <2>2. PICK o, v \in Nat : Offset(a, j) = o /\ a[j] = v /\ Offset(a, j + 1) = o + v
    BY OffsetStep
  <2>3. PICK q, w \in Nat : Offset(b, j) = q /\ b[j] = w /\ Offset(b, j + 1) = q + w
    BY OffsetStep
  <2>4. (j # m => v = w) /\ (j = m => v = x /\ w = y)
    BY <1>1, <2>2, <2>3
  <2>5. IF i < m THEN o = q ELSE o + y = q + x
    BY <1>1, <1>3, <2>1, <2>2, <2>3
  <2>6. IF j < m THEN o + v = q + w ELSE (o + v) + y = (q + w) + x
    <3>1. m \in Nat /\ j \in Nat
      OBVIOUS
    <3>2. CASE j < m
      <4>1. o = q /\ v = w
        BY <2>1, <2>4, <2>5, <3>1, <3>2
      <4> QED BY <3>2, <4>1
    <3>3. CASE j = m
      <4>1. o = q /\ v = x /\ w = y /\ ~(j < m)
        BY <2>1, <2>4, <2>5, <3>1, <3>3
      <4> QED BY <4>1
    <3>4. CASE j > m
      <4>1. o + y = q + x /\ v = w /\ ~(j < m)
        BY <2>1, <2>4, <2>5, <3>1, <3>4
      <4> QED BY <4>1
    <3> QED BY <3>1, <3>2, <3>3, <3>4
  <2> QED BY <1>1, <2>1, <2>2, <2>3, <2>6
<1> HIDE DEF Same
<1>4. \A i \in Nat : i \in S => i + 1 \in S
  <2> TAKE i \in Nat
  <2> HAVE i \in S
  <2>1. i + 1 <= t => i <= t
    OBVIOUS
  <2> QED BY <1>3, <2>1
<1>5. Nat \subseteq S
  <2> HIDE DEF S
  <2> QED BY <1>2, <1>4, Induction
<1>6. Same(t)
  BY <1>5
<1> QED BY <1>6 DEF Same

-------------------------------------------------------------------------------
(* Rearrangement.                                                          *)

(* Of t + 1 different positions, the furthest is behind the first t.       *)
LEMMA Furthest ==
  ASSUME NEW n \in Nat, NEW t \in Nat, NEW p \in [1..t + 1 -> 1..n],
         \A i, j \in 1..t + 1 : p[i] = p[j] => i = j
  PROVE  \E m \in 1..t + 1 : p[m] > t /\ \A i \in 1..t + 1 : p[m] >= p[i]
<1> DEFINE V == {p[i] : i \in 1..t + 1}
<1>1. V \subseteq 0..n /\ V # {}
  <2>1. 1 \in 1..t + 1
    OBVIOUS
  <2>2. p[1] \in V
    BY <2>1
  <2> QED BY <2>2
<1>2. Max(V) \in V /\ \A x \in V : Max(V) >= x
  <2> HIDE DEF V
  <2> QED BY <1>1, Greatest
<1>3. PICK m \in 1..t + 1 : p[m] = Max(V)
  BY <1>2
<1>4. \A i \in 1..t + 1 : p[m] >= p[i]
  BY <1>2, <1>3
<1> HIDE DEF V
<1>5. p[m] > t
  <2> SUFFICES ASSUME ~(p[m] > t) PROVE FALSE
    OBVIOUS
  <2>1. p \in [1..t + 1 -> 1..t]
    <3>1. \A i \in 1..t + 1 : p[i] \in 1..n /\ p[i] <= p[m] /\ p[m] \in 1..n
      BY <1>4
    <3>2. \A i \in 1..t + 1 : p[i] \in 1..t
      BY <3>1
    <3> QED BY <3>2
  <2>2. PICK u \in Nat : u = t + 1
    OBVIOUS
  <2>3. /\ IsFiniteSet(1..u) /\ Cardinality(1..u) = (IF 1 > u THEN 0 ELSE u - 1 + 1)
        /\ IsFiniteSet(1..t) /\ Cardinality(1..t) = (IF 1 > t THEN 0 ELSE t - 1 + 1)
    <3>1. 1 \in Int /\ u \in Int /\ t \in Int
      OBVIOUS
    <3> QED BY Zenon, <3>1, FS_Interval
  <2>4. Cardinality(1..t) < Cardinality(1..u)
    BY <2>2, <2>3
  <2>5. p \in [1..u -> 1..t]
    BY <2>1, <2>2
  <2>6. \E i, j \in 1..u : i # j /\ p[i] = p[j]
    BY <2>3, <2>4, <2>5, FS_PigeonHole
  <2> QED BY <2>2, <2>6
<1> QED BY <1>4, <1>5

(* The larger weight belongs to the larger value.                          *)
LEMMA Exchange ==
  ASSUME NEW u \in Nat, NEW v \in Nat, u >= v, NEW x \in Nat, NEW y \in Nat, y >= x
  PROVE  u * x + v * y <= u * y + v * x
<1>1. PICK d \in Nat : u = v + d
  <2>1. u - v \in Nat /\ u = v + (u - v)
    OBVIOUS
  <2> QED BY <2>1
<1>2. PICK e \in Nat : y = x + e
  <2>1. y - x \in Nat /\ y = x + (y - x)
    OBVIOUS
  <2> QED BY <2>1
<1>3. d * e \in Nat /\ v * x \in Nat /\ d * x \in Nat /\ v * e \in Nat
  OBVIOUS
<1>4. /\ u * x = v * x + d * x /\ v * y = v * x + v * e
      /\ u * y = v * x + v * e + d * x + d * e
  BY <1>1, <1>2
<1> QED BY <1>3, <1>4

(* The values at t positions, weighted by the order they are taken in.     *)
Weighted(w, z, p, t) == [i \in 1..t |-> w[i] * z[p[i]]]

Falls(w, t) == \A i, j \in 1..t : i <= j => w[i] >= w[j]

Different(p, t) == \A i, j \in 1..t : p[i] = p[j] => i = j

(* No choice of t of the n values is worth more than best.                 *)
NoBetter(w, z, n, best, t) ==
  \A p \in [1..t -> 1..n] :
    Different(p, t) => Offset(Weighted(w, z, p, t), t + 1) <= Offset(best, t + 1)

(* best is what the first u values are worth in their order.               *)
IsBest(best, w, u, z, n) ==
  /\ w \in [1..u -> Nat] /\ Falls(w, u)
  /\ z \in [1..n -> Nat] /\ Falls(z, n)
  /\ best \in Seq(Nat) /\ u <= Len(best)
  /\ \A i \in 1..u : best[i] = w[i] * z[i]

(* q is p with its last position given to m.                               *)
Gives(q, p, t, l, m) ==
  /\ Different(q, t)
  /\ \A i \in 1..t : q[i] = IF i = m THEN p[l] ELSE p[i]

IsWeighted(a, w, z, p, t) ==
  /\ a \in Seq(Nat) /\ Len(a) = t
  /\ \A i \in 1..t : a[i] = w[i] * z[p[i]]

LEMMA Product == ASSUME NEW x \in Nat, NEW y \in Nat PROVE x * y \in Nat
OBVIOUS

LEMMA WeightedList ==
  ASSUME NEW n \in Nat, NEW u \in Nat, NEW t \in Nat, t <= u,
         NEW w \in [1..u -> Nat], NEW z \in [1..n -> Nat], NEW p \in [1..t -> 1..n]
  PROVE  IsWeighted(Weighted(w, z, p, t), w, z, p, t)
<1>1. \A i \in 1..t : w[i] \in Nat /\ z[p[i]] \in Nat
  <2> TAKE i \in 1..t
  <2>1. i \in 1..u /\ p[i] \in 1..n
    OBVIOUS
  <2> QED BY <2>1
<1>2. \A i \in 1..t : w[i] * z[p[i]] \in Nat
  BY <1>1, Product
<1> DEFINE a == Weighted(w, z, p, t)
<1>3. a \in [1..t -> Nat] /\ \A i \in 1..t : a[i] = w[i] * z[p[i]]
  BY <1>2 DEF Weighted
<1> HIDE DEF a
<1>4. a \in Seq(Nat) /\ Len(a) = t
  BY <1>3, FunctionIsList
<1> QED BY <1>3, <1>4 DEF a, IsWeighted

(* The last of the positions takes the place of another, if there is one.  *)
LEMMA GivesPlace ==
  ASSUME NEW n \in Nat, NEW t \in Nat, NEW l \in Nat, l = t + 1,
         NEW p \in [1..l -> 1..n], Different(p, l), NEW m \in 1..l
  PROVE  \E q \in [1..t -> 1..n] : Gives(q, p, t, l, m)
<1> DEFINE q == [i \in 1..t |-> IF i = m THEN p[l] ELSE p[i]]
<1>1. l \in 1..l
  OBVIOUS
<1>2. \A i \in 1..t : i \in 1..l /\ i # l
  OBVIOUS
<1>3. \A i \in 1..l : p[i] \in 1..n
  OBVIOUS
<1>4. \A i \in 1..t : q[i] \in 1..n
  BY <1>1, <1>2, <1>3
<1>5. q \in [1..t -> 1..n] /\ \A i \in 1..t : q[i] = IF i = m THEN p[l] ELSE p[i]
  BY <1>4
<1> HIDE DEF q
<1>6. Different(q, t)
  BY <1>1, <1>2, <1>5 DEF Different
<1> QED BY <1>5, <1>6 DEF Gives

(* If no choice of t positions is worth more than the first t, then no     *)
(* choice of one more is: the furthest of them gives its place to the last.*)
LEMMA RearrangedStep ==
  ASSUME NEW n \in Nat, NEW u \in Nat, u <= n, NEW w, NEW z, NEW best,
         IsBest(best, w, u, z, n),
         NEW t \in Nat, NEW l \in Nat, l = t + 1, l <= u, NoBetter(w, z, n, best, t),
         NEW p \in [1..l -> 1..n], Different(p, l)
  PROVE  Offset(Weighted(w, z, p, l), l + 1) <= Offset(best, l + 1)
<1>1. PICK m \in 1..l : p[m] > t /\ \A i \in 1..l : p[m] >= p[i]
  <2>1. p \in [1..t + 1 -> 1..n] /\ \A i, j \in 1..t + 1 : p[i] = p[j] => i = j
    BY DEF Different
  <2>2. \E m \in 1..t + 1 : p[m] > t /\ \A i \in 1..t + 1 : p[m] >= p[i]
    BY <2>1, Furthest
  <2> QED BY <2>2
<1>2. PICK q \in [1..t -> 1..n] :
        /\ Different(q, t)
        /\ \A i \in 1..t : q[i] = IF i = m THEN p[l] ELSE p[i]
  <2>1. \E q \in [1..t -> 1..n] : Gives(q, p, t, l, m)
    BY GivesPlace
  <2> QED BY <2>1 DEF Gives
<1> DEFINE a == Weighted(w, z, p, l)
           b == Weighted(w, z, q, t)
<1>3. l \in 1..l /\ t <= u /\ l <= n /\ l \in 1..u /\ l \in 1..n
  OBVIOUS
<1>4. \A i \in 1..l : i \in 1..u /\ (i # l => i \in 1..t)
  OBVIOUS
<1>5. \A i \in 1..t : i \in 1..l /\ i # l
  OBVIOUS
<1>6. w \in [1..u -> Nat] /\ z \in [1..n -> Nat]
  BY DEF IsBest
<1>7. best \in Seq(Nat) /\ l <= Len(best) /\ \A i \in 1..u : best[i] = w[i] * z[i]
  <2>1. PICK d \in Nat : d = Len(best)
    BY DEF IsBest
  <2>2. l <= d
    BY <2>1 DEF IsBest
  <2> QED BY <2>1, <2>2 DEF IsBest
<1>8. /\ a \in Seq(Nat) /\ Len(a) = l
      /\ \A i \in 1..l : a[i] = w[i] * z[p[i]]
  <2>1. IsWeighted(Weighted(w, z, p, l), w, z, p, l)
    BY <1>6, WeightedList
  <2> QED BY <2>1 DEF IsWeighted
<1>9. /\ b \in Seq(Nat) /\ Len(b) = t
      /\ \A i \in 1..t : b[i] = w[i] * z[q[i]]
  <2>1. IsWeighted(Weighted(w, z, q, t), w, z, q, t)
    BY <1>3, <1>6, WeightedList
  <2> QED BY <2>1 DEF IsWeighted
<1>10. Offset(b, l) <= Offset(best, l)
  BY <1>2 DEF NoBetter
<1> HIDE DEF a, b
<1>11. PICK A, v \in Nat : Offset(a, l) = A /\ a[l] = v /\ Offset(a, l + 1) = A + v
  <2>1. l <= Len(a)
    <3>1. l <= l
      OBVIOUS
    <3> QED BY <1>8, <3>1, Zenon
  <2> QED BY <1>3, <1>8, <2>1, OffsetStep, ZenonT(30)
<1>12. PICK C, c \in Nat : Offset(best, l) = C /\ best[l] = c /\ Offset(best, l + 1) = C + c
  BY SMTT(30), <1>3, <1>7, OffsetStep
<1>13. PICK B \in Nat : B = Offset(b, l)
  <2>1. l \in 1..Len(b) + 1
    BY <1>9
  <2> QED BY <1>9, <2>1, OffsetProperties
<1>14. PICK x, y, e \in Nat : x = z[p[m]] /\ y = z[p[l]] /\ e = z[l]
  BY <1>3, <1>6
<1>15. PICK g, h \in Nat : g = w[m] /\ h = w[l]
  BY <1>3, <1>4, <1>6
<1>16. y >= x /\ g >= h /\ x <= e
  <2>1. p[m] \in 1..n /\ p[l] \in 1..n /\ p[l] <= p[m] /\ l <= p[m] /\ l \in 1..n
    BY <1>1, <1>3
  <2>2. m \in 1..u /\ l \in 1..u /\ m <= l
    BY <1>3, <1>4
  <2>3. z[p[l]] >= z[p[m]] /\ z[l] >= z[p[m]] /\ w[m] >= w[l]
    BY <2>1, <2>2 DEF Falls, IsBest
  <2> QED BY <1>14, <1>15, <2>3
<1>17. v = h * y /\ c = h * e
  <2>1. a[l] = w[l] * z[p[l]] /\ best[l] = w[l] * z[l]
    BY <1>3, <1>8, <1>7
  <2> QED BY <1>11, <1>12, <1>14, <1>15, <2>1
<1>18. PICK gx, gy, hx, hy, he \in Nat :
         gx = g * x /\ gy = g * y /\ hx = h * x /\ hy = h * y /\ he = h * e
  BY Product
<1>19. gx + hy <= gy + hx
  BY <1>16, <1>18, Exchange
<1>20. hx <= he
  <2>1. PICK d \in Nat : e = x + d
    <3>1. e - x \in Nat /\ e = x + (e - x)
      BY <1>16
    <3> QED BY <3>1
  <2>2. h * e = h * x + h * d /\ h * d \in Nat
    BY <2>1
  <2> QED BY <1>18, <2>2
<1>21. A + hy <= B + hx
  <2>1. CASE m = l
    <3>1. \A i \in 1..t : a[i] <= b[i]
      <4> TAKE i \in 1..t
      <4>1. i # m /\ i \in 1..l
        BY <1>5, <2>1
      <4>2. a[i] = b[i]
        BY <1>2, <1>8, <1>9, <4>1
      <4>3. a[i] \in Nat
        <5>1. l <= Len(a)
          BY <1>8
        <5> QED BY <1>8, <4>1, <5>1, Entry, Zenon
      <4>4. PICK k \in Nat : k = a[i] /\ k = b[i]
        BY <4>2, <4>3
      <4>5. k <= k
        OBVIOUS
      <4> QED BY <4>4, <4>5, Zenon
    <3>2. t <= Len(a) /\ t <= Len(b)
      BY <1>8, <1>9
    <3>3. Offset(a, t + 1) <= Offset(b, t + 1)
      BY <1>8, <1>9, <3>1, <3>2, OffsetBelow
    <3>4. A <= B
      BY <1>11, <1>13, <3>3
    <3>5. x = y
      BY <1>14, <2>1
    <3>6. hx = hy
      BY <1>18, <3>5
    <3> QED BY <3>4, <3>6
  <2>2. CASE m # l
    <3>1. m \in 1..t
      BY <1>4, <2>2
    <3>2. ASSUME NEW i \in 1..t, i # m PROVE a[i] = b[i]
      <4>1. i \in 1..l
        BY <1>5
      <4>2. a[i] = w[i] * z[p[i]]
        BY <1>8, <4>1, Zenon
      <4>3. b[i] = w[i] * z[q[i]]
        BY <1>9, Zenon
      <4>4. q[i] = p[i]
        BY <1>2, <3>2, Zenon
      <4> QED BY <4>2, <4>3, <4>4, Zenon
    <3>3. t <= Len(a) /\ t <= Len(b)
      BY <1>8, <1>9
    <3>4. Offset(a, t + 1) + b[m] = Offset(b, t + 1) + a[m]
      BY <1>8, <1>9, <3>1, <3>2, <3>3, OffsetReplaced
    <3>5. a[m] = gx /\ b[m] = gy
      <4>1. a[m] = w[m] * z[p[m]] /\ b[m] = w[m] * z[p[l]]
        BY <1>2, <1>5, <1>8, <1>9, <3>1
      <4> QED BY <1>14, <1>15, <1>18, <4>1
    <3>6. A + gy = B + gx
      BY <1>11, <1>13, <3>4, <3>5
    <3> QED BY <1>19, <3>6
  <2> QED BY <2>1, <2>2
<1>22. B <= C
  BY <1>10, <1>12, <1>13
<1>23. A + v <= C + c
  <2>1. v = hy /\ c = he
    BY <1>17, <1>18
  <2> QED BY <1>20, <1>21, <1>22, <2>1
<1> QED BY <1>11, <1>12, <1>23 DEF a

(* Where weights and values fall, no choice of different positions is worth*)
(* more than the first ones in their order.                                *)
LEMMA Rearranged ==
  ASSUME NEW n \in Nat, NEW u \in Nat, u <= n, NEW w, NEW z, NEW best,
         IsBest(best, w, u, z, n)
  PROVE  NoBetter(w, z, n, best, u)
<1> DEFINE S == {t \in Nat : t <= u => NoBetter(w, z, n, best, t)}
<1>1. NoBetter(w, z, n, best, 0)
  <2>1. ASSUME NEW q \in [1..0 -> 1..n]
        PROVE  Offset(Weighted(w, z, q, 0), 0 + 1) <= Offset(best, 0 + 1)
    <3>1. 0 \in Nat /\ 0 <= u /\ 0 + 1 = 1
      OBVIOUS
    <3>2. Weighted(w, z, q, 0) \in Seq(Nat)
      BY <3>1, WeightedList DEF IsBest, IsWeighted
    <3>3. Offset(Weighted(w, z, q, 0), 1) = 0 /\ Offset(best, 1) = 0
      BY <3>2, OffsetProperties DEF IsBest
    <3> QED BY <3>1, <3>3
  <2> QED BY <2>1 DEF NoBetter
<1>2. ASSUME NEW t \in Nat, t + 1 <= u, NoBetter(w, z, n, best, t)
      PROVE  NoBetter(w, z, n, best, t + 1)
  <2>1. PICK l \in Nat : l = t + 1
    OBVIOUS
  <2>2. ASSUME NEW p \in [1..l -> 1..n], Different(p, l)
        PROVE  Offset(Weighted(w, z, p, l), l + 1) <= Offset(best, l + 1)
    BY <1>2, <2>1, <2>2, RearrangedStep
  <2>3. NoBetter(w, z, n, best, l)
    BY <2>2 DEF NoBetter
  <2> QED BY <2>1, <2>3
<1>3. \A t \in Nat : t \in S => t + 1 \in S
  <2> TAKE t \in Nat
  <2> HAVE t \in S
  <2>1. t + 1 <= u => t <= u
    OBVIOUS
  <2> QED BY <1>2, <2>1
<1>4. Nat \subseteq S
  <2>1. 0 \in S
    BY <1>1
  <2> HIDE DEF S
  <2> QED BY <1>3, <2>1, Induction
<1> QED BY <1>4

===============================================================================
