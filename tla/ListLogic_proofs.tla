-------------------------- MODULE ListLogic_proofs --------------------------
(***************************************************************************)
(* What selections, queries and decisions return, for any texts and names. *)
(***************************************************************************)
EXTENDS ListLogic, FiniteSetTheorems, SequenceTheorems, WellFoundedInduction,
        NaturalsInduction, TLAPS

-----------------------------------------------------------------------------
(* Selections.                                                             *)

\* A set of numbers with an upper bound has a largest element when it has any.
LEMMA LargestExists ==
    ASSUME NEW S \in SUBSET Nat, S # {}, NEW n \in Nat, \A x \in S : x <= n
    PROVE  Max(S) \in S /\ \A x \in S : x <= Max(S)
  <1>. DEFINE Above == {b \in Nat : \A x \in S : x <= b}
  <1>1. IsWellFoundedOn(OpToRel(<, Nat), Nat)
    BY NatLessThanWellFounded
  <1>2. Above \subseteq Nat /\ Above # {}
    OBVIOUS
  <1>3. PICK b \in Above : \A c \in Above : ~ (<<c, b>> \in OpToRel(<, Nat))
    BY <1>1, <1>2, WFMin
  <1>4. \A c \in Above : ~ (c < b)
    BY <1>3 DEF OpToRel
  <1>5. b \in S
    <2>1. SUFFICES ASSUME b \notin S PROVE FALSE
      OBVIOUS
    <2>2. PICK x \in S : TRUE
      OBVIOUS
    <2>3. b # 0
      BY <2>1, <2>2
    <2>4. b - 1 \in Above
      BY <2>1, <2>3
    <2> QED BY <2>3, <2>4, <1>4
  <1>6. \A x \in S : b >= x
    OBVIOUS
  <1>7. Max(S) \in S /\ \A x \in S : Max(S) >= x
    BY <1>5, <1>6 DEF Max
  <1> QED BY <1>7

\* A set of numbers has a smallest element when it has any.
LEMMA SmallestExists ==
    ASSUME NEW S \in SUBSET Nat, NEW n \in S
    PROVE  \E k \in S : \A j \in S : k <= j
  <1>1. IsWellFoundedOn(OpToRel(<, Nat), Nat)
    BY NatLessThanWellFounded
  <1>2. PICK k \in S : \A j \in S : ~ (<<j, k>> \in OpToRel(<, Nat))
    BY <1>1, WFMin
  <1>3. \A j \in S : ~ (j < k)
    BY <1>2 DEF OpToRel
  <1> QED BY <1>3

\* A bounded set of numbers can be counted in ascending order.
LEMMA AscendingExists ==
    ASSUME NEW S \in SUBSET Nat, IsFiniteSet(S)
    PROVE  /\ Cardinality(S) \in Nat
           /\ Ascending(S) \in [1..Cardinality(S) -> S]
           /\ \A m, n \in 1..Cardinality(S) : m < n => Ascending(S)[m] < Ascending(S)[n]
           /\ \A k \in S : \E n \in 1..Cardinality(S) : Ascending(S)[n] = k
  <1>. DEFINE N == Cardinality(S)
              UpTo(k) == {j \in S : j <= k}
              rank == [k \in S |-> Cardinality(UpTo(k))]
  <1>1. N \in Nat
    BY FS_CardinalityType
  <1>2. ASSUME NEW k \in S PROVE IsFiniteSet(UpTo(k)) /\ Cardinality(UpTo(k)) \in 1..N
    <2>1. IsFiniteSet(UpTo(k)) /\ Cardinality(UpTo(k)) <= N
      BY FS_Subset
    <2>2. Cardinality(UpTo(k)) \in Nat
      BY <2>1, FS_CardinalityType
    <2>3. Cardinality(UpTo(k)) # 0
      BY <2>1, FS_EmptySet
    <2> QED BY <2>1, <2>2, <2>3, <1>1
  <1>3. ASSUME NEW j \in S, NEW k \in S, j < k PROVE rank[j] < rank[k]
    <2>1. UpTo(j) \in SUBSET UpTo(k) /\ UpTo(j) # UpTo(k)
      <3>1. j \in Nat /\ k \in Nat
        OBVIOUS
      <3>2. k \in UpTo(k) /\ k \notin UpTo(j)
        BY <1>3, <3>1
      <3>3. \A i \in S : i <= j => i <= k
        BY <1>3, <3>1
      <3> QED BY <3>2, <3>3
    <2>2. Cardinality(UpTo(j)) <= Cardinality(UpTo(k)) /\ Cardinality(UpTo(j)) # Cardinality(UpTo(k))
      <3>1. Cardinality(UpTo(j)) <= Cardinality(UpTo(k))
        BY <1>2, <2>1, FS_Subset
      <3>2. Cardinality(UpTo(k)) = Cardinality(UpTo(j)) => UpTo(k) = UpTo(j)
        BY <1>2, <2>1, FS_Subset
      <3> QED BY <3>1, <3>2, <2>1
    <2> QED BY <2>2, <1>2
  <1>4. rank \in Injection(S, 1..N)
    <2>1. rank \in [S -> 1..N]
      BY <1>2
    <2>2. ASSUME NEW j \in S, NEW k \in S, j # k PROVE rank[j] # rank[k]
      <3>1. j < k \/ k < j
        BY <2>2
      <3>. rank[j] \in 1..N /\ rank[k] \in 1..N
        BY <2>1
      <3> QED BY <3>1, <1>3, <1>1
    <2> QED BY <2>1, <2>2 DEF Injection, IsInjective
  <1>5. rank \in Surjection(S, 1..N)
    <2>1. IsFiniteSet(1..N) /\ Cardinality(1..N) = N
      BY <1>1, FS_Interval
    <2> QED BY <1>4, <2>1, FS_Injection
  <1>6. \A n \in 1..N : \E k \in S : rank[k] = n
    BY <1>5 DEF Surjection
  <1>. DEFINE s == [n \in 1..N |-> CHOOSE k \in S : rank[k] = n]
  <1>7. s \in [1..N -> S] /\ \A n \in 1..N : rank[s[n]] = n
    BY <1>6
  <1>. HIDE DEF rank, s, N
  <1>8. ASSUME NEW m \in 1..N, NEW n \in 1..N, m < n PROVE s[m] < s[n]
    <2>1. s[m] \in S /\ s[n] \in S
      BY <1>7
    <2>2. rank[s[m]] = m /\ rank[s[n]] = n /\ m \in Nat /\ n \in Nat
      BY <1>7, <1>1
    <2>3. s[m] = s[n] \/ s[n] < s[m] \/ s[m] < s[n]
      <3>1. \A x, y \in S : x = y \/ y < x \/ x < y
        OBVIOUS
      <3> QED BY <2>1, <3>1
    <2>4. s[n] < s[m] => rank[s[n]] < rank[s[m]]
      BY <2>1, <1>3
    <2> QED BY <2>2, <2>3, <2>4, <1>8
  <1>9. ASSUME NEW n \in 1..N, NEW k \in S, rank[k] = n PROVE k = s[n]
    <2>1. s[n] \in S /\ rank[s[n]] = n
      BY <1>7
    <2>2. \A x, y \in S : x = y \/ y < x \/ x < y
      OBVIOUS
    <2>3. \A x, y \in S : x < y => rank[x] # rank[y]
      <3>1. \A x \in S : rank[x] \in Nat
        BY <1>4, <1>1 DEF Injection
      <3> QED BY <1>3, <3>1
    <2> QED BY <1>9, <2>1, <2>2, <2>3
  <1>10. Ascending(S) = s
    <2>1. \A n \in 1..N : (CHOOSE k \in S : rank[k] = n) = s[n]
      BY <1>7, <1>9
    <2>2. \A n \in 1..N : (CHOOSE k \in S : Cardinality(UpTo(k)) = n) = s[n]
      BY <2>1 DEF rank
    <2>3. Ascending(S) = [n \in 1..N |-> s[n]]
      BY <2>2 DEF Ascending, N
    <2> QED BY <1>7, <2>3
  <1>11. \A k \in S : \E n \in 1..N : s[n] = k
    <2>1. \A k \in S : rank[k] \in 1..N
      BY <1>4 DEF Injection
    <2> QED BY <1>9, <2>1
  <1> QED BY <1>1, <1>7, <1>8, <1>10, <1>11 DEF N

\* What is selected from a sequence are its elements at the positions asked for,
\* in their order.
LEMMA SelectedShape ==
    ASSUME NEW X, NEW s \in Seq(X), NEW S \in SUBSET DOMAIN s
    PROVE  /\ Selected(s, S) \in Seq(X) /\ Len(Selected(s, S)) = Cardinality(S)
           /\ \A n \in DOMAIN Selected(s, S) :
                Ascending(S)[n] \in S /\ Selected(s, S)[n] = s[Ascending(S)[n]]
           /\ \A m, n \in DOMAIN Selected(s, S) : m < n => Ascending(S)[m] < Ascending(S)[n]
           /\ \A k \in S : \E n \in DOMAIN Selected(s, S) : Ascending(S)[n] = k
  <1>. DEFINE N == Cardinality(S)
              t == Selected(s, S)
  <1>1. S \in SUBSET Nat /\ IsFiniteSet(S)
    <2>1. S \in SUBSET Nat /\ Len(s) \in Nat /\ \A k \in S : k <= Len(s)
      OBVIOUS
    <2> QED BY <2>1, FS_BoundedSetOfNaturals
  <1>2. /\ N \in Nat /\ Ascending(S) \in [1..N -> S]
        /\ \A m, n \in 1..N : m < n => Ascending(S)[m] < Ascending(S)[n]
        /\ \A k \in S : \E n \in 1..N : Ascending(S)[n] = k
    BY <1>1, AscendingExists
  <1>3. t = [n \in 1..N |-> s[Ascending(S)[n]]]
    BY <1>2 DEF Selected
  <1>. HIDE DEF N, t
  <1>4. t \in [1..N -> X]
    <2>1. \A k \in DOMAIN s : s[k] \in X
      OBVIOUS
    <2> QED BY <1>2, <1>3, <2>1
  <1>5. t \in Seq(X) /\ Len(t) = N /\ DOMAIN t = 1..N
    BY <1>2, <1>4
  <1>6. /\ t \in Seq(X) /\ Len(t) = N
        /\ \A n \in DOMAIN t : Ascending(S)[n] \in S /\ t[n] = s[Ascending(S)[n]]
        /\ \A m, n \in DOMAIN t : m < n => Ascending(S)[m] < Ascending(S)[n]
        /\ \A k \in S : \E n \in DOMAIN t : Ascending(S)[n] = k
    BY <1>2, <1>3, <1>5
  <1> QED BY <1>6 DEF N, t

\* What is kept of a sequence are elements of the set, each at a place of its own,
\* and all there are.
LEMMA KeepShape ==
    ASSUME NEW X, NEW s \in Seq(X), NEW T
    PROVE  /\ Keep(s, T) \in Seq(X \cap T)
           /\ ToSet(Keep(s, T)) = ToSet(s) \cap T
           /\ Len(Keep(s, T)) <= Len(s)
           /\ \E place \in [DOMAIN Keep(s, T) -> DOMAIN s] :
                /\ \A n \in DOMAIN Keep(s, T) : Keep(s, T)[n] = s[place[n]]
                /\ \A m, n \in DOMAIN Keep(s, T) : m < n => place[m] < place[n]
  <1>. DEFINE S == {k \in DOMAIN s : s[k] \in T}
              t == Keep(s, T)
              place == [n \in DOMAIN t |-> Ascending(S)[n]]
  <1>1. t = Selected(s, S)
    BY DEF Keep
  <1>2. /\ t \in Seq(X) /\ Len(t) = Cardinality(S)
        /\ \A n \in DOMAIN t : Ascending(S)[n] \in S /\ t[n] = s[Ascending(S)[n]]
        /\ \A m, n \in DOMAIN t : m < n => Ascending(S)[m] < Ascending(S)[n]
        /\ \A k \in S : \E n \in DOMAIN t : Ascending(S)[n] = k
    <2>1. S \in SUBSET DOMAIN s
      OBVIOUS
    <2>. HIDE DEF S, t
    <2> QED BY <1>1, <2>1, SelectedShape
  <1>3. \A k \in S : k \in DOMAIN s /\ s[k] \in T /\ s[k] \in X
    OBVIOUS
  <1>. HIDE DEF t
  <1>4. t \in Seq(X \cap T)
    <2>. HIDE DEF S
    <2>1. Len(t) \in Nat /\ DOMAIN t = 1..Len(t) /\ t = [n \in 1..Len(t) |-> t[n]]
      BY <1>2
    <2>2. \A n \in DOMAIN t : t[n] \in X \cap T
      BY <1>2, <1>3
    <2> QED BY <2>1, <2>2
  <1>5. ToSet(t) = ToSet(s) \cap T
    <2>1. ToSet(t) \subseteq ToSet(s) \cap T
      <3>. HIDE DEF S
      <3> QED BY <1>2, <1>3 DEF ToSet
    <2>2. ASSUME NEW k \in DOMAIN s, s[k] \in T PROVE s[k] \in ToSet(t)
      <3>1. k \in S
        BY <2>2
      <3> QED BY <1>2, <3>1 DEF ToSet
    <2> QED BY <2>1, <2>2 DEF ToSet
  <1>6. /\ place \in [DOMAIN t -> DOMAIN s]
        /\ \A n \in DOMAIN t : t[n] = s[place[n]]
        /\ \A m, n \in DOMAIN t : m < n => place[m] < place[n]
    BY <1>2, <1>3
  <1>7. Len(t) <= Len(s)
    <2>. DEFINE L == Len(s)
    <2>1. DOMAIN s = 1..L /\ L \in Nat
      OBVIOUS
    <2>2. S \in SUBSET (1..L)
      BY <2>1
    <2>. HIDE DEF S, L
    <2>3. IsFiniteSet(1..L) /\ Cardinality(1..L) = L
      BY <2>1, FS_Interval
    <2>4. Cardinality(S) <= Cardinality(1..L)
      BY <2>2, <2>3, FS_Subset
    <2> QED BY <1>2, <2>3, <2>4 DEF L
  <1>. HIDE DEF place
  <1> QED BY <1>4, <1>5, <1>6, <1>7 DEF t

\* The first n elements of a sequence.
LEMMA UpToShape ==
    ASSUME NEW X, NEW s \in Seq(X), NEW n \in Nat
    PROVE  LET t == SubSeq(s, 1, IF Len(s) <= n THEN Len(s) ELSE n)
           IN  /\ t \in Seq(X) /\ Len(t) <= n /\ Len(t) <= Len(s)
               /\ \A k \in DOMAIN t : k \in DOMAIN s /\ t[k] = s[k]
               /\ t = <<>> => s = <<>> \/ n = 0
  <1>. DEFINE m == IF Len(s) <= n THEN Len(s) ELSE n
              t == SubSeq(s, 1, m)
  <1>1. m \in Nat /\ m <= n /\ m <= Len(s) /\ (m = 0 => Len(s) = 0 \/ n = 0)
    OBVIOUS
  <1>. HIDE DEF m
  <1>2. /\ t \in Seq(X) /\ Len(t) = m
        /\ \A k \in 1..m : t[k] = s[k]
    <2>1. /\ t \in Seq(X) /\ Len(t) = IF 1 <= m THEN m - 1 + 1 ELSE 0
          /\ \A k \in 1 .. m - 1 + 1 : t[k] = s[1 + k - 1]
      BY <1>1, SubSeqProperties
    <2> QED BY <1>1, <2>1
  <1>. HIDE DEF t
  <1>3. /\ t \in Seq(X) /\ Len(t) <= n /\ Len(t) <= Len(s)
        /\ \A k \in DOMAIN t : k \in DOMAIN s /\ t[k] = s[k]
        /\ t = <<>> => s = <<>> \/ n = 0
    BY <1>1, <1>2
  <1> QED BY <1>3 DEF t, m

\* There is no other way to count a set in ascending order.
LEMMA AscendingUnique ==
    ASSUME NEW S \in SUBSET Nat, NEW N \in Nat, NEW t \in [1..N -> S],
           \A m, n \in 1..N : m < n => t[m] < t[n],
           \A k \in S : \E n \in 1..N : t[n] = k
    PROVE  IsFiniteSet(S) /\ Cardinality(S) = N /\ Ascending(S) = t
  <1>. DEFINE UpTo(k) == {j \in S : j <= k}
  <1>1. \A m, n \in 1..N : t[m] <= t[n] <=> m <= n
    <2>. SUFFICES ASSUME NEW m \in 1..N, NEW n \in 1..N PROVE t[m] <= t[n] <=> m <= n
      OBVIOUS
    <2>1. m < n \/ m = n \/ n < m
      OBVIOUS
    <2>2. t[m] \in Nat /\ t[n] \in Nat
      OBVIOUS
    <2> QED BY <2>1, <2>2
  <1>2. ASSUME NEW n \in 0..N, NEW T, T = {k \in S : \E m \in 1..n : t[m] = k}
        PROVE  IsFiniteSet(T) /\ Cardinality(T) = n
    <2>. DEFINE f == [m \in 1..n |-> t[m]]
    <2>1. f \in Surjection(1..n, T)
      BY <1>2 DEF Surjection
    <2>2. f \in Injection(1..n, T)
      <3>1. f \in [1..n -> T]
        BY <2>1 DEF Surjection
      <3>2. \A l, m \in 1..n : f[l] = f[m] => l = m
        <4>. SUFFICES ASSUME NEW l \in 1..n, NEW m \in 1..n, t[l] = t[m] PROVE l = m
          OBVIOUS
        <4>. l \in 1..N /\ m \in 1..N
          OBVIOUS
        <4>0. t[l] \in Nat /\ t[m] \in Nat
          OBVIOUS
        <4>1. t[l] <= t[m] /\ t[m] <= t[l]
          BY <4>0
        <4>2. l <= m /\ m <= l
          BY <1>1, <4>1
        <4> QED BY <4>2
      <3> QED BY <3>1, <3>2 DEF Injection, IsInjective
    <2>3. IsFiniteSet(1..n) /\ Cardinality(1..n) = n
      BY FS_Interval
    <2>. HIDE DEF f
    <2> QED BY <2>1, <2>2, <2>3, FS_Surjection
  <1>3. IsFiniteSet(S) /\ Cardinality(S) = N
    <2>1. S = {k \in S : \E m \in 1..N : t[m] = k}
      OBVIOUS
    <2> QED BY <1>2, <2>1
  <1>4. ASSUME NEW n \in 1..N PROVE Cardinality(UpTo(t[n])) = n
    <2>1. UpTo(t[n]) = {k \in S : \E m \in 1..n : t[m] = k}
      <3>1. ASSUME NEW k \in S, k <= t[n] PROVE \E m \in 1..n : t[m] = k
        <4>1. PICK m \in 1..N : t[m] = k
          OBVIOUS
        <4>2. m <= n
          BY <1>1, <3>1, <4>1
        <4> QED BY <4>1, <4>2
      <3>2. ASSUME NEW m \in 1..n PROVE t[m] <= t[n]
        BY <1>1
      <3> QED BY <3>1, <3>2
    <2> QED BY <1>2, <2>1
  <1>5. ASSUME NEW n \in 1..N PROVE (CHOOSE k \in S : Cardinality(UpTo(k)) = n) = t[n]
    <2>1. t[n] \in S /\ Cardinality(UpTo(t[n])) = n
      BY <1>4
    <2>2. ASSUME NEW k \in S, Cardinality(UpTo(k)) = n PROVE k = t[n]
      <3>1. PICK m \in 1..N : t[m] = k
        OBVIOUS
      <3>2. Cardinality(UpTo(k)) = m
        BY <1>4, <3>1
      <3> QED BY <2>2, <3>1, <3>2
    <2>. HIDE DEF UpTo
    <2> QED BY <2>1, <2>2
  <1>6. Ascending(S) = [n \in 1..N |-> t[n]]
    BY <1>3, <1>5 DEF Ascending
  <1> QED BY <1>3, <1>6

\* The numbers up to n are counted as they are.
LEMMA AscendingUpTo ==
    ASSUME NEW n \in Nat
    PROVE  Cardinality(1..n) = n /\ Ascending(1..n) = [k \in 1..n |-> k]
  <1>. DEFINE t == [k \in 1..n |-> k]
  <1>1. /\ t \in [1..n -> 1..n]
        /\ \A l, m \in 1..n : l < m => t[l] < t[m]
        /\ \A k \in 1..n : \E m \in 1..n : t[m] = k
    OBVIOUS
  <1>2. 1..n \in SUBSET Nat
    OBVIOUS
  <1>. HIDE DEF t
  <1> QED BY <1>1, <1>2, AscendingUnique DEF t

\* The first elements of s without the one at r.
Without(s, r, len) == [n \in 1..len |-> IF n < r THEN s[n] ELSE s[n + 1]]

\* Without one of its elements a set is counted as before, but for that one.
LEMMA AscendingWithout ==
    ASSUME NEW S \in SUBSET Nat, IsFiniteSet(S), NEW r \in 1..Cardinality(S)
    PROVE  /\ Cardinality(S \ {Ascending(S)[r]}) = Cardinality(S) - 1
           /\ Ascending(S \ {Ascending(S)[r]}) = Without(Ascending(S), r, Cardinality(S) - 1)
  <1>. DEFINE N == Cardinality(S)
              a == Ascending(S)
              p == a[r]
              t == Without(a, r, N - 1)
  <1>1. /\ N \in Nat /\ a \in [1..N -> S]
        /\ \A m, n \in 1..N : m < n => a[m] < a[n]
        /\ \A k \in S : \E n \in 1..N : a[n] = k
    BY AscendingExists
  <1>2. r \in 1..N
    OBVIOUS
  <1>. HIDE DEF N, a
  <1>3. \A m, n \in 1..N : m # n => a[m] # a[n]
    <2>. SUFFICES ASSUME NEW m \in 1..N, NEW n \in 1..N, m < n \/ n < m PROVE a[m] # a[n]
      BY <1>1
    <2>1. a[m] \in Nat /\ a[n] \in Nat
      BY <1>1
    <2> QED BY <1>1, <2>1
  <1>4. N - 1 \in Nat
    BY <1>1, <1>2
  <1>5. /\ DOMAIN t = 1..N - 1
        /\ \A n \in 1..N - 1 : t[n] = a[IF n < r THEN n ELSE n + 1]
        /\ t = [n \in 1..N - 1 |-> t[n]]
    BY DEF Without
  <1>. HIDE DEF t
  <1>6. t \in [1..N - 1 -> S \ {p}]
    <2>1. ASSUME NEW n \in 1..N - 1 PROVE t[n] \in S \ {p}
      <3>1. (IF n < r THEN n ELSE n + 1) \in (1..N) \ {r}
        BY <1>1, <1>2
      <3>. DEFINE m == IF n < r THEN n ELSE n + 1
      <3>. HIDE DEF m
      <3>2. a[m] \in S /\ a[m] # a[r]
        BY <1>1, <1>2, <1>3, <3>1 DEF m
      <3> QED BY <1>5, <3>2 DEF m
    <2> QED BY <1>5, <2>1
  <1>7. ASSUME NEW m \in 1..N - 1, NEW n \in 1..N - 1, m < n PROVE t[m] < t[n]
    <2>. DEFINE m1 == IF m < r THEN m ELSE m + 1
                n1 == IF n < r THEN n ELSE n + 1
    <2>1. m1 \in 1..N /\ n1 \in 1..N /\ m1 < n1
      BY <1>1, <1>2, <1>7
    <2>. HIDE DEF m1, n1
    <2>2. a[m1] < a[n1]
      BY <1>1, <2>1
    <2> QED BY <1>5, <2>2 DEF m1, n1
  <1>8. ASSUME NEW k \in S \ {p} PROVE \E n \in 1..N - 1 : t[n] = k
    <2>1. PICK m \in 1..N : a[m] = k
      BY <1>1
    <2>2. m # r
      BY <2>1
    <2>3. CASE m < r
      <3>1. m \in 1..N - 1
        BY <1>1, <1>2, <2>3
      <3> QED BY <1>5, <2>1, <2>3, <3>1
    <2>4. CASE m > r
      <3>1. m - 1 \in 1..N - 1 /\ ~ (m - 1 < r) /\ (m - 1) + 1 = m
        BY <1>1, <1>2, <2>4
      <3>2. t[m - 1] = a[(m - 1) + 1]
        BY <1>5, <3>1
      <3> QED BY <2>1, <3>1, <3>2
    <2> QED BY <1>1, <1>2, <2>2, <2>3, <2>4
  <1>9. S \ {p} \in SUBSET Nat
    OBVIOUS
  <1>. HIDE DEF p
  <1>10. Cardinality(S \ {p}) = N - 1 /\ Ascending(S \ {p}) = t
    BY <1>4, <1>6, <1>7, <1>8, <1>9, AscendingUnique
  <1> QED BY <1>10 DEF N, a, p, t

\* What is selected without one position is what was selected, without one.
LEMMA SelectedWithout ==
    ASSUME NEW X, NEW s \in Seq(X), NEW S \in SUBSET DOMAIN s, NEW r \in DOMAIN Selected(s, S),
           NEW U, U = S \ {Ascending(S)[r]}
    PROVE  Selected(s, U) = Without(Selected(s, S), r, Len(Selected(s, S)) - 1)
  <1>. DEFINE N == Cardinality(S)
              t == Selected(s, S)
              a == Ascending(S)
  <1>1. t \in Seq(X) /\ Len(t) = N /\ N \in Nat /\ DOMAIN t = 1..N
    BY SelectedShape
  <1>2. S \in SUBSET Nat /\ IsFiniteSet(S)
    <2>1. S \in SUBSET Nat /\ Len(s) \in Nat /\ \A k \in S : k <= Len(s)
      OBVIOUS
    <2> QED BY <2>1, FS_BoundedSetOfNaturals
  <1>3. Cardinality(U) = N - 1 /\ Ascending(U) = Without(a, r, N - 1)
    BY <1>1, <1>2, AscendingWithout
  <1>4. DOMAIN a = 1..N /\ t = [n \in 1..N |-> s[a[n]]]
    BY <1>2, AscendingExists DEF Selected
  <1>5. Selected(s, U) = [n \in 1..N - 1 |-> s[Without(a, r, N - 1)[n]]]
    <2>1. DOMAIN Without(a, r, N - 1) = 1..N - 1
      BY DEF Without
    <2> QED BY <1>3, <2>1 DEF Selected
  <1>. HIDE DEF N, t, a
  <1>6. ASSUME NEW n \in 1..N - 1
        PROVE  s[Without(a, r, N - 1)[n]] = Without(t, r, N - 1)[n]
    <2>1. n \in 1..N /\ n + 1 \in 1..N
      BY <1>1
    <2> QED BY <1>4, <2>1 DEF Without
  <1>7. Without(t, r, N - 1) = [n \in 1..N - 1 |-> Without(t, r, N - 1)[n]]
    BY DEF Without
  <1>8. Selected(s, U) = Without(t, r, N - 1)
    BY <1>5, <1>6, <1>7
  <1> QED BY <1>1, <1>8 DEF t

\* What is kept, of elements that are all different, when one more is left out.
LEMMA KeepWithout ==
    ASSUME NEW X, NEW s \in Seq(X), \A m, n \in DOMAIN s : s[m] = s[n] => m = n,
           NEW T, NEW r \in DOMAIN Keep(s, T), NEW U,
           \A k \in DOMAIN s : s[k] \in U <=> s[k] \in T /\ s[k] # Keep(s, T)[r]
    PROVE  Keep(s, U) = Without(Keep(s, T), r, Len(Keep(s, T)) - 1)
  <1>. DEFINE S == {k \in DOMAIN s : s[k] \in T}
              R == {k \in DOMAIN s : s[k] \in U}
              t == Keep(s, T)
              p == Ascending(S)[r]
  <1>1. t = Selected(s, S) /\ Keep(s, U) = Selected(s, R)
    BY DEF Keep
  <1>2. S \in SUBSET DOMAIN s
    OBVIOUS
  <1>3. p \in S /\ t[r] = s[p]
    <2>1. r \in DOMAIN Selected(s, S)
      BY <1>1
    <2>. HIDE DEF S, t
    <2> QED BY <1>1, <1>2, <2>1, SelectedShape
  <1>4. R = S \ {p}
    <2>. HIDE DEF t, p
    <2>1. \A k \in DOMAIN s : s[k] \in U <=> s[k] \in T /\ s[k] # s[p]
      BY <1>3 DEF t
    <2>2. \A k \in DOMAIN s : s[k] = s[p] <=> k = p
      BY <1>3
    <2> QED BY <2>1, <2>2
  <1>5. r \in DOMAIN Selected(s, S)
    BY <1>1
  <1>. HIDE DEF S, R, t
  <1>6. Selected(s, R) = Without(Selected(s, S), r, Len(Selected(s, S)) - 1)
    BY <1>2, <1>4, <1>5, SelectedWithout
  <1> QED BY <1>1, <1>6 DEF t

\* Of a sequence all elements can be kept.
LEMMA KeepAll ==
    ASSUME NEW X, NEW s \in Seq(X)
    PROVE  Keep(s, X) = s
  <1>. DEFINE n == Len(s)
  <1>1. n \in Nat /\ DOMAIN s = 1..n /\ s = [k \in 1..n |-> s[k]]
    OBVIOUS
  <1>2. {k \in DOMAIN s : s[k] \in X} = 1..n
    BY <1>1
  <1>3. Keep(s, X) = Selected(s, 1..n)
    BY <1>2 DEF Keep
  <1>. HIDE DEF n
  <1>4. Ascending(1..n) = [k \in 1..n |-> k]
    BY <1>1, AscendingUpTo
  <1>5. Selected(s, 1..n) = [k \in 1..n |-> s[k]]
    BY <1>4 DEF Selected
  <1> QED BY <1>1, <1>3, <1>5

\* A sequence of different elements without one of them.
LEMMA KeepOthers ==
    ASSUME NEW X, NEW s \in Seq(X), \A m, n \in DOMAIN s : s[m] = s[n] => m = n,
           NEW r \in DOMAIN s
    PROVE  Keep(s, X \ {s[r]}) = Without(s, r, Len(s) - 1)
  <1>1. Keep(s, X) = s
    BY KeepAll
  <1>2. \A k \in DOMAIN s : s[k] \in X \ {s[r]} <=> s[k] \in X /\ s[k] # Keep(s, X)[r]
    BY <1>1
  <1>3. r \in DOMAIN Keep(s, X)
    BY <1>1
  <1>4. Keep(s, X \ {s[r]}) = Without(Keep(s, X), r, Len(Keep(s, X)) - 1)
    BY <1>2, <1>3, KeepWithout
  <1> QED BY <1>1, <1>4

-----------------------------------------------------------------------------
(* Tables.                                                                 *)

\* A table written over another of the same kind is one of that kind.
LEMMA TableOverwrite ==
    ASSUME NEW K, NEW R, NEW t, NEW u, IsTable(t, K, R), IsTable(u, K, R)
    PROVE  IsTable(Overwrite(t, u), K, R)
  BY DEF IsTable, Overwrite

\* A single row is a table.
LEMMA TableRow ==
    ASSUME NEW K, NEW R, NEW id \in K, NEW row \in R
    PROVE  IsTable(Row(id, row), K, R)
  BY DEF IsTable, Row

\* A table without some of its rows is a table.
LEMMA TableRestrict ==
    ASSUME NEW K, NEW R, NEW t, NEW S, IsTable(t, K, R)
    PROVE  IsTable(Restrict(t, DOMAIN t \ S), K, R)
  BY DEF IsTable, Restrict

\* So is one without rows.
LEMMA EmptyTable == ASSUME NEW K, NEW R PROVE IsTable(<<>>, K, R)
  BY DEF IsTable

-----------------------------------------------------------------------------
(* Queries.                                                                *)

\* add_items makes rows of texts it was given, of names that are neither blank
\* nor on the list, each name once, and of all such names.
THEOREM NewTextsAreNew ==
    ASSUME NEW store, NEW list, NEW texts \in Seq(Texts)
    PROVE  LET new == NewTexts(store, list, texts)
           IN  /\ new \in Seq(Texts)
               /\ \A k \in 1..Len(new) :
                    Lower[new[k]] \notin Names(store, NeededItems(store, list)) \cup {Blank}
               /\ \A j, k \in 1..Len(new) : j # k => Lower[new[j]] # Lower[new[k]]
               /\ \A k \in 1..Len(texts) :
                    Lower[texts[k]] \notin Names(store, NeededItems(store, list)) \cup {Blank}
                        => \E n \in 1..Len(new) : Lower[new[n]] = Lower[texts[k]]
  <1>. DEFINE existing == Names(store, NeededItems(store, list))
              IsNew(k) == /\ Lower[texts[k]] \notin existing \cup {Blank}
                          /\ \A j \in 1..k - 1 : Lower[texts[j]] # Lower[texts[k]]
              S == {k \in DOMAIN texts : IsNew(k)}
              new == NewTexts(store, list, texts)
  <1>1. new = Selected(texts, S)
    BY DEF NewTexts
  <1>2. /\ new \in Seq(Texts)
        /\ \A n \in DOMAIN new : Ascending(S)[n] \in S /\ new[n] = texts[Ascending(S)[n]]
        /\ \A m, n \in DOMAIN new : m < n => Ascending(S)[m] < Ascending(S)[n]
        /\ \A k \in S : \E n \in DOMAIN new : Ascending(S)[n] = k
    <2>1. S \in SUBSET DOMAIN texts
      OBVIOUS
    <2>. HIDE DEF S, new
    <2> QED BY <1>1, <2>1, SelectedShape
  <1>3. \A k \in S : k \in 1..Len(texts) /\ IsNew(k)
    OBVIOUS
  <1>. DEFINE order == [n \in DOMAIN new |-> Ascending(S)[n]]
  <1>4. /\ \A n \in DOMAIN new : order[n] \in S /\ new[n] = texts[order[n]]
        /\ \A m, n \in DOMAIN new : m < n => order[m] < order[n]
        /\ \A k \in S : \E n \in DOMAIN new : order[n] = k
    BY <1>2
  <1>5. DOMAIN new = 1..Len(new) /\ Len(new) \in Nat /\ Len(texts) \in Nat
    BY <1>2
  <1>. HIDE DEF order, new, existing
  <1>6. \A k \in 1..Len(new) : Lower[new[k]] \notin existing \cup {Blank}
    BY <1>3, <1>4, <1>5
  <1>7. ASSUME NEW j \in 1..Len(new), NEW k \in 1..Len(new), j < k
        PROVE  Lower[new[j]] # Lower[new[k]]
    <2>1. order[j] \in 1..Len(texts) /\ order[k] \in 1..Len(texts) /\ order[j] < order[k]
      BY <1>3, <1>4, <1>5, <1>7
    <2>2. order[j] \in 1..order[k] - 1
      BY <1>5, <2>1
    <2>3. Lower[texts[order[j]]] # Lower[texts[order[k]]]
      BY <1>3, <1>4, <1>5, <2>2
    <2> QED BY <1>4, <1>5, <2>3
  <1>8. ASSUME NEW j \in 1..Len(new), NEW k \in 1..Len(new), j # k
        PROVE  Lower[new[j]] # Lower[new[k]]
    <2>1. j < k \/ k < j
      BY <1>5, <1>8
    <2> QED BY <2>1, <1>7
  <1>9. ASSUME NEW k \in 1..Len(texts), Lower[texts[k]] \notin existing \cup {Blank}
        PROVE  \E n \in 1..Len(new) : Lower[new[n]] = Lower[texts[k]]
    <2>. DEFINE Same == {j \in 1..Len(texts) : Lower[texts[j]] = Lower[texts[k]]}
    <2>1. PICK first \in Same : \A j \in Same : first <= j
      <3>1. Same \subseteq Nat /\ k \in Same
        BY <1>5
      <3> QED BY <3>1, SmallestExists
    <2>2. \A j \in 1..first - 1 : Lower[texts[j]] # Lower[texts[first]]
      <3>. SUFFICES ASSUME NEW j \in 1..first - 1, Lower[texts[j]] = Lower[texts[first]]
                    PROVE  FALSE
        OBVIOUS
      <3>1. j \in 1..Len(texts) /\ j < first /\ first \in Nat
        BY <1>5
      <3>2. j \in Same
        BY <3>1
      <3> QED BY <2>1, <3>1, <3>2
    <2>3. first \in S
      BY <1>9, <2>2
    <2>4. PICK n \in DOMAIN new : order[n] = first
      BY <1>4, <2>3
    <2> QED BY <1>4, <1>5, <2>4
  <1>10. /\ new \in Seq(Texts)
         /\ \A k \in 1..Len(new) : Lower[new[k]] \notin existing \cup {Blank}
         /\ \A j, k \in 1..Len(new) : j # k => Lower[new[j]] # Lower[new[k]]
         /\ \A k \in 1..Len(texts) : Lower[texts[k]] \notin existing \cup {Blank} =>
                \E n \in 1..Len(new) : Lower[new[n]] = Lower[texts[k]]
    BY <1>2, <1>6, <1>8, <1>9
  <1> QED BY <1>10 DEF new, existing

\* The items that are marked or deleted are needed ones of the list, those that
\* are cleared are bought.
LEMMA MatchingAreNeeded ==
    ASSUME NEW store, NEW list, NEW texts
    PROVE  MatchingItems(store, list, texts) \subseteq NeededItems(store, list)
  BY DEF MatchingItems

\* The queries return ids of items.
LEMMA QueriesReturnItems ==
    ASSUME NEW store, NEW list, NEW id, DOMAIN store.items \in SUBSET Nat
    PROVE  /\ NeededItems(store, list) \in SUBSET Nat
           /\ ClearableItems(store, list) \in SUBSET Nat
           /\ TappedItems(store, id) \in SUBSET Nat
  BY DEF NeededItems, ClearableItems, TappedItems

-----------------------------------------------------------------------------
(* Decisions.                                                              *)

\* What a job may ask for.
Actions == ItemActions \cup PlainActions \cup ButtonActions \cup {"buy", "readd"}

\* An answer without writes is a decision.
LEMMA AnswerType ==
    ASSUME NEW text \in {"none", "plain", "final"},
           NEW follow \in {"none", "list", "picker", "readd"}
    PROVE  Answer(text, follow) \in Todos
  <1>1. <<>> \in Seq(Texts)
    OBVIOUS
  <1> QED BY <1>1 DEF Answer, Todos

\* Whatever a worker decides is something it can write and say.
LEMMA DecisionType ==
    ASSUME NEW store, DOMAIN store.items \in SUBSET Nat, NEW l,
           NEW j, j.action \in Actions, j.texts \in Seq(Texts)
    PROVE  Decision(store, l, j) \in Todos
  <1>. DEFINE new == NewTexts(store, l, j.texts)
              match == MatchingItems(store, l, j.texts)
              needed == NeededItems(store, l)
              plain == Answer("plain", "list")
  <1>2. new \in Seq(Texts)
    BY NewTextsAreNew
  <1>3. /\ needed \in SUBSET Nat
        /\ match \in SUBSET Nat
        /\ ClearableItems(store, l) \in SUBSET Nat
        /\ TappedItems(store, j.id) \in SUBSET Nat
    BY QueriesReturnItems, MatchingAreNeeded
  <1>4. /\ Answer("final", "none") \in Todos
        /\ Answer("none", "list") \in Todos
        /\ Answer("none", "picker") \in Todos
        /\ NoTodo \in Todos
        /\ plain \in Todos
        /\ Answer("plain", "readd") \in Todos
    BY AnswerType DEF NoTodo
  <1>5. /\ [plain EXCEPT !.ins = new] \in Todos
        /\ [Answer("plain", "readd") EXCEPT !.ins = new] \in Todos
        /\ [plain EXCEPT !.mark = match] \in Todos
        /\ [plain EXCEPT !.mark = needed] \in Todos
        /\ [plain EXCEPT !.del = match] \in Todos
        /\ [plain EXCEPT !.clr = ClearableItems(store, l)] \in Todos
        /\ [plain EXCEPT !.mark = TappedItems(store, j.id)] \in Todos
    <2>. HIDE DEF new, match, needed, plain
    <2> QED BY <1>2, <1>3, <1>4 DEF Todos
  <1> QED BY <1>4, <1>5
          DEF Actions, Decision, FoundOr, ItemActions, PlainActions, ButtonActions

\* The items somebody still needs.
NeededIn(items) == {i \in DOMAIN items : items[i].status = "NEEDED"}

\* A decision writes one kind of change or nothing: it adds what NewTexts returns,
\* buys needed items, removes needed items of the list, or clears the list.
LEMMA DecisionKinds ==
    ASSUME NEW store, NEW l, NEW j, j.action \in Actions
    PROVE  LET t == Decision(store, l, j)
           IN  \/ /\ t.ins = <<>> /\ t.mark = {} /\ t.del = {} /\ t.clr = {}
               \/ /\ t.ins = NewTexts(store, l, j.texts)
                  /\ t.mark = {} /\ t.del = {} /\ t.clr = {}
               \/ /\ t.mark \subseteq NeededIn(store.items)
                  /\ t.ins = <<>> /\ t.del = {} /\ t.clr = {}
               \/ /\ t.del \subseteq NeededIn(store.items)
                  /\ t.ins = <<>> /\ t.mark = {} /\ t.clr = {}
               \/ /\ t.clr = ClearableItems(store, l)
                  /\ t.ins = <<>> /\ t.mark = {} /\ t.del = {}
  <1>. DEFINE new == NewTexts(store, l, j.texts)
              match == MatchingItems(store, l, j.texts)
              needed == NeededItems(store, l)
              tapped == TappedItems(store, j.id)
              clearable == ClearableItems(store, l)
              open == NeededIn(store.items)
              plain == Answer("plain", "list")
              Kind(t) == \/ /\ t.ins = <<>> /\ t.mark = {} /\ t.del = {} /\ t.clr = {}
                         \/ /\ t.ins = new
                            /\ t.mark = {} /\ t.del = {} /\ t.clr = {}
                         \/ /\ t.mark \subseteq open
                            /\ t.ins = <<>> /\ t.del = {} /\ t.clr = {}
                         \/ /\ t.del \subseteq open
                            /\ t.ins = <<>> /\ t.mark = {} /\ t.clr = {}
                         \/ /\ t.clr = clearable
                            /\ t.ins = <<>> /\ t.mark = {} /\ t.del = {}
  <1>1. match \subseteq open /\ needed \subseteq open /\ tapped \subseteq open
    BY MatchingAreNeeded DEF NeededItems, TappedItems, NeededIn
  <1>2. Kind([plain EXCEPT !.ins = new]) /\ Kind([Answer("plain", "readd") EXCEPT !.ins = new])
    <2>. HIDE DEF new, match, needed, tapped, clearable, open
    <2> QED BY DEF Answer
  <1>3. \A S \in SUBSET open : Kind([plain EXCEPT !.mark = S]) /\ Kind([plain EXCEPT !.del = S])
    <2>. HIDE DEF new, match, needed, tapped, clearable, open
    <2> QED BY DEF Answer
  <1>4. Kind([plain EXCEPT !.clr = clearable])
    <2>. HIDE DEF new, match, needed, tapped, clearable, open
    <2> QED BY DEF Answer
  <1>5. /\ Kind(Answer("final", "none")) /\ Kind(Answer("none", "list"))
        /\ Kind(Answer("none", "picker")) /\ Kind(NoTodo)
    BY DEF Answer, NoTodo
  <1>7. /\ Kind([plain EXCEPT !.mark = match]) /\ Kind([plain EXCEPT !.del = match])
        /\ Kind([plain EXCEPT !.mark = needed]) /\ Kind([plain EXCEPT !.mark = tapped])
    <2>. HIDE DEF new, match, needed, tapped, clearable, open, plain, Kind
    <2> QED BY <1>1, <1>3
  <1>8. Kind(Decision(store, l, j))
    <2>. HIDE DEF new, match, needed, tapped, clearable, open, plain, Kind
    <2> QED BY <1>2, <1>4, <1>5, <1>7
            DEF Actions, Decision, FoundOr, ItemActions, PlainActions, ButtonActions,
                new, match, needed, tapped, clearable, plain
  <1> QED BY <1>8

\* A decision clears bought items that its statement saw.
LEMMA DecisionClearsBought ==
    ASSUME NEW store, NEW l, NEW j, j.action \in Actions, NEW i \in Decision(store, l, j).clr
    PROVE  i \in DOMAIN store.items /\ store.items[i].status = "BOUGHT"
  <1>. DEFINE new == NewTexts(store, l, j.texts)
              match == MatchingItems(store, l, j.texts)
              needed == NeededItems(store, l)
              tapped == TappedItems(store, j.id)
              clearable == ClearableItems(store, l)
              plain == Answer("plain", "list")
  <1>1. /\ [plain EXCEPT !.ins = new].clr = {}
        /\ [Answer("plain", "readd") EXCEPT !.ins = new].clr = {}
        /\ [plain EXCEPT !.mark = match].clr = {}
        /\ [plain EXCEPT !.mark = needed].clr = {}
        /\ [plain EXCEPT !.del = match].clr = {}
        /\ [plain EXCEPT !.mark = tapped].clr = {}
        /\ [plain EXCEPT !.clr = clearable].clr = clearable
    <2>. HIDE DEF new, match, needed, tapped, clearable
    <2> QED BY DEF Answer
  <1>2. /\ Answer("final", "none").clr = {} /\ Answer("none", "list").clr = {}
        /\ Answer("none", "picker").clr = {} /\ NoTodo.clr = {}
    BY DEF Answer, NoTodo
  <1>4. Decision(store, l, j).clr = {} \/ Decision(store, l, j).clr = clearable
    <2>. HIDE DEF new, match, needed, tapped, clearable, plain
    <2> QED BY <1>1, <1>2
            DEF Actions, Decision, FoundOr, ItemActions, PlainActions, ButtonActions,
                new, match, needed, tapped, clearable, plain
  <1> QED BY <1>4 DEF ClearableItems

\* The job has an answer that carries buttons, or a message that follows.
EndsWithButtons(t, j) == j.action # "cmd:none" => t.text = "final" \/ t.follow # "none"

\* Every decision but that of an unknown button is such an answer.
LEMMA DecisionAnswers ==
    ASSUME NEW store, NEW l, NEW j, j.action \in Actions
    PROVE  EndsWithButtons(Decision(store, l, j), j)
  <1>. DEFINE new == NewTexts(store, l, j.texts)
              match == MatchingItems(store, l, j.texts)
              needed == NeededItems(store, l)
              tapped == TappedItems(store, j.id)
              clearable == ClearableItems(store, l)
              plain == Answer("plain", "list")
              Shape(t) == t.text = "final" \/ t.follow # "none"
  <1>1. /\ Shape([plain EXCEPT !.ins = new])
        /\ Shape([Answer("plain", "readd") EXCEPT !.ins = new])
        /\ Shape([plain EXCEPT !.mark = match])
        /\ Shape([plain EXCEPT !.mark = needed])
        /\ Shape([plain EXCEPT !.del = match])
        /\ Shape([plain EXCEPT !.mark = tapped])
        /\ Shape([plain EXCEPT !.clr = clearable])
    <2>. HIDE DEF new, match, needed, tapped, clearable
    <2> QED BY DEF Answer
  <1>2. /\ Shape(Answer("final", "none")) /\ Shape(Answer("none", "list"))
        /\ Shape(Answer("none", "picker"))
    BY DEF Answer
  <1>4. j.action # "cmd:none" => Shape(Decision(store, l, j))
    <2>. HIDE DEF new, match, needed, tapped, clearable, plain, Shape
    <2> QED BY <1>1, <1>2
            DEF Actions, Decision, FoundOr, ItemActions, PlainActions, ButtonActions,
                new, match, needed, tapped, clearable, plain
  <1> QED BY <1>4 DEF EndsWithButtons

=============================================================================
