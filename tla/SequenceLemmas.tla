--------------------------- MODULE SequenceLemmas ---------------------------
(***************************************************************************)
(* What pushing at the left end of a queue and popping at its right end do *)
(* to its elements and to its order, the oldest element first.  The queue  *)
(* is a Redis list in ConsumeLoop and a deque in InMemoryQueue.            *)
(***************************************************************************)
EXTENDS Naturals, SequencesExt, SequenceTheorems, TLAPS

\* The elements of a sequence are what it contains.
LEMMA ContainsIsIn == \A s, e : Contains(s, e) <=> e \in ToSet(s)
  BY DEF Contains, ToSet

\* The elements of a sequence have its type.
LEMMA ToSetType == \A S, s : s \in Seq(S) => ToSet(s) \subseteq S
  BY DEF ToSet

\* The elements of a sequence after Append.
LEMMA ToSetAppend ==
    ASSUME NEW S, NEW s \in Seq(S), NEW e \in S
    PROVE  ToSet(Append(s, e)) = ToSet(s) \cup {e}
<1>1. /\ Len(Append(s, e)) = Len(s) + 1
      /\ Append(s, e)[Len(s) + 1] = e
      /\ \A i \in 1..Len(s) : Append(s, e)[i] = s[i]
      /\ Len(s) \in Nat
  OBVIOUS
<1>2. ToSet(Append(s, e)) \subseteq ToSet(s) \cup {e}
  BY <1>1 DEF ToSet
<1>3. ToSet(s) \subseteq ToSet(Append(s, e))
  BY <1>1 DEF ToSet
<1>4. e \in ToSet(Append(s, e))
  BY <1>1 DEF ToSet
<1> QED
  BY <1>2, <1>3, <1>4

-----------------------------------------------------------------------------

\* A push moves every element one place to the right.
LEMMA PushShape ==
    ASSUME NEW S, NEW s \in Seq(S), NEW e \in S
    PROVE  /\ <<e>> \o s \in Seq(S)
           /\ Len(<<e>> \o s) = Len(s) + 1
           /\ (<<e>> \o s)[1] = e
           /\ \A i \in 2..Len(s) + 1 : (<<e>> \o s)[i] = s[i - 1]
  OBVIOUS

\* A push adds its element.
LEMMA PushElements ==
    ASSUME NEW S, NEW s \in Seq(S), NEW e \in S
    PROVE  ToSet(<<e>> \o s) = ToSet(s) \cup {e}
<1> DEFINE t == <<e>> \o s
<1>1. /\ t \in Seq(S)
      /\ Len(t) = Len(s) + 1
      /\ t[1] = e
      /\ \A i \in 2..Len(s) + 1 : t[i] = s[i - 1]
  BY PushShape
<1> HIDE DEF t
<1>2. ToSet(t) \subseteq ToSet(s) \cup {e}
  <2> SUFFICES ASSUME NEW i \in 1..Len(t), i # 1 PROVE t[i] \in ToSet(s)
    BY <1>1 DEF ToSet
  <2>1. i \in 2..Len(s) + 1 /\ i - 1 \in 1..Len(s)
    BY <1>1
  <2> QED
    BY <1>1, <2>1 DEF ToSet
<1>3. e \in ToSet(t)
  BY <1>1 DEF ToSet
<1>4. ToSet(s) \subseteq ToSet(t)
  <2> SUFFICES ASSUME NEW i \in 1..Len(s) PROVE s[i] \in ToSet(t)
    BY DEF ToSet
  <2>1. i + 1 \in 2..Len(s) + 1 /\ i + 1 \in 1..Len(t) /\ t[i + 1] = s[i]
    BY <1>1
  <2> QED
    BY <1>1, <2>1 DEF ToSet
<1> QED
  BY <1>2, <1>3, <1>4 DEF t

\* A pop leaves every other element where it is.
LEMMA PopShape ==
    ASSUME NEW S, NEW s \in Seq(S), s # <<>>
    PROVE  /\ Front(s) \in Seq(S)
           /\ Len(Front(s)) = Len(s) - 1
           /\ \A i \in 1..Len(s) - 1 : Front(s)[i] = s[i]
           /\ Len(s) \in Nat \ {0}
           /\ Last(s) = s[Len(s)]
           /\ Last(s) \in S
<1>1. Len(s) \in Nat \ {0}
  OBVIOUS
<1> DEFINE n == Len(s) - 1
<1>2. n \in Nat /\ \A i \in 1..n : s[i] \in S
  BY <1>1
<1>3. Front(s) = SubSeq(s, 1, n)
  BY DEF Front
<1> HIDE DEF n
<1>4. /\ SubSeq(s, 1, n) \in Seq(S)
      /\ Len(SubSeq(s, 1, n)) = n
      /\ \A i \in 1..n : SubSeq(s, 1, n)[i] = s[i]
  BY <1>2
<1>5. Last(s) = s[Len(s)] /\ s[Len(s)] \in S
  BY <1>1 DEF Last
<1> QED
  BY <1>1, <1>3, <1>4, <1>5 DEF n

\* A pop takes one occurrence of its element.
LEMMA PopElements ==
    ASSUME NEW S, NEW s \in Seq(S), s # <<>>
    PROVE  ToSet(s) = ToSet(Front(s)) \cup {Last(s)}
<1>1. /\ Front(s) \in Seq(S)
      /\ Len(Front(s)) = Len(s) - 1
      /\ \A i \in 1..Len(s) - 1 : Front(s)[i] = s[i]
      /\ Len(s) \in Nat \ {0}
      /\ Last(s) = s[Len(s)]
  BY PopShape
<1>2. ToSet(Front(s)) \cup {Last(s)} \subseteq ToSet(s)
  BY <1>1 DEF ToSet
<1>3. ToSet(s) \subseteq ToSet(Front(s)) \cup {Last(s)}
  <2> SUFFICES ASSUME NEW i \in 1..Len(s), i # Len(s) PROVE s[i] \in ToSet(Front(s))
    BY <1>1 DEF ToSet
  <2>1. i \in 1..Len(s) - 1 /\ i \in 1..Len(Front(s))
    BY <1>1
  <2> QED
    BY <1>1, <2>1 DEF ToSet
<1> QED
  BY <1>2, <1>3

\* Reverse as a sequence.
LEMMA Reversed ==
    ASSUME NEW S, NEW s \in Seq(S)
    PROVE  /\ Reverse(s) \in Seq(S)
           /\ Len(Reverse(s)) = Len(s)
           /\ \A i \in 1..Len(s) : Reverse(s)[i] = s[Len(s) - i + 1]
<1>1. \A i \in 1..Len(s) : Len(s) - i + 1 \in 1..Len(s)
  OBVIOUS
<1>2. Reverse(s) = [i \in 1..Len(s) |-> s[Len(s) - i + 1]]
  BY DEF Reverse
<1> QED
  BY <1>1, <1>2

\* The oldest element first, a push is an Append ...
LEMMA ReversePush ==
    ASSUME NEW S, NEW s \in Seq(S), NEW e \in S
    PROVE  Reverse(<<e>> \o s) = Append(Reverse(s), e)
<1> DEFINE t == <<e>> \o s
           u == Append(Reverse(s), e)
           n == Len(s)
<1>1. /\ t \in Seq(S)
      /\ Len(t) = n + 1
      /\ t[1] = e
      /\ \A i \in 2..n + 1 : t[i] = s[i - 1]
      /\ n \in Nat
  BY PushShape
<1>2. /\ Reverse(s) \in Seq(S)
      /\ Len(Reverse(s)) = n
      /\ \A i \in 1..n : Reverse(s)[i] = s[n - i + 1]
  BY Reversed
<1>3. /\ u \in Seq(S)
      /\ Len(u) = n + 1
      /\ u[n + 1] = e
      /\ \A i \in 1..n : u[i] = s[n - i + 1]
  BY <1>1, <1>2
<1> HIDE DEF t, u
<1>4. /\ Reverse(t) \in Seq(S)
      /\ Len(Reverse(t)) = n + 1
      /\ \A i \in 1..n + 1 : Reverse(t)[i] = t[n + 1 - i + 1]
  BY <1>1, Reversed
<1> HIDE DEF n
<1>5. ASSUME NEW i \in 1..n + 1 PROVE Reverse(t)[i] = u[i]
  <2>1. CASE i = n + 1
    BY <1>1, <1>3, <1>4, <2>1
  <2>2. CASE i \in 1..n
    <3>1. n + 1 - i + 1 \in 2..n + 1 /\ n + 1 - i + 1 - 1 = n - i + 1
      BY <1>1, <2>2
    <3> QED
      BY <1>1, <1>3, <1>4, <2>2, <3>1
  <2> QED
    BY <1>1, <2>1, <2>2
<1>6. Reverse(t) = u
  BY <1>3, <1>4, <1>5, SeqEqual
<1> QED
  BY <1>6 DEF t, u

\* ... and a pop takes the head.
LEMMA ReversePop ==
    ASSUME NEW S, NEW s \in Seq(S), s # <<>>
    PROVE  /\ Reverse(s) # <<>>
           /\ Reverse(Front(s)) = Tail(Reverse(s))
<1> DEFINE f == Front(s)
           r == Reverse(s)
           n == Len(s)
<1>1. /\ f \in Seq(S)
      /\ Len(f) = n - 1
      /\ \A i \in 1..n - 1 : f[i] = s[i]
      /\ n \in Nat \ {0}
  BY PopShape
<1>2. /\ r \in Seq(S)
      /\ Len(r) = n
      /\ \A i \in 1..n : r[i] = s[n - i + 1]
  BY Reversed
<1> HIDE DEF f, r, n
<1>3. r # <<>>
  BY <1>1, <1>2
<1>4. /\ Tail(r) \in Seq(S)
      /\ Len(Tail(r)) = n - 1
      /\ \A i \in 1..n - 1 : Tail(r)[i] = r[i + 1]
  BY <1>1, <1>2, <1>3
<1>5. /\ Reverse(f) \in Seq(S)
      /\ Len(Reverse(f)) = n - 1
      /\ \A i \in 1..n - 1 : Reverse(f)[i] = f[n - 1 - i + 1]
  <2>1. /\ Reverse(f) \in Seq(S)
        /\ Len(Reverse(f)) = Len(f)
        /\ \A i \in 1..Len(f) : Reverse(f)[i] = f[Len(f) - i + 1]
    BY <1>1, Reversed
  <2> QED
    BY <1>1, <2>1
<1>6. ASSUME NEW i \in 1..n - 1 PROVE Reverse(f)[i] = Tail(r)[i]
  <2>1. /\ n - 1 - i + 1 \in 1..n - 1
        /\ i + 1 \in 1..n
        /\ n - (i + 1) + 1 = n - 1 - i + 1
    BY <1>1
  <2>2. Reverse(f)[i] = s[n - 1 - i + 1]
    BY <1>1, <1>5, <2>1
  <2>3. Tail(r)[i] = s[n - (i + 1) + 1]
    BY <1>2, <1>4, <2>1
  <2> QED
    BY <2>1, <2>2, <2>3
<1>7. Reverse(f) = Tail(r)
  BY <1>4, <1>5, <1>6, SeqEqual
<1> QED
  BY <1>3, <1>7 DEF f, r

-----------------------------------------------------------------------------
(* Order of arrival.                                                       *)

\* Of two messages of arrived, the earlier one, if it is not among the taken,
\* waits behind no occurrence of the later one in the queue s.
Ordered(s, arrived, taken) ==
    \A i, j \in DOMAIN arrived :
        i < j /\ arrived[i] \notin taken =>
            \A p \in DOMAIN s :
                s[p] = arrived[j] => \E q \in DOMAIN s : p < q /\ s[q] = arrived[i]

\* What arrives joins the end of arrived, unless it arrived before.
Arrival(arrived, e) == IF e \in ToSet(arrived) THEN arrived ELSE Append(arrived, e)

\* A message that arrives goes behind all that wait.
LEMMA OrderedPush ==
    ASSUME NEW S, NEW s \in Seq(S), NEW e \in S, NEW a \in Seq(S), NEW T,
           Ordered(s, a, T),
           ToSet(s) \subseteq ToSet(a),
           ToSet(a) \subseteq ToSet(s) \cup T
    PROVE  Ordered(<<e>> \o s, Arrival(a, e), T)
<1> DEFINE t == <<e>> \o s
           b == Arrival(a, e)
<1>1. /\ t \in Seq(S)
      /\ Len(t) = Len(s) + 1
      /\ t[1] = e
      /\ \A i \in 2..Len(s) + 1 : t[i] = s[i - 1]
      /\ Len(s) \in Nat
      /\ Len(a) \in Nat
      /\ DOMAIN s = 1..Len(s)
      /\ DOMAIN a = 1..Len(a)
      /\ DOMAIN t = 1..Len(s) + 1
  BY PushShape
<1>2. /\ b \in Seq(S)
      /\ \A i \in DOMAIN a : i \in DOMAIN b /\ b[i] = a[i]
      /\ \A i \in DOMAIN b : i \in DOMAIN a \/ (b[i] = e /\ e \notin ToSet(a) /\ i = Len(a) + 1)
      /\ DOMAIN b \subseteq Nat
  <2>1. CASE e \in ToSet(a)
    BY <2>1 DEF Arrival
  <2>2. CASE e \notin ToSet(a)
    <3>1. b = Append(a, e)
      BY <2>2 DEF Arrival
    <3>2. /\ b \in Seq(S)
          /\ Len(b) = Len(a) + 1
          /\ b[Len(a) + 1] = e
          /\ \A i \in 1..Len(a) : b[i] = a[i]
          /\ DOMAIN b = 1..Len(a) + 1
      BY <3>1
    <3> QED
      BY <1>1, <2>2, <3>2
  <2> QED
    BY <2>1, <2>2
<1> HIDE DEF t, b
<1> SUFFICES ASSUME NEW i \in DOMAIN b, NEW j \in DOMAIN b, i < j, b[i] \notin T,
                    NEW p \in DOMAIN t, t[p] = b[j]
             PROVE  \E q \in DOMAIN t : p < q /\ t[q] = b[i]
  BY DEF Ordered, t, b
<1>3. i \in DOMAIN a /\ b[i] = a[i]
  BY <1>1, <1>2
<1>4. CASE p = 1
  <2>1. a[i] \in ToSet(s)
    BY <1>3 DEF ToSet
  <2>2. PICK q \in 1..Len(s) : s[q] = a[i]
    BY <1>1, <2>1 DEF ToSet
  <2>3. q + 1 \in DOMAIN t /\ q + 1 \in 2..Len(s) + 1 /\ q + 1 - 1 = q /\ p < q + 1
    BY <1>1, <1>4
  <2>4. t[q + 1] = b[i]
    BY <1>1, <1>3, <2>2, <2>3
  <2> QED
    BY <2>3, <2>4
<1>5. CASE p # 1
  <2>1. p \in 2..Len(s) + 1 /\ p - 1 \in DOMAIN s /\ t[p] = s[p - 1]
    BY <1>1, <1>5
  <2>2. b[j] \in ToSet(a)
    BY <2>1 DEF ToSet
  <2>3. j \in DOMAIN a /\ b[j] = a[j]
    BY <1>2, <2>2
  <2>4. PICK q \in DOMAIN s : p - 1 < q /\ s[q] = a[i]
    BY <1>3, <2>1, <2>3 DEF Ordered
  <2>5. q + 1 \in DOMAIN t /\ q + 1 \in 2..Len(s) + 1 /\ q + 1 - 1 = q /\ p < q + 1
    BY <1>1, <2>1, <2>4
  <2>6. t[q + 1] = b[i]
    BY <1>1, <1>3, <2>4, <2>5
  <2> QED
    BY <2>5, <2>6
<1> QED
  BY <1>4, <1>5

\* What is popped has nothing untaken before it in arrived.
LEMMA OrderedPop ==
    ASSUME NEW S, NEW s \in Seq(S), s # <<>>, NEW a \in Seq(S), NEW T, Ordered(s, a, T)
    PROVE  /\ Ordered(Front(s), a, T \cup {Last(s)})
           /\ \A i, j \in DOMAIN a : i < j /\ a[j] = Last(s) => a[i] \in T
<1> DEFINE f == Front(s)
           e == Last(s)
           n == Len(s)
<1>1. /\ f \in Seq(S)
      /\ Len(f) = n - 1
      /\ \A i \in 1..n - 1 : f[i] = s[i]
      /\ n \in Nat \ {0}
      /\ e = s[n]
  BY PopShape
<1>2. DOMAIN s = 1..n /\ DOMAIN f = 1..n - 1
  BY <1>1
<1> HIDE DEF f, e, n
<1>3. ASSUME NEW i \in DOMAIN a, NEW j \in DOMAIN a, i < j, a[i] \notin T \cup {e},
             NEW p \in DOMAIN f, f[p] = a[j]
      PROVE  \E q \in DOMAIN f : p < q /\ f[q] = a[i]
  <2>1. p \in DOMAIN s /\ s[p] = a[j]
    BY <1>1, <1>2, <1>3
  <2>2. PICK q \in DOMAIN s : p < q /\ s[q] = a[i]
    BY <1>3, <2>1 DEF Ordered
  <2>3. q # n
    BY <1>1, <1>3, <2>2
  <2>4. q \in DOMAIN f /\ f[q] = a[i]
    BY <1>1, <1>2, <2>2, <2>3
  <2> QED
    BY <2>2, <2>4
<1>4. ASSUME NEW i \in DOMAIN a, NEW j \in DOMAIN a, i < j, a[j] = e, a[i] \notin T
      PROVE  FALSE
  <2>1. n \in DOMAIN s /\ s[n] = a[j]
    BY <1>1, <1>2, <1>4
  <2>2. PICK q \in DOMAIN s : n < q
    BY <1>4, <2>1 DEF Ordered
  <2> QED
    BY <1>1, <1>2, <2>2
<1>5. Ordered(f, a, T \cup {e})
  BY <1>3 DEF Ordered
<1> QED
  BY <1>4, <1>5 DEF f, e

\* The order needs less when more is taken.
LEMMA OrderedTaken ==
    ASSUME NEW s, NEW a, NEW T, NEW U, Ordered(s, a, T),
           \A i \in DOMAIN a : a[i] \in T => a[i] \in U
    PROVE  Ordered(s, a, U)
  BY DEF Ordered

=============================================================================
