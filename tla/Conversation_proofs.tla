------------------------- MODULE Conversation_proofs -------------------------
(***************************************************************************)
(* Theorems about Conversation for any texts, lengths, limits and history, *)
(* any parsed batches and any number of turns.                             *)
(***************************************************************************)
EXTENDS Conversation, ListLogic_proofs

-----------------------------------------------------------------------------
(* Past items.                                                             *)

\* No two elements of s are one name to the database.
Once(s) == \A m, n \in DOMAIN s : DbLower[s[m]] = DbLower[s[n]] => m = n

\* What is kept of a sequence without repetitions has none.
LEMMA KeepOnce ==
    ASSUME NEW s \in Seq(Texts), NEW T, Once(s)
    PROVE  Once(Keep(s, T))
  <1>. DEFINE t == Keep(s, T)
  <1>1. t \in Seq(Texts \cap T)
    BY KeepShape
  <1>2. PICK place \in [DOMAIN t -> DOMAIN s] :
            /\ \A n \in DOMAIN t : t[n] = s[place[n]]
            /\ \A m, n \in DOMAIN t : m < n => place[m] < place[n]
    BY KeepShape
  <1>3. DOMAIN t \subseteq Nat /\ DOMAIN s \subseteq Nat
    BY <1>1
  <1>. HIDE DEF t
  <1>4. \A m, n \in DOMAIN t : m # n => place[m] # place[n]
    BY <1>2, <1>3
  <1>5. Once(t)
    BY <1>2, <1>4 DEF Once
  <1> QED BY <1>5 DEF t

\* Nor has its beginning.
LEMMA UpToOnce ==
    ASSUME NEW X, NEW s \in Seq(X), NEW n \in Nat, Once(s)
    PROVE  Once(UpTo(s, n))
  <1>. DEFINE t == SubSeq(s, 1, IF Len(s) <= n THEN Len(s) ELSE n)
  <1>1. \A k \in DOMAIN t : k \in DOMAIN s /\ t[k] = s[k]
    BY UpToShape
  <1>. HIDE DEF t
  <1>2. Once(t)
    BY <1>1 DEF Once
  <1> QED BY <1>2 DEF t, UpTo

\* The last purchases are texts one can see, each name once.
LEMMA LatestOnce ==
    ASSUME NEW store, NEW purchases \in Seq(DOMAIN store.items),
           \A i \in DOMAIN store.items : store.items[i].text \in Visible
    PROVE  /\ LatestPurchases(store, purchases) \in Seq(Visible)
           /\ Once(LatestPurchases(store, purchases))
  <1>. DEFINE texts == [k \in DOMAIN purchases |-> store.items[purchases[k]].text]
              Latest(k) == \A n \in k + 1..Len(texts) : DbLower[texts[n]] # DbLower[texts[k]]
              S == {k \in DOMAIN texts : Latest(k)}
              t == Selected(texts, S)
  <1>1. texts \in Seq(Visible)
    OBVIOUS
  <1>2. /\ t \in Seq(Visible)
        /\ \A n \in DOMAIN t : Ascending(S)[n] \in S /\ t[n] = texts[Ascending(S)[n]]
        /\ \A m, n \in DOMAIN t : m < n => Ascending(S)[m] < Ascending(S)[n]
    <2>1. S \in SUBSET DOMAIN texts
      <3>. HIDE DEF texts
      <3> QED OBVIOUS
    <2>. HIDE DEF S, texts
    <2> QED BY <1>1, <2>1, SelectedShape
  <1>3. \A k \in S : k \in 1..Len(texts) /\ Latest(k)
    <2>1. DOMAIN texts = 1..Len(texts)
      BY <1>1
    <2>. HIDE DEF texts
    <2> QED BY <2>1
  <1>. HIDE DEF S, t, texts
  <1>4. ASSUME NEW m \in DOMAIN t, NEW n \in DOMAIN t, m < n
        PROVE  DbLower[t[m]] # DbLower[t[n]]
    <2>1. /\ Ascending(S)[m] \in 1..Len(texts) /\ Ascending(S)[n] \in 1..Len(texts)
          /\ Ascending(S)[m] < Ascending(S)[n] /\ Len(texts) \in Nat
      BY <1>1, <1>2, <1>3, <1>4
    <2>2. Ascending(S)[n] \in Ascending(S)[m] + 1..Len(texts)
      BY <2>1
    <2> QED BY <1>2, <1>3, <2>2
  <1>5. DOMAIN t = 1..Len(t) /\ Len(t) \in Nat
    BY <1>2
  <1>6. Once(t)
    <2>1. \A m, n \in DOMAIN t : m = n \/ m < n \/ n < m
      BY <1>5
    <2> QED BY <1>4, <2>1 DEF Once
  <1>7. Reverse(t) = [i \in 1..Len(t) |-> t[Len(t) - i + 1]]
    BY DEF Reverse
  <1>8. \A i \in 1..Len(t) : Len(t) - i + 1 \in 1..Len(t)
    BY <1>5
  <1>9. Reverse(t) \in Seq(Visible) /\ DOMAIN Reverse(t) = 1..Len(t)
    <2>1. \A i \in 1..Len(t) : t[Len(t) - i + 1] \in Visible
      BY <1>2, <1>5, <1>8
    <2>2. Reverse(t) \in [1..Len(t) -> Visible]
      BY <1>7, <2>1
    <2> QED BY <1>5, <2>2
  <1>10. Once(Reverse(t))
    <2>. SUFFICES ASSUME NEW m \in 1..Len(t), NEW n \in 1..Len(t),
                         DbLower[t[Len(t) - m + 1]] = DbLower[t[Len(t) - n + 1]]
                  PROVE  m = n
      BY <1>7, <1>9 DEF Once
    <2>1. Len(t) - m + 1 = Len(t) - n + 1
      BY <1>5, <1>6, <1>8 DEF Once
    <2> QED BY <1>5, <2>1
  <1> QED BY <1>9, <1>10 DEF LatestPurchases, t, S, texts

\* So are the texts that are offered, no more than the limit.
LEMMA PastOnce ==
    ASSUME NEW store, NEW purchases \in Seq(DOMAIN store.items), NEW limit \in Nat,
           \A i \in DOMAIN store.items : store.items[i].text \in Visible
    PROVE  /\ PastTextsInOrder(store, purchases, limit) \in Seq(Visible)
           /\ Len(PastTextsInOrder(store, purchases, limit)) <= limit
           /\ Once(PastTextsInOrder(store, purchases, limit))
  <1>. DEFINE latest == LatestPurchases(store, purchases)
              kept == Keep(latest, NotNeeded(store))
  <1>1. latest \in Seq(Visible) /\ Once(latest)
    BY LatestOnce
  <1>2. Visible \subseteq Texts
    BY TextsAssumption DEF Visible
  <1>. HIDE DEF latest
  <1>3. latest \in Seq(Texts)
    BY <1>1, <1>2
  <1>4. kept \in Seq(Visible) /\ Once(kept)
    <2>1. kept \in Seq(Visible \cap NotNeeded(store))
      BY <1>1, KeepShape
    <2>2. kept \in Seq(Visible)
      <3>. HIDE DEF kept
      <3> QED BY <2>1
    <2> QED BY <1>1, <1>3, <2>2, KeepOnce
  <1>. HIDE DEF kept
  <1>5. UpTo(kept, limit) \in Seq(Visible) /\ Len(UpTo(kept, limit)) <= limit
    BY <1>4, UpToShape DEF UpTo
  <1>6. Once(UpTo(kept, limit))
    BY <1>4, UpToOnce
  <1> QED BY <1>5, <1>6 DEF PastTextsInOrder, kept, latest

\* The first elements of a sequence, as many as there are.
LEMMA UpToElements ==
    ASSUME NEW X, NEW s \in Seq(X), NEW n \in Nat
    PROVE  /\ UpTo(s, n) \in Seq(X)
           /\ Len(UpTo(s, n)) = IF Len(s) <= n THEN Len(s) ELSE n
           /\ \A k \in 1..Len(UpTo(s, n)) : k \in 1..Len(s) /\ UpTo(s, n)[k] = s[k]
  <1>. DEFINE m == IF Len(s) <= n THEN Len(s) ELSE n
              t == SubSeq(s, 1, m)
  <1>1. m \in Nat /\ m <= Len(s) /\ Len(s) \in Nat
    OBVIOUS
  <1>2. UpTo(s, n) = t
    BY DEF UpTo
  <1>. HIDE DEF m
  <1>3. t \in Seq(X) /\ Len(t) = m /\ \A k \in 1..m : t[k] = s[k]
    <2>1. /\ t \in Seq(X) /\ Len(t) = IF 1 <= m THEN m - 1 + 1 ELSE 0
          /\ \A k \in 1 .. m - 1 + 1 : t[k] = s[1 + k - 1]
      BY <1>1, SubSeqProperties
    <2> QED BY <1>1, <2>1
  <1>. HIDE DEF t
  <1>4. \A k \in 1..m : k \in 1..Len(s)
    BY <1>1
  <1> QED BY <1>2, <1>3, <1>4 DEF m

\* A sequence that agrees with a longer one is a prefix of it.
LEMMA PrefixByElements ==
    ASSUME NEW X, NEW s \in Seq(X), NEW t \in Seq(X), Len(s) <= Len(t),
           \A k \in 1..Len(s) : s[k] = t[k]
    PROVE  IsPrefix(s, t)
  <1>. DEFINE n == Len(s)
              u == SubSeq(s, 1, n)
              v == SubSeq(t, 1, n)
  <1>1. n \in Nat /\ n <= Len(t) /\ Len(t) \in Nat
    OBVIOUS
  <1>. HIDE DEF n
  <1>2. /\ u \in Seq(X) /\ Len(u) = IF 1 <= n THEN n - 1 + 1 ELSE 0
        /\ \A k \in 1 .. n - 1 + 1 : u[k] = s[1 + k - 1]
    BY <1>1, SubSeqProperties DEF n
  <1>3. /\ v \in Seq(X) /\ Len(v) = IF 1 <= n THEN n - 1 + 1 ELSE 0
        /\ \A k \in 1 .. n - 1 + 1 : v[k] = t[1 + k - 1]
    BY <1>1, SubSeqProperties
  <1>. HIDE DEF u, v
  <1>4. Len(u) = n /\ Len(v) = n /\ \A k \in 1..n : u[k] = v[k]
    BY <1>1, <1>2, <1>3 DEF n
  <1>5. u = v
    BY <1>1, <1>2, <1>3, <1>4
  <1> QED BY <1>1, <1>5 DEF IsPrefix, n, u, v

\* Once one of the names in a picker is no longer offered, the others come back
\* in their order, with more behind them if there are more.
LEMMA RestIsPrefix ==
    ASSUME NEW X, NEW s \in Seq(X), \A m, n \in DOMAIN s : s[m] = s[n] => m = n,
           NEW T, NEW limit \in Nat, NEW names, names = UpTo(Keep(s, T), limit),
           NEW x \in ToSet(names),
           NEW U, \A k \in DOMAIN s : s[k] \in U <=> s[k] \in T /\ s[k] # x
    PROVE  IsPrefix(Keep(names, X \ {x}), UpTo(Keep(s, U), limit))
  <1>. DEFINE w == Keep(s, T)
              rest == Keep(names, X \ {x})
              left == Keep(s, U)
              next == UpTo(left, limit)
  <1>1. /\ w \in Seq(X)
        /\ \A m, n \in DOMAIN w : w[m] = w[n] => m = n
    <2>1. w \in Seq(X \cap T)
      BY KeepShape
    <2>2. PICK place \in [DOMAIN w -> DOMAIN s] :
            /\ \A n \in DOMAIN w : w[n] = s[place[n]]
            /\ \A m, n \in DOMAIN w : m < n => place[m] < place[n]
      BY KeepShape
    <2>. HIDE DEF w
    <2>3. DOMAIN w \subseteq Nat /\ DOMAIN s \subseteq Nat
      BY <2>1
    <2>4. \A m, n \in DOMAIN w : m # n => place[m] # place[n]
      BY <2>2, <2>3
    <2> QED BY <2>1, <2>2, <2>4
  <1>2. /\ names \in Seq(X)
        /\ Len(names) = IF Len(w) <= limit THEN Len(w) ELSE limit
        /\ \A k \in 1..Len(names) : k \in 1..Len(w) /\ names[k] = w[k]
    BY <1>1, UpToElements
  <1>3. PICK r \in DOMAIN names : names[r] = x
    BY DEF ToSet
  <1>4. /\ DOMAIN names = 1..Len(names) /\ Len(names) \in Nat
        /\ DOMAIN w = 1..Len(w) /\ Len(w) \in Nat
    BY <1>1, <1>2
  <1>5. r \in DOMAIN w /\ w[r] = x
    BY <1>2, <1>3, <1>4
  <1>6. left = Without(w, r, Len(w) - 1)
    <2>1. \A k \in DOMAIN s : s[k] \in U <=> s[k] \in T /\ s[k] # Keep(s, T)[r]
      BY <1>5
    <2> QED BY <1>5, <2>1, KeepWithout
  <1>7. rest = Without(names, r, Len(names) - 1)
    <2>1. \A m, n \in DOMAIN names : names[m] = names[n] => m = n
      BY <1>1, <1>2, <1>4
    <2>2. Keep(names, X \ {names[r]}) = Without(names, r, Len(names) - 1)
      BY <1>2, <1>3, <2>1, KeepOthers
    <2> QED BY <1>3, <2>2
  <1>8. left \in Seq(X) /\ rest \in Seq(X)
    <2>1. left \in Seq(X \cap U) /\ rest \in Seq(X \cap (X \ {x}))
      BY <1>2, KeepShape
    <2>. HIDE DEF left, rest
    <2> QED BY <2>1
  <1>9. /\ next \in Seq(X)
        /\ Len(next) = IF Len(left) <= limit THEN Len(left) ELSE limit
        /\ \A k \in 1..Len(next) : k \in 1..Len(left) /\ next[k] = left[k]
    <2>. HIDE DEF left
    <2> QED BY <1>8, UpToElements
  <1>. HIDE DEF w, left, rest, next
  <1>10. /\ Len(left) = Len(w) - 1 /\ Len(rest) = Len(names) - 1
         /\ \A n \in 1..Len(left) : left[n] = IF n < r THEN w[n] ELSE w[n + 1]
         /\ \A n \in 1..Len(rest) : rest[n] = IF n < r THEN names[n] ELSE names[n + 1]
    <2>1. Len(w) - 1 \in Nat /\ Len(names) - 1 \in Nat
      BY <1>3, <1>4, <1>5
    <2>2. DOMAIN left = 1..Len(w) - 1 /\ DOMAIN rest = 1..Len(names) - 1
      BY <1>6, <1>7 DEF Without
    <2>3. Len(left) = Len(w) - 1 /\ Len(rest) = Len(names) - 1
      BY <1>8, <2>1, <2>2
    <2>4. ASSUME NEW n \in 1..Len(w) - 1 PROVE left[n] = IF n < r THEN w[n] ELSE w[n + 1]
      BY <1>6 DEF Without
    <2>5. ASSUME NEW n \in 1..Len(names) - 1
          PROVE  rest[n] = IF n < r THEN names[n] ELSE names[n + 1]
      BY <1>7 DEF Without
    <2> QED BY <2>3, <2>4, <2>5
  <1>11. Len(rest) <= Len(next) /\ Len(rest) <= Len(left)
    <2>1. Len(names) <= limit /\ Len(names) <= Len(w)
      BY <1>2, <1>4
    <2>2. Len(rest) <= limit /\ Len(rest) <= Len(left)
      BY <1>4, <1>10, <2>1
    <2> QED BY <1>8, <1>9, <2>2
  <1>12. ASSUME NEW k \in 1..Len(rest) PROVE rest[k] = next[k]
    <2>1. k \in 1..Len(next) /\ k \in 1..Len(left)
      <3>1. Len(rest) \in Nat /\ Len(next) \in Nat /\ Len(left) \in Nat
        BY <1>8, <1>9
      <3> QED BY <1>11, <3>1
    <2>2. k \in 1..Len(names) /\ k + 1 \in 1..Len(names)
      BY <1>4, <1>10
    <2> QED BY <1>2, <1>9, <1>10, <2>1, <2>2
  <1> QED BY <1>8, <1>9, <1>11, <1>12, PrefixByElements DEF rest, next, left

\* Every purchase is among the last ones, in one spelling or another.
LEMMA LatestCovers ==
    ASSUME NEW store, NEW purchases \in Seq(DOMAIN store.items), NEW k \in DOMAIN purchases
    PROVE  \E t \in ToSet(LatestPurchases(store, purchases)) :
                DbLower[t] = DbLower[store.items[purchases[k]].text]
  <1>. DEFINE texts == [n \in DOMAIN purchases |-> store.items[purchases[n]].text]
              N == Len(purchases)
              Latest(m) == \A n \in m + 1..Len(texts) : DbLower[texts[n]] # DbLower[texts[m]]
              S == {m \in DOMAIN texts : Latest(m)}
              Same == {m \in 1..N : DbLower[texts[m]] = DbLower[texts[k]]}
              t == Selected(texts, S)
  <1>1. N \in Nat /\ DOMAIN purchases = 1..N /\ DOMAIN texts = 1..N
    OBVIOUS
  <1>2. texts \in Seq({texts[n] : n \in 1..N}) /\ Len(texts) = N
    <2>1. texts \in [1..N -> {texts[n] : n \in 1..N}]
      BY <1>1
    <2>. HIDE DEF texts, N
    <2> QED BY <1>1, <2>1
  <1>3. k \in Same /\ Same \in SUBSET Nat /\ \A m \in Same : m <= N
    BY <1>1
  <1>. HIDE DEF texts, N
  <1>4. Max(Same) \in Same /\ \A m \in Same : m <= Max(Same)
    <2>1. Same # {}
      BY <1>3
    <2>. HIDE DEF Same
    <2> QED BY <1>1, <1>3, <2>1, LargestExists
  <1>5. Max(Same) \in S
    <2>1. ASSUME NEW n \in Max(Same) + 1..Len(texts)
          PROVE  DbLower[texts[n]] # DbLower[texts[Max(Same)]]
      <3>1. n \in 1..N /\ ~ (n <= Max(Same))
        BY <1>1, <1>2, <1>3, <1>4
      <3> QED BY <1>4, <3>1
    <2> QED BY <1>1, <1>4, <2>1
  <1>6. PICK n \in DOMAIN t : t[n] = texts[Max(Same)]
    <2>1. S \in SUBSET DOMAIN texts
      OBVIOUS
    <2>. HIDE DEF S, Same, t
    <2>2. /\ \A n \in DOMAIN t : t[n] = texts[Ascending(S)[n]]
          /\ \A m \in S : \E n \in DOMAIN t : Ascending(S)[n] = m
      BY <1>2, <2>1, SelectedShape DEF t
    <2>3. PICK n \in DOMAIN t : Ascending(S)[n] = Max(Same)
      BY <1>5, <2>2
    <2> QED BY <2>2, <2>3
  <1>7. t \in Seq({texts[m] : m \in 1..N})
    <2>1. S \in SUBSET DOMAIN texts
      OBVIOUS
    <2>. HIDE DEF S
    <2> QED BY <1>2, <2>1, SelectedShape
  <1>8. t[n] \in ToSet(Reverse(t))
    <2>. HIDE DEF t
    <2>1. n \in 1..Len(t) /\ Len(t) \in Nat
      BY <1>6, <1>7
    <2>2. Len(t) - n + 1 \in 1..Len(t) /\ (Len(t) - (Len(t) - n + 1)) + 1 = n
      BY <2>1
    <2>3. Reverse(t)[Len(t) - n + 1] = t[n] /\ DOMAIN Reverse(t) = 1..Len(t)
      BY <2>2 DEF Reverse
    <2> QED BY <2>2, <2>3 DEF ToSet
  <1>9. Reverse(t) = LatestPurchases(store, purchases)
    BY DEF LatestPurchases, texts
  <1>10. DbLower[t[n]] = DbLower[texts[k]]
    BY <1>4, <1>6
  <1>11. texts[k] = store.items[purchases[k]].text
    BY DEF texts
  <1> QED BY <1>8, <1>9, <1>10, <1>11

-----------------------------------------------------------------------------
(* Messages.                                                               *)

\* The database tells no two texts apart that are one name to Python.
NamesAgree == \A t, u \in Texts : Lower[t] = Lower[u] => DbLower[t] = DbLower[u]

\* What may be on a phone to be tapped.
TapOK(tap) ==
    /\ tap.do \in {"buy", "readd", "cmd:list", "cmd:past_items", "cmd:help"}
    /\ tap.do = "readd" => tap.what \in Visible
    /\ tap.do # "readd" => tap.what \in Nat

\* What a form has to tick.
OptionOK(tap) == tap.do = "tick" /\ tap.what \in Visible

\* No name is offered twice.
NamesOnce(m) ==
    \A k, n \in DOMAIN m.taps :
        /\ {m.taps[k].do, m.taps[n].do} \subseteq {"readd", "tick"}
        /\ Lower[m.taps[k].what] = Lower[m.taps[n].what]
        => k = n

\* A message as it should be.
Good(m) ==
    /\ m.kind \in {"plain", "buttons", "list", "flow"}
    /\ Accepts(m)
    /\ m.kind # "flow" => \A k \in DOMAIN m.taps : TapOK(m.taps[k])
    /\ m.kind = "flow" =>
            /\ m.taps \in Seq({m.taps[k] : k \in DOMAIN m.taps})
            /\ \A k \in DOMAIN m.taps : OptionOK(m.taps[k])
    /\ NamesAgree => NamesOnce(m)

\* One that has something to tap.
Tappable(m) == Good(m) /\ m.kind # "plain"

\* An answer in words is such a message.
LEMMA PlainGood == Good(Plain)
  BY DEF Good, Plain, Message, Accepts, NamesOnce

\* The quick buttons are.
LEMMA FinalTappable == ASSUME NEW names PROVE Tappable(Final(names))
  <1>. DEFINE m == Final(names)
  <1>1. /\ m.kind = "buttons" /\ DOMAIN m.taps = 1..3 /\ Len(m.taps) = 3
        /\ m.taps[1] = Tap("cmd:list", 0, 5)
        /\ m.taps[2] = Tap("cmd:past_items", 0, 13)
        /\ m.taps[3] = Tap("cmd:help", 0, 4)
    BY DEF Final, QuickCommandButtons, Message
  <1>. HIDE DEF m
  <1>2. \A k \in DOMAIN m.taps : k = 1 \/ k = 2 \/ k = 3
    BY <1>1
  <1>3. \A k \in DOMAIN m.taps :
            TapOK(m.taps[k]) /\ m.taps[k].title \in 1..20 /\ m.taps[k].do \notin {"readd", "tick"}
    BY <1>1, <1>2 DEF Tap, TapOK
  <1>4. Accepts(m)
    BY <1>1, <1>3 DEF Accepts
  <1>5. NamesOnce(m)
    BY <1>3 DEF NamesOnce
  <1>6. Tappable(m)
    BY <1>1, <1>3, <1>4, <1>5 DEF Tappable, Good
  <1> QED BY <1>6 DEF m

\* So is the button for the past items.
LEMMA PromptTappable == Tappable(PastItemsPrompt)
  <1>. DEFINE m == PastItemsPrompt
  <1>1. /\ m.kind = "buttons" /\ DOMAIN m.taps = 1..1 /\ Len(m.taps) = 1
        /\ m.taps[1] = Tap("cmd:past_items", 0, 18)
    BY DEF PastItemsPrompt, Message
  <1>. HIDE DEF m
  <1>2. \A k \in DOMAIN m.taps : k = 1
    BY <1>1
  <1>3. \A k \in DOMAIN m.taps :
            TapOK(m.taps[k]) /\ m.taps[k].title \in 1..20 /\ m.taps[k].do \notin {"readd", "tick"}
    BY <1>1, <1>2 DEF Tap, TapOK
  <1>4. Accepts(m)
    BY <1>1, <1>3 DEF Accepts
  <1>5. NamesOnce(m)
    BY <1>3 DEF NamesOnce
  <1>6. Tappable(m)
    BY <1>1, <1>3, <1>4, <1>5 DEF Tappable, Good
  <1> QED BY <1>6 DEF m

\* What is left of a text one can see can be seen, and is not above the limit.
LEMMA TruncateVisible ==
    ASSUME NEW t \in Visible, NEW limit \in Nat \ {0}
    PROVE  Truncate(t, limit) \in 1..limit
  BY CharsAssumption DEF Visible, Truncate

\* The list, or a text for the empty one: as many rows as a message may have, each
\* with a title and for another item.
LEMMA ListTappable ==
    ASSUME NEW ids \in Seq(Nat), NEW text,
           \A k \in DOMAIN ids : text[ids[k]] \in Visible,
           \A m, n \in DOMAIN ids : m # n => ids[m] # ids[n]
    PROVE  Tappable(Sendable(ListMessage(ids, text)))
  <1>1. CASE ids = <<>>
    <2>1. Sendable(ListMessage(ids, text)) = Final(<<>>)
      BY <1>1 DEF Sendable, ListMessage, NoList, Message
    <2> QED BY <2>1, FinalTappable
  <1>2. CASE ids # <<>>
    <2>. DEFINE s == UpTo(ids, MaxRows)
                m == Message("list", [k \in DOMAIN ids |-> text[ids[k]]],
                        [k \in DOMAIN s |-> Tap("buy", s[k], Truncate(text[s[k]], MaxRowTitle))])
    <2>1. Sendable(ListMessage(ids, text)) = m
      BY <1>2 DEF Sendable, ListMessage, Message
    <2>2. MaxRows \in Nat \ {0} /\ MaxRowTitle \in Nat \ {0}
      BY LimitsAssumption
    <2>3. /\ s \in Seq(Nat) /\ Len(s) <= MaxRows
          /\ \A k \in DOMAIN s : k \in DOMAIN ids /\ s[k] = ids[k]
          /\ s # <<>>
      BY <1>2, <2>2, UpToShape DEF UpTo
    <2>. HIDE DEF s
    <2>4. Len(s) \in 1..MaxRows /\ DOMAIN s = 1..Len(s)
      BY <2>2, <2>3
    <2>5. /\ m.kind = "list" /\ DOMAIN m.taps = DOMAIN s
          /\ \A k \in DOMAIN s : m.taps[k] = Tap("buy", s[k], Truncate(text[s[k]], MaxRowTitle))
      BY DEF Message
    <2>6. Len(m.taps) = Len(s)
      BY <2>4 DEF Message
    <2>. HIDE DEF m
    <2>7. \A k \in DOMAIN m.taps :
            /\ m.taps[k].do = "buy" /\ m.taps[k].what = s[k]
            /\ m.taps[k].title \in 1..MaxRowTitle
      <3>1. \A k \in DOMAIN s : Truncate(text[s[k]], MaxRowTitle) \in 1..MaxRowTitle
        BY <2>2, <2>3, TruncateVisible
      <3>2. \A what, chars :
              LET tap == Tap("buy", what, chars)
              IN  tap.do = "buy" /\ tap.what = what /\ tap.title = chars
        BY DEF Tap
      <3> QED BY <2>5, <3>1, <3>2
    <2>8. \A k, n \in DOMAIN m.taps :
            <<m.taps[k].do, m.taps[k].what>> = <<m.taps[n].do, m.taps[n].what>> => k = n
      BY <2>3, <2>5, <2>7
    <2>9. Accepts(m)
      BY <2>4, <2>5, <2>6, <2>7, <2>8 DEF Accepts, IsInjective
    <2>10. \A k \in DOMAIN m.taps : TapOK(m.taps[k])
      BY <2>3, <2>5, <2>7 DEF TapOK
    <2>11. NamesOnce(m)
      BY <2>7 DEF NamesOnce
    <2>12. Tappable(m)
      BY <2>5, <2>9, <2>10, <2>11 DEF Tappable, Good
    <2> QED BY <2>1, <2>12
  <1> QED BY <1>1, <1>2

\* A picker, or a text when no name fits a row.
LEMMA PickerTappable ==
    ASSUME NEW texts \in Seq(Visible), Once(texts)
    PROVE  Tappable(Sendable(PastItemsMessage(texts)))
  <1>. DEFINE Fitting == {t \in DOMAIN Chars : ReaddChars(t) <= MaxCallback}
              first == UpTo(texts, MaxRows)
              s == Keep(first, Fitting)
              m == Message("list", texts,
                       [k \in DOMAIN s |-> Tap("readd", s[k], Truncate(s[k], MaxRowTitle))])
  <1>1. CASE s = <<>>
    <2>1. Sendable(PastItemsMessage(texts)) = Final(texts)
      BY <1>1 DEF Sendable, PastItemsMessage, NoList, Message
    <2> QED BY <2>1, FinalTappable
  <1>2. CASE s # <<>>
    <2>1. Sendable(PastItemsMessage(texts)) = m
      <3>1. PastItemsMessage(texts) = m
        BY <1>2 DEF PastItemsMessage
      <3> QED BY <3>1 DEF Sendable, Message
    <2>2. MaxRows \in Nat \ {0} /\ MaxRowTitle \in Nat \ {0}
      BY LimitsAssumption
    <2>3. first \in Seq(Visible) /\ Len(first) <= MaxRows
      BY <2>2, UpToShape DEF UpTo
    <2>4. Once(first)
      BY <2>2, UpToOnce
    <2>5. Visible \subseteq Texts
      BY TextsAssumption DEF Visible
    <2>. HIDE DEF first, Fitting
    <2>6. first \in Seq(Texts)
      BY <2>3, <2>5
    <2>7. s \in Seq(Visible \cap Fitting) /\ Len(s) <= Len(first)
      BY <2>3, KeepShape
    <2>8. Once(s)
      BY <2>4, <2>6, KeepOnce
    <2>. HIDE DEF s
    <2>9. /\ Len(s) \in 1..MaxRows /\ DOMAIN s = 1..Len(s)
          /\ \A k \in DOMAIN s : s[k] \in Visible /\ s[k] \in Fitting
      BY <1>2, <2>2, <2>3, <2>7
    <2>10. /\ m.kind = "list" /\ DOMAIN m.taps = DOMAIN s
           /\ \A k \in DOMAIN s : m.taps[k] = Tap("readd", s[k], Truncate(s[k], MaxRowTitle))
      BY DEF Message
    <2>11. Len(m.taps) = Len(s)
      BY <2>9 DEF Message
    <2>. HIDE DEF m
    <2>12. \A k \in DOMAIN m.taps :
            /\ m.taps[k].do = "readd" /\ m.taps[k].what = s[k]
            /\ m.taps[k].title \in 1..MaxRowTitle
      <3>1. \A k \in DOMAIN s : Truncate(s[k], MaxRowTitle) \in 1..MaxRowTitle
        BY <2>2, <2>9, TruncateVisible
      <3>2. \A what, chars :
              LET tap == Tap("readd", what, chars)
              IN  tap.do = "readd" /\ tap.what = what /\ tap.title = chars
        BY DEF Tap
      <3> QED BY <2>10, <3>1, <3>2
    <2>13. \A k \in DOMAIN m.taps : ReaddChars(m.taps[k].what) <= MaxCallback
      BY <2>9, <2>10, <2>12 DEF Fitting
    <2>14. \A k, n \in DOMAIN m.taps :
            <<m.taps[k].do, m.taps[k].what>> = <<m.taps[n].do, m.taps[n].what>> => k = n
      BY <2>8, <2>10, <2>12 DEF Once
    <2>15. Accepts(m)
      BY <2>9, <2>10, <2>11, <2>12, <2>13, <2>14 DEF Accepts, IsInjective
    <2>16. \A k \in DOMAIN m.taps : TapOK(m.taps[k])
      BY <2>9, <2>10, <2>12 DEF TapOK
    <2>17. NamesAgree => NamesOnce(m)
      BY <2>5, <2>8, <2>9, <2>10, <2>12 DEF NamesAgree, NamesOnce, Once
    <2>18. Tappable(m)
      BY <2>10, <2>15, <2>16, <2>17 DEF Tappable, Good
    <2> QED BY <2>1, <2>18
  <1> QED BY <1>1, <1>2

\* A form with some options.
LEMMA FlowTappable ==
    ASSUME NEW texts \in Seq(Visible), Once(texts), texts # <<>>, Len(texts) <= MaxPastItems
    PROVE  Tappable(FlowMessage(texts))
  <1>. DEFINE m == FlowMessage(texts)
  <1>1. MaxOptionTitle \in Nat \ {0} /\ MaxPastItems \in Nat \ {0}
    BY LimitsAssumption, PastAssumption
  <1>2. /\ Len(texts) \in 1..MaxPastItems /\ DOMAIN texts = 1..Len(texts)
        /\ \A k \in DOMAIN texts : texts[k] \in Visible
    BY <1>1
  <1>3. /\ m.kind = "flow" /\ DOMAIN m.taps = DOMAIN texts
        /\ \A k \in DOMAIN texts :
                m.taps[k] = Tap("tick", texts[k], Truncate(texts[k], MaxOptionTitle))
    BY DEF FlowMessage, Message
  <1>4. Len(m.taps) = Len(texts) /\ m.taps \in Seq({m.taps[k] : k \in DOMAIN m.taps})
    BY <1>2 DEF FlowMessage, Message
  <1>. HIDE DEF m
  <1>5. \A k \in DOMAIN m.taps :
            /\ m.taps[k].do = "tick" /\ m.taps[k].what = texts[k]
            /\ m.taps[k].title \in 1..MaxOptionTitle
    <2>1. \A k \in DOMAIN texts : Truncate(texts[k], MaxOptionTitle) \in 1..MaxOptionTitle
      BY <1>1, <1>2, TruncateVisible
    <2>2. \A what, chars :
              LET tap == Tap("tick", what, chars)
              IN  tap.do = "tick" /\ tap.what = what /\ tap.title = chars
      BY DEF Tap
    <2> QED BY <1>3, <2>1, <2>2
  <1>6. \A k, n \in DOMAIN m.taps :
            <<m.taps[k].do, m.taps[k].what>> = <<m.taps[n].do, m.taps[n].what>> => k = n
    BY <1>3, <1>5 DEF Once
  <1>7. Accepts(m)
    BY <1>2, <1>3, <1>4, <1>5, <1>6 DEF Accepts, IsInjective
  <1>8. \A k \in DOMAIN m.taps : OptionOK(m.taps[k])
    BY <1>2, <1>3, <1>5 DEF OptionOK
  <1>9. Visible \subseteq Texts
    BY TextsAssumption DEF Visible
  <1>10. NamesAgree => NamesOnce(m)
    BY <1>2, <1>3, <1>5, <1>9 DEF NamesAgree, NamesOnce, Once
  <1>11. Tappable(m)
    BY <1>3, <1>4, <1>7, <1>8, <1>10 DEF Tappable, Good
  <1> QED BY <1>11 DEF m

-----------------------------------------------------------------------------
(* What a turn sends.                                                      *)

\* Messages one after the other, as they should be.
Fine(s) == s \in Seq(ToSet(s)) /\ \A k \in DOMAIN s : Good(s[k])

\* The last of them has something to tap.
EndsTappable(s) == s # <<>> /\ Tappable(s[Len(s)])

\* No message.
LEMMA FineNone == Fine(<<>>)
  BY DEF Fine, ToSet

\* A single message.
LEMMA FineOne ==
    ASSUME NEW m, Good(m)
    PROVE  Fine(<<m>>) /\ (Tappable(m) => EndsTappable(<<m>>))
  BY DEF Fine, EndsTappable, ToSet

\* Two sequences of messages one after the other.
LEMMA FineBoth ==
    ASSUME NEW s, NEW t, Fine(s), Fine(t)
    PROVE  Fine(s \o t) /\ (EndsTappable(t) => EndsTappable(s \o t))
  <1>. DEFINE X == ToSet(s) \cup ToSet(t)
              u == s \o t
  <1>1. s \in Seq(ToSet(s)) /\ t \in Seq(ToSet(t))
    BY DEF Fine
  <1>2. s \in Seq(X) /\ t \in Seq(X)
    <2>1. ToSet(s) \subseteq X /\ ToSet(t) \subseteq X
      OBVIOUS
    <2>. HIDE DEF X
    <2> QED BY <1>1, <2>1
  <1>. HIDE DEF X
  <1>3. /\ u \in Seq(X) /\ Len(u) = Len(s) + Len(t)
        /\ \A i \in 1..Len(s) : u[i] = s[i]
        /\ \A i \in 1..Len(t) : u[Len(s) + i] = t[i]
    BY <1>2
  <1>. HIDE DEF u
  <1>4. /\ DOMAIN u = 1..Len(u) /\ DOMAIN s = 1..Len(s) /\ DOMAIN t = 1..Len(t)
        /\ Len(s) \in Nat /\ Len(t) \in Nat
    BY <1>2, <1>3
  <1>5. \A k \in DOMAIN u : Good(u[k])
    <2>. SUFFICES ASSUME NEW k \in DOMAIN u PROVE Good(u[k])
      OBVIOUS
    <2>1. CASE k <= Len(s)
      BY <1>3, <1>4, <2>1 DEF Fine
    <2>2. CASE ~ (k <= Len(s))
      <3>1. k - Len(s) \in 1..Len(t) /\ Len(s) + (k - Len(s)) = k
        BY <1>3, <1>4, <2>2
      <3> QED BY <1>3, <1>4, <3>1 DEF Fine
    <2> QED BY <2>1, <2>2
  <1>6. u \in Seq(ToSet(u))
    BY <1>3 DEF ToSet
  <1>7. EndsTappable(t) => EndsTappable(u)
    <2>. SUFFICES ASSUME EndsTappable(t) PROVE EndsTappable(u)
      OBVIOUS
    <2>1. Len(t) \in 1..Len(t)
      BY <1>2 DEF EndsTappable
    <2>2. u[Len(u)] = t[Len(t)] /\ Len(u) # 0
      BY <1>3, <1>4, <2>1
    <2> QED BY <1>3, <2>2 DEF EndsTappable
  <1> QED BY <1>5, <1>6, <1>7 DEF Fine, u

\* The beginning of a sequence of messages.
LEMMA FineBeginning ==
    ASSUME NEW s, Fine(s), NEW n \in 0..Len(s)
    PROVE  Fine(SubSeq(s, 1, n))
  <1>. DEFINE t == SubSeq(s, 1, n)
  <1>1. s \in Seq(ToSet(s)) /\ Len(s) \in Nat /\ DOMAIN s = 1..Len(s)
    BY DEF Fine
  <1>2. t \in Seq(ToSet(s)) /\ Len(t) = n /\ \A k \in 1..n : t[k] = s[k]
    <2>1. /\ t \in Seq(ToSet(s)) /\ Len(t) = IF 1 <= n THEN n - 1 + 1 ELSE 0
          /\ \A k \in 1 .. n - 1 + 1 : t[k] = s[1 + k - 1]
      BY <1>1, SubSeqProperties
    <2> QED BY <1>1, <2>1
  <1>. HIDE DEF t
  <1>3. \A k \in DOMAIN t : Good(t[k])
    BY <1>1, <1>2 DEF Fine
  <1>4. t \in Seq(ToSet(t))
    BY <1>2 DEF ToSet
  <1>5. Fine(t)
    BY <1>3, <1>4 DEF Fine
  <1> QED BY <1>5 DEF t

\* A single message with something to tap.
LEMMA FineTappable ==
    ASSUME NEW m, Tappable(m)
    PROVE  Fine(<<m>>) /\ EndsTappable(<<m>>)
  BY FineOne DEF Tappable

\* The ids are items of the store, each once, and all its texts can be seen.
Listable(store, ids) ==
    /\ ids \in Seq(Nat)
    /\ \A k \in DOMAIN ids : ids[k] \in DOMAIN store.items
    /\ \A m, n \in DOMAIN ids : m # n => ids[m] # ids[n]
    /\ \A i \in DOMAIN store.items : store.items[i].text \in Visible

\* _send_list
LEMMA ListFine ==
    ASSUME NEW store, NEW ids, Listable(store, ids)
    PROVE  Fine(List(store, ids)) /\ EndsTappable(List(store, ids))
  <1>. DEFINE m == ListMessage(ids, TextOf(store))
  <1>1. Tappable(Sendable(m))
    <2>1. \A k \in DOMAIN ids : TextOf(store)[ids[k]] \in Visible
      BY DEF Listable, TextOf
    <2> QED BY <2>1, ListTappable DEF Listable
  <1>. HIDE DEF m
  <1>2. CASE m.kind = "none"
    <2>1. List(store, ids) = <<Sendable(m)>> \o <<>>
      BY <1>2 DEF List, m
    <2>2. <<Sendable(m)>> \o <<>> = <<Sendable(m)>>
      OBVIOUS
    <2> QED BY <1>1, <2>1, <2>2, FineTappable
  <1>3. CASE m.kind # "none"
    <2>1. List(store, ids) = <<Sendable(m)>> \o <<PastItemsPrompt>>
      BY <1>3 DEF List, m
    <2>2. /\ Fine(<<Sendable(m)>>)
          /\ Fine(<<PastItemsPrompt>>) /\ EndsTappable(<<PastItemsPrompt>>)
      BY <1>1, PromptTappable, FineTappable
    <2> QED BY <2>1, <2>2, FineBoth
  <1> QED BY <1>2, <1>3

\* _send_past_items_list
LEMMA PickerFine ==
    ASSUME NEW texts \in Seq(Visible), Once(texts)
    PROVE  Fine(PastItemsList(texts)) /\ EndsTappable(PastItemsList(texts))
  BY PickerTappable, FineTappable DEF PastItemsList

\* _send_past_items
LEMMA PastItemsFine ==
    ASSUME NEW store, NEW purchases \in Seq(DOMAIN store.items),
           \A i \in DOMAIN store.items : store.items[i].text \in Visible
    PROVE  Fine(PastItems(store, purchases)) /\ EndsTappable(PastItems(store, purchases))
  <1>. DEFINE limit == IF flow THEN MaxPastItems ELSE MaxPastListed
              past == PastTextsInOrder(store, purchases, limit)
  <1>1. limit \in Nat /\ (flow => limit = MaxPastItems)
    BY PastAssumption
  <1>. HIDE DEF limit
  <1>2. past \in Seq(Visible) /\ Len(past) <= limit /\ Once(past)
    BY <1>1, PastOnce
  <1>. HIDE DEF past
  <1>3. CASE flow /\ past # <<>>
    <2>1. PastItems(store, purchases) = <<FlowMessage(past)>>
      BY <1>3 DEF PastItems, past, limit
    <2>2. Tappable(FlowMessage(past))
      BY <1>1, <1>2, <1>3, FlowTappable
    <2> QED BY <2>1, <2>2, FineTappable
  <1>4. CASE ~ (flow /\ past # <<>>)
    <2>1. PastItems(store, purchases) = PastItemsList(past)
      BY <1>4 DEF PastItems, past, limit
    <2> QED BY <1>2, <2>1, PickerFine
  <1> QED BY <1>3, <1>4

\* What _process_readd ends with.
LEMMA RemainingFine ==
    ASSUME NEW store, NEW ids, NEW purchases \in Seq(DOMAIN store.items), Listable(store, ids)
    PROVE  /\ Fine(Remaining(store, ids, purchases))
           /\ EndsTappable(Remaining(store, ids, purchases))
  <1>. DEFINE past == PastTextsInOrder(store, purchases, MaxPastListed)
  <1>1. past \in Seq(Visible) /\ Once(past)
    BY PastOnce, PastAssumption DEF Listable
  <1>2. /\ Fine(List(store, ids)) /\ EndsTappable(List(store, ids))
        /\ Fine(PastItemsList(past)) /\ EndsTappable(PastItemsList(past))
    <2>. HIDE DEF past
    <2> QED BY <1>1, ListFine, PickerFine
  <1> QED BY <1>2 DEF Remaining

\* All the messages of a turn are as they should be; the last one of an answer
\* that ends with buttons has something to tap.
LEMMA MessagesFine ==
    ASSUME NEW todo \in Todos, NEW store, NEW ids, NEW purchases \in Seq(DOMAIN store.items),
           Listable(store, ids)
    PROVE  /\ Fine(Messages(todo, store, ids, purchases))
           /\ todo.text = "final" \/ todo.follow # "none" =>
                EndsTappable(Messages(todo, store, ids, purchases))
  <1>. DEFINE words == CASE todo.text = "none"  -> <<>>
                         [] todo.text = "plain" -> <<Plain>>
                         [] todo.text = "final" -> <<Final(<<>>)>>
              next == CASE todo.follow = "none"   -> <<>>
                        [] todo.follow = "list"   -> List(store, ids)
                        [] todo.follow = "picker" -> PastItems(store, purchases)
                        [] todo.follow = "readd"  -> Remaining(store, ids, purchases)
  <1>1. /\ todo.text \in {"none", "plain", "final"}
        /\ todo.follow \in {"none", "list", "picker", "readd"}
    BY DEF Todos
  <1>2. Fine(words) /\ (todo.text = "final" => EndsTappable(words))
    <2>1. Fine(<<>>) /\ Fine(<<Plain>>)
      BY FineNone, FineOne, PlainGood
    <2>2. Fine(<<Final(<<>>)>>) /\ EndsTappable(<<Final(<<>>)>>)
      BY FinalTappable, FineTappable
    <2> QED BY <1>1, <2>1, <2>2
  <1>3. /\ Fine(next)
        /\ todo.follow # "none" => EndsTappable(next)
        /\ todo.follow = "none" => next = <<>>
    <2>1. Fine(<<>>)
      BY FineNone
    <2>2. Fine(List(store, ids)) /\ EndsTappable(List(store, ids))
      BY ListFine
    <2>3. Fine(PastItems(store, purchases)) /\ EndsTappable(PastItems(store, purchases))
      BY PastItemsFine DEF Listable
    <2>4. /\ Fine(Remaining(store, ids, purchases))
          /\ EndsTappable(Remaining(store, ids, purchases))
      BY RemainingFine
    <2> QED BY <1>1, <2>1, <2>2, <2>3, <2>4
  <1>4. Messages(todo, store, ids, purchases) = words \o next
    BY DEF Messages
  <1>. HIDE DEF words, next
  <1>5. Fine(words \o next) /\ (EndsTappable(next) => EndsTappable(words \o next))
    BY <1>2, <1>3, FineBoth
  <1>6. todo.follow = "none" => words \o next = words
    BY <1>2, <1>3 DEF Fine
  <1> QED BY <1>2, <1>3, <1>4, <1>5, <1>6

-----------------------------------------------------------------------------
(* The inductive invariant.                                                *)

BoughtIn(items) == {i \in DOMAIN items : items[i].status = "BOUGHT"}

\* Items are of the one list and can be seen.
Items(items) ==
    /\ IsTable(items, Nat, Rows)
    /\ \A i \in DOMAIN items : items[i].list = 1 /\ items[i].text \in Visible

\* What db looks like.
DbShape ==
    db = [families |-> db.families, lists |-> db.lists, users |-> db.users,
          items |-> db.items]

\* Ids are drawn one after the other, an item has one of them.
IdsDrawn ==
    /\ \E n \in Nat : DOMAIN born = 1..n
    /\ born \in [DOMAIN born -> 0..turns]
    /\ DOMAIN db.items \subseteq DOMAIN born

\* The rows, and what was bought so far.
StoreInv ==
    /\ DbShape
    /\ Items(db.items)
    /\ IdsDrawn
    /\ bought \in Seq(BoughtIn(db.items))

\* The phone has nothing else than what a message may carry.
PhoneInv ==
    /\ \A tap \in chat : TapOK(tap)
    /\ forms \subseteq Seq(Visible)

\* The last turn, and what it promised.
TurnInv ==
    /\ turn.job.kind \in Kinds
    /\ Fine(turn.sent)
    /\ turn.ok /\ turn.job.kind \notin {"none", "strange"} => EndsTappable(turn.sent)
    /\ FormIsHonoured

\* The counters.
CountInv ==
    /\ flow \in BOOLEAN
    /\ turns \in 0..MaxTurns
    /\ failures \in 0..MaxFailures

ConvInv == StoreInv /\ PhoneInv /\ TurnInv /\ CountInv

\* A job of which FormIsHonoured asks nothing.
Excused(job) == job.ticked = {} \/ Dropped(job)

\* What the user asks for is something the bot knows, and what was ticked is in
\* the texts of the job.
Asks(job) ==
    /\ job.kind \in Kinds \ {"none", "strange"}
    /\ job.action \in Actions \ {"cmd:none"}
    /\ job.texts \in Seq(Texts)
    /\ \/ Excused(job)
       \/ job.action = "add" /\ job.ticked \subseteq ToSet(job.texts) \cap Visible

\* The conversation begins with a history that can be seen.
LEMMA InitConv == Init => ConvInv
  <1>. SUFFICES ASSUME Init PROVE ConvInv
    OBVIOUS
  <1>1. History \in Seq(Visible) /\ DOMAIN History = 1..Len(History) /\ Len(History) \in Nat
    BY HistoryAssumption
  <1>2. Visible \subseteq Texts
    BY TextsAssumption DEF Visible
  <1>3. /\ DOMAIN db.items = DOMAIN History
        /\ \A i \in DOMAIN History : db.items[i] = Item(History[i], "BOUGHT")
    BY DEF Init
  <1>4. \A t \in Visible : Item(t, "BOUGHT") \in Rows
    BY <1>2 DEF Item, Rows, Statuses
  <1>5. Items(db.items)
    <2>1. \A i \in DOMAIN db.items :
            db.items[i] \in Rows /\ db.items[i].list = 1 /\ db.items[i].text \in Visible
      <3>1. \A i \in DOMAIN History : History[i] \in Visible
        BY <1>1
      <3>2. \A t : Item(t, "BOUGHT").list = 1 /\ Item(t, "BOUGHT").text = t
        BY DEF Item
      <3> QED BY <1>3, <1>4, <3>1, <3>2
    <2>2. db.items = [i \in DOMAIN db.items |-> db.items[i]]
      BY DEF Init
    <2> QED BY <1>1, <1>3, <2>1, <2>2 DEF Items, IsTable
  <1>6. DbShape
    BY DEF Init, DbShape
  <1>7. IdsDrawn
    <2>1. born = [i \in 1..Len(History) |-> 0] /\ turns = 0
      BY <1>1 DEF Init
    <2>2. \E n \in Nat : DOMAIN born = 1..n
      BY <1>1, <2>1
    <2>3. born \in [DOMAIN born -> 0..turns]
      BY <2>1
    <2>4. DOMAIN db.items \subseteq DOMAIN born
      BY <1>1, <1>3, <2>1
    <2> QED BY <2>2, <2>3, <2>4 DEF IdsDrawn
  <1>8. bought \in Seq(BoughtIn(db.items))
    <2>1. \A i \in DOMAIN History : i \in BoughtIn(db.items)
      <3>1. \A t : Item(t, "BOUGHT").status = "BOUGHT"
        BY DEF Item
      <3> QED BY <1>3, <3>1 DEF BoughtIn
    <2>2. bought \in [1..Len(History) -> BoughtIn(db.items)]
      BY <1>1, <2>1 DEF Init
    <2> QED BY <1>1, <2>2
  <1>9. PhoneInv
    BY DEF Init, PhoneInv
  <1>10. TurnInv
    <2>1. turn.job.kind = "none" /\ turn.sent = <<>> /\ turn.job.ticked = {}
      BY DEF Init, Job
    <2> QED BY <2>1, FineNone DEF TurnInv, FormIsHonoured, Kinds
  <1>11. CountInv
    BY BoundsAssumption DEF Init, CountInv
  <1> QED BY <1>5, <1>6, <1>7, <1>8, <1>9, <1>10, <1>11 DEF ConvInv, StoreInv

-----------------------------------------------------------------------------
(* The flush of a turn.                                                    *)

\* The ids of new items, and what becomes of a row that was there.
NewIds(n, todo) == n + 1 .. n + Len(todo.ins)

RowAfter(todo, i) ==
    IF i \in todo.mark THEN [db.items[i] EXCEPT !.status = "BOUGHT"]
    ELSE IF i \in todo.clr THEN [db.items[i] EXCEPT !.cleared = TRUE]
    ELSE db.items[i]

\* The rows after a flush.
LEMMA FlushedShape ==
    ASSUME StoreInv, NEW n \in Nat, DOMAIN born = 1..n, NEW todo
    PROVE  /\ Flushed(todo) = [families |-> db.families, lists |-> db.lists,
                               users |-> db.users, items |-> Flushed(todo).items]
           /\ DOMAIN Flushed(todo).items = (DOMAIN db.items \ todo.del) \cup NewIds(n, todo)
           /\ NewIds(n, todo) \cap DOMAIN db.items = {}
           /\ \A i \in NewIds(n, todo) :
                Flushed(todo).items[i] = Item(todo.ins[i - n], "NEEDED")
           /\ \A i \in DOMAIN db.items \ todo.del : Flushed(todo).items[i] = RowAfter(todo, i)
           /\ Flushed(todo).items = [i \in DOMAIN Flushed(todo).items |-> Flushed(todo).items[i]]
  <1>. DEFINE items == [i \in (DOMAIN db.items \ todo.del) \cup NewIds(n, todo) |->
                            IF i \in NewIds(n, todo) THEN Item(todo.ins[i - n], "NEEDED")
                            ELSE RowAfter(todo, i)]
  <1>1. Cardinality(DOMAIN born) = n
    BY FS_Interval
  <1>2. Flushed(todo) = [db EXCEPT !.items = items]
    BY <1>1 DEF Flushed, NewIds, RowAfter
  <1>3. NewIds(n, todo) \cap DOMAIN db.items = {}
    BY DEF StoreInv, IdsDrawn, NewIds
  <1>4. /\ DOMAIN items = (DOMAIN db.items \ todo.del) \cup NewIds(n, todo)
        /\ \A i \in NewIds(n, todo) : items[i] = Item(todo.ins[i - n], "NEEDED")
        /\ \A i \in DOMAIN db.items \ todo.del : items[i] = RowAfter(todo, i)
        /\ items = [i \in DOMAIN items |-> items[i]]
    BY <1>3
  <1>. HIDE DEF items
  <1>5. Flushed(todo) = [families |-> db.families, lists |-> db.lists,
                         users |-> db.users, items |-> items]
    BY <1>2 DEF StoreInv, DbShape
  <1>6. Flushed(todo).items = items
    BY <1>5
  <1> QED BY <1>3, <1>4, <1>5, <1>6

\* What a turn decides is something it can write and say, it adds texts that can
\* be seen, and what it marks or removes is needed.
LEMMA TurnDecision ==
    ASSUME StoreInv, NEW job, Asks(job), NEW todo, todo = Decision(db, 1, job)
    PROVE  /\ todo \in Todos
           /\ todo.ins \in Seq(Visible)
           /\ todo.mark \subseteq DOMAIN db.items
           /\ \A i \in todo.mark \cup todo.del : db.items[i].status = "NEEDED"
           /\ todo.mark \cap todo.del = {}
           /\ todo.text = "final" \/ todo.follow # "none"
  <1>1. DOMAIN db.items \in SUBSET Nat
    BY DEF StoreInv, Items, IsTable
  <1>2. job.action \in Actions /\ job.action # "cmd:none" /\ job.texts \in Seq(Texts)
    BY DEF Asks
  <1>3. todo \in Todos
    BY <1>1, <1>2, DecisionType
  <1>4. todo.text = "final" \/ todo.follow # "none"
    BY <1>2, DecisionAnswers DEF EndsWithButtons
  <1>5. \/ todo.ins = <<>> \/ todo.ins = NewTexts(db, 1, job.texts)
    BY <1>2, DecisionKinds
  <1>6. /\ todo.mark \subseteq NeededIn(db.items) /\ todo.del \subseteq NeededIn(db.items)
        /\ todo.mark = {} \/ todo.del = {}
    BY <1>2, DecisionKinds
  <1>7. todo.ins \in Seq(Visible)
    <2>. DEFINE new == NewTexts(db, 1, job.texts)
    <2>1. /\ new \in Seq(Texts)
          /\ \A k \in 1..Len(new) : Lower[new[k]] # Blank
      BY <1>2, NewTextsAreNew
    <2>2. \A t \in Texts : Lower[t] # Blank => t \in Visible
      BY TextsAssumption, CharsAssumption DEF Visible
    <2>. HIDE DEF new
    <2>3. \A k \in 1..Len(new) : new[k] \in Visible
      BY <2>1, <2>2
    <2>4. new \in Seq(Visible)
      BY <2>1, <2>3
    <2>5. <<>> \in Seq(Visible)
      OBVIOUS
    <2> QED BY <1>5, <2>4, <2>5 DEF new
  <1> QED BY <1>3, <1>4, <1>6, <1>7 DEF NeededIn

\* A flush leaves a store of items that can be seen; what was bought stays so, and
\* what is marked is bought.
LEMMA FlushedStore ==
    ASSUME StoreInv, NEW job, Asks(job), NEW n \in Nat, DOMAIN born = 1..n,
           NEW todo, todo = Decision(db, 1, job)
    PROVE  LET store == Flushed(todo)
           IN  /\ Items(store.items)
               /\ DOMAIN born \cup DOMAIN store.items = 1..n + Len(todo.ins)
               /\ n + Len(todo.ins) \in Nat
               /\ bought \in Seq(BoughtIn(store.items))
               /\ todo.mark \subseteq BoughtIn(store.items)
  <1>. DEFINE new == NewIds(n, todo)
              items == Flushed(todo).items
              old == DOMAIN db.items \ todo.del
  <1>1. /\ DOMAIN items = old \cup new
        /\ new \cap DOMAIN db.items = {}
        /\ \A i \in new : items[i] = Item(todo.ins[i - n], "NEEDED")
        /\ \A i \in old : items[i] = RowAfter(todo, i)
        /\ items = [i \in DOMAIN items |-> items[i]]
    BY FlushedShape
  <1>2. /\ todo.ins \in Seq(Visible)
        /\ todo.mark \subseteq DOMAIN db.items
        /\ \A i \in todo.mark \cup todo.del : db.items[i].status = "NEEDED"
        /\ todo.mark \cap todo.del = {}
    BY TurnDecision
  <1>3. /\ DOMAIN db.items \subseteq Nat
        /\ \A i \in DOMAIN db.items :
              db.items[i] \in Rows /\ db.items[i].list = 1 /\ db.items[i].text \in Visible
    BY DEF StoreInv, Items, IsTable
  <1>4. Len(todo.ins) \in Nat /\ \A i \in new : i \in Nat /\ todo.ins[i - n] \in Visible
    BY <1>2 DEF NewIds
  <1>5. DOMAIN db.items \subseteq 1..n
    BY DEF StoreInv, IdsDrawn
  <1>. HIDE DEF items
  <1>6. \A i \in new : items[i] \in Rows /\ items[i].list = 1 /\ items[i].text \in Visible
    <2>1. Visible \subseteq Texts
      BY TextsAssumption DEF Visible
    <2>2. \A t \in Visible : /\ Item(t, "NEEDED") \in Rows
                             /\ Item(t, "NEEDED").list = 1
                             /\ Item(t, "NEEDED").text = t
      BY <2>1 DEF Item, Rows, Statuses
    <2>. HIDE DEF new
    <2> QED BY <1>1, <1>4, <2>2
  <1>7. \A i \in old : /\ items[i] \in Rows /\ items[i].list = 1 /\ items[i].text \in Visible
                       /\ i \in todo.mark => items[i].status = "BOUGHT"
                       /\ db.items[i].status = "BOUGHT" => items[i].status = "BOUGHT"
    <2>1. \A row \in Rows :
            /\ [row EXCEPT !.status = "BOUGHT"] \in Rows
            /\ [row EXCEPT !.status = "BOUGHT"].list = row.list
            /\ [row EXCEPT !.status = "BOUGHT"].text = row.text
            /\ [row EXCEPT !.status = "BOUGHT"].status = "BOUGHT"
      BY DEF Rows, Statuses
    <2>2. \A row \in Rows :
            /\ [row EXCEPT !.cleared = TRUE] \in Rows
            /\ [row EXCEPT !.cleared = TRUE].list = row.list
            /\ [row EXCEPT !.cleared = TRUE].text = row.text
            /\ [row EXCEPT !.cleared = TRUE].status = row.status
      BY DEF Rows
    <2>. SUFFICES ASSUME NEW i \in old
                  PROVE  /\ items[i] \in Rows /\ items[i].list = 1 /\ items[i].text \in Visible
                         /\ i \in todo.mark => items[i].status = "BOUGHT"
                         /\ db.items[i].status = "BOUGHT" => items[i].status = "BOUGHT"
      OBVIOUS
    <2>3. db.items[i] \in Rows /\ db.items[i].list = 1 /\ db.items[i].text \in Visible
      BY <1>3
    <2>4. CASE i \in todo.mark
      <3>1. items[i] = [db.items[i] EXCEPT !.status = "BOUGHT"]
        BY <1>1, <2>4 DEF RowAfter
      <3> QED BY <2>1, <2>3, <3>1
    <2>5. CASE i \notin todo.mark /\ i \in todo.clr
      <3>1. items[i] = [db.items[i] EXCEPT !.cleared = TRUE]
        BY <1>1, <2>5 DEF RowAfter
      <3> QED BY <2>2, <2>3, <2>5, <3>1
    <2>6. CASE i \notin todo.mark /\ i \notin todo.clr
      <3>1. items[i] = db.items[i]
        BY <1>1, <2>6 DEF RowAfter
      <3> QED BY <2>3, <2>6, <3>1
    <2> QED BY <2>4, <2>5, <2>6
  <1>8. Items(items)
    <2>1. DOMAIN items \subseteq Nat
      BY <1>1, <1>3, <1>4
    <2>2. \A i \in DOMAIN items : items[i] \in Rows /\ items[i].list = 1 /\ items[i].text \in Visible
      BY <1>1, <1>6, <1>7
    <2> QED BY <1>1, <2>1, <2>2 DEF Items, IsTable
  <1>9. DOMAIN born \cup DOMAIN items = 1..n + Len(todo.ins)
    BY <1>1, <1>4, <1>5 DEF NewIds
  <1>10. bought \in Seq(BoughtIn(items))
    <2>1. BoughtIn(db.items) \subseteq BoughtIn(items)
      BY <1>1, <1>2, <1>7 DEF BoughtIn
    <2> QED BY <2>1 DEF StoreInv
  <1>11. todo.mark \subseteq BoughtIn(items)
    BY <1>1, <1>2, <1>7 DEF BoughtIn
  <1> QED BY <1>4, <1>8, <1>9, <1>10, <1>11 DEF items

\* What add_items makes rows of, together with what is needed already, has the
\* names of all texts but the blank ones.
LEMMA NewTextsCover ==
    ASSUME NEW store, NEW texts \in Seq(Texts), NEW new, new = NewTexts(store, 1, texts),
           NEW existing, existing = Names(store, NeededItems(store, 1))
    PROVE  /\ new \in Seq(Texts)
           /\ \A k \in 1..Len(texts) :
                Lower[texts[k]] \notin existing \cup {Blank}
                    => \E m \in 1..Len(new) : Lower[new[m]] = Lower[texts[k]]
  BY NewTextsAreNew

\* What was ticked and is not blank is needed after the flush of an add.
LEMMA FlushedNames ==
    ASSUME StoreInv, NEW job, Asks(job), NEW n \in Nat, DOMAIN born = 1..n,
           NEW todo, todo = Decision(db, 1, job), ~ Excused(job)
    PROVE  LET store == Flushed(todo)
           IN  {Lower[t] : t \in job.ticked} \subseteq Names(store, NeededItems(store, 1))
  <1>. DEFINE texts == NewTexts(db, 1, job.texts)
              new == NewIds(n, todo)
              store == Flushed(todo)
              items == Flushed(todo).items
              existing == Names(db, NeededItems(db, 1))
  <1>1. /\ job.action = "add" /\ job.ticked \subseteq ToSet(job.texts) \cap Visible
        /\ job.texts \in Seq(Texts)
    BY DEF Asks
  <1>2. todo.ins = texts /\ todo.mark = {} /\ todo.del = {} /\ todo.clr = {}
    <2>1. todo = IF texts # <<>> THEN [Answer("plain", "list") EXCEPT !.ins = texts]
                                 ELSE Answer("final", "none")
      BY <1>1 DEF Decision, FoundOr
    <2>. HIDE DEF texts
    <2> QED BY <2>1 DEF Answer
  <1>3. /\ DOMAIN items = (DOMAIN db.items \ todo.del) \cup new
        /\ new \cap DOMAIN db.items = {}
        /\ \A i \in new : items[i] = Item(todo.ins[i - n], "NEEDED")
        /\ \A i \in DOMAIN db.items \ todo.del : items[i] = RowAfter(todo, i)
    <2>. HIDE DEF texts, existing
    <2>1. DOMAIN items = (DOMAIN db.items \ todo.del) \cup new /\ new \cap DOMAIN db.items = {}
      BY FlushedShape
    <2>2. \A i \in new : items[i] = Item(todo.ins[i - n], "NEEDED")
      BY FlushedShape
    <2>3. \A i \in DOMAIN db.items \ todo.del : items[i] = RowAfter(todo, i)
      BY FlushedShape
    <2> QED BY <2>1, <2>2, <2>3
  <1>4. /\ texts \in Seq(Texts)
        /\ \A k \in 1..Len(job.texts) :
             Lower[job.texts[k]] \notin existing \cup {Blank}
                => \E m \in 1..Len(texts) : Lower[texts[m]] = Lower[job.texts[k]]
    <2>1. texts = NewTexts(db, 1, job.texts) /\ existing = Names(db, NeededItems(db, 1))
      OBVIOUS
    <2>. HIDE DEF texts, existing
    <2> QED BY <1>1, <2>1, NewTextsCover
  <1>. HIDE DEF texts, items, existing
  <1>5. \A i \in DOMAIN db.items : i \in DOMAIN items /\ items[i] = db.items[i]
    BY <1>2, <1>3 DEF RowAfter
  <1>6. \A m \in 1..Len(texts) :
            n + m \in DOMAIN items /\ items[n + m] = Item(texts[m], "NEEDED")
    <2>. SUFFICES ASSUME NEW m \in 1..Len(texts)
                  PROVE  n + m \in DOMAIN items /\ items[n + m] = Item(texts[m], "NEEDED")
      OBVIOUS
    <2>1. n + m \in new /\ (n + m) - n = m
      BY <1>2, <1>4 DEF NewIds
    <2>. HIDE DEF new
    <2> QED BY <1>2, <1>3, <2>1
  <1>7. existing \subseteq Names(store, NeededItems(store, 1))
    BY <1>5 DEF existing, Names, NeededItems, items
  <1>8. \A m \in 1..Len(texts) : Lower[texts[m]] \in Names(store, NeededItems(store, 1))
    <2>. SUFFICES ASSUME NEW m \in 1..Len(texts)
                  PROVE  Lower[texts[m]] \in Names(store, NeededItems(store, 1))
      OBVIOUS
    <2>1. \A t : /\ Item(t, "NEEDED").list = 1 /\ Item(t, "NEEDED").text = t
                 /\ Item(t, "NEEDED").status = "NEEDED"
      BY DEF Item
    <2>2. /\ n + m \in DOMAIN store.items /\ store.items[n + m].list = 1
          /\ store.items[n + m].text = texts[m] /\ store.items[n + m].status = "NEEDED"
      BY <1>6, <2>1 DEF items
    <2>. HIDE DEF store
    <2>3. n + m \in NeededItems(store, 1)
      BY <2>2 DEF NeededItems
    <2> QED BY <2>2, <2>3 DEF Names
  <1>9. ASSUME NEW t \in job.ticked PROVE Lower[t] \in Names(store, NeededItems(store, 1))
    <2>1. PICK k \in 1..Len(job.texts) : job.texts[k] = t
      BY <1>1 DEF ToSet
    <2>2. t \in Texts /\ Lower[t] # Blank
      BY <1>1, TextsAssumption DEF Visible
    <2>. HIDE DEF store
    <2>3. CASE Lower[t] \in existing
      BY <1>7, <2>3
    <2>4. CASE Lower[t] \notin existing
      <3>1. PICK m \in 1..Len(texts) : Lower[texts[m]] = Lower[t]
        BY <1>4, <2>1, <2>2, <2>4
      <3> QED BY <1>8, <3>1
    <2> QED BY <2>3, <2>4
  <1> QED BY <1>9

-----------------------------------------------------------------------------
(* The steps of a turn.                                                    *)

\* A query that sorts by time returns each of its items once.
LEMMA ByCreationShape ==
    ASSUME NEW S, IsFiniteSet(S), NEW created, NEW s \in ByCreation(S, created)
    PROVE  s \in Seq(S) /\ \A m, n \in DOMAIN s : m # n => s[m] # s[n]
  <1>1. Cardinality(S) \in Nat
    BY FS_CardinalityType
  <1>2. s \in [1..Cardinality(S) -> S] /\ \A m, n \in 1..Cardinality(S) : m # n => s[m] # s[n]
    BY DEF ByCreation, SetToSeqs
  <1> QED BY <1>1, <1>2

\* Only what was sent gets to the phone.
LEMMA SentPhone ==
    ASSUME PhoneInv, NEW job, NEW sent, NEW ok, Fine(sent), Sends(job, sent, ok)
    PROVE  PhoneInv'
  <1>1. \A m \in ToSet(sent) : Good(m)
    BY DEF Fine, ToSet
  <1>2. ASSUME NEW tap \in chat' PROVE TapOK(tap)
    <2>1. CASE tap \in chat
      BY <2>1 DEF PhoneInv
    <2>2. CASE tap \notin chat
      <3>1. PICK m \in ToSet(sent) : m.kind # "flow" /\ tap \in ToSet(m.taps)
        BY <1>2, <2>2 DEF Sends
      <3> QED BY <1>1, <3>1 DEF Good, ToSet
    <2> QED BY <2>1, <2>2
  <1>3. ASSUME NEW form \in forms' PROVE form \in Seq(Visible)
    <2>1. CASE form \in forms
      BY <2>1 DEF PhoneInv
    <2>2. CASE form \notin forms
      <3>1. PICK m \in ToSet(sent) :
                m.kind = "flow" /\ form = [k \in DOMAIN m.taps |-> m.taps[k].what]
        BY <1>3, <2>2 DEF Sends
      <3>2. /\ m.taps \in Seq({m.taps[k] : k \in DOMAIN m.taps})
            /\ \A k \in DOMAIN m.taps : m.taps[k].what \in Visible
        BY <1>1, <3>1 DEF Good, OptionOK
      <3>3. DOMAIN m.taps = 1..Len(m.taps) /\ Len(m.taps) \in Nat
        BY <3>2
      <3>4. form \in [1..Len(m.taps) -> Visible]
        BY <3>1, <3>2, <3>3
      <3> QED BY <3>3, <3>4
    <2> QED BY <2>1, <2>2
  <1> QED BY <1>2, <1>3 DEF PhoneInv

\* A turn whose messages, rows and counters are as they should be keeps the
\* invariant.
LEMMA SentInv ==
    ASSUME ConvInv, turns < MaxTurns,
           NEW job, NEW sent, NEW ok, Sends(job, sent, ok),
           job.kind \in Kinds, Fine(sent),
           ok /\ job.kind \notin {"none", "strange"} => EndsTappable(sent),
           ok /\ ~ Excused(job) =>
               {Lower[t] : t \in job.ticked} \subseteq Names(db', NeededItems(db', 1)),
           failures' \in 0..MaxFailures, StoreInv'
    PROVE  ConvInv'
  <1>1. /\ turn' = [job |-> job, sent |-> sent, ok |-> ok]
        /\ turns' = turns + 1 /\ flow' = flow
    BY DEF Sends
  <1>2. turn'.job = job /\ turn'.sent = sent /\ turn'.ok = ok
    BY <1>1
  <1>3. PhoneInv'
    BY SentPhone DEF ConvInv
  <1>4. CountInv'
    <2>1. turns + 1 \in 0..MaxTurns
      BY BoundsAssumption DEF ConvInv, CountInv
    <2> QED BY <1>1, <2>1 DEF ConvInv, CountInv
  <1>5. FormIsHonoured'
    BY <1>2 DEF FormIsHonoured, Excused
  <1>6. TurnInv'
    BY <1>2, <1>5 DEF TurnInv
  <1> QED BY <1>3, <1>4, <1>6 DEF ConvInv

\* A turn that fails leaves the rows, and has sent a beginning of its messages.
LEMMA FailsInv ==
    ASSUME ConvInv, turns < MaxTurns, NEW job, NEW sent,
           job.kind \in Kinds, Fine(sent), Fails(job, sent), IdsDrawn'
    PROVE  ConvInv'
  <1>1. PICK n \in 0..Len(sent) : Sends(job, SubSeq(sent, 1, n), FALSE)
    BY DEF Fails
  <1>2. db' = db /\ bought' = bought /\ failures < MaxFailures /\ failures' = failures + 1
    BY DEF Fails
  <1>3. Fine(SubSeq(sent, 1, n))
    BY FineBeginning
  <1>4. StoreInv'
    BY <1>2 DEF ConvInv, StoreInv, DbShape
  <1>5. failures' \in 0..MaxFailures
    BY <1>2, BoundsAssumption DEF ConvInv, CountInv
  <1> QED BY <1>1, <1>3, <1>4, <1>5, SentInv

\* New ids are drawn at the end.
LEMMA BornInv ==
    ASSUME StoreInv, turns \in Nat, NEW n \in Nat, DOMAIN born = 1..n,
           NEW k \in Nat, n <= k, turns' = turns + 1,
           born' = [i \in 1..k |-> IF i \in DOMAIN born THEN born[i] ELSE turns + 1],
           DOMAIN db'.items \subseteq 1..k
    PROVE  IdsDrawn'
  <1>1. DOMAIN born' = 1..k
    OBVIOUS
  <1>2. \A i \in 1..k : born'[i] \in 0..turns'
    BY DEF StoreInv, IdsDrawn
  <1>3. born' \in [1..k -> 0..turns']
    BY <1>2
  <1> QED BY <1>1, <1>3 DEF IdsDrawn

\* A turn without a session.
LEMMA SaysInv ==
    ASSUME ConvInv, turns < MaxTurns, NEW job, NEW sent, Says(job, sent),
           job.kind \in Kinds, Fine(sent), Excused(job),
           job.kind \notin {"none", "strange"} => EndsTappable(sent)
    PROVE  ConvInv'
  <1>1. born' = born /\ db' = db /\ bought' = bought
    BY DEF Says, Fails
  <1>2. turns' = turns + 1
    BY DEF Says, Fails, Sends
  <1>3. turns \in Nat
    BY DEF ConvInv, CountInv
  <1>4. IdsDrawn'
    <2>1. born \in [DOMAIN born -> 0..turns] /\ 0..turns \subseteq 0..turns'
      BY <1>2, <1>3 DEF ConvInv, StoreInv, IdsDrawn
    <2>2. born' \in [DOMAIN born' -> 0..turns']
      BY <1>1, <2>1
    <2> QED BY <1>1, <2>2 DEF ConvInv, StoreInv, IdsDrawn
  <1>5. CASE Sends(job, sent, TRUE) /\ failures' = failures
    <2>1. StoreInv'
      BY <1>1, <1>4 DEF ConvInv, StoreInv, DbShape
    <2>2. failures' \in 0..MaxFailures
      BY <1>5 DEF ConvInv, CountInv
    <2> QED BY <1>5, <2>1, <2>2, SentInv
  <1>6. CASE Fails(job, sent)
    BY <1>4, <1>6, FailsInv
  <1> QED BY <1>5, <1>6 DEF Says

\* What a turn with a session has bought, and what its list shows.
LEMMA CommitShape ==
    ASSUME StoreInv, NEW job, Asks(job), NEW n \in Nat, DOMAIN born = 1..n,
           NEW todo, todo = Decision(db, 1, job), NEW store, store = Flushed(todo),
           NEW marked \in ByCreation(todo.mark, born), NEW created,
           NEW ids \in ByCreation(NeededItems(store, 1), created)
    PROVE  /\ bought \o marked \in Seq(BoughtIn(store.items))
           /\ Items(store.items)
           /\ Listable(store, ids)
  <1>. DEFINE purchases == bought \o marked
              needed == NeededItems(store, 1)
  <1>1. StoreInv
    OBVIOUS
  <1>2. /\ Items(store.items)
        /\ DOMAIN born \cup DOMAIN store.items = 1..n + Len(todo.ins)
        /\ n + Len(todo.ins) \in Nat
        /\ bought \in Seq(BoughtIn(store.items))
        /\ todo.mark \subseteq BoughtIn(store.items)
    BY <1>1, FlushedStore
  <1>3. /\ todo \in Todos /\ todo.mark \subseteq DOMAIN db.items
        /\ todo.text = "final" \/ todo.follow # "none"
    BY <1>1, TurnDecision
  <1>4. IsFiniteSet(todo.mark) /\ IsFiniteSet(needed) /\ needed \subseteq DOMAIN store.items
    <2>1. DOMAIN db.items \subseteq 1..n
      BY <1>1 DEF StoreInv, IdsDrawn
    <2>2. IsFiniteSet(1..n) /\ todo.mark \subseteq 1..n
      BY <1>3, <2>1, FS_Interval
    <2>3. needed \subseteq DOMAIN store.items
      BY DEF NeededItems
    <2>. DEFINE k == n + Len(todo.ins)
    <2>4. k \in Nat /\ DOMAIN store.items \subseteq 1..k
      BY <1>2
    <2>. HIDE DEF needed, k
    <2>5. IsFiniteSet(1..k)
      BY <2>4, FS_Interval
    <2>6. needed \subseteq 1..k
      BY <2>3, <2>4
    <2> QED BY <2>2, <2>3, <2>5, <2>6, FS_Subset
  <1>. HIDE DEF needed
  <1>5. purchases \in Seq(BoughtIn(store.items))
    <2>1. marked \in Seq(todo.mark)
      BY <1>4, ByCreationShape
    <2>2. marked \in Seq(BoughtIn(store.items))
      BY <1>2, <2>1
    <2> QED BY <1>2, <2>2
  <1>. HIDE DEF purchases
  <1>6. Listable(store, ids)
    <2>1. ids \in Seq(needed) /\ \A k, m \in DOMAIN ids : k # m => ids[k] # ids[m]
      BY <1>4, ByCreationShape DEF needed
    <2>2. DOMAIN store.items \subseteq Nat /\ \A i \in DOMAIN store.items : store.items[i].text \in Visible
      BY <1>2 DEF Items, IsTable
    <2>3. ids \in Seq(Nat) /\ \A k \in DOMAIN ids : ids[k] \in DOMAIN store.items
      BY <1>4, <2>1, <2>2
    <2> QED BY <2>1, <2>2, <2>3 DEF Listable
  <1> QED BY <1>2, <1>5, <1>6 DEF purchases

\* A turn with a session, once what it decides is known.
LEMMA CommitsInv ==
    ASSUME ConvInv, turns < MaxTurns, NEW job, Asks(job), NEW before, Fine(before),
           NEW n \in Nat, DOMAIN born = 1..n,
           NEW todo, todo = Decision(db, 1, job), NEW store, store = Flushed(todo), IdsDrawn',
           NEW marked \in ByCreation(todo.mark, born),
           NEW ids \in ByCreation(NeededItems(store, 1), born'),
           NEW sent, sent = before \o Messages(todo, store, ids, bought \o marked),
           \/ /\ Sends(job, sent, TRUE)
              /\ db' = store
              /\ bought' = bought \o marked
              /\ UNCHANGED failures
           \/ Fails(job, sent)
    PROVE  ConvInv'
  <1>. DEFINE purchases == bought \o marked
  <1>1. StoreInv
    BY DEF ConvInv
  <1>2. purchases \in Seq(BoughtIn(store.items)) /\ Items(store.items) /\ Listable(store, ids)
    BY <1>1, CommitShape
  <1>3. /\ todo \in Todos
        /\ todo.text = "final" \/ todo.follow # "none"
    BY <1>1, TurnDecision
  <1>. HIDE DEF purchases
  <1>4. Fine(sent) /\ EndsTappable(sent)
    <2>1. purchases \in Seq(DOMAIN store.items)
      BY <1>2 DEF BoughtIn
    <2>2. /\ Fine(Messages(todo, store, ids, purchases))
          /\ EndsTappable(Messages(todo, store, ids, purchases))
      BY <1>2, <1>3, <2>1, MessagesFine
    <2>3. sent = before \o Messages(todo, store, ids, purchases)
      BY DEF purchases
    <2> QED BY <2>2, <2>3, FineBoth
  <1>5. job.kind \in Kinds
    BY DEF Asks
  <1>6. CASE /\ Sends(job, sent, TRUE) /\ db' = store
             /\ bought' = purchases /\ UNCHANGED failures
    <2>1. db' = [families |-> db.families, lists |-> db.lists, users |-> db.users,
                 items |-> store.items]
      BY <1>1, <1>6, FlushedShape
    <2>2. DbShape'
      BY <2>1 DEF DbShape
    <2>3. StoreInv'
      BY <1>2, <1>6, <2>2 DEF StoreInv
    <2>4. ~ Excused(job) =>
            {Lower[t] : t \in job.ticked} \subseteq Names(db', NeededItems(db', 1))
      BY <1>1, <1>6, FlushedNames
    <2>5. failures' \in 0..MaxFailures
      BY <1>6 DEF ConvInv, CountInv
    <2> QED BY <1>4, <1>5, <1>6, <2>3, <2>4, <2>5, SentInv
  <1>7. CASE Fails(job, sent)
    BY <1>4, <1>5, <1>7, FailsInv
  <1> QED BY <1>6, <1>7 DEF purchases

\* A turn with a session.
LEMMA TurnStep ==
    ASSUME ConvInv, turns < MaxTurns, NEW job, Asks(job),
           NEW before \in {<<>>, <<Plain>>}, Turn(job, before)
    PROVE  ConvInv'
  <1>. DEFINE todo == Decision(db, 1, job)
              store == Flushed(todo)
  <1>1. StoreInv /\ turns \in Nat
    BY DEF ConvInv, CountInv
  <1>2. PICK n \in Nat : DOMAIN born = 1..n
    BY <1>1 DEF StoreInv, IdsDrawn
  <1>3. Fine(before)
    BY FineNone, FineOne, PlainGood
  <1>4. /\ born' = [i \in DOMAIN born \cup DOMAIN store.items |->
                        IF i \in DOMAIN born THEN born[i] ELSE turns + 1]
        /\ \/ /\ Storable(todo)
              /\ \E marked \in ByCreation(todo.mark, born) :
                 \E ids \in ByCreation(NeededItems(store, 1), born') :
                    LET purchases == bought \o marked
                        sent      == before \o Messages(todo, store, ids, purchases)
                    IN  \/ /\ Sends(job, sent, TRUE)
                           /\ db' = store
                           /\ bought' = purchases
                           /\ UNCHANGED failures
                        \/ Fails(job, sent)
           \/ /\ ~ Storable(todo)
              /\ Fails(job, before)
    BY DEF Turn
  <1>5. /\ DOMAIN born \cup DOMAIN store.items = 1..n + Len(todo.ins)
        /\ n + Len(todo.ins) \in Nat /\ n <= n + Len(todo.ins)
        /\ DOMAIN store.items \subseteq 1..n + Len(todo.ins)
    <2>1. /\ DOMAIN born \cup DOMAIN store.items = 1..n + Len(todo.ins)
          /\ n + Len(todo.ins) \in Nat
      BY <1>1, <1>2, FlushedStore
    <2>2. todo.ins \in Seq(Visible)
      BY <1>1, TurnDecision
    <2>3. Len(todo.ins) \in Nat
      BY <2>2
    <2>. HIDE DEF todo, store
    <2> QED BY <2>1, <2>3
  <1>6. turns' = turns + 1
    BY <1>4 DEF Fails, Sends
  <1>7. db' = store \/ db' = db
    BY <1>4 DEF Fails
  <1>. HIDE DEF todo, store
  <1>8. DOMAIN db'.items \subseteq 1..n + Len(todo.ins)
    <2>1. DOMAIN db.items \subseteq 1..n + Len(todo.ins)
      BY <1>1, <1>2, <1>5 DEF StoreInv, IdsDrawn
    <2> QED BY <1>5, <1>7, <2>1
  <1>9. IdsDrawn'
    <2>. DEFINE k == n + Len(todo.ins)
    <2>1. born' = [i \in 1..k |-> IF i \in DOMAIN born THEN born[i] ELSE turns + 1]
      BY <1>4, <1>5
    <2>2. k \in Nat /\ n <= k /\ DOMAIN db'.items \subseteq 1..k
      BY <1>5, <1>8
    <2>. HIDE DEF k
    <2> QED BY <1>1, <1>2, <1>6, <2>1, <2>2, BornInv
  <1>10. CASE ~ Storable(todo) /\ Fails(job, before)
    <2>1. job.kind \in Kinds
      BY DEF Asks
    <2> QED BY <1>3, <1>9, <1>10, <2>1, FailsInv
  <1>11. ASSUME NEW marked \in ByCreation(todo.mark, born),
                NEW ids \in ByCreation(NeededItems(store, 1), born'),
                LET sent == before \o Messages(todo, store, ids, bought \o marked)
                IN  \/ /\ Sends(job, sent, TRUE)
                       /\ db' = store
                       /\ bought' = bought \o marked
                       /\ UNCHANGED failures
                    \/ Fails(job, sent)
         PROVE  ConvInv'
    <2>. DEFINE sent == before \o Messages(todo, store, ids, bought \o marked)
    <2>1. \/ /\ Sends(job, sent, TRUE)
             /\ db' = store
             /\ bought' = bought \o marked
             /\ UNCHANGED failures
          \/ Fails(job, sent)
      BY <1>11
    <2>2. todo = Decision(db, 1, job) /\ store = Flushed(todo)
      BY DEF todo, store
    <2>3. sent = before \o Messages(todo, store, ids, bought \o marked)
      OBVIOUS
    <2>. HIDE DEF sent
    <2> QED BY <1>2, <1>3, <1>9, <2>1, <2>2, <2>3, CommitsInv
  <1> QED BY <1>4, <1>10, <1>11

-----------------------------------------------------------------------------
(* What a user can do.                                                     *)

\* A job by its parts.
LEMMA JobShape ==
    ASSUME NEW kind, NEW action, NEW texts, NEW id
    PROVE  /\ Job(kind, action, texts, id).kind = kind
           /\ Job(kind, action, texts, id).action = action
           /\ Job(kind, action, texts, id).texts = texts
           /\ Job(kind, action, texts, id).ticked = {}
  BY DEF Job

\* Texts, taps and buttons ask for something the bot knows; they tick nothing.
LEMMA JobAsks ==
    ASSUME NEW kind \in Kinds \ {"none", "strange"}, NEW action \in Actions \ {"cmd:none"},
           NEW texts \in Seq(Texts), NEW id
    PROVE  Asks(Job(kind, action, texts, id))
  <1>. DEFINE job == Job(kind, action, texts, id)
  <1>1. job.kind = kind /\ job.action = action /\ job.texts = texts /\ job.ticked = {}
    BY JobShape
  <1>. HIDE DEF job
  <1>2. Asks(job)
    BY <1>1 DEF Asks, Excused
  <1> QED BY <1>2 DEF job

\* A turn that opens no session: all it can say is a text with buttons.
WithoutSession ==
    \E job, sent :
        /\ job.kind \in Kinds /\ Excused(job) /\ job.action # "readd"
        /\ sent = <<Final(<<>>)>> \/ (sent = <<>> /\ job.kind = "strange")
        /\ Says(job, sent)

\* A turn with a session, which may be for a text of a picker.
WithSession ==
    \E job, before :
        /\ Asks(job) /\ before \in {<<>>, <<Plain>>}
        /\ job.action = "readd" => \E t \in Visible : job.texts = <<t>>
        /\ Turn(job, before)

\* Turns of the one and of the other kind.
LEMMA NoSession ==
    ASSUME NEW job, job.kind \in Kinds, Excused(job), job.action # "readd",
           NEW sent, sent = <<Final(<<>>)>> \/ (sent = <<>> /\ job.kind = "strange"),
           Says(job, sent)
    PROVE  WithoutSession
  BY Zenon DEF WithoutSession

LEMMA InSession ==
    ASSUME NEW job, Asks(job), NEW before \in {<<>>, <<Plain>>},
           job.action = "readd" => \E t \in Visible : job.texts = <<t>>,
           Turn(job, before)
    PROVE  WithSession
  BY Zenon DEF WithSession

\* A text that is understood, or not.
LEMMA UnderstoodTurn ==
    ASSUME NEW kind \in {"message", "audio"}, NEW before \in {<<>>, <<Plain>>},
           Understood(kind, before)
    PROVE  WithSession
  <1>1. CASE Turn(Unreadable(kind), before)
    <2>1. Asks(Unreadable(kind)) /\ Unreadable(kind).action # "readd"
      <3>1. /\ <<>> \in Seq(Texts) /\ "talk" \in Actions \ {"cmd:none"}
            /\ kind \in Kinds \ {"none", "strange"}
        BY DEF Actions, PlainActions, Kinds
      <3>2. Unreadable(kind) = Job(kind, "talk", <<>>, 0)
        BY DEF Unreadable
      <3>3. Asks(Unreadable(kind))
        BY <3>1, <3>2, JobAsks
      <3>4. Unreadable(kind).action = "talk"
        BY <3>2, JobShape
      <3> QED BY <3>3, <3>4
    <2> QED BY <1>1, <2>1, InSession
  <1>2. ASSUME NEW answer \in Answers, Turn(Parsed(kind, answer), before)
        PROVE  WithSession
    <2>. DEFINE texts == IF answer.action \in ItemActions THEN answer.items ELSE <<>>
    <2>1. answer.action \in ItemActions \cup PlainActions /\ answer.items \in Seq(Texts)
      BY BatchesAssumption DEF Answers
    <2>2. texts \in Seq(Texts)
      BY <2>1
    <2>3. answer.action \in Actions \ {"cmd:none", "readd"}
      BY <2>1 DEF Actions, ItemActions, PlainActions
    <2>4. Parsed(kind, answer) = Job(kind, answer.action, texts, 0)
      BY DEF Parsed
    <2>. HIDE DEF texts
    <2>5. Asks(Parsed(kind, answer)) /\ Parsed(kind, answer).action # "readd"
      BY <2>2, <2>3, <2>4, JobAsks, JobShape DEF Kinds
    <2> QED BY <1>2, <2>5, InSession
  <1> QED BY <1>1, <1>2 DEF Understood

\* One that needs no session.
LEMMA UnreadableTurn ==
    ASSUME NEW kind \in {"message", "audio"}, Says(Unreadable(kind), <<Final(<<>>)>>)
    PROVE  WithoutSession
  <1>1. /\ Unreadable(kind).kind \in Kinds /\ Unreadable(kind).action # "readd"
        /\ Excused(Unreadable(kind))
    BY JobShape DEF Unreadable, Kinds, Excused
  <1> QED BY <1>1, NoSession

\* A text message.
LEMMA TextMessageTurn == ASSUME TextMessage PROVE WithoutSession \/ WithSession
  BY UnreadableTurn, UnderstoodTurn DEF TextMessage

\* A voice note.
LEMMA VoiceNoteTurn == ASSUME VoiceNote PROVE WithoutSession \/ WithSession
  BY UnreadableTurn, UnderstoodTurn DEF VoiceNote

\* A tap on a row.
LEMMA TapRowTurn == ASSUME ConvInv, TapRow PROVE WithSession
  <1>1. ASSUME NEW tap \in chat, tap.do = "buy", Turn(Job("selection", "buy", <<>>, tap.what), <<>>)
        PROVE  WithSession
    <2>. DEFINE job == Job("selection", "buy", <<>>, tap.what)
    <2>0. job = Job("selection", "buy", <<>>, tap.what)
      OBVIOUS
    <2>. HIDE DEF job
    <2>1. Asks(job) /\ job.action # "readd"
      <3>1. /\ <<>> \in Seq(Texts) /\ "buy" \in Actions \ {"cmd:none"}
            /\ "selection" \in Kinds \ {"none", "strange"}
        BY DEF Actions, Kinds
      <3>2. Asks(job)
        BY <2>0, <3>1, JobAsks
      <3>3. job.action = "buy"
        BY <2>0, JobShape
      <3> QED BY <3>2, <3>3
    <2>2. Turn(job, <<>>)
      BY <1>1 DEF job
    <2> QED BY <2>1, <2>2, InSession
  <1>2. ASSUME NEW tap \in chat, tap.do = "readd",
               Turn(Job("selection", "readd", <<tap.what>>, 0), <<>>)
        PROVE  WithSession
    <2>. DEFINE job == Job("selection", "readd", <<tap.what>>, 0)
    <2>1. tap.what \in Visible /\ tap.what \in Texts
      BY <1>2, TextsAssumption DEF ConvInv, PhoneInv, TapOK, Visible
    <2>0. job = Job("selection", "readd", <<tap.what>>, 0)
      OBVIOUS
    <2>. HIDE DEF job
    <2>2. Asks(job) /\ job.texts = <<tap.what>>
      <3>1. /\ <<tap.what>> \in Seq(Texts) /\ "readd" \in Actions \ {"cmd:none"}
            /\ "selection" \in Kinds \ {"none", "strange"}
        BY <2>1 DEF Actions, Kinds
      <3>2. Asks(job)
        BY <2>0, <3>1, JobAsks
      <3>3. job.texts = <<tap.what>>
        BY <2>0, JobShape
      <3> QED BY <3>2, <3>3
    <2>3. Turn(job, <<>>)
      BY <1>2 DEF job
    <2> QED BY <2>1, <2>2, <2>3, InSession
  <1> QED BY <1>1, <1>2 DEF TapRow

\* A tap on a button.
LEMMA TapButtonTurn == ASSUME ConvInv, TapButton PROVE WithSession
  <1>1. ASSUME NEW action \in Actions \ {"cmd:none", "readd"},
               Turn(Job("button", action, <<>>, 0), <<>>)
        PROVE  WithSession
    <2>. DEFINE job == Job("button", action, <<>>, 0)
    <2>1. job = Job("button", action, <<>>, 0)
      OBVIOUS
    <2>. HIDE DEF job
    <2>2. Asks(job) /\ job.action # "readd"
      <3>1. <<>> \in Seq(Texts) /\ "button" \in Kinds \ {"none", "strange"}
        BY DEF Kinds
      <3>2. Asks(job)
        BY <2>1, <3>1, JobAsks
      <3>3. job.action = action
        BY <2>1, JobShape
      <3> QED BY <3>2, <3>3
    <2>3. Turn(job, <<>>)
      BY <1>1 DEF job
    <2> QED BY <2>2, <2>3, InSession
  <1>2. \A tap \in chat : tap.do # "cmd:none"
    BY DEF ConvInv, PhoneInv, TapOK
  <1>3. /\ "clear" \in Actions \ {"cmd:none", "readd"}
        /\ ButtonActions \subseteq Actions \ {"readd"}
    BY DEF Actions, PlainActions, ButtonActions
  <1> QED BY <1>1, <1>2, <1>3 DEF TapButton

\* What a form that comes back was ticked for is in the job it makes, but for a
\* single text that can be read as JSON.
LEMMA PickedShape ==
    ASSUME NEW form \in Seq(Visible), NEW response \in Completions(form)
    PROVE  /\ PickedItems(response) \in Seq(Visible)
           /\ \/ response.as = "bare" /\ ToSet(response.picked) \subseteq Scalars
              \/ ToSet(response.picked) \subseteq ToSet(PickedItems(response)) \cap Visible
  <1>1. ASSUME NEW as \in {"list", "json"}, NEW ticked,
               response = [as |-> as, picked |-> Keep(form, ticked)]
        PROVE  /\ PickedItems(response) \in Seq(Visible)
               /\ ToSet(response.picked) \subseteq ToSet(PickedItems(response)) \cap Visible
    <2>. DEFINE picked == Keep(form, ticked)
    <2>1. picked \in Seq(Visible \cap ticked)
      BY KeepShape
    <2>. HIDE DEF picked
    <2>2. picked \in Seq(Visible) /\ ToSet(picked) \subseteq Visible
      <3>1. picked \in Seq(Visible)
        BY <2>1
      <3> QED BY <3>1 DEF ToSet
    <2>3. PickedItems(response) = Keep(picked, Visible) /\ response.picked = picked
      BY <1>1 DEF PickedItems, picked
    <2>4. /\ Keep(picked, Visible) \in Seq(Visible \cap Visible)
          /\ ToSet(Keep(picked, Visible)) = ToSet(picked) \cap Visible
      BY <2>2, KeepShape
    <2>5. Visible \cap Visible = Visible
      OBVIOUS
    <2> QED BY <2>2, <2>3, <2>4, <2>5
  <1>2. ASSUME NEW t \in ToSet(form), response = [as |-> "bare", picked |-> <<t>>]
        PROVE  /\ PickedItems(response) \in Seq(Visible)
               /\ \/ response.as = "bare" /\ ToSet(response.picked) \subseteq Scalars
                  \/ ToSet(response.picked) \subseteq ToSet(PickedItems(response)) \cap Visible
    <2>1. t \in Visible
      BY DEF ToSet
    <2>2. PickedItems(response) = Keep(<<t>>, Visible \ Scalars) /\ response.picked = <<t>>
      BY <1>2 DEF PickedItems
    <2>3. <<t>> \in Seq(Visible) /\ ToSet(<<t>>) = {t}
      BY <2>1 DEF ToSet
    <2>4. /\ Keep(<<t>>, Visible \ Scalars) \in Seq(Visible \cap (Visible \ Scalars))
          /\ ToSet(Keep(<<t>>, Visible \ Scalars)) = {t} \cap (Visible \ Scalars)
      <3>. DEFINE one == <<t>>
                  T == Visible \ Scalars
      <3>1. one \in Seq(Visible) /\ ToSet(one) = {t}
        BY <2>3
      <3>. HIDE DEF one, T
      <3>2. Keep(one, T) \in Seq(Visible \cap T) /\ ToSet(Keep(one, T)) = ToSet(one) \cap T
        BY <3>1, KeepShape
      <3> QED BY <3>1, <3>2 DEF one, T
    <2>5. PickedItems(response) \in Seq(Visible)
      <3>. DEFINE s == Keep(<<t>>, Visible \ Scalars)
      <3>. HIDE DEF s
      <3>1. s \in Seq(Visible \cap (Visible \ Scalars)) => s \in Seq(Visible)
        OBVIOUS
      <3> QED BY <2>2, <2>4, <3>1 DEF s
    <2> QED BY <2>1, <2>2, <2>3, <2>4, <2>5
  <1>3. ASSUME response = [as |-> "none", picked |-> <<>>]
        PROVE  PickedItems(response) \in Seq(Visible) /\ ToSet(response.picked) = {}
    BY <1>3 DEF PickedItems, ToSet
  <1>4. \/ \E as \in {"list", "json"}, ticked \in SUBSET ToSet(form) :
              response = [as |-> as, picked |-> Keep(form, ticked)]
        \/ \E t \in ToSet(form) : response = [as |-> "bare", picked |-> <<t>>]
        \/ response = [as |-> "none", picked |-> <<>>]
    BY DEF Completions
  <1> QED BY <1>1, <1>2, <1>3, <1>4

\* A form that comes back.
LEMMA SubmitFormTurn == ASSUME ConvInv, SubmitForm PROVE WithoutSession \/ WithSession
  <1>0. PICK form \in forms : \E response \in Completions(form) :
            LET picked == PickedItems(response)
                job    == [Job("flow_completion", "add", picked, 0) EXCEPT
                               !.as = response.as, !.ticked = ToSet(response.picked)]
            IN  IF picked = <<>> THEN Says(job, <<Final(<<>>)>>) ELSE Turn(job, <<>>)
    BY DEF SubmitForm
  <1>1. PICK response \in Completions(form) :
            LET picked == PickedItems(response)
                job    == [Job("flow_completion", "add", picked, 0) EXCEPT
                               !.as = response.as, !.ticked = ToSet(response.picked)]
            IN  IF picked = <<>> THEN Says(job, <<Final(<<>>)>>) ELSE Turn(job, <<>>)
    BY <1>0
  <1>. DEFINE picked == PickedItems(response)
              job == [Job("flow_completion", "add", picked, 0) EXCEPT
                          !.as = response.as, !.ticked = ToSet(response.picked)]
  <1>2. form \in Seq(Visible)
    BY DEF ConvInv, PhoneInv
  <1>3. /\ picked \in Seq(Visible)
        /\ \/ response.as = "bare" /\ ToSet(response.picked) \subseteq Scalars
           \/ ToSet(response.picked) \subseteq ToSet(picked) \cap Visible
    BY <1>2, PickedShape
  <1>4. IF picked = <<>> THEN Says(job, <<Final(<<>>)>>) ELSE Turn(job, <<>>)
    BY <1>1
  <1>. HIDE DEF picked
  <1>5. /\ job.kind = "flow_completion" /\ job.action = "add" /\ job.texts = picked
        /\ job.ticked = ToSet(response.picked) /\ job.as = response.as
    BY DEF Job
  <1>. HIDE DEF job
  <1>6. CASE picked = <<>>
    <2>1. ToSet(picked) = {}
      BY <1>6 DEF ToSet
    <2>2. Excused(job)
      BY <1>3, <1>5, <2>1 DEF Excused, Dropped
    <2> QED BY <1>4, <1>5, <1>6, <2>2, NoSession DEF Kinds
  <1>7. CASE picked # <<>>
    <2>1. Visible \subseteq Texts
      BY TextsAssumption DEF Visible
    <2>2. picked \in Seq(Texts)
      BY <1>3, <2>1
    <2>3. "add" \in Actions \ {"cmd:none"}
      BY DEF Actions, ItemActions
    <2>4. Asks(job)
      BY <1>3, <1>5, <2>2, <2>3 DEF Asks, Kinds, Excused, Dropped
    <2> QED BY <1>4, <1>5, <1>7, <2>4, InSession
  <1> QED BY <1>6, <1>7

\* A job that asks for nothing.
LEMMA StrangeJobTurn == ASSUME StrangeJob PROVE WithoutSession
  <1>. DEFINE job == Job("strange", "cmd:none", <<>>, 0)
  <1>1. job.kind = "strange" /\ job.action # "readd" /\ Excused(job)
    BY JobShape DEF Excused
  <1>2. Says(job, <<>>)
    BY DEF StrangeJob
  <1>. HIDE DEF job
  <1> QED BY <1>1, <1>2, NoSession DEF Kinds

\* A step is a turn of one of these kinds, or a restart.
LEMMA NextTurn ==
    ASSUME ConvInv, Next
    PROVE  (turns < MaxTurns /\ (WithoutSession \/ WithSession)) \/ Reconfigure
  BY TextMessageTurn, VoiceNoteTurn, TapRowTurn, TapButtonTurn, SubmitFormTurn, StrangeJobTurn
     DEF Next

\* A turn without a session keeps the invariant.
LEMMA WithoutSessionInv ==
    ASSUME ConvInv, turns < MaxTurns, WithoutSession
    PROVE  ConvInv'
  <1>1. PICK job, sent :
            /\ job.kind \in Kinds /\ Excused(job) /\ job.action # "readd"
            /\ sent = <<Final(<<>>)>> \/ (sent = <<>> /\ job.kind = "strange")
            /\ Says(job, sent)
    BY DEF WithoutSession
  <1>2. Fine(sent) /\ (job.kind \notin {"none", "strange"} => EndsTappable(sent))
    BY <1>1, FinalTappable, FineTappable, FineNone
  <1> QED BY <1>1, <1>2, SaysInv

\* So does one with a session.
LEMMA WithSessionInv ==
    ASSUME ConvInv, turns < MaxTurns, WithSession
    PROVE  ConvInv'
  BY TurnStep DEF WithSession

\* A restart with other settings.
LEMMA ReconfigureInv == ASSUME ConvInv, Reconfigure PROVE ConvInv'
  <1>1. /\ flow' \in BOOLEAN
        /\ db' = db /\ born' = born /\ bought' = bought /\ chat' = chat /\ forms' = forms
        /\ turns' = turns /\ failures' = failures /\ turn' = turn
    BY DEF Reconfigure
  <1>2. StoreInv'
    BY <1>1 DEF ConvInv, StoreInv, DbShape, IdsDrawn
  <1>3. PhoneInv' /\ CountInv'
    BY <1>1 DEF ConvInv, PhoneInv, CountInv
  <1>4. FormIsHonoured'
    BY <1>1 DEF ConvInv, TurnInv, FormIsHonoured
  <1>5. TurnInv'
    BY <1>1, <1>4 DEF ConvInv, TurnInv
  <1> QED BY <1>2, <1>3, <1>5 DEF ConvInv

\* Every step keeps the invariant.
LEMMA NextConv == ConvInv /\ [Next]_vars => ConvInv'
  <1>. SUFFICES ASSUME ConvInv, [Next]_vars PROVE ConvInv'
    OBVIOUS
  <1>1. CASE UNCHANGED vars
    <2>1. flow \in BOOLEAN
      BY DEF ConvInv, CountInv
    <2>2. Reconfigure
      BY <1>1, <2>1 DEF Reconfigure, vars
    <2> QED BY <2>2, ReconfigureInv
  <1>2. CASE Next
    BY <1>2, NextTurn, WithoutSessionInv, WithSessionInv, ReconfigureInv
  <1> QED BY <1>1, <1>2

\* The invariant holds throughout.
THEOREM ConversationInv == Spec => []ConvInv
  BY InitConv, NextConv, PTL DEF Spec

-----------------------------------------------------------------------------
(* The last picker, and a tap on it.                                       *)

\* A message from which past items can be added.
Offers(m) == \E k \in DOMAIN m.taps : m.taps[k].do = "readd"

\* If it is one, it shows these texts, and has rows for some of them.
OffersOnly(m, texts) ==
    Offers(m) => /\ m.names = texts
                 /\ \A k \in DOMAIN m.taps :
                        m.taps[k].do = "readd" => m.taps[k].what \in ToSet(texts)

\* The last of the messages is no picker, or one of these texts.
EndsWithPicker(s, texts) == s # <<>> => OffersOnly(s[Len(s)], texts)

\* What a picker shows when the tables hold store.
Past(store, purchases) == PastTextsInOrder(store, purchases, MaxPastListed)

\* Other messages offer nothing.
LEMMA OthersOfferNothing ==
    ASSUME NEW names
    PROVE  /\ ~ Offers(Plain) /\ ~ Offers(PastItemsPrompt)
           /\ ~ Offers(Final(names)) /\ Final(names).names = names
           /\ PastItemsPrompt.names = <<>>
  BY DEF Offers, Plain, PastItemsPrompt, Final, QuickCommandButtons, Message, Tap

\* The last of two sequences is the last of the second, if it has any.
LEMMA LastOfBoth ==
    ASSUME NEW X, NEW Y, NEW s \in Seq(X), NEW t \in Seq(Y), t # <<>>
    PROVE  (s \o t)[Len(s \o t)] = t[Len(t)]
  OBVIOUS

\* Nor does a list; what is sent for it ends with a message that names nothing.
LEMMA ListOffersNothing ==
    ASSUME NEW store, NEW ids, Listable(store, ids)
    PROVE  \E m : /\ ~ Offers(m) /\ m.names = <<>>
                  /\ List(store, ids)[Len(List(store, ids))] = m
  <1>. DEFINE m == ListMessage(ids, TextOf(store))
              tappable == UpTo(ids, MaxRows)
  <1>1. CASE ids = <<>>
    <2>1. m = NoList(<<>>)
      BY <1>1 DEF ListMessage
    <2>2. m.kind = "none" /\ m.names = <<>>
      BY <2>1 DEF NoList, Message
    <2>. HIDE DEF m
    <2>3. List(store, ids) = <<Final(<<>>)>> \o <<>>
      BY <2>2 DEF List, m, Sendable
    <2>4. List(store, ids) = <<Final(<<>>)>>
      BY <2>3
    <2>5. List(store, ids)[Len(List(store, ids))] = Final(<<>>)
      BY <2>4
    <2> QED BY <2>5, OthersOfferNothing
  <1>2. CASE ids # <<>>
    <2>1. m.kind # "none"
      BY <1>2 DEF ListMessage, Message
    <2>. HIDE DEF m
    <2>2. List(store, ids) = <<Sendable(m)>> \o <<PastItemsPrompt>>
      BY <2>1 DEF List, m
    <2>3. <<PastItemsPrompt>>[Len(<<PastItemsPrompt>>)] = PastItemsPrompt
      OBVIOUS
    <2>4. /\ <<Sendable(m)>> \in Seq({Sendable(m)})
          /\ <<PastItemsPrompt>> \in Seq({PastItemsPrompt}) /\ <<PastItemsPrompt>> # <<>>
      OBVIOUS
    <2>5. List(store, ids)[Len(List(store, ids))] = PastItemsPrompt
      BY <2>2, <2>3, <2>4, LastOfBoth
    <2> QED BY <2>5, OthersOfferNothing
  <1> QED BY <1>1, <1>2

\* A picker offers what it shows.
LEMMA PickerOffers ==
    ASSUME NEW texts \in Seq(Visible)
    PROVE  \E m : /\ PastItemsList(texts) = <<m>>
                  /\ m.names = texts /\ OffersOnly(m, texts)
  <1>. DEFINE T == {t \in DOMAIN Chars : ReaddChars(t) <= MaxCallback}
              top == UpTo(texts, MaxRows)
              rows == Keep(top, T)
              m == PastItemsMessage(texts)
  <1>1. PastItemsList(texts) = <<Sendable(m)>>
    BY DEF PastItemsList
  <1>2. CASE rows = <<>>
    <2>1. m = NoList(texts)
      BY <1>2 DEF PastItemsMessage
    <2>2. Sendable(m) = Final(texts)
      BY <2>1 DEF Sendable, NoList, Message
    <2> QED BY <1>1, <2>2, OthersOfferNothing DEF OffersOnly
  <1>3. CASE rows # <<>>
    <2>. DEFINE taps == [k \in DOMAIN rows |-> Tap("readd", rows[k], Truncate(rows[k], MaxRowTitle))]
    <2>1. m = Message("list", texts, taps)
      BY <1>3 DEF PastItemsMessage
    <2>2. ToSet(rows) \subseteq ToSet(texts)
      <3>1. top \in Seq(Visible) /\ \A k \in 1..Len(top) : k \in 1..Len(texts) /\ top[k] = texts[k]
        BY UpToElements, LimitsAssumption
      <3>2. ToSet(rows) = ToSet(top) \cap T
        <4>. HIDE DEF top, T
        <4> QED BY <3>1, KeepShape
      <3>3. ToSet(top) \subseteq ToSet(texts)
        BY <3>1 DEF ToSet
      <3> QED BY <3>2, <3>3
    <2>. HIDE DEF rows
    <2>3. \A k \in DOMAIN taps : taps[k].what \in ToSet(texts)
      BY <2>2 DEF Tap, ToSet
    <2>4. Sendable(m) = m /\ m.names = texts /\ m.taps = taps
      BY <2>1 DEF Sendable, Message
    <2>5. OffersOnly(m, texts)
      BY <2>3, <2>4 DEF OffersOnly
    <2> QED BY <1>1, <2>4, <2>5
  <1> QED BY <1>2, <1>3

\* One after the other.
LEMMA BothEndWithPicker ==
    ASSUME NEW s, NEW t, Fine(s), Fine(t), NEW texts,
           EndsWithPicker(s, texts), EndsWithPicker(t, texts)
    PROVE  EndsWithPicker(s \o t, texts)
  <1>. DEFINE X == ToSet(s) \cup ToSet(t)
  <1>1. s \in Seq(X) /\ t \in Seq(X)
    <2>1. s \in Seq(ToSet(s)) /\ t \in Seq(ToSet(t))
      BY DEF Fine
    <2>2. ToSet(s) \subseteq X /\ ToSet(t) \subseteq X
      OBVIOUS
    <2>. HIDE DEF X
    <2> QED BY <2>1, <2>2
  <1>. HIDE DEF X
  <1>2. CASE t = <<>>
    <2>1. s \o t = s
      BY <1>1, <1>2
    <2> QED BY <2>1
  <1>3. CASE t # <<>>
    <2>1. (s \o t)[Len(s \o t)] = t[Len(t)]
      BY <1>1, <1>3
    <2> QED BY <1>3, <2>1 DEF EndsWithPicker
  <1> QED BY <1>2, <1>3

\* Of the messages of a turn at most the last is a picker, of what was bought and
\* is not needed.
LEMMA MessagesEndWithPicker ==
    ASSUME NEW todo \in Todos, NEW store, NEW ids, NEW purchases \in Seq(DOMAIN store.items),
           Listable(store, ids)
    PROVE  EndsWithPicker(Messages(todo, store, ids, purchases), Past(store, purchases))
  <1>. DEFINE words == CASE todo.text = "none"  -> <<>>
                         [] todo.text = "plain" -> <<Plain>>
                         [] todo.text = "final" -> <<Final(<<>>)>>
              next == CASE todo.follow = "none"   -> <<>>
                        [] todo.follow = "list"   -> List(store, ids)
                        [] todo.follow = "picker" -> PastItems(store, purchases)
                        [] todo.follow = "readd"  -> Remaining(store, ids, purchases)
              past == Past(store, purchases)
  <1>1. /\ todo.text \in {"none", "plain", "final"}
        /\ todo.follow \in {"none", "list", "picker", "readd"}
    BY DEF Todos
  <1>2. Fine(words) /\ EndsWithPicker(words, past)
    <2>1. Fine(<<>>) /\ Fine(<<Plain>>) /\ Fine(<<Final(<<>>)>>)
      BY FineNone, FineOne, PlainGood, FinalTappable, FineTappable
    <2>2. /\ EndsWithPicker(<<>>, past) /\ EndsWithPicker(<<Plain>>, past)
          /\ EndsWithPicker(<<Final(<<>>)>>, past)
      BY OthersOfferNothing DEF EndsWithPicker, OffersOnly
    <2> QED BY <1>1, <2>1, <2>2
  <1>3. Fine(List(store, ids)) /\ EndsWithPicker(List(store, ids), past)
    BY ListFine, ListOffersNothing DEF EndsWithPicker, OffersOnly
  <1>4. past \in Seq(Visible) /\ Once(past)
    BY PastOnce, PastAssumption DEF Listable, Past
  <1>5. EndsWithPicker(PastItemsList(past), past)
    <2>. HIDE DEF past
    <2>1. PICK m : PastItemsList(past) = <<m>> /\ OffersOnly(m, past)
      BY <1>4, PickerOffers
    <2> QED BY <2>1 DEF EndsWithPicker
  <1>6. Fine(PastItems(store, purchases)) /\ EndsWithPicker(PastItems(store, purchases), past)
    <2>. DEFINE limit == IF flow THEN MaxPastItems ELSE MaxPastListed
                form == PastTextsInOrder(store, purchases, limit)
    <2>1. Fine(PastItems(store, purchases))
      BY PastItemsFine DEF Listable
    <2>2. CASE flow /\ form # <<>>
      <3>1. PastItems(store, purchases) = <<FlowMessage(form)>>
        BY <2>2 DEF PastItems
      <3>2. ~ Offers(FlowMessage(form))
        BY DEF Offers, FlowMessage, Message, Tap
      <3>. HIDE DEF form, past
      <3> QED BY <2>1, <3>1, <3>2 DEF EndsWithPicker, OffersOnly
    <2>3. CASE flow /\ form = <<>>
      <3>1. PastItems(store, purchases) = PastItemsList(<<>>)
        BY <2>3 DEF PastItems
      <3>2. PICK m : PastItemsList(<<>>) = <<m>> /\ OffersOnly(m, <<>>)
        <4>1. <<>> \in Seq(Visible)
          OBVIOUS
        <4> QED BY <4>1, PickerOffers
      <3>3. ~ Offers(m)
        BY <3>2 DEF Offers, OffersOnly, ToSet
      <3>. HIDE DEF form, past
      <3> QED BY <2>1, <3>1, <3>2, <3>3 DEF EndsWithPicker, OffersOnly
    <2>4. CASE ~ flow
      <3>1. PastItems(store, purchases) = PastItemsList(past)
        BY <2>4 DEF PastItems, Past
      <3> QED BY <1>5, <2>1, <3>1
    <2> QED BY <2>2, <2>3, <2>4
  <1>7. Fine(Remaining(store, ids, purchases)) /\ EndsWithPicker(Remaining(store, ids, purchases), past)
    <2>1. Fine(Remaining(store, ids, purchases))
      BY RemainingFine
    <2>2. Remaining(store, ids, purchases) = IF past = <<>> THEN List(store, ids) ELSE PastItemsList(past)
      BY DEF Remaining, Past
    <2>. HIDE DEF past
    <2> QED BY <1>3, <1>5, <2>1, <2>2
  <1>8. Fine(next) /\ EndsWithPicker(next, past)
    <2>1. Fine(<<>>) /\ EndsWithPicker(<<>>, past)
      BY FineNone DEF EndsWithPicker
    <2>. HIDE DEF past
    <2> QED BY <1>1, <1>3, <1>6, <1>7, <2>1
  <1>9. Messages(todo, store, ids, purchases) = words \o next
    BY DEF Messages
  <1>. HIDE DEF words, next, past
  <1> QED BY <1>2, <1>8, <1>9, BothEndWithPicker DEF past

\* A picker that ended the last turn is of what was bought and is not needed now.
LastPicker == turn.ok => EndsWithPicker(turn.sent, Past(db, bought))

\* A turn leaves its job and what it sent.
LEMMA SaysTurn ==
    ASSUME NEW job, NEW sent, Says(job, sent), turn'.ok
    PROVE  turn'.job = job /\ turn'.sent = sent
  BY DEF Says, Sends, Fails

\* A turn that commits.
LEMMA TurnCommits ==
    ASSUME NEW job, NEW before, Turn(job, before), turn'.ok,
           NEW todo, todo = Decision(db, 1, job)
    PROVE  /\ db' = Flushed(todo) /\ turn'.job = job
           /\ \E marked \in ByCreation(todo.mark, born) :
              \E ids \in ByCreation(NeededItems(db', 1), born') :
                 /\ bought' = bought \o marked
                 /\ turn'.sent = before \o Messages(todo, db', ids, bought')
  <1>. DEFINE store == Flushed(todo)
  <1>1. \/ \E marked \in ByCreation(todo.mark, born) :
           \E ids \in ByCreation(NeededItems(store, 1), born') :
                LET sent == before \o Messages(todo, store, ids, bought \o marked)
                IN  \/ /\ Sends(job, sent, TRUE)
                       /\ db' = store
                       /\ bought' = bought \o marked
                    \/ Fails(job, sent)
        \/ Fails(job, before)
    BY DEF Turn
  <1>2. ASSUME NEW sent PROVE ~ Fails(job, sent)
    BY DEF Fails, Sends
  <1>. HIDE DEF store
  <1>3. PICK marked \in ByCreation(todo.mark, born), ids \in ByCreation(NeededItems(store, 1), born') :
            LET sent == before \o Messages(todo, store, ids, bought \o marked)
            IN  Sends(job, sent, TRUE) /\ db' = store /\ bought' = bought \o marked
    BY <1>1, <1>2
  <1>4. /\ turn'.job = job
        /\ turn'.sent = before \o Messages(todo, db', ids, bought')
    BY <1>3 DEF Sends
  <1> QED BY <1>3, <1>4 DEF store

\* Every step keeps it so.
LEMMA NextPicker ==
    ASSUME ConvInv, ConvInv', LastPicker, [Next]_vars
    PROVE  LastPicker'
  <1>. SUFFICES ASSUME turn'.ok PROVE EndsWithPicker(turn'.sent, Past(db', bought'))
    BY DEF LastPicker
  <1>1. CASE db' = db /\ bought' = bought /\ turn' = turn
    BY <1>1 DEF LastPicker
  <1>2. CASE WithoutSession
    <2>1. PICK job, sent :
            /\ sent = <<Final(<<>>)>> \/ sent = <<>>
            /\ Says(job, sent)
      BY <1>2 DEF WithoutSession
    <2>2. turn'.sent = sent
      BY <2>1, SaysTurn
    <2>3. EndsWithPicker(sent, Past(db', bought'))
      BY <2>1, OthersOfferNothing DEF EndsWithPicker, OffersOnly
    <2> QED BY <2>2, <2>3
  <1>3. CASE WithSession
    <2>1. PICK job, before : Asks(job) /\ before \in {<<>>, <<Plain>>} /\ Turn(job, before)
      BY <1>3 DEF WithSession
    <2>. DEFINE todo == Decision(db, 1, job)
    <2>2. StoreInv
      BY DEF ConvInv
    <2>3. PICK n \in Nat : DOMAIN born = 1..n
      BY <2>2 DEF StoreInv, IdsDrawn
    <2>4. todo \in Todos
      BY <2>1, <2>2, TurnDecision
    <2>5. PICK marked \in ByCreation(todo.mark, born), ids \in ByCreation(NeededItems(db', 1), born') :
                 /\ bought' = bought \o marked
                 /\ turn'.sent = before \o Messages(todo, db', ids, bought')
                 /\ db' = Flushed(todo)
      BY <2>1, TurnCommits
    <2>6. todo = Decision(db, 1, job)
      OBVIOUS
    <2>. HIDE DEF todo
    <2>7. bought' \in Seq(BoughtIn(db'.items)) /\ Listable(db', ids)
      BY <2>1, <2>2, <2>3, <2>5, <2>6, CommitShape
    <2>8. bought' \in Seq(DOMAIN db'.items)
      BY <2>7 DEF BoughtIn
    <2>. DEFINE said == Messages(todo, db', ids, bought')
                past == Past(db', bought')
    <2>9. Fine(said) /\ EndsWithPicker(said, past)
      BY <2>4, <2>7, <2>8, MessagesFine, MessagesEndWithPicker
    <2>10. Fine(before) /\ EndsWithPicker(before, past)
      BY <2>1, FineNone, FineOne, PlainGood, OthersOfferNothing DEF EndsWithPicker, OffersOnly
    <2>. HIDE DEF said, past
    <2> QED BY <2>5, <2>9, <2>10, BothEndWithPicker DEF said, past
  <1>4. CASE Reconfigure
    BY <1>1, <1>4 DEF Reconfigure
  <1> QED BY <1>1, <1>2, <1>3, <1>4, NextTurn DEF vars

\* Initially nothing was sent.
LEMMA InitPicker == Init => LastPicker
  BY DEF Init, LastPicker, EndsWithPicker

\* A text that is not on the list is one new row, and what comes after it is a
\* picker.
LEMMA ReaddDecision ==
    ASSUME NEW job, job.action = "readd", NEW x \in Visible, job.texts = <<x>>,
           Lower[x] \notin Names(db, NeededItems(db, 1)),
           NEW todo, todo = Decision(db, 1, job)
    PROVE  /\ todo.ins = <<x>> /\ todo.mark = {} /\ todo.del = {} /\ todo.clr = {}
           /\ todo.text = "plain" /\ todo.follow = "readd"
  <1>. DEFINE new == NewTexts(db, 1, <<x>>)
              existing == Names(db, NeededItems(db, 1))
              IsNew(k) == /\ Lower[<<x>>[k]] \notin existing \cup {Blank}
                          /\ \A j \in 1..k - 1 : Lower[<<x>>[j]] # Lower[<<x>>[k]]
              S == {k \in DOMAIN <<x>> : IsNew(k)}
  <1>1. Lower[x] # Blank
    BY TextsAssumption DEF Visible
  <1>2. DOMAIN <<x>> = 1..1 /\ <<x>>[1] = x /\ <<x>> = [k \in 1..1 |-> <<x>>[k]]
    OBVIOUS
  <1>3. S = 1..1
    <2>1. \A k \in 1..1 : k = 1 /\ 1..k - 1 = {}
      OBVIOUS
    <2>2. \A k \in 1..1 : IsNew(k)
      BY <1>1, <1>2, <2>1
    <2>. HIDE DEF IsNew
    <2> QED BY <1>2, <2>2
  <1>4. new = Selected(<<x>>, S)
    BY DEF NewTexts
  <1>. HIDE DEF S, new
  <1>5. Selected(<<x>>, 1..1) = [k \in 1..1 |-> <<x>>[k]]
    <2>1. Ascending(1..1) = [k \in 1..1 |-> k]
      BY AscendingUpTo
    <2> QED BY <2>1 DEF Selected
  <1>6. new = <<x>>
    BY <1>2, <1>3, <1>4, <1>5
  <1>7. todo = [Answer("plain", "readd") EXCEPT !.ins = new]
    BY DEF Decision, new
  <1> QED BY <1>6, <1>7 DEF Answer

\* What that turn leaves: the items as they were, and its name needed too.
LEMMA ReaddStore ==
    ASSUME StoreInv, NEW x \in Visible, NEW todo,
           todo.ins = <<x>>, todo.mark = {}, todo.del = {}, todo.clr = {},
           NEW store, store = Flushed(todo)
    PROVE  /\ \A i \in DOMAIN db.items : i \in DOMAIN store.items /\ store.items[i] = db.items[i]
           /\ Names(store, NeededItems(store, 1)) = Names(db, NeededItems(db, 1)) \cup {Lower[x]}
  <1>1. PICK n \in Nat : DOMAIN born = 1..n
    BY DEF StoreInv, IdsDrawn
  <1>2. /\ DOMAIN store.items = (DOMAIN db.items \ todo.del) \cup NewIds(n, todo)
        /\ \A i \in NewIds(n, todo) : store.items[i] = Item(todo.ins[i - n], "NEEDED")
        /\ \A i \in DOMAIN db.items \ todo.del : store.items[i] = RowAfter(todo, i)
    <2>1. DOMAIN store.items = (DOMAIN db.items \ todo.del) \cup NewIds(n, todo)
      BY <1>1, FlushedShape
    <2>2. \A i \in NewIds(n, todo) : store.items[i] = Item(todo.ins[i - n], "NEEDED")
      BY <1>1, FlushedShape
    <2>3. \A i \in DOMAIN db.items \ todo.del : store.items[i] = RowAfter(todo, i)
      BY <1>1, FlushedShape
    <2> QED BY <2>1, <2>2, <2>3
  <1>3. NewIds(n, todo) = {n + 1} /\ todo.ins[(n + 1) - n] = x
    BY DEF NewIds
  <1>4. \A i \in DOMAIN db.items : i \in DOMAIN store.items /\ store.items[i] = db.items[i]
    BY <1>2 DEF RowAfter
  <1>5. /\ n + 1 \in DOMAIN store.items
        /\ store.items[n + 1].list = 1 /\ store.items[n + 1].status = "NEEDED"
        /\ store.items[n + 1].text = x
    <2>1. store.items[n + 1] = Item(x, "NEEDED")
      BY <1>2, <1>3
    <2> QED BY <1>2, <1>3, <2>1 DEF Item
  <1>6. DOMAIN store.items = DOMAIN db.items \cup {n + 1}
    BY <1>2, <1>3
  <1>7. NeededItems(store, 1) = NeededItems(db, 1) \cup {n + 1}
    BY <1>4, <1>5, <1>6 DEF NeededItems
  <1>8. Names(store, NeededItems(store, 1)) = Names(db, NeededItems(db, 1)) \cup {Lower[x]}
    <2>1. \A i \in NeededItems(db, 1) : store.items[i] = db.items[i]
      BY <1>4 DEF NeededItems
    <2> QED BY <1>5, <1>7, <2>1 DEF Names
  <1> QED BY <1>4, <1>8

\* The purchases of before are shown as before.
LEMMA SamePurchases ==
    ASSUME NEW store, NEW next, NEW purchases \in Seq(DOMAIN store.items),
           \A i \in DOMAIN store.items : next.items[i] = store.items[i]
    PROVE  LatestPurchases(next, purchases) = LatestPurchases(store, purchases)
  <1>1. \A k \in DOMAIN purchases : next.items[purchases[k]] = store.items[purchases[k]]
    OBVIOUS
  <1>2. [k \in DOMAIN purchases |-> next.items[purchases[k]].text]
            = [k \in DOMAIN purchases |-> store.items[purchases[k]].text]
    BY <1>1
  <1> QED BY <1>2 DEF LatestPurchases

\* The messages of that turn end with what is left, if there is any, or with no
\* names.
LEMMA ReaddMessages ==
    ASSUME NEW todo \in Todos, todo.text = "plain", todo.follow = "readd",
           NEW store, NEW ids, NEW purchases \in Seq(DOMAIN store.items), Listable(store, ids),
           NEW before \in {<<>>, <<Plain>>}
    PROVE  Last(before \o Messages(todo, store, ids, purchases)).names = Past(store, purchases)
  <1>. DEFINE past == Past(store, purchases)
              rest == Remaining(store, ids, purchases)
              sent == before \o Messages(todo, store, ids, purchases)
  <1>1. past \in Seq(Visible)
    BY PastOnce, PastAssumption DEF Listable, Past
  <1>2. sent = before \o (<<Plain>> \o rest)
    BY DEF Messages
  <1>3. rest = IF past = <<>> THEN List(store, ids) ELSE PastItemsList(past)
    BY DEF Remaining, Past
  <1>4. Fine(rest) /\ EndsTappable(rest)
    BY RemainingFine
  <1>5. rest[Len(rest)].names = past
    <2>. HIDE DEF past, rest
    <2>1. CASE past = <<>>
      BY <1>3, <2>1, ListOffersNothing
    <2>2. CASE past # <<>>
      <3>1. PICK m : PastItemsList(past) = <<m>> /\ m.names = past
        BY <1>1, PickerOffers
      <3> QED BY <1>3, <2>2, <3>1
    <2> QED BY <2>1, <2>2
  <1>. HIDE DEF past, rest, sent
  <1>6. rest \in Seq(ToSet(rest)) /\ rest # <<>>
    BY <1>4 DEF Fine, EndsTappable
  <1>7. before \in Seq({Plain}) /\ <<Plain>> \in Seq({Plain})
    <2>1. \A m : <<m>> \in Seq({m})
      OBVIOUS
    <2>2. <<>> \in Seq({Plain})
      OBVIOUS
    <2>3. <<Plain>> \in Seq({Plain})
      BY <2>1
    <2> QED BY <2>2, <2>3
  <1>8. (<<Plain>> \o rest)[Len(<<Plain>> \o rest)] = rest[Len(rest)]
    BY <1>6, <1>7, LastOfBoth
  <1>9. /\ <<Plain>> \o rest \in Seq(ToSet(rest) \cup {Plain})
        /\ <<Plain>> \o rest # <<>>
    BY <1>6, <1>7
  <1>10. sent[Len(sent)] = (<<Plain>> \o rest)[Len(<<Plain>> \o rest)]
    BY <1>2, <1>7, <1>9, LastOfBoth
  <1> QED BY <1>5, <1>8, <1>10 DEF Last, past, sent

\* Python and the database take the same texts for one name.
SameNames == \A t, u \in Texts : Lower[t] = Lower[u] <=> DbLower[t] = DbLower[u]

\* A committed turn in answer to a tap on x in the last picker.
PickedTurn(x) ==
    /\ turn.ok /\ turn'.ok /\ turns' # turns
    /\ turn'.job.action = "readd" /\ turn'.job.texts = <<x>>
    /\ turn.sent # <<>>
    /\ \E k \in DOMAIN Last(turn.sent).taps :
            Last(turn.sent).taps[k].do = "readd" /\ Last(turn.sent).taps[k].what = x

\* The picker shows what was bought and is not needed, x among it.
LEMMA PickedFrom ==
    ASSUME LastPicker, NEW x, PickedTurn(x)
    PROVE  Last(turn.sent).names = Past(db, bought) /\ x \in ToSet(Past(db, bought))
  <1>1. Last(turn.sent) = turn.sent[Len(turn.sent)]
    BY DEF Last
  <1>2. OffersOnly(Last(turn.sent), Past(db, bought))
    BY <1>1 DEF LastPicker, EndsWithPicker, PickedTurn
  <1>3. Offers(Last(turn.sent))
    BY DEF PickedTurn, Offers
  <1> QED BY <1>2, <1>3 DEF OffersOnly, PickedTurn

\* What is shown is among the last purchases and not needed.
LEMMA PastShape ==
    ASSUME NEW store, NEW purchases \in Seq(DOMAIN store.items),
           \A i \in DOMAIN store.items : store.items[i].text \in Visible,
           NEW x \in ToSet(Past(store, purchases))
    PROVE  /\ x \in ToSet(LatestPurchases(store, purchases))
           /\ x \in NotNeeded(store) /\ x \in Visible
  <1>. DEFINE s == LatestPurchases(store, purchases)
              T == NotNeeded(store)
              kept == Keep(s, T)
              past == UpTo(kept, MaxPastListed)
  <1>1. s \in Seq(Visible)
    BY LatestOnce
  <1>2. past = Past(store, purchases)
    BY DEF Past, PastTextsInOrder
  <1>. HIDE DEF s, T
  <1>3. kept \in Seq(Visible \cap T) /\ ToSet(kept) = ToSet(s) \cap T
    BY <1>1, KeepShape
  <1>4. MaxPastListed \in Nat
    BY PastAssumption
  <1>. HIDE DEF kept
  <1>5. \A k \in 1..Len(past) : k \in 1..Len(kept) /\ past[k] = kept[k]
    BY <1>3, <1>4, UpToElements
  <1>6. past \in Seq(Visible \cap T)
    BY <1>3, <1>4, UpToElements
  <1>. HIDE DEF past
  <1>7. x \in ToSet(kept)
    BY <1>2, <1>3, <1>5, <1>6 DEF ToSet
  <1>8. x \in Visible
    BY <1>2, <1>6 DEF ToSet
  <1> QED BY <1>3, <1>7, <1>8 DEF s, T

\* The turn adds a row for x, and is answered with what can be picked then.
LEMMA PickedStep ==
    ASSUME ConvInv, ConvInv', LastPicker, Next, NEW x, PickedTurn(x)
    PROVE  /\ \A i \in DOMAIN db.items : i \in DOMAIN db'.items /\ db'.items[i] = db.items[i]
           /\ Names(db', NeededItems(db', 1)) = Names(db, NeededItems(db, 1)) \cup {Lower[x]}
           /\ bought' = bought
           /\ Last(turn'.sent).names = Past(db', bought')
  <1>1. turn'.ok /\ turns' # turns /\ turn'.job.action = "readd" /\ turn'.job.texts = <<x>>
    BY DEF PickedTurn
  <1>2. WithSession
    <2>1. ~ Reconfigure
      BY <1>1 DEF Reconfigure
    <2>2. ~ WithoutSession
      BY <1>1, SaysTurn DEF WithoutSession
    <2> QED BY <2>1, <2>2, NextTurn
  <1>3. PICK job, before : Asks(job) /\ before \in {<<>>, <<Plain>>} /\ Turn(job, before)
    BY <1>2 DEF WithSession
  <1>. DEFINE todo == Decision(db, 1, job)
  <1>4. /\ db' = Flushed(todo) /\ turn'.job = job
        /\ \E marked \in ByCreation(todo.mark, born) :
              \E ids \in ByCreation(NeededItems(db', 1), born') :
                 /\ bought' = bought \o marked
                 /\ turn'.sent = before \o Messages(todo, db', ids, bought')
    BY <1>1, <1>3, TurnCommits
  <1>5. todo = Decision(db, 1, job)
    OBVIOUS
  <1>. HIDE DEF todo
  <1>6. PICK marked \in ByCreation(todo.mark, born), ids \in ByCreation(NeededItems(db', 1), born') :
                 /\ bought' = bought \o marked
                 /\ turn'.sent = before \o Messages(todo, db', ids, bought')
    BY <1>4
  <1>7. StoreInv
    BY DEF ConvInv
  <1>8. bought \in Seq(DOMAIN db.items) /\ \A i \in DOMAIN db.items : db.items[i].text \in Visible
    BY <1>7 DEF StoreInv, Items, BoughtIn
  <1>9. x \in NotNeeded(db) /\ x \in Visible
    <2>1. x \in ToSet(Past(db, bought))
      BY PickedFrom
    <2> QED BY <1>8, <2>1, PastShape
  <1>10. Lower[x] \notin Names(db, NeededItems(db, 1))
    BY <1>9 DEF NotNeeded
  <1>11. job.action = "readd" /\ job.texts = <<x>>
    BY <1>1, <1>4
  <1>12. /\ todo.ins = <<x>> /\ todo.mark = {} /\ todo.del = {} /\ todo.clr = {}
         /\ todo.text = "plain" /\ todo.follow = "readd"
    BY <1>5, <1>9, <1>10, <1>11, ReaddDecision
  <1>13. /\ \A i \in DOMAIN db.items : i \in DOMAIN db'.items /\ db'.items[i] = db.items[i]
         /\ Names(db', NeededItems(db', 1)) = Names(db, NeededItems(db, 1)) \cup {Lower[x]}
    BY <1>4, <1>7, <1>9, <1>12, ReaddStore
  <1>14. bought' = bought
    <2>1. marked \in Seq(todo.mark)
      BY ByCreationShape, <1>12, FS_EmptySet
    <2>2. marked = <<>>
      BY <1>12, <2>1
    <2> QED BY <1>6, <1>8, <2>2
  <1>15. Last(turn'.sent).names = Past(db', bought')
    <2>1. PICK n \in Nat : DOMAIN born = 1..n
      BY <1>7 DEF StoreInv, IdsDrawn
    <2>2. bought' \in Seq(BoughtIn(db'.items)) /\ Listable(db', ids)
      BY <1>3, <1>4, <1>5, <1>6, <1>7, <2>1, CommitShape
    <2>3. bought' \in Seq(DOMAIN db'.items)
      BY <2>2 DEF BoughtIn
    <2>4. todo \in Todos
      BY <1>3, <1>5, <1>7, TurnDecision
    <2>5. todo.text = "plain" /\ todo.follow = "readd"
      BY <1>12
    <2>6. turn'.sent = before \o Messages(todo, db', ids, bought')
      BY <1>6
    <2>. DEFINE store == db'
                purchases == bought'
                sent == turn'.sent
    <2>7. /\ purchases \in Seq(DOMAIN store.items) /\ Listable(store, ids)
          /\ sent = before \o Messages(todo, store, ids, purchases)
      BY <2>2, <2>3, <2>6
    <2>8. before \in {<<>>, <<Plain>>}
      BY <1>3
    <2>. HIDE DEF store, purchases, sent
    <2>9. Last(before \o Messages(todo, store, ids, purchases)).names = Past(store, purchases)
      BY <2>4, <2>5, <2>7, <2>8, ReaddMessages
    <2>10. Last(sent).names = Past(store, purchases)
      BY <2>7, <2>9
    <2> QED BY <2>10 DEF store, purchases, sent
  <1> QED BY <1>13, <1>14, <1>15

\* So the rest comes back in its order.
LEMMA PickedRest ==
    ASSUME ConvInv, ConvInv', LastPicker, Next, SameNames, NEW x, PickedTurn(x)
    PROVE  IsPrefix(Keep(Last(turn.sent).names, Texts \ {x}), Last(turn'.sent).names)
  <1>. DEFINE s == LatestPurchases(db, bought)
              T == NotNeeded(db)
              U == NotNeeded(db')
  <1>1. /\ \A i \in DOMAIN db.items : i \in DOMAIN db'.items /\ db'.items[i] = db.items[i]
        /\ Names(db', NeededItems(db', 1)) = Names(db, NeededItems(db, 1)) \cup {Lower[x]}
        /\ bought' = bought
        /\ Last(turn'.sent).names = Past(db', bought')
    BY PickedStep
  <1>2. Last(turn.sent).names = Past(db, bought) /\ x \in ToSet(Past(db, bought))
    BY PickedFrom
  <1>3. bought \in Seq(DOMAIN db.items) /\ \A i \in DOMAIN db.items : db.items[i].text \in Visible
    BY DEF ConvInv, StoreInv, Items, BoughtIn
  <1>4. Visible \subseteq Texts
    BY TextsAssumption DEF Visible
  <1>5. s \in Seq(Visible) /\ Once(s)
    BY <1>3, LatestOnce
  <1>6. s = LatestPurchases(db', bought')
    BY <1>1, <1>3, SamePurchases
  <1>7. x \in ToSet(s) /\ x \in Visible
    BY <1>2, <1>3, PastShape
  <1>. DEFINE names == Past(db, bought)
  <1>8. names = UpTo(Keep(s, T), MaxPastListed) /\ Past(db', bought') = UpTo(Keep(s, U), MaxPastListed)
    BY <1>6 DEF Past, PastTextsInOrder
  <1>. HIDE DEF s, names
  <1>9. \A m, n \in DOMAIN s : s[m] = s[n] => m = n
    BY <1>5 DEF Once
  <1>10. s \in Seq(Texts)
    BY <1>4, <1>5
  <1>11. ASSUME NEW k \in DOMAIN s PROVE s[k] \in U <=> s[k] \in T /\ s[k] # x
    <2>1. PICK r \in DOMAIN s : s[r] = x
      BY <1>7 DEF ToSet
    <2>2. s[k] \in Texts /\ x \in Texts
      BY <1>4, <1>7, <1>10
    <2>3. Lower[s[k]] = Lower[x] <=> s[k] = x
      BY <1>5, <2>1, <2>2 DEF Once, SameNames
    <2>4. s[k] \in U <=> Lower[s[k]] \notin Names(db, NeededItems(db, 1)) \cup {Lower[x]}
      BY <1>1, <2>2 DEF NotNeeded
    <2>5. s[k] \in T <=> Lower[s[k]] \notin Names(db, NeededItems(db, 1))
      BY <2>2 DEF NotNeeded
    <2> QED BY <2>3, <2>4, <2>5
  <1>12. MaxPastListed \in Nat
    BY PastAssumption
  <1>13. x \in ToSet(names)
    BY <1>2 DEF names
  <1>. HIDE DEF T, U
  <1>14. IsPrefix(Keep(names, Texts \ {x}), UpTo(Keep(s, U), MaxPastListed))
    BY <1>8, <1>9, <1>10, <1>11, <1>12, <1>13, RestIsPrefix
  <1> QED BY <1>1, <1>2, <1>8, <1>14 DEF names

\* And when nothing comes back, nothing is left to come.
LEMMA NothingLeft ==
    ASSUME SameNames, NEW store, NEW purchases \in Seq(DOMAIN store.items),
           \A i \in DOMAIN store.items : store.items[i].text \in Visible,
           Past(store, purchases) = <<>>
    PROVE  Names(store, ToSet(purchases)) \subseteq Names(store, NeededItems(store, 1))
  <1>. DEFINE s == LatestPurchases(store, purchases)
              T == NotNeeded(store)
              kept == Keep(s, T)
  <1>1. s \in Seq(Visible)
    BY LatestOnce
  <1>2. UpTo(kept, MaxPastListed) = <<>>
    BY DEF Past, PastTextsInOrder
  <1>3. ToSet(s) \cap T = {}
    <2>. HIDE DEF s, T
    <2>1. kept \in Seq(Visible \cap T) /\ ToSet(kept) = ToSet(s) \cap T
      BY <1>1, KeepShape
    <2>. HIDE DEF kept
    <2>2. MaxPastListed \in Nat /\ MaxPastListed > 0
      BY PastAssumption
    <2>3. Len(UpTo(kept, MaxPastListed)) = IF Len(kept) <= MaxPastListed THEN Len(kept) ELSE MaxPastListed
      BY <2>1, <2>2, UpToElements
    <2>4. Len(kept) = 0
      BY <1>2, <2>1, <2>2, <2>3
    <2>5. DOMAIN kept = {}
      BY <2>1, <2>4
    <2> QED BY <2>1, <2>5 DEF ToSet
  <1>. SUFFICES ASSUME NEW k \in DOMAIN purchases
                PROVE  Lower[store.items[purchases[k]].text] \in Names(store, NeededItems(store, 1))
    BY DEF Names, ToSet
  <1>4. PICK t \in ToSet(s) : DbLower[t] = DbLower[store.items[purchases[k]].text]
    BY LatestCovers
  <1>5. t \in Texts /\ store.items[purchases[k]].text \in Texts
    <2>1. Visible \subseteq Texts
      BY TextsAssumption DEF Visible
    <2>2. purchases[k] \in DOMAIN store.items
      OBVIOUS
    <2>. HIDE DEF s
    <2>3. t \in Visible
      BY <1>1 DEF ToSet
    <2> QED BY <2>1, <2>2, <2>3
  <1>6. Lower[t] = Lower[store.items[purchases[k]].text]
    BY <1>4, <1>5 DEF SameNames
  <1>7. t \notin T
    BY <1>3
  <1>8. Lower[t] \in Names(store, NeededItems(store, 1))
    BY <1>5, <1>7 DEF NotNeeded
  <1> QED BY <1>6, <1>8

-----------------------------------------------------------------------------
(* What a conversation promises.                                           *)

\* TypeOK: rows, ids and purchases are what they look like, and so is everything
\* on the phone and every message.
THEOREM TypeCorrect == Spec => []TypeOK
  <1>1. ConvInv => TypeOK
    <2>. SUFFICES ASSUME ConvInv PROVE TypeOK
      OBVIOUS
    <2>1. IsTable(db.items, Nat, Rows) /\ turns \in 0..MaxTurns /\ turns \in Nat
      BY DEF ConvInv, StoreInv, Items, CountInv
    <2>2. IsTable(born, Nat, 0..MaxTurns)
      <3>1. PICK n \in Nat : DOMAIN born = 1..n
        BY DEF ConvInv, StoreInv, IdsDrawn
      <3>2. 0..turns \subseteq 0..MaxTurns
        BY <2>1, BoundsAssumption
      <3>3. born \in [DOMAIN born -> 0..turns]
        BY DEF ConvInv, StoreInv, IdsDrawn
      <3>4. born \in [DOMAIN born -> 0..MaxTurns]
        BY <3>2, <3>3
      <3> QED BY <3>1, <3>4 DEF IsTable
    <2>3. bought \in Seq(DOMAIN db.items)
      <3>1. BoughtIn(db.items) \subseteq DOMAIN db.items
        BY DEF BoughtIn
      <3>2. bought \in Seq(BoughtIn(db.items))
        BY DEF ConvInv, StoreInv
      <3> QED BY <3>1, <3>2
    <2>4. Visible \subseteq Texts
      BY TextsAssumption DEF Visible
    <2>5. \A tap \in chat : IF tap.do = "readd" THEN tap.what \in Texts ELSE tap.what \in Nat
      BY <2>4 DEF ConvInv, PhoneInv, TapOK
    <2>6. forms \subseteq Seq(Texts)
      <3>1. Seq(Visible) \subseteq Seq(Texts)
        BY <2>4
      <3> QED BY <3>1 DEF ConvInv, PhoneInv
    <2>7. {m.kind : m \in ToSet(turn.sent)} \subseteq {"plain", "buttons", "list", "flow"}
      BY DEF ConvInv, TurnInv, Fine, Good, ToSet
    <2> QED BY <2>1, <2>2, <2>3, <2>5, <2>6, <2>7 DEF ConvInv, TurnInv, CountInv, TypeOK
  <1> QED BY <1>1, ConversationInv, PTL

\* MessagesAreAccepted: whatever is on the list and in the history, however many
\* items and texts of whatever length, WhatsApp takes every message.
THEOREM MessagesFit == Spec => []MessagesAreAccepted
  <1>1. ConvInv => MessagesAreAccepted
    BY DEF ConvInv, TurnInv, Fine, Good, ToSet, MessagesAreAccepted
  <1> QED BY <1>1, ConversationInv, PTL

\* EveryActionIsAnswered: whatever a user does with what the bot has ever sent is
\* answered with something to tap, or the turn fails.
THEOREM ActionsAreAnswered == Spec => []EveryActionIsAnswered
  <1>1. ConvInv => EveryActionIsAnswered
    BY DEF ConvInv, TurnInv, EndsTappable, Tappable, EveryActionIsAnswered, Last
  <1> QED BY <1>1, ConversationInv, PTL

\* FormIsHonoured: what is ticked in a form of whatever age, in whichever of its
\* shapes it comes back, but for a single bare text that is JSON, is on the list when
\* the turn has committed.
THEOREM FormsAreHonoured == Spec => []FormIsHonoured
  <1>1. ConvInv => FormIsHonoured
    BY DEF ConvInv, TurnInv
  <1> QED BY <1>1, ConversationInv, PTL

\* PickerNamesOnce: on a database that takes for one name what Python takes for
\* one, no picker or form offers a name twice.
THEOREM PickersNameOnce == ASSUME NamesAgree PROVE Spec => []PickerNamesOnce
  <1>1. ConvInv => PickerNamesOnce
    <2>. SUFFICES ASSUME ConvInv PROVE PickerNamesOnce
      OBVIOUS
    <2>1. \A m \in ToSet(turn.sent) : NamesOnce(m)
      BY DEF ConvInv, TurnInv, Fine, Good, ToSet
    <2> QED BY <2>1 DEF NamesOnce, PickerNamesOnce
  <1> QED BY <1>1, ConversationInv, PTL

\* PickerComesBackWithTheRest: on a database that takes the same texts for one
\* name as Python does, a tap on a text of the last picker is answered with the
\* others in their order, older purchases behind them, and nothing comes back
\* only when everything ever bought is on the list.
THEOREM PickerComesBack == ASSUME SameNames PROVE Spec => PickerComesBackWithTheRest
  <1>. DEFINE Tapped == /\ turn.ok /\ turn'.ok /\ turns' # turns
                        /\ turn'.job.action = "readd"
                        /\ turn.sent # <<>>
                        /\ \E k \in DOMAIN Last(turn.sent).taps :
                              Last(turn.sent).taps[k].do = "readd" /\ <<Last(turn.sent).taps[k].what>> = turn'.job.texts
              Back == LET tapped == turn'.job.texts[1]
                          rest   == Keep(Last(turn.sent).names, Texts \ {tapped})
                          after  == Last(turn'.sent).names
                      IN  /\ IsPrefix(rest, after)
                          /\ after = <<>> =>
                                Names(db', ToSet(bought')) \subseteq Names(db', NeededItems(db', 1))
  <1>1. ASSUME ConvInv, ConvInv', LastPicker, Next, Tapped
        PROVE  Back
    <2>. DEFINE x == turn'.job.texts[1]
    <2>1. PickedTurn(x)
      BY <1>1 DEF PickedTurn
    <2>2. x = turn'.job.texts[1]
      OBVIOUS
    <2>. HIDE DEF x
    <2>3. IsPrefix(Keep(Last(turn.sent).names, Texts \ {x}), Last(turn'.sent).names)
      BY <1>1, <2>1, PickedRest
    <2>4. Last(turn'.sent).names = Past(db', bought')
      BY <1>1, <2>1, PickedStep
    <2>5. bought' \in Seq(DOMAIN db'.items) /\ \A i \in DOMAIN db'.items : db'.items[i].text \in Visible
      BY <1>1 DEF ConvInv, StoreInv, Items, BoughtIn
    <2>6. Past(db', bought') = <<>> =>
            Names(db', ToSet(bought')) \subseteq Names(db', NeededItems(db', 1))
      BY <2>5, NothingLeft
    <2> QED BY <2>2, <2>3, <2>4, <2>6
  <1>2. ConvInv /\ ConvInv' /\ LastPicker /\ [Next]_vars => [Tapped => Back]_vars
    BY <1>1
  <1>3. ConvInv /\ LastPicker /\ [Next]_vars => ConvInv' /\ LastPicker'
    BY NextConv, NextPicker
  <1>4. Init => ConvInv /\ LastPicker
    BY InitConv, InitPicker
  <1> QED BY <1>2, <1>3, <1>4, PTL DEF Spec, PickerComesBackWithTheRest

=============================================================================
