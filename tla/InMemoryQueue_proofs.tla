------------------------ MODULE InMemoryQueue_proofs ------------------------
(***************************************************************************)
(* Proofs about InMemoryQueue for every set of message ids, every finite   *)
(* set of threads and every bound.  The inductive invariant IInv adds to   *)
(* the properties that a thread holds a job exactly while it deals with    *)
(* one, that only what arrived gets around, that a mark belongs to a job   *)
(* that ran or is running, and which threads a notify() may choose.        *)
(***************************************************************************)
EXTENDS InMemoryQueue, SequenceLemmas, FiniteSetTheorems, TLAPS

\* A thread holds a job exactly in the two places where it deals with one.
HandsMatchPc ==
    \A c \in Consumers : hand[c] # None <=> pc[c] \in {"seen", "process"}

\* Whatever is queued, held, marked or over has arrived.
OnlyArrived ==
    /\ ToSet(dq) \subseteq ToSet(arrived)
    /\ \A c \in Consumers : hand[c] # None => hand[c] \in ToSet(arrived)
    /\ over \subseteq ToSet(arrived)

\* As long as the process lives, a mark means that the job ran or is running.
MarkedWasBegun ==
    restarts = 0 =>
        \A m \in seenIds :
            \/ m \in over
            \/ \E c \in Consumers : pc[c] = "process" /\ hand[c] = m

\* NoLossWhileUp, in terms of sets.
ArrivedIsSomewhere == restarts = 0 => ToSet(arrived) \subseteq ToSet(dq) \cup Taken

\* The deque keeps the order of arrival.
DequeInOrder == restarts = 0 => Ordered(dq, arrived, Taken)

\* notify() may choose every sleeping thread, and else only some that have timed
\* out and not noticed it yet.
WaitersAreKnown ==
    /\ \A c \in Consumers : pc[c] = "wait" => c \in waiting
    /\ \A c \in waiting : pc[c] \in {"wait", "awake"}

\* The threads that notify() has chosen and that have not looked yet.
Notified == {c \in Consumers : pc[c] = "awake" /\ c \notin waiting}

\* While somebody can still be chosen, a notified thread is on its way for every
\* queued job.
EveryJobIsNotified == waiting # {} => Len(dq) <= Cardinality(Notified)

IInv ==
    /\ TypeOK
    /\ HandsMatchPc
    /\ OnlyArrived
    /\ AtMostOncePerLife
    /\ MarkedWasBegun
    /\ ArrivedIsSomewhere
    /\ DequeInOrder
    /\ NoneIsOvertaken
    /\ WaitersAreKnown
    /\ EveryJobIsNotified

-----------------------------------------------------------------------------
(* Lemmas.                                                                 *)

\* The sets of threads are finite.
LEMMA NotifiedIsFinite ==
    /\ IsFiniteSet(Notified)
    /\ Cardinality(Notified) \in Nat
<1>1. Notified \in SUBSET Consumers
  BY DEF Notified
<1> QED
  BY <1>1, ConsumersAssumption, FS_Subset, FS_CardinalityType

\* The first actions of a thread and the last leave the deque alone.
LEMMA SameOrder ==
    ASSUME IInv, UNCHANGED <<dq, arrived>>,
           restarts' # 0 \/ (restarts = 0 /\ \A m \in Ids : m \in Taken' <=> m \in Taken)
    PROVE  ArrivedIsSomewhere' /\ DequeInOrder' /\ NoneIsOvertaken'
<1>1. CASE restarts' # 0
  BY <1>1 DEF ArrivedIsSomewhere, DequeInOrder, NoneIsOvertaken
<1>2. CASE restarts' = 0
  <2>1. arrived \in Seq(Ids) /\ ToSet(arrived) \subseteq Ids
    BY ToSetType DEF IInv, TypeOK
  <2>2. \A i \in DOMAIN arrived : arrived[i] \in Taken' <=> arrived[i] \in Taken
    BY <1>2, <2>1
  <2>3. DequeInOrder'
    BY <1>2, <2>2 DEF IInv, DequeInOrder, Ordered
  <2>4. NoneIsOvertaken'
    BY <1>2, <2>2 DEF IInv, NoneIsOvertaken
  <2>5. ToSet(arrived)' = ToSet(arrived) /\ ToSet(dq)' = ToSet(dq)
    BY DEF ToSet
  <2>6. ArrivedIsSomewhere'
    BY <1>2, <2>1, <2>5 DEF IInv, ArrivedIsSomewhere
  <2> QED
    BY <2>3, <2>4, <2>6
<1> QED
  BY <1>1, <1>2

-----------------------------------------------------------------------------
(* The steps.                                                              *)

\* A webhook call.
LEMMA EnqueueStep ==
    ASSUME IInv, NEW m \in Ids, Enqueue(m)
    PROVE  IInv'
<1> USE DEF IInv
<1>1. /\ dq' = <<m>> \o dq
      /\ arrived' = Arrival(arrived, m)
      /\ delivered' = [delivered EXCEPT ![m] = @ + 1]
      /\ UNCHANGED <<seenIds, hand, restarts, starts, over>>
      /\ dq \in Seq(Ids) /\ arrived \in Seq(Ids)
  BY DEF Enqueue, Arrives, Arrival, TypeOK
<1>2. /\ dq' \in Seq(Ids)
      /\ Len(dq') = Len(dq) + 1
      /\ ToSet(dq') = ToSet(dq) \cup {m}
      /\ Len(dq) \in Nat
  BY <1>1, PushShape, PushElements
<1>3. \/ /\ waiting = {}
         /\ UNCHANGED <<waiting, pc>>
      \/ \E c \in waiting : waiting' = waiting \ {c} /\ pc' = [pc EXCEPT ![c] = "awake"]
  BY DEF Enqueue, Notify, GoTo
<1>4. \A c \in Consumers : pc'[c] = pc[c] \/ (pc[c] \in {"wait", "awake"} /\ pc'[c] = "awake")
  BY <1>3 DEF TypeOK, WaitersAreKnown
<1>5. /\ arrived' \in Seq(Ids)
      /\ ToSet(arrived') = ToSet(arrived) \cup {m}
  BY <1>1, ToSetAppend DEF Arrival
<1>6. TypeOK'
  <2>1. waiting' \in SUBSET Consumers /\ pc' \in [Consumers -> Locations]
    BY <1>3 DEF TypeOK, Locations
  <2>2. delivered' \in [Ids -> Nat]
    BY <1>1 DEF TypeOK
  <2> QED
    BY <1>1, <1>2, <1>5, <2>1, <2>2 DEF TypeOK
<1>7. HandsMatchPc'
  BY <1>1, <1>4 DEF HandsMatchPc
<1>8. ToSet(dq)' = ToSet(dq) \cup {m} /\ ToSet(arrived)' = ToSet(arrived) \cup {m}
  BY <1>2, <1>5 DEF ToSet
<1>9. OnlyArrived'
  BY <1>1, <1>8 DEF OnlyArrived
<1>10. AtMostOncePerLife'
  BY <1>1 DEF AtMostOncePerLife
<1>11. MarkedWasBegun'
  BY <1>1, <1>4 DEF MarkedWasBegun
<1>12. Taken' = Taken
  BY <1>1 DEF Taken
<1>13. ArrivedIsSomewhere'
  BY <1>1, <1>8, <1>12 DEF ArrivedIsSomewhere
<1>14. DequeInOrder'
  <2> SUFFICES ASSUME restarts = 0 PROVE Ordered(dq', arrived', Taken')
    BY <1>1 DEF DequeInOrder
  <2>1. Ordered(<<m>> \o dq, Arrival(arrived, m), Taken)
    BY <1>1, OrderedPush DEF DequeInOrder, OnlyArrived, ArrivedIsSomewhere
  <2> QED
    BY <1>1, <1>12, <2>1
<1>15. NoneIsOvertaken'
  <2>1. CASE m \in ToSet(arrived)
    BY <1>1, <1>12, <2>1 DEF NoneIsOvertaken, Arrival
  <2>2. CASE m \notin ToSet(arrived)
    <3>1. arrived' = Append(arrived, m)
      BY <1>1, <2>2 DEF Arrival
    <3>2. /\ DOMAIN arrived' = 1..Len(arrived) + 1
          /\ DOMAIN arrived = 1..Len(arrived)
          /\ Len(arrived) \in Nat
          /\ arrived'[Len(arrived) + 1] = m
          /\ \A i \in DOMAIN arrived : arrived'[i] = arrived[i]
      BY <1>1, <3>1
    <3>3. m \notin Taken
      BY <2>2, NoneAssumption DEF OnlyArrived, Taken
    <3> SUFFICES ASSUME restarts = 0, NEW i \in DOMAIN arrived', NEW j \in DOMAIN arrived',
                        i < j, arrived'[j] \in Taken
                 PROVE  arrived'[i] \in Taken
      BY <1>1, <1>12 DEF NoneIsOvertaken
    <3>4. j \in DOMAIN arrived /\ i \in DOMAIN arrived
      BY <3>2, <3>3
    <3> QED
      BY <3>2, <3>4 DEF NoneIsOvertaken
  <2> QED
    BY <2>1, <2>2
<1>16. WaitersAreKnown'
  BY <1>3 DEF WaitersAreKnown, TypeOK
<1>17. EveryJobIsNotified'
  <2>1. CASE waiting = {} /\ UNCHANGED <<waiting, pc>>
    BY <2>1 DEF EveryJobIsNotified
  <2>2. ASSUME NEW c \in waiting, waiting' = waiting \ {c}, pc' = [pc EXCEPT ![c] = "awake"]
        PROVE  EveryJobIsNotified'
    <3>1. c \in Consumers /\ c \notin Notified
      BY <2>2 DEF TypeOK, Notified
    <3>2. Notified' = Notified \cup {c}
      BY <2>2, <3>1 DEF TypeOK, Notified
    <3>3. Cardinality(Notified') = Cardinality(Notified) + 1
      BY <3>1, <3>2, NotifiedIsFinite, FS_AddElement
    <3>4. Cardinality(Notified)' = Cardinality(Notified')
      BY DEF Notified
    <3>5. Len(dq) <= Cardinality(Notified)
      BY <2>2 DEF EveryJobIsNotified
    <3> QED
      BY <1>2, <3>3, <3>4, <3>5, NotifiedIsFinite DEF EveryJobIsNotified
  <2> QED
    BY <1>3, <2>1, <2>2
<1> QED
  BY <1>6, <1>7, <1>9, <1>10, <1>11, <1>13, <1>14, <1>15, <1>16, <1>17

\* A thread pops a job: at once, or after wait().  What it frees is at most its
\* own place among the notified.
LEMMA PopStep ==
    ASSUME IInv, NEW c \in Consumers, pc[c] \in {"loop", "awake"}, Pop(c),
           waiting' = waiting \ {c},
           UNCHANGED <<seenIds, delivered, restarts, arrived, starts, over>>
    PROVE  IInv'
<1> USE DEF IInv
<1> DEFINE m == Last(dq)
<1>1. /\ dq # <<>>
      /\ dq' = Front(dq)
      /\ hand' = [hand EXCEPT ![c] = m]
      /\ pc' = [pc EXCEPT ![c] = "seen"]
      /\ dq \in Seq(Ids) /\ arrived \in Seq(Ids)
  BY DEF Pop, GoTo, TypeOK
<1>2. /\ dq' \in Seq(Ids)
      /\ Len(dq') = Len(dq) - 1
      /\ Len(dq) \in Nat \ {0}
      /\ m \in Ids
      /\ ToSet(dq) = ToSet(dq') \cup {m}
  BY <1>1, PopShape, PopElements
<1> HIDE DEF m
<1>3. /\ pc'[c] = "seen" /\ hand'[c] = m
      /\ \A d \in Consumers \ {c} : pc'[d] = pc[d] /\ hand'[d] = hand[d]
      /\ hand[c] = None
  BY <1>1 DEF TypeOK, HandsMatchPc
<1>4. TypeOK'
  BY <1>1, <1>2 DEF TypeOK, Locations
<1>5. HandsMatchPc'
  BY <1>2, <1>3, NoneAssumption DEF HandsMatchPc
<1>6. ToSet(dq)' = ToSet(dq') /\ ToSet(arrived)' = ToSet(arrived)
  BY DEF ToSet
<1>7. OnlyArrived'
  BY <1>2, <1>3, <1>6 DEF OnlyArrived
<1>8. AtMostOncePerLife'
  BY DEF AtMostOncePerLife
<1>9. MarkedWasBegun'
  BY <1>3 DEF MarkedWasBegun
<1>10. \A n \in Ids : n \in Taken' <=> n \in Taken \cup {m}
  BY <1>3, NoneAssumption DEF Taken
<1>11. ToSet(arrived) \subseteq Ids
  BY <1>1, ToSetType
<1>12. ArrivedIsSomewhere'
  BY <1>2, <1>6, <1>10, <1>11 DEF ArrivedIsSomewhere
<1>13. DequeInOrder' /\ NoneIsOvertaken'
  <2>1. CASE restarts # 0
    BY <2>1 DEF DequeInOrder, NoneIsOvertaken
  <2>2. CASE restarts = 0
    <3>1. /\ Ordered(Front(dq), arrived, Taken \cup {m})
          /\ \A i, j \in DOMAIN arrived : i < j /\ arrived[j] = m => arrived[i] \in Taken
      BY <1>1, <2>2, OrderedPop DEF DequeInOrder, m
    <3>2. \A i \in DOMAIN arrived : arrived[i] \in Taken' <=> arrived[i] \in Taken \cup {m}
      BY <1>1, <1>10
    <3>3. Ordered(dq', arrived', Taken')
      BY <1>1, <3>1, <3>2, OrderedTaken
    <3>4. NoneIsOvertaken'
      BY <2>2, <3>1, <3>2 DEF NoneIsOvertaken
    <3> QED
      BY <3>3, <3>4 DEF DequeInOrder
  <2> QED
    BY <2>1, <2>2
<1>14. WaitersAreKnown'
  BY <1>3 DEF WaitersAreKnown, TypeOK
<1>15. EveryJobIsNotified'
  <2> SUFFICES ASSUME waiting' # {} PROVE Len(dq') <= Cardinality(Notified')
    BY DEF EveryJobIsNotified, Notified
  <2>1. Len(dq) <= Cardinality(Notified)
    BY DEF EveryJobIsNotified
  <2>2. Notified' = Notified \ {c}
    BY <1>3 DEF Notified, WaitersAreKnown
  <2> DEFINE k == Cardinality(Notified)
             r == Cardinality(Notified \ {c})
  <2>3. k \in Nat /\ r = IF c \in Notified THEN k - 1 ELSE k
    BY NotifiedIsFinite, FS_RemoveElement
  <2>4. Cardinality(Notified') = r
    BY <2>2
  <2> HIDE DEF k, r
  <2>5. Len(dq') <= r
    BY <1>2, <2>1, <2>3 DEF k
  <2> QED
    BY <2>4, <2>5
<1> QED
  BY <1>4, <1>5, <1>7, <1>8, <1>9, <1>12, <1>13, <1>14, <1>15

\* Steps of a thread that has no job and gets none: into wait(), out of it, and
\* past an empty deque.
LEMMA WaitStep ==
    ASSUME IInv, NEW c \in Consumers, Wait(c) \/ TimeOut(c) \/ (LookAgain(c) /\ ~ Pop(c))
    PROVE  IInv'
<1> USE DEF IInv
<1>1. /\ UNCHANGED <<dq, seenIds, hand, delivered, restarts, arrived, starts, over>>
      /\ pc[c] \in {"loop", "wait", "awake"}
      /\ pc'[c] \in {"loop", "wait", "awake"}
      /\ \A d \in Consumers \ {c} : pc'[d] = pc[d]
      /\ pc' \in [Consumers -> Locations]
      /\ waiting' \in SUBSET Consumers
  BY DEF Wait, TimeOut, LookAgain, GoTo, TypeOK, Locations
<1>2. TypeOK'
  BY <1>1 DEF TypeOK
<1>3. HandsMatchPc' /\ AtMostOncePerLife'
  BY <1>1 DEF HandsMatchPc, AtMostOncePerLife
<1>4. OnlyArrived'
  BY <1>1 DEF OnlyArrived, ToSet
<1>5. MarkedWasBegun'
  BY <1>1 DEF MarkedWasBegun
<1>6. Taken' = Taken
  BY <1>1 DEF Taken
<1>7. ArrivedIsSomewhere' /\ DequeInOrder' /\ NoneIsOvertaken'
  BY <1>1, <1>6 DEF ArrivedIsSomewhere, DequeInOrder, NoneIsOvertaken, ToSet, Ordered
<1>8. WaitersAreKnown'
  BY DEF Wait, TimeOut, LookAgain, GoTo, TypeOK, WaitersAreKnown
<1>9. EveryJobIsNotified'
  <2>1. CASE dq = <<>>
    <3>1. Notified' \in SUBSET Consumers
      BY DEF Notified
    <3>2. Cardinality(Notified') \in Nat
      BY <3>1, ConsumersAssumption, FS_Subset, FS_CardinalityType
    <3>3. Len(dq') = 0 /\ Cardinality(Notified)' = Cardinality(Notified')
      BY <1>1, <2>1 DEF Notified
    <3> QED
      BY <3>2, <3>3 DEF EveryJobIsNotified
  <2>2. CASE TimeOut(c)
    <3>1. Notified' = Notified /\ UNCHANGED <<dq, waiting>>
      BY <2>2 DEF TimeOut, GoTo, TypeOK, WaitersAreKnown, Notified
    <3> QED
      BY <3>1 DEF EveryJobIsNotified
  <2> QED
    BY <2>1, <2>2 DEF Wait, LookAgain
<1> QED
  BY <1>2, <1>3, <1>4, <1>5, <1>7, <1>8, <1>9

\* seen() is False.
LEMMA BeginStep ==
    ASSUME IInv, NEW c \in Consumers, BeginJob(c)
    PROVE  IInv'
<1> USE DEF IInv
<1> DEFINE m == hand[c]
<1>1. /\ pc[c] = "seen"
      /\ m \notin seenIds
      /\ seenIds' = seenIds \cup {m}
      /\ pc' = [pc EXCEPT ![c] = "process"]
      /\ starts' = [starts EXCEPT ![m] = @ + 1]
      /\ UNCHANGED <<dq, waiting, hand, delivered, restarts, arrived, over>>
  BY DEF BeginJob, GoTo
<1>2. m \in Ids
  BY <1>1 DEF TypeOK, HandsMatchPc
<1>3. pc'[c] = "process" /\ \A d \in Consumers \ {c} : pc'[d] = pc[d]
  BY <1>1 DEF TypeOK
<1>4. TypeOK'
  BY <1>1, <1>2 DEF TypeOK, Locations
<1>5. MarkedWasBegun'
  BY <1>1, <1>3 DEF MarkedWasBegun
<1> HIDE DEF m
<1>6. HandsMatchPc'
  BY <1>1, <1>3 DEF HandsMatchPc
<1>7. OnlyArrived'
  BY <1>1 DEF OnlyArrived, ToSet
<1>8. AtMostOncePerLife'
  <2> SUFFICES ASSUME NEW n \in Ids
               PROVE  starts'[n] <= restarts' + (IF n \in seenIds' THEN 1 ELSE 0)
    BY DEF AtMostOncePerLife
  <2>1. starts[n] <= restarts + (IF n \in seenIds THEN 1 ELSE 0)
    BY DEF AtMostOncePerLife
  <2>2. starts[n] \in Nat /\ restarts \in Nat
    BY DEF TypeOK
  <2>3. starts'[n] = IF n = m THEN starts[n] + 1 ELSE starts[n]
    BY <1>1, <1>2 DEF TypeOK
  <2> QED
    BY <1>1, <2>1, <2>2, <2>3
<1>9. Taken' = Taken
  BY <1>1 DEF Taken
<1>10. ArrivedIsSomewhere' /\ DequeInOrder' /\ NoneIsOvertaken'
  BY <1>1, <1>9 DEF ArrivedIsSomewhere, DequeInOrder, NoneIsOvertaken, ToSet, Ordered
<1>11. WaitersAreKnown'
  BY <1>1, <1>3 DEF WaitersAreKnown, TypeOK
<1>12. EveryJobIsNotified'
  <2>1. Notified' = Notified
    BY <1>1, <1>3 DEF Notified
  <2> QED
    BY <1>1, <2>1 DEF EveryJobIsNotified
<1> QED
  BY <1>4, <1>5, <1>6, <1>7, <1>8, <1>10, <1>11, <1>12

\* A thread lets its job go because it ran, or because its mark shows that it
\* ran or is running elsewhere.
LEMMA ReleaseStep ==
    ASSUME IInv, NEW c \in Consumers, SkipDuplicate(c) \/ JobEnds(c)
    PROVE  IInv'
<1> USE DEF IInv
<1> DEFINE m == hand[c]
<1>1. /\ hand' = [hand EXCEPT ![c] = None]
      /\ pc' = [pc EXCEPT ![c] = "loop"]
      /\ UNCHANGED <<dq, seenIds, waiting, delivered, restarts, arrived, starts>>
      /\ over \subseteq over' /\ over' \subseteq over \cup {m}
      /\ \/ pc[c] = "process" /\ m \in over'
         \/ pc[c] = "seen" /\ m \in seenIds
  BY DEF SkipDuplicate, JobEnds, GoTo
<1>2. /\ hand'[c] = None /\ pc'[c] = "loop"
      /\ \A d \in Consumers \ {c} : pc'[d] = pc[d] /\ hand'[d] = hand[d]
  BY <1>1 DEF TypeOK
<1>3. m \in Ids /\ m \in ToSet(arrived)
  BY <1>1 DEF TypeOK, HandsMatchPc, OnlyArrived
<1> HIDE DEF m
<1>4. TypeOK'
  BY <1>1, <1>3 DEF TypeOK, Locations
<1>5. HandsMatchPc'
  BY <1>2 DEF HandsMatchPc
<1>6. OnlyArrived'
  BY <1>1, <1>2, <1>3 DEF OnlyArrived, ToSet
<1>7. AtMostOncePerLife'
  BY <1>1 DEF AtMostOncePerLife
<1>8. MarkedWasBegun'
  <2> SUFFICES ASSUME restarts = 0, NEW n \in seenIds
               PROVE  \/ n \in over'
                      \/ \E d \in Consumers : pc'[d] = "process" /\ hand'[d] = n
    BY <1>1 DEF MarkedWasBegun
  <2>1. CASE n \in over
    BY <1>1, <2>1
  <2>2. CASE \E d \in Consumers : pc[d] = "process" /\ hand[d] = n
    BY <1>1, <1>2, <2>2 DEF m
  <2> QED
    BY <2>1, <2>2 DEF MarkedWasBegun
<1>9. ASSUME restarts = 0 PROVE m \in Taken'
  <2>1. m \in over' \/ \E d \in Consumers : hand'[d] = m
    BY <1>1, <1>8, <1>9 DEF MarkedWasBegun
  <2> QED
    BY <2>1 DEF Taken
<1>10. ASSUME restarts = 0, NEW n \in Ids PROVE n \in Taken' <=> n \in Taken
  <2>1. m \in Taken
    BY DEF Taken, m
  <2>2. CASE n = m
    BY <1>9, <1>10, <2>1, <2>2
  <2>3. CASE n # m
    BY <1>1, <1>2, <2>3, NoneAssumption DEF Taken, m
  <2> QED
    BY <2>2, <2>3
<1>11. ArrivedIsSomewhere' /\ DequeInOrder' /\ NoneIsOvertaken'
  BY <1>1, <1>10, SameOrder
<1>12. WaitersAreKnown'
  BY <1>1, <1>2 DEF WaitersAreKnown, TypeOK
<1>13. EveryJobIsNotified'
  <2>1. Notified' = Notified
    BY <1>1, <1>2 DEF Notified
  <2> QED
    BY <1>1, <2>1 DEF EveryJobIsNotified
<1> QED
  BY <1>4, <1>5, <1>6, <1>7, <1>8, <1>11, <1>12, <1>13

\* The process ends and is started again.
LEMMA RestartStep ==
    ASSUME IInv, Restart
    PROVE  IInv'
<1> USE DEF IInv
<1>1. restarts' = restarts + 1 /\ restarts' # 0 /\ restarts \in Nat
  BY DEF Restart, TypeOK
<1>2. TypeOK'
  BY <1>1 DEF Restart, TypeOK, Locations
<1>3. HandsMatchPc' /\ WaitersAreKnown' /\ EveryJobIsNotified'
  BY DEF Restart, HandsMatchPc, WaitersAreKnown, EveryJobIsNotified
<1>4. OnlyArrived'
  BY DEF Restart, OnlyArrived, ToSet
<1>5. AtMostOncePerLife'
  BY <1>1 DEF Restart, AtMostOncePerLife, TypeOK
<1>6. MarkedWasBegun' /\ ArrivedIsSomewhere' /\ DequeInOrder' /\ NoneIsOvertaken'
  BY <1>1 DEF MarkedWasBegun, ArrivedIsSomewhere, DequeInOrder, NoneIsOvertaken
<1> QED
  BY <1>2, <1>3, <1>4, <1>5, <1>6

-----------------------------------------------------------------------------
(* The theorems.                                                           *)

\* The initial state satisfies the inductive invariant.
LEMMA InitIInv == Init => IInv
<1> SUFFICES ASSUME Init PROVE IInv
  OBVIOUS
<1>1. TypeOK
  BY DEF Init, TypeOK, Locations
<1>2. HandsMatchPc /\ OnlyArrived /\ AtMostOncePerLife /\ MarkedWasBegun
  BY DEF Init, HandsMatchPc, OnlyArrived, AtMostOncePerLife, MarkedWasBegun, ToSet
<1>3. ArrivedIsSomewhere /\ DequeInOrder /\ NoneIsOvertaken
  BY DEF Init, ArrivedIsSomewhere, DequeInOrder, NoneIsOvertaken, Ordered, ToSet
<1>4. WaitersAreKnown /\ EveryJobIsNotified
  BY DEF Init, WaitersAreKnown, EveryJobIsNotified
<1> QED
  BY <1>1, <1>2, <1>3, <1>4 DEF IInv

\* Every step keeps the inductive invariant.
LEMMA NextIInv == IInv /\ [Next]_vars => IInv'
<1> SUFFICES ASSUME IInv, [Next]_vars PROVE IInv'
  OBVIOUS
<1>1. ASSUME NEW m \in Ids, Enqueue(m) PROVE IInv'
  BY <1>1, EnqueueStep
<1>2. ASSUME NEW c \in Consumers, Dequeue(c) PROVE IInv'
  <2>1. waiting' = waiting \ {c}
    BY <1>2 DEF Dequeue, IInv, WaitersAreKnown
  <2> QED
    BY <1>2, <2>1, PopStep DEF Dequeue
<1>3. ASSUME NEW c \in Consumers, LookAgain(c) PROVE IInv'
  <2>1. CASE Pop(c)
    BY <1>3, <2>1, PopStep DEF LookAgain
  <2>2. CASE ~ Pop(c)
    BY <1>3, <2>2, WaitStep
  <2> QED
    BY <2>1, <2>2
<1>4. ASSUME NEW c \in Consumers, Wait(c) \/ TimeOut(c) PROVE IInv'
  BY <1>4, WaitStep
<1>5. ASSUME NEW c \in Consumers, BeginJob(c) PROVE IInv'
  BY <1>5, BeginStep
<1>6. ASSUME NEW c \in Consumers, SkipDuplicate(c) \/ JobEnds(c) PROVE IInv'
  BY <1>6, ReleaseStep
<1>7. CASE Restart
  BY <1>7, RestartStep
<1>8. CASE UNCHANGED vars
  <2>1. Taken' = Taken /\ Notified' = Notified
    BY <1>8 DEF vars, Taken, Notified
  <2>2. TypeOK' /\ HandsMatchPc' /\ OnlyArrived' /\ AtMostOncePerLife'
    BY <1>8 DEF vars, IInv, TypeOK, HandsMatchPc, OnlyArrived, AtMostOncePerLife, ToSet
  <2>3. MarkedWasBegun' /\ ArrivedIsSomewhere' /\ DequeInOrder' /\ NoneIsOvertaken'
    BY <1>8, <2>1 DEF vars, IInv, MarkedWasBegun, ArrivedIsSomewhere, DequeInOrder,
                      NoneIsOvertaken, Ordered, ToSet
  <2>4. WaitersAreKnown' /\ EveryJobIsNotified'
    BY <1>8, <2>1 DEF vars, IInv, WaitersAreKnown, EveryJobIsNotified
  <2> QED
    BY <2>2, <2>3, <2>4 DEF IInv
<1> QED
  BY <1>1, <1>2, <1>3, <1>4, <1>5, <1>6, <1>7, <1>8 DEF Next, ThreadStep

\* The inductive invariant holds in every reachable state.
THEOREM Invariance == Spec => []IInv
<1>1. Init => IInv
  BY InitIInv
<1>2. IInv /\ [Next]_vars => IInv'
  BY NextIInv
<1> QED
  BY <1>1, <1>2, PTL DEF Spec

\* Every variable of the in-memory deployment keeps its type.
THEOREM TypeCorrect == Spec => []TypeOK
<1>1. IInv => TypeOK
  BY DEF IInv
<1> QED
  BY <1>1, Invariance, PTL

\* No wakeup is lost, for any number of threads, deliveries and timeouts.
THEOREM NoLostWakeup == Spec => []SleepersAreNotNeeded
<1>1. IInv => SleepersAreNotNeeded
  <2> SUFFICES ASSUME IInv, NEW c \in Consumers, pc[c] = "wait"
               PROVE  Len(dq) <= Cardinality({d \in Consumers : pc[d] = "awake"})
    BY DEF SleepersAreNotNeeded
  <2> DEFINE awake == {d \in Consumers : pc[d] = "awake"}
  <2>1. Len(dq) <= Cardinality(Notified) /\ Len(dq) \in Nat
    BY DEF IInv, WaitersAreKnown, EveryJobIsNotified, TypeOK
  <2>2. Notified \in SUBSET awake /\ awake \in SUBSET Consumers
    BY DEF Notified
  <2>3. IsFiniteSet(awake)
    BY <2>2, ConsumersAssumption, FS_Subset
  <2>4. Cardinality(Notified) <= Cardinality(awake) /\ Cardinality(awake) \in Nat
    BY <2>2, <2>3, FS_Subset, FS_CardinalityType
  <2> QED
    BY <2>1, <2>4, NotifiedIsFinite
<1> QED
  BY <1>1, Invariance, PTL

\* process_job runs at most once per message and life of the process, for any
\* number of threads and deliveries.
THEOREM AtMostOnceHolds == Spec => []AtMostOncePerLife
<1>1. IInv => AtMostOncePerLife
  BY DEF IInv
<1> QED
  BY <1>1, Invariance, PTL

\* As long as the process lives, a message is in the deque, in a hand, or over.
THEOREM NoLossHolds == Spec => []NoLossWhileUp
<1>1. IInv => NoLossWhileUp
  BY ContainsIsIn DEF IInv, ArrivedIsSomewhere, NoLossWhileUp, Taken
<1> QED
  BY <1>1, Invariance, PTL

\* As long as the process lives, jobs are taken in the order of their arrival.
THEOREM OrderHolds == Spec => []NoneIsOvertaken
<1>1. IInv => NoneIsOvertaken
  BY DEF IInv
<1> QED
  BY <1>1, Invariance, PTL

\* appendleft is an enqueue, pop a dequeue, and the end of the process empties
\* the queue: the deque implements the queue of base.py.
THEOREM QueueRefinement == Spec => RefinesMessageQueue
<1> USE DEF Contract!Next, Contract!Enqueue, Contract!Dequeue, Contract!Vanish
<1>1. Init => Contract!Init
  BY DEF Init, Contract!Init, Reverse
<1>2. IInv /\ [Next]_vars => [Contract!Next]_(Reverse(dq))
  <2> SUFFICES ASSUME IInv, [Next]_vars PROVE Contract!Next \/ UNCHANGED Reverse(dq)
    OBVIOUS
  <2>1. ASSUME UNCHANGED dq PROVE UNCHANGED Reverse(dq)
    BY <2>1 DEF Reverse
  <2>2. ASSUME NEW m \in Ids, Enqueue(m) PROVE Contract!Next
    <3>1. Reverse(dq') = Append(Reverse(dq), m)
      BY <2>2, ReversePush DEF Enqueue, IInv, TypeOK
    <3>2. Reverse(dq)' = Append(Reverse(dq), m)
      BY <3>1 DEF Reverse
    <3> QED
      BY <3>2
  <2>3. ASSUME NEW c \in Consumers, Pop(c) PROVE Contract!Next
    <3>1. Reverse(dq) # <<>> /\ Reverse(dq') = Tail(Reverse(dq))
      BY <2>3, ReversePop DEF Pop, IInv, TypeOK
    <3>2. Reverse(dq)' = Tail(Reverse(dq))
      BY <3>1 DEF Reverse
    <3> QED
      BY <3>1, <3>2
  <2>4. ASSUME NEW c \in Consumers,
               \/ Wait(c) \/ TimeOut(c) \/ (LookAgain(c) /\ ~ Pop(c))
               \/ BeginJob(c) \/ SkipDuplicate(c) \/ JobEnds(c)
        PROVE  UNCHANGED dq
    BY <2>4 DEF Wait, TimeOut, LookAgain, BeginJob, SkipDuplicate, JobEnds
  <2>5. CASE Restart
    BY <2>5 DEF Restart, Reverse
  <2>6. CASE UNCHANGED vars
    BY <2>6 DEF vars
  <2> QED
    BY <2>1, <2>2, <2>3, <2>4, <2>5, <2>6 DEF Next, ThreadStep, Dequeue
<1> QED
  BY <1>1, <1>2, Invariance, PTL DEF Spec, RefinesMessageQueue, Contract!Spec

=============================================================================
