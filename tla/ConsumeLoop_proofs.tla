------------------------- MODULE ConsumeLoop_proofs -------------------------
(***************************************************************************)
(* Proofs about ConsumeLoop for every set of message ids, every set of     *)
(* workers and every bound.  The inductive invariant is IInv; its parts    *)
(* beyond the properties of ConsumeLoop say that a worker holds a job      *)
(* exactly while it deals with one, that the mark of a job outlives its    *)
(* processing, that only enqueued ids get around, and that without faults  *)
(* a mark belongs to a job that ran or is running.                         *)
(***************************************************************************)
EXTENDS ConsumeLoop, SequenceLemmas, TLAPS

\* A worker holds a job exactly in the two places where it deals with one.
HandsMatchPc ==
    \A w \in Workers : hand[w] # None <=> pc[w] \in {"seen", "process"}

\* The mark of a message stays while the message is processed.
ProcessingIsMarked ==
    \A w \in Workers : pc[w] = "process" => hand[w] \in seenKeys

\* Whatever is queued, held or marked was enqueued once.
OnlyArrived ==
    /\ \A m \in Ids : Queued(m) => m \in ToSet(arrived)
    /\ \A w \in Workers : hand[w] # None => hand[w] \in ToSet(arrived)
    /\ seenKeys \subseteq ToSet(arrived)

\* Without faults a mark means that the job ran or is running.
MarkedWasBegun ==
    faults = 0 =>
        \A m \in seenKeys :
            \/ m \in done \cup failed
            \/ \E w \in Workers : pc[w] = "process" /\ hand[w] = m

IInv ==
    /\ TypeOK
    /\ HandsMatchPc
    /\ ProcessingIsMarked
    /\ NoConcurrentDuplicate
    /\ AtMostOncePerMark
    /\ OnlyArrived
    /\ MarkedWasBegun
    /\ NoLossWithoutFault

-----------------------------------------------------------------------------
(* The two list operations.                                                *)

\* LPUSH adds its element and keeps the others.
LEMMA LPushQueued ==
    ASSUME NEW m \in Ids, list \in Seq(Ids), LPush(m)
    PROVE  /\ list' \in Seq(Ids)
           /\ \A n \in Ids : Queued(n)' <=> Queued(n) \/ n = m
<1>1. ToSet(list') = ToSet(list) \cup {m}
  BY PushElements DEF LPush
<1>2. \A n : (Queued(n) <=> n \in ToSet(list)) /\ (Queued(n)' <=> n \in ToSet(list'))
  BY ContainsIsIn DEF Queued
<1> QED
  BY <1>1, <1>2, PushShape DEF LPush

\* BRPOP takes one occurrence of its element and keeps the others.
LEMMA BRPopQueued ==
    ASSUME NEW m, list \in Seq(Ids), BRPop(m)
    PROVE  /\ m \in Ids
           /\ Queued(m)
           /\ list' \in Seq(Ids)
           /\ \A n \in Ids : Queued(n)' => Queued(n)
           /\ \A n \in Ids : Queued(n) => Queued(n)' \/ n = m
<1>1. ToSet(list) = ToSet(list') \cup {m}
  BY PopElements DEF BRPop
<1>2. \A n : (Queued(n) <=> n \in ToSet(list)) /\ (Queued(n)' <=> n \in ToSet(list'))
  BY ContainsIsIn DEF Queued
<1>3. m \in Ids /\ list' \in Seq(Ids)
  BY PopShape DEF BRPop
<1> QED
  BY <1>1, <1>2, <1>3

-----------------------------------------------------------------------------
(* Type correctness.  BeginJob marks hand[w], so the type of seenKeys      *)
(* depends on HandsMatchPc.                                                *)

LEMMA InitTypeOK == Init => TypeOK
  BY NoneAssumption DEF Init, TypeOK, QueueInit, QueueTypeOK, Locations

\* What a BRPOP leaves behind has its type.
LEMMA BRPopType ==
    ASSUME TypeOK, \E m \in Ids : BRPop(m)
    PROVE  list' \in Seq(Ids)
<1>1. PICK m \in Ids : BRPop(m)
  OBVIOUS
<1> QED
  BY <1>1, BRPopQueued DEF TypeOK, QueueTypeOK

\* The type of every variable survives every action.
LEMMA NextTypeOK == TypeOK /\ HandsMatchPc /\ [Next]_vars => TypeOK'
<1> SUFFICES ASSUME TypeOK, HandsMatchPc, [Next]_vars PROVE TypeOK'
  OBVIOUS
<1> USE DEF TypeOK, QueueTypeOK, Locations, GoTo, Drop, Fault, queueVars,
            workerVars, historyVars
<1>1. ASSUME NEW m \in Ids, Deliver(m) PROVE TypeOK'
  <2>1. list' \in Seq(Ids)
    BY <1>1, LPushQueued DEF Deliver
  <2> QED
    BY <1>1, <2>1 DEF Deliver
<1>2. ASSUME NEW m \in Ids, DeliverFails(m) PROVE TypeOK'
  <2>1. delivered' \in [Ids -> Nat]
    BY <1>2 DEF DeliverFails
  <2>2. faults' \in Nat
    BY <1>2 DEF DeliverFails
  <2> QED
    BY <1>2, <2>1, <2>2 DEF DeliverFails
<1>3. ASSUME NEW m \in Ids, Expire(m) PROVE TypeOK'
  BY <1>3 DEF Expire, ExpireKey
<1>4. ASSUME NEW w \in Workers, LoopTest(w) PROVE TypeOK'
  BY <1>4 DEF LoopTest
<1>5. ASSUME NEW w \in Workers, Dequeue(w) PROVE TypeOK'
  <2>1. list' \in Seq(Ids)
    BY <1>5, BRPopType DEF Dequeue
  <2>2. hand' \in [Workers -> Ids \cup {None}]
    BY <1>5 DEF Dequeue
  <2> QED
    BY <1>5, <2>1, <2>2 DEF Dequeue
<1>6. ASSUME NEW w \in Workers, DequeueTimeout(w) PROVE TypeOK'
  BY <1>6 DEF DequeueTimeout
<1>7. ASSUME NEW w \in Workers, DequeueFails(w) PROVE TypeOK'
  BY <1>7 DEF DequeueFails
<1>8. ASSUME NEW w \in Workers, DequeueLosesJob(w) PROVE TypeOK'
  <2>1. list' \in Seq(Ids)
    BY <1>8, BRPopType DEF DequeueLosesJob
  <2>2. faults' \in Nat
    BY <1>8 DEF DequeueLosesJob
  <2>3. pc' = [pc EXCEPT ![w] = "backoff"] \/ pc' = pc
    BY <1>8 DEF DequeueLosesJob
  <2>4. UNCHANGED <<seenKeys, hand, running, delivered, stops, historyVars>>
    BY <1>8 DEF DequeueLosesJob
  <2> QED
    BY <2>1, <2>2, <2>3, <2>4
<1>9. ASSUME NEW w \in Workers, pc[w] = "seen" PROVE hand[w] \in Ids
  BY <1>9 DEF HandsMatchPc
<1>10. ASSUME NEW w \in Workers, BeginJob(w) PROVE TypeOK'
  <2>1. hand[w] \in Ids
    BY <1>9, <1>10 DEF BeginJob
  <2>2. starts' \in [Ids -> Nat]
    BY <1>10, <2>1 DEF BeginJob
  <2>3. seenKeys' \in SUBSET Ids
    BY <1>10, <2>1 DEF BeginJob, SetNX
  <2> QED
    BY <1>10, <2>2, <2>3 DEF BeginJob
<1>11. ASSUME NEW w \in Workers, SkipDuplicate(w) PROVE TypeOK'
  <2>1. hand[w] \in Ids
    BY <1>9, <1>11 DEF SkipDuplicate
  <2> QED
    BY <1>11, <2>1 DEF SkipDuplicate, AlreadySet
<1>12. ASSUME NEW w \in Workers, SeenFails(w) PROVE TypeOK'
  <2>1. hand[w] \in Ids
    BY <1>9, <1>12 DEF SeenFails
  <2> QED
    BY <1>12, <2>1 DEF SeenFails, SetNX
<1>13. ASSUME NEW w \in Workers, SeenFindsOwnMark(w) PROVE TypeOK'
  <2>1. hand[w] \in Ids
    BY <1>9, <1>13 DEF SeenFindsOwnMark
  <2> QED
    BY <1>13, <2>1 DEF SeenFindsOwnMark, SetNX
<1>14. ASSUME NEW w \in Workers, Backoff(w) PROVE TypeOK'
  BY <1>14 DEF Backoff
<1>15. ASSUME NEW w \in Workers, JobReturns(w) PROVE TypeOK'
  <2>1. hand[w] \in Ids
    BY <1>15 DEF JobReturns, HandsMatchPc
  <2> QED
    BY <1>15, <2>1 DEF JobReturns
<1>16. ASSUME NEW w \in Workers, JobRaises(w) PROVE TypeOK'
  <2>1. hand[w] \in Ids
    BY <1>16 DEF JobRaises, HandsMatchPc
  <2> QED
    BY <1>16, <2>1 DEF JobRaises
<1>17. ASSUME NEW w \in Workers, Stop(w) PROVE TypeOK'
  BY <1>17 DEF Stop
<1>18. ASSUME NEW w \in Workers, Kill(w) PROVE TypeOK'
  BY <1>18 DEF Kill
<1>19. ASSUME NEW w \in Workers, Launch(w) PROVE TypeOK'
  BY <1>19 DEF Launch
<1>20. CASE UNCHANGED vars
  BY <1>20 DEF vars
<1> QED
  BY <1>1, <1>2, <1>3, <1>4, <1>5, <1>6, <1>7, <1>8, <1>10, <1>11, <1>12, <1>13,
     <1>14, <1>15, <1>16, <1>17, <1>18, <1>19, <1>20
  DEF Next, WorkerStep, WorkerFault

-----------------------------------------------------------------------------
(* The inductive invariant, one lemma for each kind of step.               *)

InJob(l) == l \in {"seen", "process"}

\* A step that moves no job: the queue, the marks and every hand stay, and
\* workers move only between places where they hold nothing.
LEMMA QuietStep ==
    ASSUME IInv, TypeOK', faults' >= faults,
           UNCHANGED <<list, seenKeys, hand, arrived, starts, expired, done, failed>>,
           \A w \in Workers : pc'[w] = pc[w] \/ (~ InJob(pc[w]) /\ ~ InJob(pc'[w]))
    PROVE  IInv'
<1> USE DEF IInv
<1>1. faults' = 0 => faults = 0
  BY DEF TypeOK
<1>2. \A m : Queued(m)' <=> Queued(m)
  BY DEF Queued, Contains
<1>3. \A w \in Workers : pc'[w] = "process" <=> pc[w] = "process"
  BY DEF InJob
<1>4. HandsMatchPc'
  BY DEF HandsMatchPc, InJob
<1>5. ProcessingIsMarked'
  BY <1>3 DEF ProcessingIsMarked
<1>6. NoConcurrentDuplicate'
  BY <1>3 DEF NoConcurrentDuplicate
<1>7. AtMostOncePerMark'
  BY DEF AtMostOncePerMark
<1>8. OnlyArrived'
  BY <1>2 DEF OnlyArrived
<1>9. MarkedWasBegun'
  BY <1>1, <1>3 DEF MarkedWasBegun
<1>10. NoLossWithoutFault'
  BY <1>1, <1>2 DEF NoLossWithoutFault
<1> QED
  BY <1>4, <1>5, <1>6, <1>7, <1>8, <1>9, <1>10

\* A webhook delivery: one more element in the list, known from now on.
LEMMA DeliverStep ==
    ASSUME IInv, TypeOK', NEW m \in Ids, Deliver(m)
    PROVE  IInv'
<1> USE DEF IInv
<1>1. /\ UNCHANGED <<seenKeys, pc, hand, faults, starts, expired, done, failed>>
      /\ arrived' = IF m \in ToSet(arrived) THEN arrived ELSE Append(arrived, m)
  BY DEF Deliver, workerVars
<1>2. \A n \in Ids : Queued(n)' <=> Queued(n) \/ n = m
  BY LPushQueued DEF Deliver, TypeOK, QueueTypeOK
<1>3. ToSet(arrived') = ToSet(arrived) \cup {m}
  BY <1>1, ToSetAppend DEF TypeOK
<1>4. ToSet(arrived)' = ToSet(arrived) \cup {m}
  BY <1>3 DEF ToSet
<1>5. HandsMatchPc' /\ ProcessingIsMarked' /\ NoConcurrentDuplicate'
  BY <1>1 DEF HandsMatchPc, ProcessingIsMarked, NoConcurrentDuplicate
<1>6. AtMostOncePerMark'
  BY <1>1 DEF AtMostOncePerMark
<1>7. OnlyArrived'
  BY <1>1, <1>2, <1>4 DEF OnlyArrived
<1>8. MarkedWasBegun'
  BY <1>1 DEF MarkedWasBegun
<1>9. NoLossWithoutFault'
  <2> SUFFICES ASSUME faults' = 0, NEW n \in ToSet(arrived)'
               PROVE  \/ Queued(n)'
                      \/ \E w \in Workers : hand'[w] = n
                      \/ n \in done' \cup failed'
    BY DEF NoLossWithoutFault
  <2>1. CASE n = m
    BY <1>2, <2>1
  <2>2. CASE n # m
    <3>1. n \in ToSet(arrived)
      BY <1>4, <2>2
    <3>2. n \in Ids
      BY <3>1, ToSetType DEF TypeOK
    <3> QED
      BY <1>1, <1>2, <3>1, <3>2 DEF NoLossWithoutFault
  <2> QED
    BY <2>1, <2>2
<1> QED
  BY <1>5, <1>6, <1>7, <1>8, <1>9

\* A mark expires while nobody processes its message.
LEMMA ExpireStep ==
    ASSUME IInv, TypeOK', NEW m \in Ids, Expire(m)
    PROVE  IInv'
<1> USE DEF IInv
<1>1. /\ UNCHANGED <<list, pc, hand, faults, arrived, starts, done, failed>>
      /\ m \in seenKeys
      /\ seenKeys' = seenKeys \ {m}
      /\ expired' = [expired EXCEPT ![m] = @ + 1]
      /\ \A w \in Workers : ~ (pc[w] = "process" /\ hand[w] = m)
  BY DEF Expire, ExpireKey, workerVars
<1>2. \A n : Queued(n)' <=> Queued(n)
  BY <1>1 DEF Queued, Contains
<1>3. HandsMatchPc' /\ NoConcurrentDuplicate'
  BY <1>1 DEF HandsMatchPc, NoConcurrentDuplicate
<1>4. ProcessingIsMarked'
  BY <1>1 DEF ProcessingIsMarked
<1>5. AtMostOncePerMark'
  <2> SUFFICES ASSUME NEW n \in Ids
               PROVE  starts'[n] <= expired'[n] + (IF n \in seenKeys' THEN 1 ELSE 0)
    BY DEF AtMostOncePerMark
  <2>1. starts[n] <= expired[n] + (IF n \in seenKeys THEN 1 ELSE 0)
    BY DEF AtMostOncePerMark
  <2>2. starts[n] \in Nat /\ expired[n] \in Nat
    BY DEF TypeOK
  <2>3. expired'[n] = IF n = m THEN expired[n] + 1 ELSE expired[n]
    BY <1>1 DEF TypeOK
  <2> QED
    BY <1>1, <2>1, <2>2, <2>3
<1>6. OnlyArrived'
  BY <1>1, <1>2 DEF OnlyArrived
<1>7. MarkedWasBegun'
  BY <1>1 DEF MarkedWasBegun
<1>8. NoLossWithoutFault'
  BY <1>1, <1>2 DEF NoLossWithoutFault
<1> QED
  BY <1>3, <1>4, <1>5, <1>6, <1>7, <1>8

\* A fault may lose the popped job, and mark its id on the way, but starts
\* nothing.
LEMMA FaultStep ==
    ASSUME IInv, TypeOK', faults' = faults + 1,
           UNCHANGED <<arrived, starts, expired>>,
           \A n \in Ids : Queued(n)' => Queued(n),
           seenKeys \subseteq seenKeys',
           seenKeys' \subseteq ToSet(arrived),
           \A w \in Workers :
               \/ pc'[w] = pc[w] /\ hand'[w] = hand[w]
               \/ ~ InJob(pc'[w]) /\ hand'[w] = None
    PROVE  IInv'
<1> USE DEF IInv
<1>1. faults' # 0
  BY DEF TypeOK
<1>2. ToSet(arrived)' = ToSet(arrived)
  BY DEF ToSet
<1>3. \A w \in Workers : pc'[w] = "process" => pc[w] = "process" /\ hand'[w] = hand[w]
  BY DEF InJob
<1>4. HandsMatchPc'
  BY DEF HandsMatchPc, InJob
<1>5. ProcessingIsMarked'
  BY <1>3 DEF ProcessingIsMarked
<1>6. NoConcurrentDuplicate'
  BY <1>3 DEF NoConcurrentDuplicate
<1>7. AtMostOncePerMark'
  <2> SUFFICES ASSUME NEW n \in Ids
               PROVE  starts'[n] <= expired'[n] + (IF n \in seenKeys' THEN 1 ELSE 0)
    BY DEF AtMostOncePerMark
  <2>1. starts[n] <= expired[n] + (IF n \in seenKeys THEN 1 ELSE 0)
    BY DEF AtMostOncePerMark
  <2>2. starts[n] \in Nat /\ expired[n] \in Nat
    BY DEF TypeOK
  <2> QED
    BY <2>1, <2>2
<1>8. OnlyArrived'
  BY <1>2 DEF OnlyArrived
<1>9. MarkedWasBegun'
  BY <1>1 DEF MarkedWasBegun
<1>10. NoLossWithoutFault'
  BY <1>1 DEF NoLossWithoutFault
<1> QED
  BY <1>4, <1>5, <1>6, <1>7, <1>8, <1>9, <1>10

\* A job moves from the list into a worker's hand.
LEMMA DequeueStep ==
    ASSUME IInv, TypeOK', NEW w \in Workers, Dequeue(w)
    PROVE  IInv'
<1> USE DEF IInv
<1>1. PICK m \in Ids : BRPop(m) /\ hand' = [hand EXCEPT ![w] = m]
  BY DEF Dequeue
<1>2. /\ pc[w] = "dequeue"
      /\ pc' = [pc EXCEPT ![w] = "seen"]
      /\ UNCHANGED <<seenKeys, faults, arrived, starts, expired, done, failed>>
  BY DEF Dequeue, GoTo, historyVars
<1>3. /\ Queued(m)
      /\ \A n \in Ids : Queued(n)' => Queued(n)
      /\ \A n \in Ids : Queued(n) => Queued(n)' \/ n = m
  BY <1>1, BRPopQueued DEF TypeOK, QueueTypeOK
<1>4. /\ m # None
      /\ hand[w] = None
      /\ hand'[w] = m
      /\ pc'[w] = "seen"
      /\ \A v \in Workers \ {w} : hand'[v] = hand[v] /\ pc'[v] = pc[v]
  BY <1>1, <1>2, NoneAssumption DEF TypeOK, HandsMatchPc
<1>5. ToSet(arrived)' = ToSet(arrived)
  BY <1>2 DEF ToSet
<1>6. HandsMatchPc'
  BY <1>4 DEF HandsMatchPc
<1>7. ProcessingIsMarked' /\ NoConcurrentDuplicate'
  BY <1>2, <1>4 DEF ProcessingIsMarked, NoConcurrentDuplicate
<1>8. AtMostOncePerMark'
  BY <1>2 DEF AtMostOncePerMark
<1>9. OnlyArrived'
  BY <1>2, <1>3, <1>4, <1>5 DEF OnlyArrived
<1>10. MarkedWasBegun'
  <2>1. \A v \in Workers : pc[v] = "process" => pc'[v] = "process" /\ hand'[v] = hand[v]
    BY <1>2, <1>4
  <2> QED
    BY <1>2, <2>1 DEF MarkedWasBegun
<1>11. NoLossWithoutFault'
  <2> SUFFICES ASSUME faults' = 0, NEW n \in ToSet(arrived)
               PROVE  \/ Queued(n)'
                      \/ \E v \in Workers : hand'[v] = n
                      \/ n \in done' \cup failed'
    BY <1>5 DEF NoLossWithoutFault
  <2>1. n \in Ids
    BY ToSetType DEF TypeOK
  <2>2. CASE Queued(n)
    BY <1>3, <1>4, <2>1, <2>2
  <2>3. CASE \E v \in Workers : hand[v] = n
    <3>1. n # None
      BY <2>1, NoneAssumption
    <3> QED
      BY <1>4, <2>3, <3>1
  <2>4. CASE n \in done \cup failed
    BY <1>2, <2>4
  <2> QED
    BY <1>2, <2>2, <2>3, <2>4 DEF NoLossWithoutFault
<1> QED
  BY <1>6, <1>7, <1>8, <1>9, <1>10, <1>11

\* seen() is False: the id gets its mark and its one call.
LEMMA BeginStep ==
    ASSUME IInv, TypeOK', NEW w \in Workers, BeginJob(w)
    PROVE  IInv'
<1> USE DEF IInv
<1> DEFINE m == hand[w]
<1>1. /\ pc[w] = "seen"
      /\ m \notin seenKeys
      /\ seenKeys' = seenKeys \cup {m}
      /\ pc' = [pc EXCEPT ![w] = "process"]
      /\ starts' = [starts EXCEPT ![m] = @ + 1]
      /\ UNCHANGED <<list, hand, faults, arrived, expired, done, failed>>
  BY DEF BeginJob, SetNX, GoTo
<1>2. m \in Ids /\ m # None /\ m \in ToSet(arrived)
  BY <1>1 DEF TypeOK, HandsMatchPc, OnlyArrived
<1>3. pc'[w] = "process" /\ \A v \in Workers \ {w} : pc'[v] = pc[v]
  BY <1>1 DEF TypeOK
<1>4. ToSet(arrived)' = ToSet(arrived)
  BY <1>1 DEF ToSet
<1>5. \A n : Queued(n)' <=> Queued(n)
  BY <1>1 DEF Queued, Contains
<1> HIDE DEF m
<1>6. HandsMatchPc'
  BY <1>1, <1>3 DEF HandsMatchPc
<1>7. ProcessingIsMarked'
  BY <1>1, <1>3 DEF ProcessingIsMarked, m
<1>8. NoConcurrentDuplicate'
  <2>1. \A v \in Workers : pc[v] = "process" => hand[v] # m
    BY <1>1 DEF ProcessingIsMarked
  <2> QED
    BY <1>1, <1>3, <2>1 DEF NoConcurrentDuplicate, m
<1>9. AtMostOncePerMark'
  <2> SUFFICES ASSUME NEW n \in Ids
               PROVE  starts'[n] <= expired'[n] + (IF n \in seenKeys' THEN 1 ELSE 0)
    BY DEF AtMostOncePerMark
  <2>1. starts[n] <= expired[n] + (IF n \in seenKeys THEN 1 ELSE 0)
    BY DEF AtMostOncePerMark
  <2>2. starts[n] \in Nat /\ expired[n] \in Nat
    BY DEF TypeOK
  <2>3. starts'[n] = IF n = m THEN starts[n] + 1 ELSE starts[n]
    BY <1>1, <1>2 DEF TypeOK
  <2> QED
    BY <1>1, <2>1, <2>2, <2>3
<1>10. OnlyArrived'
  BY <1>1, <1>2, <1>4, <1>5 DEF OnlyArrived
<1>11. MarkedWasBegun'
  <2>1. \A v \in Workers : pc[v] = "process" => pc'[v] = "process"
    BY <1>3
  <2>2. pc'[w] = "process" /\ hand'[w] = m
    BY <1>1, <1>3 DEF m
  <2> QED
    BY <1>1, <2>1, <2>2 DEF MarkedWasBegun
<1>12. NoLossWithoutFault'
  BY <1>1, <1>4, <1>5 DEF NoLossWithoutFault
<1> QED
  BY <1>6, <1>7, <1>8, <1>9, <1>10, <1>11, <1>12

\* A worker lets its job go because the job ran, or because its mark shows
\* that it ran or is running elsewhere.
LEMMA ReleaseStep ==
    ASSUME IInv, TypeOK', NEW w \in Workers, InJob(pc[w]),
           pc' = [pc EXCEPT ![w] = "loop"],
           hand' = [hand EXCEPT ![w] = None],
           UNCHANGED <<list, seenKeys, faults, arrived, starts, expired>>,
           done \subseteq done', failed \subseteq failed',
           \/ pc[w] = "process" /\ hand[w] \in done' \cup failed'
           \/ pc[w] = "seen" /\ hand[w] \in seenKeys
    PROVE  IInv'
<1> USE DEF IInv
<1>1. /\ pc'[w] = "loop" /\ hand'[w] = None
      /\ \A v \in Workers \ {w} : pc'[v] = pc[v] /\ hand'[v] = hand[v]
  BY DEF TypeOK
<1>2. ToSet(arrived)' = ToSet(arrived)
  BY DEF ToSet
<1>3. \A n : Queued(n)' <=> Queued(n)
  BY DEF Queued, Contains
<1>4. HandsMatchPc'
  BY <1>1 DEF HandsMatchPc
<1>5. ProcessingIsMarked' /\ NoConcurrentDuplicate'
  BY <1>1 DEF ProcessingIsMarked, NoConcurrentDuplicate
<1>6. AtMostOncePerMark'
  BY DEF AtMostOncePerMark
<1>7. OnlyArrived'
  BY <1>1, <1>2, <1>3 DEF OnlyArrived
<1>8. MarkedWasBegun'
  <2> SUFFICES ASSUME faults = 0, NEW n \in seenKeys
               PROVE  \/ n \in done' \cup failed'
                      \/ \E v \in Workers : pc'[v] = "process" /\ hand'[v] = n
    BY DEF MarkedWasBegun
  <2>1. CASE n \in done \cup failed
    BY <2>1
  <2>2. CASE \E v \in Workers : pc[v] = "process" /\ hand[v] = n
    BY <1>1, <2>2
  <2> QED
    BY <2>1, <2>2 DEF MarkedWasBegun
<1>9. NoLossWithoutFault'
  <2> SUFFICES ASSUME faults = 0, NEW n \in ToSet(arrived)
               PROVE  \/ Queued(n)'
                      \/ \E v \in Workers : hand'[v] = n
                      \/ n \in done' \cup failed'
    BY <1>2 DEF NoLossWithoutFault
  <2>1. CASE hand[w] # n
    BY <1>1, <1>3, <2>1 DEF NoLossWithoutFault
  <2>2. CASE hand[w] = n /\ n \in seenKeys
    <3>1. \/ n \in done' \cup failed'
          \/ \E v \in Workers : pc'[v] = "process" /\ hand'[v] = n
      BY <1>8, <2>2 DEF MarkedWasBegun
    <3> QED
      BY <3>1
  <2>3. CASE hand[w] = n /\ n \in done' \cup failed'
    BY <2>3
  <2> QED
    BY <2>1, <2>2, <2>3
<1> QED
  BY <1>4, <1>5, <1>6, <1>7, <1>8, <1>9

-----------------------------------------------------------------------------
(* The theorems.                                                           *)

\* The initial states satisfy the inductive invariant.
LEMMA InitIInv == Init => IInv
<1> SUFFICES ASSUME Init PROVE IInv
  OBVIOUS
<1>1. TypeOK
  BY InitTypeOK
<1>2. list = <<>> /\ ToSet(arrived) = {}
  BY DEF Init, QueueInit, ToSet
<1>3. \A m : ~ Queued(m)
  BY <1>2 DEF Queued, Contains
<1>4. HandsMatchPc /\ ProcessingIsMarked /\ NoConcurrentDuplicate
  BY DEF Init, HandsMatchPc, ProcessingIsMarked, NoConcurrentDuplicate
<1>5. AtMostOncePerMark
  <2> SUFFICES ASSUME NEW m \in Ids
               PROVE  starts[m] <= expired[m] + (IF m \in seenKeys THEN 1 ELSE 0)
    BY DEF AtMostOncePerMark
  <2>1. m \notin seenKeys
    BY DEF Init, QueueInit
  <2>2. starts[m] = 0 /\ expired[m] = 0
    BY DEF Init
  <2> QED
    BY <2>1, <2>2
<1>6. OnlyArrived /\ MarkedWasBegun /\ NoLossWithoutFault
  BY <1>2, <1>3 DEF Init, QueueInit, OnlyArrived, MarkedWasBegun, NoLossWithoutFault
<1> QED
  BY <1>1, <1>4, <1>5, <1>6 DEF IInv

\* Every step preserves the inductive invariant.
LEMMA NextIInv == IInv /\ [Next]_vars => IInv'
<1> SUFFICES ASSUME IInv, [Next]_vars PROVE IInv'
  OBVIOUS
<1>1. TypeOK'
  BY NextTypeOK DEF IInv
<1> USE DEF GoTo, Drop, Fault, queueVars, workerVars, historyVars, InJob
<1>2. TypeOK /\ HandsMatchPc /\ OnlyArrived
  BY DEF IInv
<1>3. ASSUME UNCHANGED queueVars, faults' = faults \/ faults' = faults + 1,
             UNCHANGED <<hand, arrived, starts, expired, done, failed>>,
             \A w \in Workers :
                 pc'[w] = pc[w] \/ (~ InJob(pc[w]) /\ ~ InJob(pc'[w]))
      PROVE  IInv'
  <2>1. faults' >= faults
    BY <1>2, <1>3 DEF TypeOK
  <2> QED
    BY <1>1, <1>3, <2>1, QuietStep
<1>4. ASSUME NEW m \in Ids, Deliver(m) PROVE IInv'
  BY <1>1, <1>4, DeliverStep
<1>5. ASSUME NEW m \in Ids, DeliverFails(m) PROVE IInv'
  BY <1>3, <1>5 DEF DeliverFails
<1>6. ASSUME NEW m \in Ids, Expire(m) PROVE IInv'
  BY <1>1, <1>6, ExpireStep
<1>7. ASSUME NEW w \in Workers, LoopTest(w) PROVE IInv'
  BY <1>2, <1>3, <1>7 DEF LoopTest, TypeOK
<1>8. ASSUME NEW w \in Workers, Dequeue(w) PROVE IInv'
  BY <1>1, <1>8, DequeueStep
<1>9. ASSUME NEW w \in Workers, DequeueTimeout(w) PROVE IInv'
  BY <1>2, <1>3, <1>9 DEF DequeueTimeout, TypeOK
<1>10. ASSUME NEW w \in Workers, BeginJob(w) PROVE IInv'
  BY <1>1, <1>10, BeginStep
<1>11. ASSUME NEW w \in Workers, SkipDuplicate(w) PROVE IInv'
  BY <1>1, <1>11, ReleaseStep DEF SkipDuplicate, AlreadySet
<1>12. ASSUME NEW w \in Workers, Backoff(w) PROVE IInv'
  BY <1>2, <1>3, <1>12 DEF Backoff, TypeOK
<1>13. ASSUME NEW w \in Workers, JobReturns(w) PROVE IInv'
  BY <1>1, <1>13, ReleaseStep DEF JobReturns
<1>14. ASSUME NEW w \in Workers, JobRaises(w) PROVE IInv'
  BY <1>1, <1>14, ReleaseStep DEF JobRaises
<1>15. ASSUME NEW w \in Workers, DequeueFails(w) PROVE IInv'
  BY <1>2, <1>3, <1>15 DEF DequeueFails, TypeOK
<1>16. ASSUME NEW w \in Workers, DequeueLosesJob(w) PROVE IInv'
  <2>1. \A n \in Ids : Queued(n)' => Queued(n)
    BY <1>2, <1>16, BRPopQueued DEF DequeueLosesJob, TypeOK, QueueTypeOK
  <2>2. \A v \in Workers : \/ pc'[v] = pc[v] /\ hand'[v] = hand[v]
                           \/ ~ InJob(pc'[v]) /\ hand'[v] = None
    BY <1>2, <1>16 DEF DequeueLosesJob, TypeOK, HandsMatchPc
  <2> QED
    BY <1>1, <1>2, <1>16, <2>1, <2>2, FaultStep DEF DequeueLosesJob, OnlyArrived
<1>17. ASSUME NEW w \in Workers, SeenFails(w) PROVE IInv'
  <2>1. seenKeys \subseteq seenKeys' /\ seenKeys' \subseteq ToSet(arrived)
    BY <1>2, <1>17 DEF SeenFails, SetNX, OnlyArrived, HandsMatchPc
  <2>2. \A v \in Workers : \/ pc'[v] = pc[v] /\ hand'[v] = hand[v]
                           \/ ~ InJob(pc'[v]) /\ hand'[v] = None
    BY <1>2, <1>17 DEF SeenFails, TypeOK
  <2>3. \A n \in Ids : Queued(n)' => Queued(n)
    BY <1>17 DEF SeenFails, Queued, Contains
  <2> QED
    BY <1>1, <1>17, <2>1, <2>2, <2>3, FaultStep DEF SeenFails
<1>18. ASSUME NEW w \in Workers, SeenFindsOwnMark(w) PROVE IInv'
  <2>1. seenKeys \subseteq seenKeys' /\ seenKeys' \subseteq ToSet(arrived)
    BY <1>2, <1>18 DEF SeenFindsOwnMark, SetNX, OnlyArrived, HandsMatchPc
  <2>2. \A v \in Workers : \/ pc'[v] = pc[v] /\ hand'[v] = hand[v]
                           \/ ~ InJob(pc'[v]) /\ hand'[v] = None
    BY <1>2, <1>18 DEF SeenFindsOwnMark, TypeOK
  <2>3. \A n \in Ids : Queued(n)' => Queued(n)
    BY <1>18 DEF SeenFindsOwnMark, Queued, Contains
  <2> QED
    BY <1>1, <1>18, <2>1, <2>2, <2>3, FaultStep DEF SeenFindsOwnMark
<1>19. ASSUME NEW w \in Workers, Kill(w) PROVE IInv'
  <2>1. \A v \in Workers : \/ pc'[v] = pc[v] /\ hand'[v] = hand[v]
                           \/ ~ InJob(pc'[v]) /\ hand'[v] = None
    BY <1>2, <1>19 DEF Kill, TypeOK
  <2>2. \A n \in Ids : Queued(n)' => Queued(n)
    BY <1>19 DEF Kill, Queued, Contains
  <2> QED
    BY <1>1, <1>2, <1>19, <2>1, <2>2, FaultStep DEF Kill, OnlyArrived
<1>20. ASSUME NEW w \in Workers, Stop(w) PROVE IInv'
  BY <1>3, <1>20 DEF Stop
<1>21. ASSUME NEW w \in Workers, Launch(w) PROVE IInv'
  BY <1>2, <1>3, <1>21 DEF Launch, Up, TypeOK
<1>22. CASE UNCHANGED vars
  BY <1>3, <1>22 DEF vars
<1> QED
  BY <1>4, <1>5, <1>6, <1>7, <1>8, <1>9, <1>10, <1>11, <1>12, <1>13, <1>14, <1>15,
     <1>16, <1>17, <1>18, <1>19, <1>20, <1>21, <1>22
  DEF Next, WorkerStep, WorkerFault

\* The inductive invariant holds in every reachable state.
THEOREM Invariance == Spec => []IInv
<1>1. Init => IInv
  BY InitIInv
<1>2. IInv /\ [Next]_vars => IInv'
  BY NextIInv
<1> QED
  BY <1>1, <1>2, PTL DEF Spec

\* Every variable of the delivery path keeps its type.
THEOREM TypeCorrect == Spec => []TypeOK
<1>1. IInv => TypeOK
  BY DEF IInv
<1> QED
  BY <1>1, Invariance, PTL

\* process_job runs at most once per message and lifetime of its mark, for any
\* number of workers, deliveries, faults and restarts.
THEOREM AtMostOnceHolds == Spec => []AtMostOncePerMark
<1>1. IInv => AtMostOncePerMark
  BY DEF IInv
<1> QED
  BY <1>1, Invariance, PTL

\* No two workers process the same message at the same time.
THEOREM NoConcurrentDuplicateHolds == Spec => []NoConcurrentDuplicate
<1>1. IInv => NoConcurrentDuplicate
  BY DEF IInv
<1> QED
  BY <1>1, Invariance, PTL

\* As long as no fault happened, every enqueued message is queued, held or was
\* given to process_job.
THEOREM NoLossHolds == Spec => []NoLossWithoutFault
<1>1. IInv => NoLossWithoutFault
  BY DEF IInv
<1> QED
  BY <1>1, Invariance, PTL

-----------------------------------------------------------------------------
(* ConsumeLoop implements the delivery contract of base.py ...              *)

\* What the contract sees of the state.
View == <<ToSet(arrived), seenKeys, starts>>

\* Every step of the delivery path is a step of AtMostOnce or leaves the ids
\* accepted, claimed and run as they are: a message runs only in the step that
\* claims it, and only after it was enqueued.
THEOREM Refinement == Spec => RefinesAtMostOnce
<1> USE DEF Contract!Next, Contract!Accept, Contract!ClaimAndRun, Contract!Waste,
            Contract!Forget
<1>1. Init => Contract!Init
  BY DEF Init, QueueInit, Contract!Init, ToSet
<1>2. IInv /\ [Next]_vars => [Contract!Next]_View
  <2> SUFFICES ASSUME IInv, [Next]_vars PROVE Contract!Next \/ UNCHANGED View
    BY DEF View
  <2> USE DEF queueVars, workerVars, historyVars, Fault
  <2>1. ASSUME UNCHANGED <<arrived, seenKeys, starts>> PROVE UNCHANGED View
    BY <2>1 DEF View, ToSet
  <2>2. arrived' = arrived => ToSet(arrived)' = ToSet(arrived)
    BY DEF ToSet
  <2>3. ASSUME NEW w \in Workers, pc[w] = "seen"
        PROVE  hand[w] \in ToSet(arrived) /\ hand[w] \in Ids
    BY <2>3 DEF IInv, TypeOK, HandsMatchPc, OnlyArrived
  <2>4. ASSUME NEW m \in Ids, Deliver(m) PROVE Contract!Next
    <3>1. ToSet(arrived') = ToSet(arrived) \cup {m}
      BY <2>4, ToSetAppend DEF Deliver, IInv, TypeOK
    <3>2. ToSet(arrived)' = ToSet(arrived) \cup {m}
      BY <3>1 DEF ToSet
    <3> QED
      BY <2>4, <3>2 DEF Deliver
  <2>5. ASSUME NEW m \in Ids, DeliverFails(m) PROVE UNCHANGED View
    BY <2>1, <2>5 DEF DeliverFails
  <2>6. ASSUME NEW m \in Ids, Expire(m) PROVE Contract!Next
    BY <2>2, <2>6 DEF Expire, ExpireKey
  <2>7. ASSUME NEW w \in Workers, BeginJob(w) PROVE Contract!Next
    <3>1. hand[w] \in ToSet(arrived) /\ hand[w] \in Ids
      BY <2>3, <2>7 DEF BeginJob
    <3> QED
      BY <2>2, <2>7, <3>1 DEF BeginJob, SetNX
  <2>8. ASSUME NEW w \in Workers, SeenFails(w) PROVE Contract!Next \/ UNCHANGED View
    <3>1. hand[w] \in ToSet(arrived) /\ hand[w] \in Ids
      BY <2>3, <2>8 DEF SeenFails
    <3>2. UNCHANGED <<arrived, starts>>
      BY <2>8 DEF SeenFails
    <3>3. CASE UNCHANGED seenKeys
      BY <2>1, <3>2, <3>3
    <3>4. CASE SetNX(hand[w])
      BY <2>2, <3>1, <3>2, <3>4 DEF SetNX
    <3> QED
      BY <2>8, <3>3, <3>4 DEF SeenFails
  <2>9. ASSUME NEW w \in Workers, SeenFindsOwnMark(w) PROVE Contract!Next
    <3>1. hand[w] \in ToSet(arrived) /\ hand[w] \in Ids
      BY <2>3, <2>9 DEF SeenFindsOwnMark
    <3> QED
      BY <2>2, <2>9, <3>1 DEF SeenFindsOwnMark, SetNX
  <2>10. ASSUME NEW w \in Workers,
                \/ LoopTest(w) \/ Dequeue(w) \/ DequeueTimeout(w)
                \/ SkipDuplicate(w) \/ Backoff(w) \/ JobReturns(w) \/ JobRaises(w)
                \/ DequeueFails(w) \/ DequeueLosesJob(w) \/ Kill(w)
                \/ Stop(w) \/ Launch(w)
         PROVE  UNCHANGED View
    <3>1. UNCHANGED <<arrived, seenKeys, starts>>
      BY <2>10 DEF LoopTest, Dequeue, DequeueTimeout, SkipDuplicate, AlreadySet,
                   Backoff, JobReturns, JobRaises, DequeueFails, DequeueLosesJob,
                   Kill, Stop, Launch
    <3> QED
      BY <2>1, <3>1
  <2>11. CASE UNCHANGED vars
    BY <2>1, <2>11 DEF vars
  <2> QED
    BY <2>4, <2>5, <2>6, <2>7, <2>8, <2>9, <2>10, <2>11
    DEF Next, WorkerStep, WorkerFault
<1> QED
  BY <1>1, <1>2, Invariance, PTL DEF Spec, RefinesAtMostOnce, Contract!Spec, View

-----------------------------------------------------------------------------
(* ... and its first-in-first-out queue.                                   *)

\* LPUSH is an enqueue, BRPOP a dequeue, and nothing else touches the list: no
\* lost answer, kill or restart brings a job back or puts it in front of others.
THEOREM QueueRefinement == Spec => RefinesMessageQueue
<1> USE DEF Fifo!Next, Fifo!Enqueue, Fifo!Dequeue, Fifo!Vanish
<1>1. Init => Fifo!Init
  BY DEF Init, QueueInit, Fifo!Init, Reverse
<1>2. IInv /\ [Next]_vars => [Fifo!Next]_(Reverse(list))
  <2> SUFFICES ASSUME IInv, [Next]_vars PROVE Fifo!Next \/ UNCHANGED Reverse(list)
    OBVIOUS
  <2>1. ASSUME UNCHANGED list PROVE UNCHANGED Reverse(list)
    BY <2>1 DEF Reverse
  <2>2. ASSUME NEW m \in Ids, Deliver(m) PROVE Fifo!Next
    <3>1. Reverse(list') = Append(Reverse(list), m)
      BY <2>2, ReversePush DEF Deliver, LPush, IInv, TypeOK, QueueTypeOK
    <3>2. Reverse(list)' = Append(Reverse(list), m)
      BY <3>1 DEF Reverse
    <3> QED
      BY <3>2
  <2>3. ASSUME NEW m \in Ids, BRPop(m) PROVE Fifo!Next
    <3>1. Reverse(list) # <<>> /\ Reverse(list') = Tail(Reverse(list))
      BY <2>3, ReversePop DEF BRPop, IInv, TypeOK, QueueTypeOK
    <3>2. Reverse(list)' = Tail(Reverse(list))
      BY <3>1 DEF Reverse
    <3> QED
      BY <3>1, <3>2
  <2>4. ASSUME NEW w \in Workers, Dequeue(w) \/ DequeueLosesJob(w) PROVE Fifo!Next
    BY <2>3, <2>4 DEF Dequeue, DequeueLosesJob
  <2>5. ASSUME NEW m \in Ids, DeliverFails(m) \/ Expire(m) PROVE UNCHANGED list
    BY <2>5 DEF DeliverFails, Expire, queueVars
  <2>6. ASSUME NEW w \in Workers,
               \/ LoopTest(w) \/ DequeueTimeout(w) \/ BeginJob(w) \/ SkipDuplicate(w)
               \/ Backoff(w) \/ JobReturns(w) \/ JobRaises(w) \/ DequeueFails(w)
               \/ SeenFails(w) \/ SeenFindsOwnMark(w) \/ Kill(w) \/ Stop(w) \/ Launch(w)
        PROVE  UNCHANGED list
    BY <2>6 DEF LoopTest, DequeueTimeout, BeginJob, SkipDuplicate, Backoff, JobReturns,
                JobRaises, DequeueFails, SeenFails, SeenFindsOwnMark, Kill, Stop, Launch,
                queueVars
  <2>7. CASE UNCHANGED vars
    BY <2>7 DEF vars
  <2> QED
    BY <2>1, <2>2, <2>4, <2>5, <2>6, <2>7 DEF Next, WorkerStep, WorkerFault
<1> QED
  BY <1>1, <1>2, Invariance, PTL DEF Spec, RefinesMessageQueue, Fifo!Spec

-----------------------------------------------------------------------------
(* Order of arrival.                                                       *)

\* Only messages that arrived are over.
OverHasArrived == done \cup failed \subseteq ToSet(arrived)

\* The list keeps the order of arrival.
ListInOrder == faults = 0 => Ordered(list, arrived, Taken)

OrderInv == OverHasArrived /\ ListInOrder /\ NoneIsOvertaken

\* Steps that leave list and arrivals alone, and the taken messages too unless
\* they are faults.
LEMMA SameOrder ==
    ASSUME IInv, IInv', OrderInv, UNCHANGED <<list, arrived>>, OverHasArrived',
           faults' # 0 \/ (faults = 0 /\ \A m \in Ids : m \in Taken' <=> m \in Taken)
    PROVE  OrderInv'
<1>1. CASE faults' # 0
  BY <1>1 DEF OrderInv, ListInOrder, NoneIsOvertaken
<1>2. CASE faults' = 0
  <2>1. \A i \in DOMAIN arrived : arrived[i] \in Ids
    BY DEF IInv, TypeOK
  <2>2. \A i \in DOMAIN arrived : arrived[i] \in Taken' <=> arrived[i] \in Taken
    BY <1>2, <2>1
  <2>3. ListInOrder'
    BY <1>2, <2>2 DEF OrderInv, ListInOrder, Ordered
  <2>4. NoneIsOvertaken'
    BY <1>2, <2>2 DEF OrderInv, NoneIsOvertaken
  <2> QED
    BY <2>3, <2>4 DEF OrderInv
<1> QED
  BY <1>1, <1>2

\* A delivery goes to the end of the list.
LEMMA DeliverInOrder ==
    ASSUME IInv, OrderInv, NEW m \in Ids, Deliver(m)
    PROVE  OrderInv'
<1> USE DEF IInv, OrderInv
<1>1. /\ list' = <<m>> \o list
      /\ arrived' = Arrival(arrived, m)
      /\ UNCHANGED <<faults, hand, done, failed>>
  BY DEF Deliver, LPush, Arrival, workerVars
<1>2. Taken' = Taken
  BY <1>1 DEF Taken
<1>3. /\ list \in Seq(Ids)
      /\ arrived \in Seq(Ids)
      /\ ToSet(list) \subseteq ToSet(arrived)
  <2>1. list \in Seq(Ids) /\ arrived \in Seq(Ids)
    BY DEF TypeOK, QueueTypeOK
  <2>2. ToSet(list) \subseteq Ids
    BY <2>1, ToSetType
  <2> QED
    BY <2>1, <2>2, ContainsIsIn DEF OnlyArrived, Queued
<1>4. ListInOrder'
  <2> SUFFICES ASSUME faults = 0 PROVE Ordered(list', arrived', Taken')
    BY <1>1 DEF ListInOrder
  <2>1. ToSet(arrived) \subseteq ToSet(list) \cup Taken
    BY ContainsIsIn DEF NoLossWithoutFault, Queued, Taken
  <2>2. Ordered(<<m>> \o list, Arrival(arrived, m), Taken)
    BY <1>3, <2>1, OrderedPush DEF ListInOrder
  <2> QED
    BY <1>1, <1>2, <2>2
<1>5. CASE m \in ToSet(arrived)
  <2>1. arrived' = arrived
    BY <1>1, <1>5 DEF Arrival
  <2>2. OverHasArrived' /\ NoneIsOvertaken'
    BY <1>1, <1>2, <2>1 DEF OverHasArrived, NoneIsOvertaken, ToSet
  <2> QED
    BY <1>4, <2>2
<1>6. CASE m \notin ToSet(arrived)
  <2>1. arrived' = Append(arrived, m)
    BY <1>1, <1>6 DEF Arrival
  <2>2. /\ DOMAIN arrived' = 1..Len(arrived) + 1
        /\ DOMAIN arrived = 1..Len(arrived)
        /\ Len(arrived) \in Nat
        /\ arrived'[Len(arrived) + 1] = m
        /\ \A i \in DOMAIN arrived : arrived'[i] = arrived[i]
    BY <1>3, <2>1
  <2>3. m \notin Taken
    BY <1>6, NoneAssumption DEF OverHasArrived, OnlyArrived, Taken
  <2>4. NoneIsOvertaken'
    <3> SUFFICES ASSUME faults = 0, NEW i \in DOMAIN arrived', NEW j \in DOMAIN arrived',
                        i < j, arrived'[j] \in Taken
                 PROVE  arrived'[i] \in Taken
      BY <1>1, <1>2 DEF NoneIsOvertaken
    <3>1. j \in DOMAIN arrived /\ i \in DOMAIN arrived
      BY <2>2, <2>3
    <3> QED
      BY <2>2, <3>1 DEF NoneIsOvertaken
  <2>5. ToSet(arrived') = ToSet(arrived) \cup {m}
    BY <1>3, <2>1, ToSetAppend
  <2>6. OverHasArrived'
    <3>1. ToSet(arrived)' = ToSet(arrived) \cup {m}
      BY <2>5 DEF ToSet
    <3> QED
      BY <1>1, <3>1 DEF OverHasArrived
  <2> QED
    BY <1>4, <2>4, <2>6
<1> QED
  BY <1>5, <1>6

\* Whatever arrived before the message that BRPOP returns is taken already.
LEMMA DequeueInOrder ==
    ASSUME IInv, OrderInv, NEW w \in Workers, Dequeue(w)
    PROVE  OrderInv'
<1> USE DEF IInv, OrderInv
<1>1. PICK m \in Ids : BRPop(m) /\ hand' = [hand EXCEPT ![w] = m]
  BY DEF Dequeue
<1>2. /\ pc[w] = "dequeue"
      /\ UNCHANGED <<faults, arrived, done, failed>>
  BY DEF Dequeue, historyVars
<1>3. hand[w] = None
  BY <1>2 DEF HandsMatchPc
<1>4. /\ hand'[w] = m
      /\ \A v \in Workers \ {w} : hand'[v] = hand[v]
  BY <1>1 DEF TypeOK
<1>5. \A n \in Ids : n \in Taken' <=> n \in Taken \cup {m}
  BY <1>2, <1>3, <1>4, NoneAssumption DEF Taken
<1>6. /\ list \in Seq(Ids) /\ list # <<>> /\ m = Last(list) /\ list' = Front(list)
      /\ arrived \in Seq(Ids)
      /\ \A i \in DOMAIN arrived : arrived[i] \in Ids
  BY <1>1 DEF BRPop, TypeOK, QueueTypeOK
<1>7. OverHasArrived'
  BY <1>2 DEF OverHasArrived, ToSet
<1>8. CASE faults # 0
  BY <1>2, <1>7, <1>8 DEF ListInOrder, NoneIsOvertaken
<1>9. CASE faults = 0
  <2>1. Ordered(list, arrived, Taken)
    BY <1>9 DEF ListInOrder
  <2>2. /\ Ordered(Front(list), arrived, Taken \cup {m})
        /\ \A i, j \in DOMAIN arrived : i < j /\ arrived[j] = m => arrived[i] \in Taken
    BY <1>6, <2>1, OrderedPop
  <2>3. Ordered(list', arrived', Taken')
    BY <1>2, <1>5, <1>6, <2>2, OrderedTaken
  <2>4. NoneIsOvertaken'
    BY <1>2, <1>5, <1>6, <1>9, <2>2 DEF NoneIsOvertaken
  <2> QED
    BY <1>7, <2>3, <2>4 DEF ListInOrder
<1> QED
  BY <1>8, <1>9

\* A job that is let go stays taken: it is over, or its mark shows that it is
\* over or in another hand.
LEMMA ReleaseInOrder ==
    ASSUME IInv, IInv', OrderInv, NEW w \in Workers,
           SkipDuplicate(w) \/ JobReturns(w) \/ JobRaises(w)
    PROVE  OrderInv'
<1> USE DEF IInv, OrderInv
<1> DEFINE m == hand[w]
<1>1. /\ hand' = [hand EXCEPT ![w] = None]
      /\ UNCHANGED <<list, arrived, faults>>
      /\ done \subseteq done' /\ failed \subseteq failed'
      /\ done' \cup failed' \subseteq done \cup failed \cup {m}
      /\ \/ pc[w] = "process" /\ m \in done' \cup failed'
         \/ pc[w] = "seen" /\ m \in seenKeys
  BY DEF SkipDuplicate, JobReturns, JobRaises, Drop, AlreadySet, queueVars
<1>2. /\ hand'[w] = None
      /\ \A v \in Workers \ {w} : hand'[v] = hand[v]
  BY <1>1 DEF TypeOK
<1>3. m \in Ids /\ m \in ToSet(arrived)
  BY <1>1 DEF HandsMatchPc, OnlyArrived, TypeOK
<1>4. OverHasArrived'
  BY <1>1, <1>3 DEF OverHasArrived, ToSet
<1>5. ASSUME faults = 0 PROVE m \in Taken'
  <2>1. CASE m \in done' \cup failed'
    BY <2>1 DEF Taken
  <2>2. CASE pc[w] = "seen" /\ m \in seenKeys
    <3>1. CASE m \in done \cup failed
      BY <1>1, <3>1 DEF Taken
    <3>2. CASE \E v \in Workers : pc[v] = "process" /\ hand[v] = m
      BY <1>2, <2>2, <3>2 DEF Taken
    <3> QED
      BY <1>5, <2>2, <3>1, <3>2 DEF MarkedWasBegun
  <2> QED
    BY <1>1, <2>1, <2>2
<1>6. ASSUME faults = 0, NEW n \in Ids PROVE n \in Taken' <=> n \in Taken
  <2>1. m \in Taken
    BY DEF Taken
  <2>2. CASE n = m
    BY <1>5, <1>6, <2>1, <2>2
  <2>3. CASE n # m
    BY <1>1, <1>2, <2>3, NoneAssumption DEF Taken
  <2> QED
    BY <2>2, <2>3
<1> QED
  BY <1>1, <1>4, <1>6, SameOrder

\* Every step keeps the order.
LEMMA NextOrder == IInv /\ IInv' /\ OrderInv /\ [Next]_vars => OrderInv'
<1> SUFFICES ASSUME IInv, IInv', OrderInv, [Next]_vars PROVE OrderInv'
  OBVIOUS
<1>1. ASSUME UNCHANGED <<list, hand, arrived, done, failed, faults>> PROVE OrderInv'
  <2>1. Taken' = Taken /\ OverHasArrived'
    BY <1>1 DEF Taken, OrderInv, OverHasArrived, ToSet
  <2> QED
    BY <1>1, <2>1 DEF OrderInv, ListInOrder, NoneIsOvertaken, Ordered
<1>2. ASSUME Fault, UNCHANGED <<arrived, done, failed>> PROVE OrderInv'
  <2>1. faults' # 0
    BY <1>2 DEF Fault, IInv, TypeOK
  <2>2. OverHasArrived'
    BY <1>2 DEF OrderInv, OverHasArrived, ToSet
  <2> QED
    BY <2>1, <2>2 DEF OrderInv, ListInOrder, NoneIsOvertaken
<1>3. ASSUME NEW m \in Ids, Deliver(m) PROVE OrderInv'
  BY <1>3, DeliverInOrder
<1>4. ASSUME NEW m \in Ids, DeliverFails(m) PROVE OrderInv'
  BY <1>2, <1>4 DEF DeliverFails, historyVars
<1>5. ASSUME NEW m \in Ids, Expire(m) PROVE OrderInv'
  BY <1>1, <1>5 DEF Expire, workerVars
<1>6. ASSUME NEW w \in Workers, Dequeue(w) PROVE OrderInv'
  BY <1>6, DequeueInOrder
<1>7. ASSUME NEW w \in Workers, SkipDuplicate(w) \/ JobReturns(w) \/ JobRaises(w)
      PROVE  OrderInv'
  BY <1>7, ReleaseInOrder
<1>8. ASSUME NEW w \in Workers,
             LoopTest(w) \/ DequeueTimeout(w) \/ BeginJob(w) \/ Backoff(w) \/ Stop(w) \/ Launch(w)
      PROVE  OrderInv'
  BY <1>1, <1>8 DEF LoopTest, DequeueTimeout, BeginJob, Backoff, Stop, Launch, queueVars,
                    historyVars
<1>9. ASSUME NEW w \in Workers, WorkerFault(w) PROVE OrderInv'
  BY <1>2, <1>9 DEF WorkerFault, DequeueFails, DequeueLosesJob, SeenFails, SeenFindsOwnMark,
                    Kill, historyVars
<1>10. CASE UNCHANGED vars
  BY <1>1, <1>10 DEF vars
<1> QED
  BY <1>3, <1>4, <1>5, <1>6, <1>7, <1>8, <1>9, <1>10 DEF Next, WorkerStep

\* Without a fault, what is taken has nothing untaken before it in the order of
\* arrival: any number of workers start jobs in that order.
THEOREM OrderHolds == Spec => []NoneIsOvertaken
<1>1. Init => OrderInv
  BY DEF Init, QueueInit, OrderInv, OverHasArrived, ListInOrder, NoneIsOvertaken, Ordered
<1>2. IInv /\ IInv' /\ OrderInv /\ [Next]_vars => OrderInv'
  BY NextOrder
<1>3. OrderInv => NoneIsOvertaken
  BY DEF OrderInv
<1> QED
  BY <1>1, <1>2, <1>3, Invariance, PTL DEF Spec

=============================================================================
