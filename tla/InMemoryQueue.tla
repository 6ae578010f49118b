---------------------------- MODULE InMemoryQueue ----------------------------
(***************************************************************************)
(* The in-memory deployment: app/queue/memory.py with the handlers of the  *)
(* web process on one side and threads in consume_loop on the other.  The  *)
(* web process starts one such thread; the queue is written for any number *)
(* of them.                                                                *)
(*                                                                         *)
(* Every method of the queue holds the lock of its condition variable from *)
(* beginning to end, except that wait() gives it up: enqueue and seen are  *)
(* one step, dequeue is one step or two.  A thread whose wait() has timed  *)
(* out stays among the waiting until it has the lock again, so that a      *)
(* notify() may be spent on it.                                            *)
(***************************************************************************)
EXTENDS Naturals, FiniteSets, SequencesExt

CONSTANTS
    Ids,            \* message ids
    Consumers,      \* threads in consume_loop
    None,           \* no job in hand
    MaxDeliveries,  \* bound: webhook deliveries of one message
    MaxRestarts     \* bound: restarts of the process

ASSUME NoneAssumption == None \notin Ids
ASSUME ConsumersAssumption == IsFiniteSet(Consumers)
ASSUME BoundsAssumption == MaxDeliveries \in Nat /\ MaxRestarts \in Nat

VARIABLES
    dq,         \* the deque, leftmost element first
    seenIds,    \* the set behind seen()
    waiting,    \* threads that notify() may choose
    pc,         \* where each thread is
    hand,       \* the job a thread has popped and not yet let go
    delivered,  \* webhook deliveries of each message so far
    restarts,   \* restarts so far
    \* The rest is history, read by the properties only.
    arrived,    \* ids in the order of their first enqueue
    starts,     \* calls of process_job for each message
    over        \* messages with a call of process_job that has ended

vars == <<dq, seenIds, waiting, pc, hand, delivered, restarts, arrived, starts, over>>

\* "wait" is inside wait() and "awake" at its return, before the lock is back.
Locations == {"loop", "wait", "awake", "seen", "process"}

TypeOK ==
    /\ dq \in Seq(Ids)
    /\ seenIds \in SUBSET Ids
    /\ waiting \in SUBSET Consumers
    /\ pc \in [Consumers -> Locations]
    /\ hand \in [Consumers -> Ids \cup {None}]
    /\ delivered \in [Ids -> Nat]
    /\ restarts \in Nat
    /\ arrived \in Seq(Ids)
    /\ starts \in [Ids -> Nat]
    /\ over \in SUBSET Ids

\* A fresh process has an empty queue and its threads at the top of the loop.
Init ==
    /\ dq = <<>>
    /\ seenIds = {}
    /\ waiting = {}
    /\ pc = [c \in Consumers |-> "loop"]
    /\ hand = [c \in Consumers |-> None]
    /\ delivered = [m \in Ids |-> 0]
    /\ restarts = 0
    /\ arrived = <<>>
    /\ starts = [m \in Ids |-> 0]
    /\ over = {}

GoTo(c, l) == pc' = [pc EXCEPT ![c] = l]

\* notify(): one of the waiting threads, if there is one, is let out of wait().
Notify ==
    \/ /\ waiting = {}
       /\ UNCHANGED <<waiting, pc>>
    \/ \E c \in waiting : waiting' = waiting \ {c} /\ GoTo(c, "awake")

Arrives(m) ==
    /\ delivered[m] < MaxDeliveries
    /\ delivered' = [delivered EXCEPT ![m] = @ + 1]
    /\ arrived' = IF m \in ToSet(arrived) THEN arrived ELSE Append(arrived, m)
    /\ UNCHANGED <<seenIds, hand, restarts, starts, over>>

\* Mutants of Enqueue: without notify(); at the end that dequeue reads; on a
\* deque of bounded length, which drops from the other end.
EnqueueSilently(m) ==
    /\ Arrives(m)
    /\ dq' = <<m>> \o dq
    /\ UNCHANGED <<waiting, pc>>

EnqueueInFront(m) ==
    /\ Arrives(m)
    /\ dq' = Append(dq, m)
    /\ Notify

EnqueueBounded(m) ==
    /\ Arrives(m)
    /\ dq' = <<m>> \o (IF Len(dq) < 2 THEN dq ELSE Front(dq))
    /\ Notify

\* A webhook call: appendleft and notify().
Enqueue(m) ==
    /\ Arrives(m)
    /\ dq' = <<m>> \o dq
    /\ Notify

\* pop() from the right end.
Pop(c) ==
    /\ dq # <<>>
    /\ dq' = Front(dq)
    /\ hand' = [hand EXCEPT ![c] = Last(dq)]
    /\ GoTo(c, "seen")

\* dequeue finds a job at once, or waits.
Dequeue(c) ==
    /\ pc[c] = "loop"
    /\ Pop(c)
    /\ UNCHANGED <<seenIds, waiting, delivered, restarts, arrived, starts, over>>

Wait(c) ==
    /\ pc[c] = "loop"
    /\ dq = <<>>
    /\ waiting' = waiting \cup {c}
    /\ GoTo(c, "wait")
    /\ UNCHANGED <<dq, seenIds, hand, delivered, restarts, arrived, starts, over>>

\* Five seconds without a notify().
TimeOut(c) ==
    /\ pc[c] = "wait"
    /\ GoTo(c, "awake")
    /\ UNCHANGED <<dq, seenIds, waiting, hand, delivered, restarts, arrived,
                   starts, over>>

\* Mutant of LookAgain: after wait() a job is taken to be there.
LookAgainBlindly(c) ==
    /\ pc[c] = "awake"
    /\ waiting' = waiting \ {c}
    /\ IF dq # <<>> THEN Pop(c) ELSE GoTo(c, "seen") /\ UNCHANGED <<dq, hand>>
    /\ UNCHANGED <<seenIds, delivered, restarts, arrived, starts, over>>

\* wait() has the lock again and returns; dequeue looks once more.  The job
\* that a notify() was for may be gone by now, and dequeue returns None.
LookAgain(c) ==
    /\ pc[c] = "awake"
    /\ waiting' = waiting \ {c}
    /\ \/ Pop(c)
       \/ dq = <<>> /\ GoTo(c, "loop") /\ UNCHANGED <<dq, hand>>
    /\ UNCHANGED <<seenIds, delivered, restarts, arrived, starts, over>>

\* Mutant of BeginJob: seen() only looks.
BeginUnmarked(c) ==
    /\ pc[c] = "seen"
    /\ hand[c] \notin seenIds
    /\ GoTo(c, "process")
    /\ starts' = [starts EXCEPT ![hand[c]] = @ + 1]
    /\ UNCHANGED <<dq, seenIds, waiting, hand, delivered, restarts, arrived, over>>

\* seen() is False and has added the id: process_job is called.
BeginJob(c) ==
    /\ pc[c] = "seen"
    /\ hand[c] \notin seenIds
    /\ seenIds' = seenIds \cup {hand[c]}
    /\ GoTo(c, "process")
    /\ starts' = [starts EXCEPT ![hand[c]] = @ + 1]
    /\ UNCHANGED <<dq, waiting, hand, delivered, restarts, arrived, over>>

\* seen() is True.
SkipDuplicate(c) ==
    /\ pc[c] = "seen"
    /\ hand[c] \in seenIds
    /\ hand' = [hand EXCEPT ![c] = None]
    /\ GoTo(c, "loop")
    /\ UNCHANGED <<dq, seenIds, waiting, delivered, restarts, arrived, starts, over>>

\* process_job returns, or raises and is logged.
JobEnds(c) ==
    /\ pc[c] = "process"
    /\ over' = over \cup {hand[c]}
    /\ hand' = [hand EXCEPT ![c] = None]
    /\ GoTo(c, "loop")
    /\ UNCHANGED <<dq, seenIds, waiting, delivered, restarts, arrived, starts>>

\* The process ends, its daemon threads in mid-job, and is started again.
Restart ==
    /\ restarts < MaxRestarts
    /\ restarts' = restarts + 1
    /\ dq' = <<>>
    /\ seenIds' = {}
    /\ waiting' = {}
    /\ pc' = [c \in Consumers |-> "loop"]
    /\ hand' = [c \in Consumers |-> None]
    /\ UNCHANGED <<delivered, arrived, starts, over>>

-----------------------------------------------------------------------------

\* What a thread does of its own accord, the timeout of wait() apart.
ThreadStep(c) ==
    \/ Dequeue(c)
    \/ Wait(c)
    \/ LookAgain(c)
    \/ BeginJob(c)
    \/ SkipDuplicate(c)
    \/ JobEnds(c)

Next ==
    \/ \E m \in Ids : Enqueue(m)
    \/ \E c \in Consumers : ThreadStep(c) \/ TimeOut(c)
    \/ Restart

Spec == Init /\ [][Next]_vars

\* A thread keeps running: it gets the lock when nobody holds it, and
\* process_job ends.  Timeouts are not needed for anything below.
FairSpec == Spec /\ \A c \in Consumers : WF_vars(ThreadStep(c))

-----------------------------------------------------------------------------
(* Properties.                                                             *)

\* No wakeup is lost: while a thread sleeps, there is for every queued job a
\* thread on its way out of wait(), also when a job was taken by a thread that
\* never slept, or a notify() was spent on a thread that had timed out.
SleepersAreNotNeeded ==
    (\E c \in Consumers : pc[c] = "wait") =>
        Len(dq) <= Cardinality({c \in Consumers : pc[c] = "awake"})

\* A message is acted on at most once as long as the process lives, and once
\* more after each restart, which forgets the ids.
AtMostOncePerLife ==
    \A m \in Ids : starts[m] <= restarts + (IF m \in seenIds THEN 1 ELSE 0)

\* As long as the process lives, no message vanishes between the threads.
NoLossWhileUp ==
    restarts = 0 =>
        \A m \in ToSet(arrived) :
            \/ Contains(dq, m)
            \/ \E c \in Consumers : hand[c] = m
            \/ m \in over

\* Messages that a thread has in hand, or had until process_job was over.
Taken == over \cup {hand[c] : c \in Consumers}

\* As long as the process lives, no message is overtaken in the deque: when one
\* is taken, so are all that arrived before it.  The one thread that
\* run_loop_in_thread starts obeys them in their order.
NoneIsOvertaken ==
    restarts = 0 =>
        \A i, j \in DOMAIN arrived :
            i < j /\ arrived[j] \in Taken => arrived[i] \in Taken

\* The queue drains by notify() alone: no job waits for a timeout of wait().
JobsNeedNoTimeout == <>[](dq = <<>>)

\* The queue is the first-in-first-out queue of base.py, see MessageQueue.
Contract == INSTANCE MessageQueue WITH queue <- Reverse(dq)
RefinesMessageQueue == Contract!Spec

=============================================================================
