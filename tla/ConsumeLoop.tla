----------------------------- MODULE ConsumeLoop -----------------------------
(***************************************************************************)
(* The path of a WhatsApp event from Meta's webhook call to the end of     *)
(* process_job, in the Redis deployment: the webhook handlers of           *)
(* app/handlers enqueue, any number of worker processes run consume_loop   *)
(* of app/worker.py.  What process_job does is a matter of JobProcessing;  *)
(* here it either returns or raises.                                       *)
(*                                                                         *)
(* Faults: a Redis command fails before or after it took effect, a worker  *)
(* process is killed.  Meta delivers a message more than once when it is   *)
(* not satisfied with an answer.                                           *)
(***************************************************************************)
EXTENDS RedisQueue

CONSTANTS
    Workers,        \* worker processes
    None,           \* no job in hand
    MaxDeliveries,  \* bound: webhook deliveries of one message
    MaxFaults,      \* bound: Redis faults and killed workers
    MaxStops,       \* bound: shutdown signals
    MaxExpiries     \* bound: times the mark of one message expires

ASSUME NoneAssumption == None \notin Ids
ASSUME BoundsAssumption ==
    /\ MaxDeliveries \in Nat
    /\ MaxFaults \in Nat
    /\ MaxStops \in Nat
    /\ MaxExpiries \in Nat

VARIABLES
    pc,         \* where each worker is in consume_loop
    hand,       \* the job a worker has popped and not yet let go
    running,    \* running["value"] of each worker process
    delivered,  \* webhook deliveries of each message so far
    faults,     \* faults so far
    stops,      \* shutdown signals so far
    \* The rest is history, read by the properties only.
    arrived,    \* ids in the order of their first LPUSH
    starts,     \* calls of process_job for each message
    expired,    \* times the mark of each message has expired
    done,       \* messages whose process_job returned
    failed,     \* messages whose process_job raised
    skipped     \* messages of which a delivery was skipped as a duplicate

historyVars == <<arrived, starts, expired, done, failed, skipped>>
workerVars  == <<pc, hand, running>>
vars == <<list, seenKeys, pc, hand, running, delivered, faults, stops,
          arrived, starts, expired, done, failed, skipped>>

Locations == {"loop", "dequeue", "seen", "process", "backoff", "stopped", "down"}

TypeOK ==
    /\ QueueTypeOK
    /\ pc \in [Workers -> Locations]
    /\ hand \in [Workers -> Ids \cup {None}]
    /\ running \in [Workers -> BOOLEAN]
    /\ delivered \in [Ids -> Nat]
    /\ faults \in Nat
    /\ stops \in Nat
    /\ arrived \in Seq(Ids)
    /\ starts \in [Ids -> Nat]
    /\ expired \in [Ids -> Nat]
    /\ done \in SUBSET Ids
    /\ failed \in SUBSET Ids
    /\ skipped \in SUBSET Ids

Init ==
    /\ QueueInit
    /\ pc = [w \in Workers |-> "loop"]
    /\ hand = [w \in Workers |-> None]
    /\ running = [w \in Workers |-> TRUE]
    /\ delivered = [m \in Ids |-> 0]
    /\ faults = 0
    /\ stops = 0
    /\ arrived = <<>>
    /\ starts = [m \in Ids |-> 0]
    /\ expired = [m \in Ids |-> 0]
    /\ done = {}
    /\ failed = {}
    /\ skipped = {}

GoTo(w, l) == pc' = [pc EXCEPT ![w] = l]
Drop(w)    == hand' = [hand EXCEPT ![w] = None]
Fault      == faults < MaxFaults /\ faults' = faults + 1

-----------------------------------------------------------------------------
(* The web process.                                                        *)

\* A webhook call reaches a handler, which enqueues the job: the first
\* delivery of a message or a repeated one.
Deliver(m) ==
    /\ delivered[m] < MaxDeliveries
    /\ delivered' = [delivered EXCEPT ![m] = @ + 1]
    /\ LPush(m)
    /\ arrived' = IF m \in ToSet(arrived) THEN arrived ELSE Append(arrived, m)
    /\ UNCHANGED <<seenKeys, workerVars, faults, stops, starts, expired,
                   done, failed, skipped>>

\* enqueue raises before Redis has the job: the delivery left nothing behind.
DeliverFails(m) ==
    /\ delivered[m] < MaxDeliveries
    /\ Fault
    /\ delivered' = [delivered EXCEPT ![m] = @ + 1]
    /\ UNCHANGED <<queueVars, workerVars, stops, historyVars>>

-----------------------------------------------------------------------------
(* consume_loop.                                                           *)

\* while should_continue()
LoopTest(w) ==
    /\ pc[w] = "loop"
    /\ GoTo(w, IF running[w] THEN "dequeue" ELSE "stopped")
    /\ UNCHANGED <<queueVars, hand, running, delivered, faults, stops, historyVars>>

\* queue.dequeue answers with a job.
Dequeue(w) ==
    /\ pc[w] = "dequeue"
    /\ \E m \in Ids : BRPop(m) /\ hand' = [hand EXCEPT ![w] = m]
    /\ GoTo(w, "seen")
    /\ UNCHANGED <<seenKeys, running, delivered, faults, stops, historyVars>>

\* Mutant of DequeueTimeout: dequeue itself retries until there is a job, and
\* should_continue() is not asked in between.
DequeueRetries(w) ==
    /\ pc[w] = "dequeue"
    /\ list = <<>>
    /\ UNCHANGED vars

\* Mutant of DequeueTimeout: None is taken for a job.
TimeoutAsJob(w) ==
    /\ pc[w] = "dequeue"
    /\ list = <<>>
    /\ GoTo(w, "seen")
    /\ UNCHANGED <<queueVars, hand, running, delivered, faults, stops, historyVars>>

\* Five seconds without a job.
DequeueTimeout(w) ==
    /\ pc[w] = "dequeue"
    /\ list = <<>>
    /\ GoTo(w, "loop")
    /\ UNCHANGED <<queueVars, hand, running, delivered, faults, stops, historyVars>>

\* The connection fails before BRPOP took a job.
DequeueFails(w) ==
    /\ pc[w] = "dequeue"
    /\ Fault
    /\ GoTo(w, "backoff")
    /\ UNCHANGED <<queueVars, hand, running, delivered, stops, historyVars>>

\* BRPOP took a job and its answer is lost.  The client either raises or
\* quietly sends the command again.
DequeueLosesJob(w) ==
    /\ pc[w] = "dequeue"
    /\ Fault
    /\ \E m \in Ids : BRPop(m)
    /\ \/ GoTo(w, "backoff")
       \/ UNCHANGED pc
    /\ UNCHANGED <<seenKeys, hand, running, delivered, stops, historyVars>>

\* Mutant of BeginJob: the id is looked up first and marked after the job.
BeginUnmarked(w) ==
    /\ pc[w] = "seen"
    /\ hand[w] \notin seenKeys
    /\ GoTo(w, "process")
    /\ starts' = [starts EXCEPT ![hand[w]] = @ + 1]
    /\ UNCHANGED <<queueVars, hand, running, delivered, faults, stops, arrived,
                   expired, done, failed, skipped>>

\* queue.seen is False: this worker has marked the id and calls process_job.
BeginJob(w) ==
    /\ pc[w] = "seen"
    /\ SetNX(hand[w])
    /\ GoTo(w, "process")
    /\ starts' = [starts EXCEPT ![hand[w]] = @ + 1]
    /\ UNCHANGED <<list, hand, running, delivered, faults, stops, arrived, expired,
                   done, failed, skipped>>

\* Mutant of SkipDuplicate: the job of a seen id is put back for later.
RequeueDuplicate(w) ==
    /\ pc[w] = "seen"
    /\ AlreadySet(hand[w])
    /\ skipped' = skipped \cup {hand[w]}
    /\ LPush(hand[w])
    /\ Drop(w)
    /\ GoTo(w, "loop")
    /\ UNCHANGED <<running, delivered, faults, stops, arrived, starts,
                   expired, done, failed>>

\* queue.seen is True: skip the job.
SkipDuplicate(w) ==
    /\ pc[w] = "seen"
    /\ AlreadySet(hand[w])
    /\ skipped' = skipped \cup {hand[w]}
    /\ Drop(w)
    /\ GoTo(w, "loop")
    /\ UNCHANGED <<list, running, delivered, faults, stops, arrived, starts,
                   expired, done, failed>>

\* The connection fails while SET is under way, before or after it took
\* effect.  The popped job is not put back.
SeenFails(w) ==
    /\ pc[w] = "seen"
    /\ Fault
    /\ SetNX(hand[w]) \/ UNCHANGED seenKeys
    /\ Drop(w)
    /\ GoTo(w, "backoff")
    /\ UNCHANGED <<list, running, delivered, stops, historyVars>>

\* SET stored the key, its answer was lost, and the client sent it again: the
\* second SET finds the key, so the worker skips a job nobody has processed.
SeenFindsOwnMark(w) ==
    /\ pc[w] = "seen"
    /\ Fault
    /\ SetNX(hand[w])
    /\ skipped' = skipped \cup {hand[w]}
    /\ Drop(w)
    /\ GoTo(w, "loop")
    /\ UNCHANGED <<list, running, delivered, stops, arrived, starts, expired,
                   done, failed>>

\* time.sleep(1), then round again.
Backoff(w) ==
    /\ pc[w] = "backoff"
    /\ GoTo(w, "loop")
    /\ UNCHANGED <<queueVars, hand, running, delivered, faults, stops, historyVars>>

\* process_job returns.
JobReturns(w) ==
    /\ pc[w] = "process"
    /\ done' = done \cup {hand[w]}
    /\ Drop(w)
    /\ GoTo(w, "loop")
    /\ UNCHANGED <<queueVars, running, delivered, faults, stops, arrived, starts,
                   expired, failed, skipped>>

\* process_job raises; the exception is logged and the job is over.
JobRaises(w) ==
    /\ pc[w] = "process"
    /\ failed' = failed \cup {hand[w]}
    /\ Drop(w)
    /\ GoTo(w, "loop")
    /\ UNCHANGED <<queueVars, running, delivered, faults, stops, arrived, starts,
                   expired, done, skipped>>

-----------------------------------------------------------------------------
(* The surroundings: signals, crashes, restarts, time.                     *)

Up(w) == pc[w] \notin {"stopped", "down"}

\* Mutant of Stop: without a handler of its own the signal ends the process
\* at once.
StopAbandonsJob(w) ==
    /\ Up(w)
    /\ running[w]
    /\ stops < MaxStops
    /\ stops' = stops + 1
    /\ running' = [running EXCEPT ![w] = FALSE]
    /\ GoTo(w, "stopped")
    /\ Drop(w)
    /\ UNCHANGED <<queueVars, delivered, faults, historyVars>>

\* SIGINT or SIGTERM
Stop(w) ==
    /\ Up(w)
    /\ running[w]
    /\ stops < MaxStops
    /\ stops' = stops + 1
    /\ running' = [running EXCEPT ![w] = FALSE]
    /\ UNCHANGED <<queueVars, pc, hand, delivered, faults, historyVars>>

\* The process dies, with what it held.
Kill(w) ==
    /\ Up(w)
    /\ Fault
    /\ GoTo(w, "down")
    /\ Drop(w)
    /\ UNCHANGED <<queueVars, running, delivered, stops, historyVars>>

\* python -m app.worker
Launch(w) ==
    /\ ~ Up(w)
    /\ GoTo(w, "loop")
    /\ running' = [running EXCEPT ![w] = TRUE]
    /\ UNCHANGED <<queueVars, hand, delivered, faults, stops, historyVars>>

\* A mark outlives the call of process_job it was set for (a day against
\* seconds), but not a redelivery or a backlog older than its time-to-live.
Expire(m) ==
    /\ ExpireKey(m)
    /\ \A w \in Workers : ~ (pc[w] = "process" /\ hand[w] = m)
    /\ expired[m] < MaxExpiries
    /\ expired' = [expired EXCEPT ![m] = @ + 1]
    /\ UNCHANGED <<list, workerVars, delivered, faults, stops, arrived, starts,
                   done, failed, skipped>>

-----------------------------------------------------------------------------

\* What a running worker does next of its own accord.
WorkerStep(w) ==
    \/ LoopTest(w)
    \/ Dequeue(w)
    \/ DequeueTimeout(w)
    \/ BeginJob(w)
    \/ SkipDuplicate(w)
    \/ Backoff(w)
    \/ JobReturns(w)
    \/ JobRaises(w)

WorkerFault(w) ==
    \/ DequeueFails(w)
    \/ DequeueLosesJob(w)
    \/ SeenFails(w)
    \/ SeenFindsOwnMark(w)
    \/ Kill(w)

Next ==
    \/ \E m \in Ids : Deliver(m) \/ DeliverFails(m) \/ Expire(m)
    \/ \E w \in Workers : WorkerStep(w) \/ WorkerFault(w) \/ Stop(w) \/ Launch(w)

Spec == Init /\ [][Next]_vars

\* A worker process that is up keeps executing its loop: every call in it
\* returns (BRPOP and the HTTP clients have timeouts) or raises.  Nothing is
\* assumed of Meta, of faults, of signals, or of who restarts a worker.
FairSpec == Spec /\ \A w \in Workers : WF_vars(WorkerStep(w))

-----------------------------------------------------------------------------
(* Properties.                                                             *)

\* A message is acted on at most once for each lifetime of its mark, however
\* often Meta delivers it, however many workers there are and wherever a
\* command fails or a worker dies.
AtMostOncePerMark ==
    \A m \in Ids : starts[m] <= expired[m] + (IF m \in seenKeys THEN 1 ELSE 0)

\* Two workers never process the same message at the same time, also when two
\* deliveries of it are popped concurrently.
NoConcurrentDuplicate ==
    \A v, w \in Workers :
        /\ v # w
        /\ pc[v] = "process"
        /\ pc[w] = "process"
        => hand[v] # hand[w]

\* Without a fault no message vanishes: whatever was enqueued once is in the
\* list, in a worker's hand, or has been given to process_job to the end.
\* Shutdown signals, restarts, duplicates and expired marks do not matter.
NoLossWithoutFault ==
    faults = 0 =>
        \A m \in ToSet(arrived) :
            \/ Queued(m)
            \/ \E w \in Workers : hand[w] = m
            \/ m \in done \cup failed

\* Messages that a worker has in hand, or had until process_job was over.
Taken == done \cup failed \cup {hand[w] : w \in Workers}

\* Without a fault no message is overtaken in the queue: when one is taken, so
\* are all that arrived before it.  A single worker therefore obeys the messages
\* of a chat in their order, whatever is repeated or expires; with several
\* workers only those in hand at the same time can change places.
NoneIsOvertaken ==
    faults = 0 =>
        \A i, j \in DOMAIN arrived :
            i < j /\ arrived[j] \in Taken => arrived[i] \in Taken

\* MessageQueue.seen in app/queue/base.py: "Returns True if this id was ALREADY
\* processed (caller should skip)".  The mark is set before the processing, so
\* a skipped message may be one whose only processing raised.
SkippedWasProcessed == skipped \subseteq done

\* A worker that gets a shutdown signal leaves the loop, whatever it was doing
\* and whatever fails meanwhile.
SignalStopsWorker == \A w \in Workers : ~ running[w] ~> ~ Up(w)

\* When Meta has sent everything and from some time on some worker is up, the
\* queue ends up empty: connection errors, bad jobs and duplicates neither kill
\* the workers nor keep them busy for ever.
QueueDrains == <>[](\E w \in Workers : Up(w)) => <>[](list = <<>>)

\* What base.py promises of seen(), see AtMostOnce.
Contract == INSTANCE AtMostOnce WITH
    claimed <- seenKeys, runs <- starts, accepted <- ToSet(arrived)
RefinesAtMostOnce == Contract!Spec

\* Through lost answers, kills and restarts the Redis list stays the
\* first-in-first-out queue of base.py, see MessageQueue.
Fifo == INSTANCE MessageQueue WITH queue <- Reverse(list)
RefinesMessageQueue == Fifo!Spec

=============================================================================
