----------------------------- MODULE RedisQueue -----------------------------
(***************************************************************************)
(* The production queue backend, app/queue/redis_queue.py: one Redis list  *)
(* used as a FIFO queue, and one key per message id that marks the id as   *)
(* seen until its time-to-live runs out.  A job is represented by its      *)
(* message id: webhook deliveries of one message carry the same payload.   *)
(*                                                                         *)
(* The operators below are the effects a command has inside Redis, which   *)
(* executes commands one at a time.  What a lost connection does to the    *)
(* caller is in the module that issues the command.                        *)
(***************************************************************************)
EXTENDS Naturals, SequencesExt

CONSTANT Ids      \* message ids that WhatsApp assigns

VARIABLES
    list,         \* the Redis list, leftmost element first
    seenKeys      \* ids whose key "shopping:seen:<id>" exists

queueVars == <<list, seenKeys>>

QueueTypeOK ==
    /\ list \in Seq(Ids)
    /\ seenKeys \in SUBSET Ids

QueueInit ==
    /\ list = <<>>
    /\ seenKeys = {}

Queued(m) == Contains(list, m)

\* Mutant of LPush: RPUSH, the end that BRPOP reads.
RPush(m) == list' = Append(list, m)

\* LPUSH: enqueue on the left end.
LPush(m) == list' = <<m>> \o list

\* BRPOP answers with the rightmost element, the one that has waited longest.
BRPop(m) ==
    /\ list # <<>>
    /\ m = Last(list)
    /\ list' = Front(list)

\* Mutant of SetNX: SET without NX always stores the key.
SetAlways(m) == seenKeys' = seenKeys \cup {m}

\* SET key NX EX: seen() is False exactly when this stores the key.
SetNX(m) ==
    /\ m \notin seenKeys
    /\ seenKeys' = seenKeys \cup {m}

AlreadySet(m) ==
    /\ m \in seenKeys
    /\ UNCHANGED seenKeys

\* The key's time-to-live ends.
ExpireKey(m) ==
    /\ m \in seenKeys
    /\ seenKeys' = seenKeys \ {m}

=============================================================================
