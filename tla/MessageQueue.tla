---------------------------- MODULE MessageQueue ----------------------------
(***************************************************************************)
(* The queue of app/queue/base.py as its callers see it, the same for      *)
(* every backend: first in, first out.  A job leaves only by being the     *)
(* one that has waited longest, or when the process that keeps the queue   *)
(* ends.                                                                   *)
(***************************************************************************)
EXTENDS Sequences

CONSTANT Ids

VARIABLE queue      \* the waiting jobs, the oldest first

Init == queue = <<>>

Enqueue(m) == queue' = Append(queue, m)

Dequeue == queue # <<>> /\ queue' = Tail(queue)

Vanish == queue' = <<>>

Next == Dequeue \/ Vanish \/ \E m \in Ids : Enqueue(m)

Spec == Init /\ [][Next]_queue

=============================================================================
