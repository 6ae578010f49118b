----------------------------- MODULE AtMostOnce -----------------------------
(***************************************************************************)
(* The delivery contract of app/queue/base.py, without queues, workers or  *)
(* connections: an id must be claimed before its job runs, the claim and   *)
(* the run are one step, and an id runs only if it was enqueued.           *)
(* The promise is at most once per claim and not exactly once: a claim     *)
(* may be spent without a run.                                             *)
(***************************************************************************)
EXTENDS Naturals

CONSTANT Ids

VARIABLES
    accepted,   \* ids that were enqueued at least once
    claimed,    \* ids that seen() would call seen
    runs        \* process_job calls of each id

Init ==
    /\ accepted = {}
    /\ claimed = {}
    /\ runs = [m \in Ids |-> 0]

Accept(m) ==
    /\ accepted' = accepted \cup {m}
    /\ UNCHANGED <<claimed, runs>>

\* check-and-mark succeeds, and the job runs
ClaimAndRun(m) ==
    /\ m \in accepted \ claimed
    /\ claimed' = claimed \cup {m}
    /\ runs' = [runs EXCEPT ![m] = @ + 1]
    /\ UNCHANGED accepted

\* check-and-mark succeeds, and the caller never learns of it
Waste(m) ==
    /\ m \in accepted \ claimed
    /\ claimed' = claimed \cup {m}
    /\ UNCHANGED <<accepted, runs>>

\* the mark is forgotten: the next delivery counts as a new message
Forget(m) ==
    /\ m \in claimed
    /\ claimed' = claimed \ {m}
    /\ UNCHANGED <<accepted, runs>>

Next == \E m \in Ids : Accept(m) \/ ClaimAndRun(m) \/ Waste(m) \/ Forget(m)

Spec == Init /\ [][Next]_<<accepted, claimed, runs>>

=============================================================================
