------------------------------ MODULE MCStartUp ------------------------------
(* TLC instances of StartUp; the .cfg files give the sizes.                *)
EXTENDS StartUp, TLC

\* Values that build_queue and the start-up code agree on, and one that
\* build_queue refuses.
MCSettings  == {"redis", "REDIS", "memory", "sqs"}
MCMixedCase == {"Memory"}

MCLowerCase ==
    "redis" :> "redis" @@ "REDIS" :> "redis" @@ "memory" :> "memory"
        @@ "Memory" :> "memory" @@ "sqs" :> "sqs"

=============================================================================
