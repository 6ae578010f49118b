------------------------------- MODULE StartUp -------------------------------
(***************************************************************************)
(* How a deployment comes up: the web process (app/main.py) and workers    *)
(* (app/worker.py main), which share a database and the setting            *)
(* QUEUE_BACKEND.  Each of them builds its queue and creates the tables    *)
(* that are missing, in an order of its own; the web process then accepts  *)
(* jobs, and somebody should be there to take them.                        *)
(*                                                                         *)
(* A queue is only the number of its jobs here.  Processes die at any      *)
(* time, and whoever runs them may start them again.                       *)
(***************************************************************************)
EXTENDS Naturals

CONSTANTS
    Web,        \* the web process
    Workers,    \* processes that run python -m app.worker
    Settings,   \* the values of QUEUE_BACKEND considered
    LowerCase,  \* value.lower(), a function on Settings
    NumTables,  \* tables of models.py, numbered so that referenced ones come first
    MaxJobs,    \* bound: accepted jobs
    MaxKills    \* bound: processes that die

ASSUME WebAssumption == Web \notin Workers
ASSUME TablesAssumption == NumTables \in Nat
ASSUME BoundsAssumption == MaxJobs \in Nat /\ MaxKills \in Nat

Processes == {Web} \cup Workers
Tables    == 1..NumTables

VARIABLES
    queueBackend,   \* settings.queue_backend
    database,       \* "postgres" or "sqlite", by settings.database_url
    phase,          \* how far each process has come
    missing,        \* the tables a process has found missing and not yet created
    tables,         \* the tables of the database
    thread,         \* a consumer thread runs in the web process
    redis,          \* jobs in Redis
    local,          \* jobs in the in-memory queue of the web process
    accepted,       \* jobs accepted so far
    kills           \* processes that have died so far

schemaVars == <<missing, tables>>
jobVars    == <<redis, local, accepted>>
settings == <<queueBackend, database>>
vars == <<queueBackend, database, phase, missing, tables, thread, redis, local,
          accepted, kills>>

\* "check" and "create" are the two halves of create_all; "lifespan" is the web
\* process after init_db.
Phases == {"queue", "check", "create", "lifespan", "up", "down"}

TypeOK ==
    /\ queueBackend \in Settings
    /\ database \in {"postgres", "sqlite"}
    /\ phase \in [Processes -> Phases]
    /\ missing \in [Processes -> SUBSET Tables]
    /\ tables \in SUBSET Tables
    /\ thread \in BOOLEAN
    /\ redis \in Nat
    /\ local \in Nat
    /\ accepted \in Nat
    /\ kills \in Nat

\* main.py builds its queue when it is imported, worker.main() after init_db.
FirstPhase(p)  == IF p = Web THEN "queue" ELSE "check"
AfterQueue(p)  == IF p = Web THEN "check" ELSE "up"
AfterSchema(p) == IF p = Web THEN "lifespan" ELSE "queue"

\* The processes are started together on an empty database.
Init ==
    /\ queueBackend \in Settings
    /\ database \in {"postgres", "sqlite"}
    /\ phase = [p \in Processes |-> FirstPhase(p)]
    /\ missing = [p \in Processes |-> {}]
    /\ tables = {}
    /\ thread = FALSE
    /\ redis = 0
    /\ local = 0
    /\ accepted = 0
    /\ kills = 0

Goto(p, l) == phase' = [phase EXCEPT ![p] = l]

-----------------------------------------------------------------------------
(* Starting.                                                               *)

\* build_queue: the name of the backend in lower case, or a ValueError.
BuildQueue(p) ==
    /\ phase[p] = "queue"
    /\ Goto(p, IF LowerCase[queueBackend] \in {"redis", "memory"} THEN AfterQueue(p)
                                                                 ELSE "down")
    /\ UNCHANGED <<settings, schemaVars, thread, jobVars, kills>>

\* Mutant of CheckTables: create_all without checkfirst.
CheckNothing(p) ==
    /\ phase[p] = "check"
    /\ missing' = [missing EXCEPT ![p] = Tables]
    /\ Goto(p, "create")
    /\ UNCHANGED <<settings, tables, thread, jobVars, kills>>

\* create_all first asks which tables there are ...
CheckTables(p) ==
    /\ phase[p] = "check"
    /\ missing' = [missing EXCEPT ![p] = Tables \ tables]
    /\ Goto(p, "create")
    /\ UNCHANGED <<settings, tables, thread, jobVars, kills>>

\* What the next CREATE TABLE makes visible: Postgres commits all of them in
\* one transaction, SQLite each by itself.
NextTables(p) ==
    IF database = "postgres" THEN missing[p]
    ELSE {t \in missing[p] : \A u \in missing[p] : t <= u}

\* Mutant of CreateTables: a failing CREATE is taken for "all tables are there".
CreateTablesLeniently(p) ==
    /\ phase[p] = "create"
    /\ LET new  == NextTables(p)
           done == missing[p] = new \/ new \cap tables # {}
       IN  /\ tables' = tables \cup new
           /\ missing' = [missing EXCEPT ![p] = IF done THEN {} ELSE @ \ new]
           /\ IF done THEN Goto(p, AfterSchema(p)) ELSE UNCHANGED phase
    /\ UNCHANGED <<settings, thread, jobVars, kills>>

\* ... and then creates those that were missing.
CreateTables(p) ==
    /\ phase[p] = "create"
    /\ NextTables(p) \cap tables = {}
    /\ tables' = tables \cup NextTables(p)
    /\ missing' = [missing EXCEPT ![p] = @ \ NextTables(p)]
    /\ IF missing[p] = NextTables(p) THEN Goto(p, AfterSchema(p)) ELSE UNCHANGED phase
    /\ UNCHANGED <<settings, thread, jobVars, kills>>

\* "table already exists": init_db raises and the process does not come up.
CreateCollides(p) ==
    /\ phase[p] = "create"
    /\ NextTables(p) \cap tables # {}
    /\ Goto(p, "down")
    /\ missing' = [missing EXCEPT ![p] = {}]
    /\ UNCHANGED <<settings, tables, thread, jobVars, kills>>

\* Mutant of Lifespan: nobody starts the thread.
LifespanWithoutThread ==
    /\ phase[Web] = "lifespan"
    /\ Goto(Web, "up")
    /\ UNCHANGED <<settings, schemaVars, thread, jobVars, kills>>

\* The rest of lifespan(): a consumer thread for the in-memory queue.
Lifespan ==
    /\ phase[Web] = "lifespan"
    /\ thread' = (queueBackend = "memory")
    /\ Goto(Web, "up")
    /\ UNCHANGED <<settings, schemaVars, jobVars, kills>>

-----------------------------------------------------------------------------
(* Running.                                                                *)

\* A webhook call enqueues a job on the queue the web process has built.
Accept ==
    /\ phase[Web] = "up"
    /\ accepted < MaxJobs
    /\ accepted' = accepted + 1
    /\ IF LowerCase[queueBackend] = "redis"
       THEN redis' = redis + 1 /\ UNCHANGED local
       ELSE local' = local + 1 /\ UNCHANGED redis
    /\ UNCHANGED <<settings, phase, schemaVars, thread, kills>>

\* The thread of the web process takes a job from the same queue.
TakeLocal ==
    /\ thread
    /\ local > 0
    /\ local' = local - 1
    /\ UNCHANGED <<settings, phase, schemaVars, thread, redis, accepted, kills>>

\* Mutant of TakeRemote: an empty answer is taken for a job.
TakeNothing(w) ==
    /\ phase[w] = "up"
    /\ LowerCase[queueBackend] = "redis"
    /\ redis' = redis - 1
    /\ UNCHANGED <<settings, phase, schemaVars, thread, local, accepted, kills>>

\* A worker takes a job.  With the in-memory backend its queue is its own, and
\* nothing ever arrives there.
TakeRemote(w) ==
    /\ phase[w] = "up"
    /\ LowerCase[queueBackend] = "redis"
    /\ redis > 0
    /\ redis' = redis - 1
    /\ UNCHANGED <<settings, phase, schemaVars, thread, local, accepted, kills>>

\* A process dies.  The in-memory queue and the thread go with the web process.
Kill(p) ==
    /\ phase[p] # "down"
    /\ kills < MaxKills
    /\ kills' = kills + 1
    /\ Goto(p, "down")
    /\ missing' = [missing EXCEPT ![p] = {}]
    /\ IF p = Web THEN thread' = FALSE /\ local' = 0 ELSE UNCHANGED <<thread, local>>
    /\ UNCHANGED <<settings, tables, redis, accepted>>

\* Whoever runs the process starts it again.
StartAgain(p) ==
    /\ phase[p] = "down"
    /\ Goto(p, FirstPhase(p))
    /\ UNCHANGED <<settings, schemaVars, thread, jobVars, kills>>

-----------------------------------------------------------------------------

\* What a process does of its own accord.
Step(p) ==
    \/ BuildQueue(p)
    \/ CheckTables(p)
    \/ CreateTables(p)
    \/ CreateCollides(p)
    \/ p = Web /\ (Lifespan \/ TakeLocal)
    \/ p \in Workers /\ TakeRemote(p)

Next ==
    \/ Accept
    \/ \E p \in Processes : Step(p) \/ Kill(p) \/ StartAgain(p)

Spec == Init /\ [][Next]_vars

\* A process that runs goes on; that it is started again is not assumed.
FairSpec == Spec /\ \A p \in Processes : WF_vars(Step(p))

-----------------------------------------------------------------------------
(* Properties.                                                             *)

\* Who gets past init_db finds every table in the database, also when the
\* tables were made partly by one process and partly by another that died.
SchemaBeforeWork ==
    \A p \in Processes : phase[p] \in {"lifespan", "up"} => tables = Tables

\* Who is always started again comes up in the end, however often two starts
\* collide: a collision costs one of the two a restart and the other nothing.
AllComeUp ==
    /\ LowerCase[queueBackend] \in {"redis", "memory"}
    /\ \A p \in Processes : []<>(phase[p] # "down")
    => <>[](\A p \in Processes : phase[p] = "up")

\* Every accepted job is taken or dies with the process that kept it: whatever
\* backend is set, the web process and the consumers mean the same queue.
\* For Redis this needs a worker that stays up.
AcceptedJobsAreTaken ==
    (LowerCase[queueBackend] = "redis" => <>[](\E w \in Workers : phase[w] = "up"))
        => <>[](redis + local = 0)

\* "With "memory", the worker runs in-process inside the web app"
\* (app/config.py): jobs are never accepted into an in-memory queue that no
\* thread reads.
InMemoryQueueIsRead ==
    phase[Web] = "up" /\ LowerCase[queueBackend] = "memory" => thread

=============================================================================
