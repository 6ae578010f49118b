--------------------------- MODULE StartUp_proofs ---------------------------
(***************************************************************************)
(* Proofs about StartUp for any workers, settings, tables and bounds.      *)
(* SchemaBeforeWork is not inductive: whether all tables are there is      *)
(* decided while a process is still creating, and a worker builds its      *)
(* queue between init_db and its loop.                                     *)
(***************************************************************************)
EXTENDS StartUp, TLAPS

\* Where a process is past init_db: a worker also while it builds its queue.
PastSchema(p) ==
    \/ phase[p] \in {"lifespan", "up"}
    \/ p # Web /\ phase[p] = "queue"

\* Who creates tables will have created all when it is through, because the
\* tables it did not find missing stay there.
CreatesTheRest ==
    \A p \in Processes : phase[p] = "create" => Tables \subseteq tables \cup missing[p]

SchemaInv ==
    /\ TypeOK
    /\ CreatesTheRest
    /\ \A p \in Processes : PastSchema(p) => tables = Tables

-----------------------------------------------------------------------------

\* A process that moves to the phase l, with more tables or as many.
LEMMA Advance ==
    ASSUME SchemaInv, NEW p \in Processes, NEW l \in Phases, Goto(p, l),
           tables \subseteq tables', tables' \subseteq Tables,
           \A q \in Processes \ {p} : missing'[q] = missing[q],
           l = "create" => Tables \subseteq tables' \cup missing'[p],
           l \in {"lifespan", "up"} \/ (p # Web /\ l = "queue") => tables' = Tables
    PROVE  /\ phase' \in [Processes -> Phases]
           /\ CreatesTheRest'
           /\ \A q \in Processes : PastSchema(q)' => tables' = Tables
<1> USE DEF SchemaInv
<1>1. /\ phase' \in [Processes -> Phases]
      /\ phase'[p] = l
      /\ \A q \in Processes \ {p} : phase'[q] = phase[q]
  BY DEF Goto, TypeOK
<1>2. CreatesTheRest'
  <2> SUFFICES ASSUME NEW q \in Processes, phase'[q] = "create"
               PROVE  Tables \subseteq tables' \cup missing'[q]
    BY DEF CreatesTheRest, Processes, Tables
  <2>1. CASE q = p
    BY <1>1, <2>1
  <2>2. CASE q # p
    BY <1>1, <2>2 DEF CreatesTheRest
  <2> QED
    BY <2>1, <2>2
<1>3. ASSUME NEW q \in Processes, PastSchema(q)' PROVE tables' = Tables
  <2>1. CASE q = p
    BY <1>1, <1>3, <2>1 DEF PastSchema
  <2>2. CASE q # p
    <3>1. PastSchema(q)
      BY <1>1, <1>3, <2>2 DEF PastSchema
    <3> QED
      BY <3>1
  <2> QED
    BY <2>1, <2>2
<1> QED
  BY <1>1, <1>2, <1>3

\* Steps that move no process and touch no table.
LEMMA StandStill ==
    ASSUME SchemaInv, UNCHANGED <<phase, missing, tables>>, TypeOK'
    PROVE  SchemaInv'
  BY DEF SchemaInv, CreatesTheRest, PastSchema, Tables

\* The initial states satisfy the invariant.
LEMMA InitSchemaInv == Init => SchemaInv
<1> SUFFICES ASSUME Init PROVE SchemaInv
  OBVIOUS
<1>1. TypeOK
  BY DEF Init, TypeOK, FirstPhase, Phases
<1>2. \A p \in Processes : phase[p] = IF p = Web THEN "queue" ELSE "check"
  BY DEF Init, FirstPhase
<1> QED
  BY <1>1, <1>2 DEF SchemaInv, CreatesTheRest, PastSchema

\* Every step keeps it.
LEMMA NextSchemaInv == SchemaInv /\ [Next]_vars => SchemaInv'
<1> SUFFICES ASSUME SchemaInv, [Next]_vars PROVE SchemaInv'
  OBVIOUS
<1>1. TypeOK
  BY DEF SchemaInv
<1> USE DEF settings, schemaVars, jobVars
<1>2. ASSUME NEW p \in Processes, BuildQueue(p) PROVE SchemaInv'
  <2>1. PICK l \in {"down", AfterQueue(p)} : Goto(p, l)
    BY <1>2 DEF BuildQueue
  <2>2. l \in Phases /\ l # "create" /\ (p = Web => l \in {"down", "check"})
    BY <2>1 DEF AfterQueue, Phases
  <2>3. p # Web => tables = Tables
    BY <1>2 DEF BuildQueue, SchemaInv, PastSchema
  <2>4. tables \subseteq Tables
    BY <1>1 DEF TypeOK
  <2>5. /\ phase' \in [Processes -> Phases]
        /\ CreatesTheRest'
        /\ \A q \in Processes : PastSchema(q)' => tables' = Tables
    BY <1>2, <2>1, <2>2, <2>3, <2>4, Advance DEF BuildQueue
  <2>6. TypeOK'
    BY <1>1, <1>2, <2>5 DEF BuildQueue, TypeOK
  <2> QED
    BY <2>5, <2>6 DEF SchemaInv
<1>3. ASSUME NEW p \in Processes, CheckTables(p) PROVE SchemaInv'
  <2>1. /\ missing' \in [Processes -> SUBSET Tables]
        /\ missing'[p] = Tables \ tables
        /\ \A q \in Processes \ {p} : missing'[q] = missing[q]
        /\ UNCHANGED tables
        /\ tables \subseteq Tables
    BY <1>1, <1>3 DEF CheckTables, TypeOK
  <2>2. "create" \in Phases /\ Goto(p, "create")
    BY <1>3 DEF CheckTables, Phases
  <2>3. /\ phase' \in [Processes -> Phases]
        /\ CreatesTheRest'
        /\ \A q \in Processes : PastSchema(q)' => tables' = Tables
    BY <2>1, <2>2, Advance
  <2>4. TypeOK'
    BY <1>1, <1>3, <2>1, <2>3 DEF CheckTables, TypeOK
  <2> QED
    BY <2>3, <2>4 DEF SchemaInv
<1>4. ASSUME NEW p \in Processes, CreateTables(p) PROVE SchemaInv'
  <2> DEFINE new == NextTables(p)
  <2>1. new \subseteq missing[p] /\ missing[p] \subseteq Tables /\ tables \subseteq Tables
    BY <1>1 DEF NextTables, TypeOK
  <2>2. /\ phase[p] = "create"
        /\ tables' = tables \cup new
        /\ missing' = [missing EXCEPT ![p] = @ \ new]
        /\ IF missing[p] = new THEN Goto(p, AfterSchema(p)) ELSE UNCHANGED phase
        /\ UNCHANGED <<queueBackend, database, thread, redis, local, accepted, kills>>
    BY <1>4 DEF CreateTables
  <2> HIDE DEF new
  <2>3. /\ missing' \in [Processes -> SUBSET Tables]
        /\ missing'[p] = missing[p] \ new
        /\ \A q \in Processes \ {p} : missing'[q] = missing[q]
    BY <1>1, <2>2 DEF TypeOK
  <2>4. Tables \subseteq tables \cup missing[p]
    BY <2>2 DEF SchemaInv, CreatesTheRest
  <2> DEFINE l == IF missing[p] = new THEN AfterSchema(p) ELSE "create"
  <2>5. Goto(p, l)
    BY <1>1, <2>2 DEF Goto, TypeOK
  <2>6. l \in Phases /\ (l # "create" => missing[p] = new)
    BY DEF AfterSchema, Phases
  <2>7. l # "create" => tables' = Tables
    BY <2>1, <2>2, <2>4, <2>6
  <2>8. Tables \subseteq tables' \cup missing'[p]
    BY <2>2, <2>3, <2>4
  <2> HIDE DEF l
  <2>9. /\ phase' \in [Processes -> Phases]
        /\ CreatesTheRest'
        /\ \A q \in Processes : PastSchema(q)' => tables' = Tables
    BY <2>1, <2>2, <2>3, <2>5, <2>6, <2>7, <2>8, Advance
  <2>10. TypeOK'
    BY <1>1, <2>1, <2>2, <2>3, <2>9 DEF TypeOK
  <2> QED
    BY <2>9, <2>10 DEF SchemaInv
<1>5. ASSUME NEW p \in Processes, CreateCollides(p) \/ Kill(p) PROVE SchemaInv'
  <2>1. /\ Goto(p, "down")
        /\ missing' = [missing EXCEPT ![p] = {}]
        /\ UNCHANGED <<queueBackend, database, tables, redis, accepted>>
        /\ local' \in {0, local} /\ kills' \in {kills, kills + 1}
    BY <1>5 DEF CreateCollides, Kill
  <2>2. /\ missing' \in [Processes -> SUBSET Tables]
        /\ \A q \in Processes \ {p} : missing'[q] = missing[q]
        /\ tables \subseteq Tables
        /\ "down" \in Phases
    BY <1>1, <2>1 DEF TypeOK, Phases
  <2>3. /\ phase' \in [Processes -> Phases]
        /\ CreatesTheRest'
        /\ \A q \in Processes : PastSchema(q)' => tables' = Tables
    BY <2>1, <2>2, Advance
  <2>4. TypeOK'
    <3>1. local' \in Nat /\ kills' \in Nat
      BY <1>1, <2>1 DEF TypeOK
    <3>2. thread' \in BOOLEAN
      BY <1>1, <1>5 DEF CreateCollides, Kill, TypeOK
    <3>3. /\ queueBackend' \in Settings /\ database' \in {"postgres", "sqlite"}
          /\ tables' \in SUBSET Tables
          /\ redis' \in Nat /\ accepted' \in Nat
      BY <1>1, <2>1 DEF TypeOK
    <3> QED
      BY <2>2, <2>3, <3>1, <3>2, <3>3 DEF TypeOK
  <2> QED
    BY <2>3, <2>4 DEF SchemaInv
<1>6. CASE Lifespan
  <2>1. /\ Web \in Processes
        /\ "up" \in Phases
        /\ Goto(Web, "up")
        /\ UNCHANGED <<queueBackend, database, tables, missing, redis, local, accepted, kills>>
        /\ thread' \in BOOLEAN
        /\ tables \subseteq Tables
    BY <1>1, <1>6 DEF Lifespan, Processes, Phases, TypeOK
  <2>2. tables = Tables
    BY <1>6, <2>1 DEF Lifespan, SchemaInv, PastSchema
  <2>3. /\ phase' \in [Processes -> Phases]
        /\ CreatesTheRest'
        /\ \A q \in Processes : PastSchema(q)' => tables' = Tables
    BY <2>1, <2>2, Advance
  <2>4. TypeOK'
    BY <1>1, <2>1, <2>3 DEF TypeOK
  <2> QED
    BY <2>3, <2>4 DEF SchemaInv
<1>7. ASSUME NEW p \in Processes, StartAgain(p) PROVE SchemaInv'
  <2>1. /\ FirstPhase(p) \in Phases \ {"create", "lifespan", "up"}
        /\ p # Web => FirstPhase(p) # "queue"
        /\ Goto(p, FirstPhase(p))
        /\ UNCHANGED <<queueBackend, database, tables, missing, thread, redis, local, accepted,
                       kills>>
        /\ tables \subseteq Tables
    BY <1>1, <1>7 DEF StartAgain, FirstPhase, Phases, TypeOK
  <2>2. /\ phase' \in [Processes -> Phases]
        /\ CreatesTheRest'
        /\ \A q \in Processes : PastSchema(q)' => tables' = Tables
    BY <2>1, Advance
  <2>3. TypeOK'
    BY <1>1, <2>1, <2>2 DEF TypeOK
  <2> QED
    BY <2>2, <2>3 DEF SchemaInv
<1>8. CASE Accept
  <2>1. TypeOK'
    BY <1>1, <1>8 DEF Accept, TypeOK
  <2> QED
    BY <1>8, <2>1, StandStill DEF Accept
<1>9. CASE TakeLocal
  <2>1. TypeOK'
    BY <1>1, <1>9 DEF TakeLocal, TypeOK
  <2> QED
    BY <1>9, <2>1, StandStill DEF TakeLocal
<1>10. ASSUME NEW w \in Workers, TakeRemote(w) PROVE SchemaInv'
  <2>1. TypeOK'
    BY <1>1, <1>10 DEF TakeRemote, TypeOK
  <2> QED
    BY <1>10, <2>1, StandStill DEF TakeRemote
<1>11. CASE UNCHANGED vars
  <2>1. TypeOK'
    BY <1>1, <1>11 DEF vars, TypeOK
  <2> QED
    BY <1>11, <2>1, StandStill DEF vars
<1> QED
  BY <1>2, <1>3, <1>4, <1>5, <1>6, <1>7, <1>8, <1>9, <1>10, <1>11 DEF Next, Step

-----------------------------------------------------------------------------

\* The invariant holds in every reachable state.
THEOREM Invariance == Spec => []SchemaInv
<1>1. Init => SchemaInv
  BY InitSchemaInv
<1>2. SchemaInv /\ [Next]_vars => SchemaInv'
  BY NextSchemaInv
<1> QED
  BY <1>1, <1>2, PTL DEF Spec

\* Every variable of the start-up keeps its type.
THEOREM TypeCorrect == Spec => []TypeOK
<1>1. SchemaInv => TypeOK
  BY DEF SchemaInv
<1> QED
  BY <1>1, Invariance, PTL

\* However many processes start, collide, die and start again, and whichever
\* of them created which table: past init_db all tables are there.
THEOREM SchemaHolds == Spec => []SchemaBeforeWork
<1>1. SchemaInv => SchemaBeforeWork
  BY DEF SchemaInv, SchemaBeforeWork, PastSchema
<1> QED
  BY <1>1, Invariance, PTL

=============================================================================
