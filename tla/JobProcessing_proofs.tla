------------------------ MODULE JobProcessing_proofs ------------------------
(***************************************************************************)
(* Theorems about JobProcessing for any phones, texts, batches, workers    *)
(* and number of jobs, on either database.                                 *)
(***************************************************************************)
EXTENDS JobProcessing, ListLogic_proofs

-----------------------------------------------------------------------------
(* The inductive invariant behind TypeOK.                                  *)

\* What pend[w] looks like.
PendShape ==
    pend = [w \in Workers |->
              [families |-> pend[w].families, lists |-> pend[w].lists,
               users |-> pend[w].users, items |-> pend[w].items,
               gone |-> pend[w].gone]]

\* Every id was drawn from its sequence.
IdsDrawn(store) ==
    /\ \A f \in store.families : f <= seq.family
    /\ \A l \in DOMAIN store.lists : l <= seq.list
    /\ \A i \in DOMAIN store.items : i <= seq.item

\* A worker that is not idle has a job.
JobInHand == \A w \in Workers : at[w] # "idle" => job[w] \in Jobs

\* The inductive invariant.
TInv ==
    /\ TypeOK
    /\ PendShape
    /\ IdsDrawn(db)
    /\ \A w \in Workers : IdsDrawn(pend[w])
    /\ JobInHand

\* A job asks for something the bot knows.
LEMMA JobAsks == ASSUME NEW j \in Jobs PROVE j.action \in Actions /\ j.texts \in Seq(Texts)
  BY DEF Jobs, Actions

\* Whatever a worker decides is something it can write and say.
LEMMA JobDecisionType ==
    ASSUME NEW store, IsStore(store), NEW l, NEW j \in Jobs
    PROVE  Decision(store, l, j) \in Todos
  <1>1. DOMAIN store.items \in SUBSET Nat
    BY DEF IsStore, IsTable
  <1> QED BY <1>1, JobAsks, DecisionType

\* TInv holds before the first job.
LEMMA InitTInv == Init => TInv
  <1>. SUFFICES ASSUME Init PROVE TInv
    OBVIOUS
  <1>1. IsStore(EmptyStore) /\ IsStore(NoRows)
    BY EmptyTable DEF IsStore, EmptyStore, NoRows
  <1>2. NoTodo \in Todos
    BY AnswerType DEF NoTodo
  <1>3. TypeOK
    BY <1>1, <1>2, MaxJobsAssumption
       DEF Init, TypeOK, Locations, NoRows
  <1>4. PendShape
    BY DEF Init, PendShape, NoRows
  <1>5. IdsDrawn(db) /\ \A w \in Workers : IdsDrawn(pend[w])
    BY DEF Init, IdsDrawn, EmptyStore, NoRows
  <1>6. JobInHand
    BY DEF Init, JobInHand
  <1> QED BY <1>3, <1>4, <1>5, <1>6 DEF TInv

\* A new id is a number, and the next one is not above what the sequence then
\* says.
LEMMA IdBaseType ==
    ASSUME NEW ids \in SUBSET Nat, NEW next \in Nat, \A i \in ids : i <= next
    PROVE  IdBase(ids, next) \in Nat /\ IdBase(ids, next) <= next
  <1>1. /\ ids \cup {0} \in SUBSET Nat
        /\ ids \cup {0} # {}
        /\ \A x \in ids \cup {0} : x <= next
    OBVIOUS
  <1>. DEFINE m == Max(ids \cup {0})
  <1>2. m \in ids \cup {0}
    BY <1>1, LargestExists
  <1>. HIDE DEF m
  <1>3. m \in Nat /\ m <= next
    BY <1>1, <1>2
  <1>4. IdBase(ids, next) = m \/ IdBase(ids, next) = next
    BY DEF IdBase, m
  <1> QED BY <1>3, <1>4

\* A new id is above all that are there.
LEMMA IdBaseAbove ==
    ASSUME NEW ids \in SUBSET Nat, NEW next \in Nat, \A i \in ids : i <= next
    PROVE  \A i \in ids : i <= IdBase(ids, next)
  <1>1. /\ ids \cup {0} \in SUBSET Nat
        /\ ids \cup {0} # {}
        /\ \A x \in ids \cup {0} : x <= next
    OBVIOUS
  <1>2. \A x \in ids \cup {0} : x <= Max(ids \cup {0})
    BY <1>1, LargestExists
  <1> QED BY <1>2 DEF IdBase

\* What a statement reads is a well-typed store of drawn ids.
LEMMA ViewType ==
    ASSUME TInv, NEW w \in Workers
    PROVE  IsStore(View(w)) /\ IdsDrawn(View(w)) /\ IsStore(pend[w]) /\ IsStore(db)
  <1>1. IsStore(pend[w]) /\ IsStore(db) /\ IdsDrawn(pend[w]) /\ IdsDrawn(db)
    BY DEF TInv, TypeOK
  <1>2. /\ IsTable(Overwrite(db.lists, pend[w].lists), Nat, Nat)
        /\ IsTable(Overwrite(db.users, pend[w].users), Phones, Nat)
        /\ IsTable(Overwrite(db.items, pend[w].items), Nat, Rows)
    BY <1>1, TableOverwrite DEF IsStore
  <1>3. IsStore(View(w))
    BY <1>1, <1>2, TableRestrict DEF IsStore, View, Overlay
  <1>4. /\ View(w).families = db.families \cup pend[w].families
        /\ View(w).lists = Overwrite(db.lists, pend[w].lists)
        /\ DOMAIN View(w).items \subseteq DOMAIN Overwrite(db.items, pend[w].items)
    BY DEF View, Overlay, Restrict
  <1>5. IdsDrawn(View(w))
    <2>1. DOMAIN View(w).lists = DOMAIN db.lists \cup DOMAIN pend[w].lists
      BY <1>4 DEF Overwrite
    <2>2. DOMAIN View(w).items \subseteq DOMAIN db.items \cup DOMAIN pend[w].items
      BY <1>4 DEF Overwrite
    <2> QED BY <1>1, <1>4, <2>1, <2>2 DEF IdsDrawn
  <1> QED BY <1>1, <1>3, <1>5

-----------------------------------------------------------------------------
(* The steps keep the tables and the pending rows well-typed.              *)

\* What TInv says of the database.
StoreInv ==
    /\ IsStore(db)
    /\ seq \in [family : Nat, list : Nat, item : Nat]
    /\ \A w \in Workers : IsStore(pend[w]) /\ pend[w].gone \in SUBSET Nat
    /\ PendShape
    /\ IdsDrawn(db)
    /\ \A w \in Workers : IdsDrawn(pend[w])

\* A session that has flushed nothing is well-typed.
LEMMA NoRowsType == IsStore(NoRows) /\ NoRows.gone = {} /\ IdsDrawn(NoRows)
  BY EmptyTable DEF IsStore, NoRows, IdsDrawn

\* A rollback only forgets what was pending.
LEMMA RollbackStore ==
    ASSUME TInv, NEW w \in Workers, Rollback(w), UNCHANGED seq
    PROVE  StoreInv'
  <1>1. db' = db /\ pend' = [pend EXCEPT ![w] = NoRows]
    BY DEF Rollback, EndJob
  <1>2. DOMAIN pend = Workers
    BY DEF TInv, PendShape
  <1>3. \A v \in Workers : pend'[v] = pend[v] \/ pend'[v] = NoRows
    BY <1>1, <1>2
  <1>4. PendShape'
    BY <1>1 DEF TInv, PendShape, NoRows
  <1>5. IdsDrawn(db)' /\ \A v \in Workers : IdsDrawn(pend[v])'
    BY <1>1, <1>3, NoRowsType DEF TInv, IdsDrawn
  <1> QED BY <1>1, <1>3, <1>4, <1>5, NoRowsType DEF TInv, TypeOK, StoreInv

\* A commit stores what its session read last.
LEMMA CommitStore ==
    ASSUME TInv, NEW w \in Workers, Commit(w)
    PROVE  StoreInv'
  <1>1. db' = View(w) /\ pend' = [pend EXCEPT ![w] = NoRows] /\ seq' = seq
    BY DEF Commit, EndJob, View
  <1>2. IsStore(View(w)) /\ IdsDrawn(View(w))
    BY ViewType
  <1>3. DOMAIN pend = Workers
    BY DEF TInv, PendShape
  <1>4. \A v \in Workers : pend'[v] = pend[v] \/ pend'[v] = NoRows
    BY <1>1, <1>3
  <1>5. PendShape'
    BY <1>1 DEF TInv, PendShape, NoRows
  <1>6. IdsDrawn(db)' /\ \A v \in Workers : IdsDrawn(pend[v])'
    BY <1>1, <1>2, <1>4, NoRowsType DEF TInv, IdsDrawn
  <1> QED BY <1>1, <1>2, <1>4, <1>5, <1>6, NoRowsType DEF TInv, TypeOK, StoreInv

\* No id goes back to its sequence.
SeqGrows ==
    /\ seq' \in [family : Nat, list : Nat, item : Nat]
    /\ seq.family <= seq'.family /\ seq.list <= seq'.list /\ seq.item <= seq'.item

\* A statement that makes the pending rows of w the well-typed r, whose ids are drawn.
LEMMA PendingStore ==
    ASSUME TInv, NEW w \in Workers, NEW r,
           r = [families |-> r.families, lists |-> r.lists, users |-> r.users,
                items |-> r.items, gone |-> r.gone],
           IsStore(r), r.gone \in SUBSET Nat,
           pend' = [pend EXCEPT ![w] = r], db' = db, SeqGrows,
           \A x \in r.families : x <= seq'.family,
           \A x \in DOMAIN r.lists : x <= seq'.list,
           \A x \in DOMAIN r.items : x <= seq'.item
    PROVE  StoreInv'
  <1>1. DOMAIN pend = Workers
    BY DEF TInv, PendShape
  <1>2. \A v \in Workers : pend'[v] = pend[v] \/ pend'[v] = r
    BY <1>1
  <1>3. PendShape'
    BY DEF TInv, PendShape
  <1>4. \A v \in Workers : IsStore(pend'[v]) /\ pend'[v].gone \in SUBSET Nat
    BY <1>2 DEF TInv, TypeOK
  <1>5. ASSUME NEW s, IsStore(s), IdsDrawn(s)
        PROVE  /\ \A x \in s.families : x <= seq'.family
               /\ \A x \in DOMAIN s.lists : x <= seq'.list
               /\ \A x \in DOMAIN s.items : x <= seq'.item
    <2>1. /\ s.families \in SUBSET Nat
          /\ DOMAIN s.lists \in SUBSET Nat
          /\ DOMAIN s.items \in SUBSET Nat
      BY <1>5 DEF IsStore, IsTable
    <2>2. seq \in [family : Nat, list : Nat, item : Nat]
      BY DEF TInv, TypeOK
    <2> QED BY <1>5, <2>1, <2>2 DEF IdsDrawn, SeqGrows
  <1>6. IdsDrawn(db)'
    BY <1>5 DEF IdsDrawn, TInv, TypeOK
  <1>7. ASSUME NEW v \in Workers PROVE IdsDrawn(pend[v])'
    <2>1. CASE pend'[v] = pend[v]
      BY <2>1, <1>5 DEF IdsDrawn, TInv, TypeOK
    <2>2. CASE pend'[v] = r
      BY <2>2 DEF IdsDrawn
    <2> QED BY <1>2, <2>1, <2>2
  <1> QED BY <1>3, <1>4, <1>6, <1>7 DEF TInv, TypeOK, StoreInv, SeqGrows

\* Statements that only read.
LEMMA SameStore ==
    ASSUME TInv, UNCHANGED <<db, pend, seq>>
    PROVE  StoreInv'
  BY DEF TInv, TypeOK, StoreInv, PendShape, IdsDrawn

\* The new family and its list get ids of their own.
LEMMA InsertFamilyStore ==
    ASSUME TInv, NEW w \in Workers, InsertFamily(w)
    PROVE  StoreInv'
  <1>. DEFINE f == IdBase(db.families, seq.family) + 1
              l == IdBase(DOMAIN db.lists, seq.list) + 1
  <1>1. /\ IsStore(db) /\ IsStore(pend[w]) /\ pend[w].gone \in SUBSET Nat
        /\ IdsDrawn(db) /\ IdsDrawn(pend[w])
        /\ seq \in [family : Nat, list : Nat, item : Nat]
    BY DEF TInv, TypeOK
  <1>2. f \in Nat /\ f <= seq.family + 1
    <2>1. IdBase(db.families, seq.family) \in Nat /\ IdBase(db.families, seq.family) <= seq.family
      BY <1>1, IdBaseType DEF IsStore, IdsDrawn
    <2> QED BY <2>1, <1>1
  <1>3. l \in Nat /\ l <= seq.list + 1
    <2>1. IdBase(DOMAIN db.lists, seq.list) \in Nat /\ IdBase(DOMAIN db.lists, seq.list) <= seq.list
      BY <1>1, IdBaseType DEF IsStore, IdsDrawn, IsTable
    <2> QED BY <2>1, <1>1
  <1>4. /\ seq' = [family |-> seq.family + 1, list |-> seq.list + 1, item |-> seq.item]
        /\ db' = db
    BY DEF InsertFamily
  <1>. HIDE DEF f, l
  <1>5. SeqGrows /\ f <= seq'.family /\ l <= seq'.list /\ seq'.item = seq.item
    <2>1. /\ seq'.family = seq.family + 1
          /\ seq'.list = seq.list + 1
          /\ seq'.item = seq.item
          /\ seq' \in [family : Nat, list : Nat, item : Nat]
      BY <1>1, <1>4
    <2> QED BY <1>1, <1>2, <1>3, <2>1 DEF SeqGrows
  <1>. DEFINE p == pend[w]
              r == [families |-> {f}, lists |-> Row(l, f), users |-> p.users,
                    items |-> p.items, gone |-> p.gone]
  <1>6. pend' = [pend EXCEPT ![w] = r]
    BY DEF InsertFamily, f, l
  <1>7. IsTable(r.lists, Nat, Nat) /\ DOMAIN r.lists = {l}
    BY <1>2, <1>3, TableRow DEF Row
  <1>8. IsStore(r)
    BY <1>1, <1>2, <1>7 DEF IsStore
  <1>9. \A x \in DOMAIN r.items : x <= seq'.item
    BY <1>1, <1>5 DEF IdsDrawn
  <1>10. /\ r = [families |-> r.families, lists |-> r.lists, users |-> r.users,
                 items |-> r.items, gone |-> r.gone]
         /\ r.gone \in SUBSET Nat
         /\ \A x \in r.families : x <= seq'.family
         /\ \A x \in DOMAIN r.lists : x <= seq'.list
    BY <1>1, <1>5, <1>7
  <1>. HIDE DEF r
  <1> QED BY <1>4, <1>5, <1>6, <1>8, <1>9, <1>10, PendingStore

\* The new user is registered under the phone number of the job.
LEMMA InsertUserStore ==
    ASSUME TInv, NEW w \in Workers, InsertUser(w)
    PROVE  StoreInv'
  <1>1. /\ IsStore(pend[w]) /\ pend[w].gone \in SUBSET Nat /\ IdsDrawn(pend[w])
        /\ seq \in [family : Nat, list : Nat, item : Nat]
    BY DEF TInv, TypeOK
  <1>2. job[w].phone \in Phones /\ family[w] \in Nat
    BY DEF InsertUser, TInv, TypeOK, JobInHand, Jobs
  <1>. DEFINE p == pend[w]
              u == Row(job[w].phone, family[w])
              r == [families |-> p.families, lists |-> p.lists, users |-> u,
                    items |-> p.items, gone |-> p.gone]
  <1>3. pend' = [pend EXCEPT ![w] = r]
    <2>1. p = [families |-> p.families, lists |-> p.lists, users |-> p.users,
               items |-> p.items, gone |-> p.gone]
      BY DEF TInv, PendShape
    <2>2. [p EXCEPT !.users = u] = r
      BY <2>1
    <2>3. pend' = [pend EXCEPT ![w] = [p EXCEPT !.users = u]]
      BY DEF InsertUser
    <2> QED BY <2>2, <2>3
  <1>4. IsStore(r)
    BY <1>1, <1>2, TableRow DEF IsStore
  <1>5. db' = db /\ seq' = seq
    BY DEF InsertUser
  <1>6. SeqGrows
    BY <1>1, <1>5 DEF SeqGrows
  <1>7. /\ r = [families |-> r.families, lists |-> r.lists, users |-> r.users,
                items |-> r.items, gone |-> r.gone]
        /\ r.gone \in SUBSET Nat
        /\ \A x \in r.families : x <= seq'.family
        /\ \A x \in DOMAIN r.lists : x <= seq'.list
        /\ \A x \in DOMAIN r.items : x <= seq'.item
    BY <1>1, <1>5 DEF IdsDrawn
  <1>. HIDE DEF r
  <1> QED BY <1>3, <1>4, <1>5, <1>6, <1>7, PendingStore

\* The list in hand is a stored or a new one.
LEMMA SelectListStore ==
    ASSUME TInv, NEW w \in Workers, SelectList(w)
    PROVE  /\ StoreInv'
           /\ active' \in [Workers -> Nat]
  <1>. DEFINE lists == ActiveLists(View(w), family[w])
              new == IdBase(DOMAIN View(w).lists, seq.list) + 1
  <1>1. /\ IsStore(pend[w]) /\ pend[w].gone \in SUBSET Nat /\ IdsDrawn(pend[w])
        /\ seq \in [family : Nat, list : Nat, item : Nat]
        /\ active \in [Workers -> Nat] /\ family[w] \in Nat
    BY DEF TInv, TypeOK
  <1>2. IsStore(View(w)) /\ IdsDrawn(View(w))
    BY ViewType
  <1>3. CASE lists # {}
    <2>1. PICK l \in lists : active' = [active EXCEPT ![w] = l]
      BY <1>3 DEF SelectList
    <2>2. l \in Nat
      BY <1>2 DEF ActiveLists, IsStore, IsTable
    <2>3. UNCHANGED <<db, pend, seq>>
      BY <1>3 DEF SelectList
    <2> QED BY <1>1, <2>1, <2>2, <2>3, SameStore
  <1>4. CASE lists = {}
    <2>1. new \in Nat /\ new <= seq.list + 1
      <3>1. /\ IdBase(DOMAIN View(w).lists, seq.list) \in Nat
            /\ IdBase(DOMAIN View(w).lists, seq.list) <= seq.list
        BY <1>1, <1>2, IdBaseType DEF IsStore, IdsDrawn, IsTable
      <3> QED BY <3>1, <1>1
    <2>. DEFINE p == pend[w]
                ls == Overwrite(p.lists, Row(new, family[w]))
                r == [families |-> p.families, lists |-> ls, users |-> p.users,
                      items |-> p.items, gone |-> p.gone]
    <2>2. /\ active' = [active EXCEPT ![w] = new]
          /\ pend' = [pend EXCEPT ![w] = [p EXCEPT !.lists = ls]]
          /\ seq' = [seq EXCEPT !.list = @ + 1]
          /\ db' = db
      BY <1>4 DEF SelectList
    <2>. HIDE DEF new
    <2>3. pend' = [pend EXCEPT ![w] = r]
      <3>1. p = [families |-> p.families, lists |-> p.lists, users |-> p.users,
                 items |-> p.items, gone |-> p.gone]
        BY DEF TInv, PendShape
      <3>2. [p EXCEPT !.lists = ls] = r
        BY <3>1
      <3> QED BY <2>2, <3>2
    <2>4. /\ seq'.family = seq.family
          /\ seq'.list = seq.list + 1
          /\ seq'.item = seq.item
          /\ seq' \in [family : Nat, list : Nat, item : Nat]
      BY <1>1, <2>2
    <2>5. SeqGrows
      BY <1>1, <2>4 DEF SeqGrows
    <2>6. IsStore(r)
      BY <1>1, <2>1, TableRow, TableOverwrite DEF IsStore
    <2>7. DOMAIN ls = DOMAIN p.lists \cup {new}
      BY DEF Overwrite, Row
    <2>8. \A x \in DOMAIN ls : x <= seq'.list
      <3>1. \A x \in DOMAIN p.lists : x \in Nat /\ x <= seq.list
        BY <1>1 DEF IsStore, IsTable, IdsDrawn
      <3> QED BY <1>1, <2>1, <2>4, <2>7, <3>1
    <2>9. /\ r = [families |-> r.families, lists |-> r.lists, users |-> r.users,
                  items |-> r.items, gone |-> r.gone]
          /\ r.gone \in SUBSET Nat
          /\ \A x \in r.families : x <= seq'.family
          /\ \A x \in DOMAIN r.lists : x <= seq'.list
          /\ \A x \in DOMAIN r.items : x <= seq'.item
      BY <1>1, <2>4, <2>8 DEF IdsDrawn
    <2>. HIDE DEF r
    <2>10. StoreInv'
      BY <2>2, <2>3, <2>5, <2>6, <2>9, PendingStore
    <2> QED BY <1>1, <2>1, <2>2, <2>10
  <1> QED BY <1>3, <1>4

\* Flushed rows are typed, and their ids are drawn or known.
LEMMA FlushStore ==
    ASSUME TInv, NEW w \in Workers, Flush(w)
    PROVE  StoreInv'
  <1>. DEFINE t == todo[w]
              base == IdBase(DOMAIN View(w).items, seq.item)
              new == base + 1 .. base + Len(t.ins)
              old == (t.mark \cup t.clr) \cap DOMAIN db.items
              p == pend[w]
              rows == FlushedRows(w)
              r == [families |-> p.families, lists |-> p.lists, users |-> p.users,
                    items |-> rows, gone |-> DeletedItems(w)]
  <1>1. /\ IsStore(pend[w]) /\ IsStore(db) /\ IdsDrawn(pend[w]) /\ IdsDrawn(db)
        /\ seq \in [family : Nat, list : Nat, item : Nat]
        /\ active[w] \in Nat /\ t \in Todos
    BY DEF TInv, TypeOK
  <1>2. job[w].phone \in Phones
    BY DEF Flush, TInv, TypeOK, JobInHand, Jobs
  <1>3. t.ins \in Seq(Texts) /\ t.del \in SUBSET Nat /\ Len(t.ins) \in Nat
    BY <1>1 DEF Todos
  <1>4. base \in Nat /\ base <= seq.item
    <2>1. IsStore(View(w)) /\ IdsDrawn(View(w))
      BY ViewType
    <2> QED BY <1>1, <2>1, IdBaseType DEF IsStore, IsTable, IdsDrawn
  <1>. HIDE DEF base
  <1>5. new \in SUBSET Nat /\ old \in SUBSET Nat /\ old \subseteq DOMAIN db.items
    BY <1>1, <1>3, <1>4 DEF IsStore, IsTable
  <1>6. ASSUME NEW i \in new PROVE NewRow(w, t.ins[i - base]) \in Rows
    <2>1. i - base \in 1..Len(t.ins)
      BY <1>3, <1>4
    <2>2. t.ins[i - base] \in Texts
      BY <1>3, <2>1
    <2> QED BY <1>1, <2>2 DEF NewRow, Rows, Statuses
  <1>7. ASSUME NEW i \in old
        PROVE  BoughtRow(w, db.items[i]) \in Rows /\ ClearedRow(db.items[i]) \in Rows
    <2>1. db.items[i] \in Rows
      BY <1>1, <1>5 DEF IsStore, IsTable
    <2> QED BY <1>2, <2>1 DEF BoughtRow, ClearedRow, Rows, Statuses
  <1>8. rows = [i \in new \cup old |->
                  CASE i \in new          -> NewRow(w, t.ins[i - base])
                    [] i \in t.mark \ new -> BoughtRow(w, db.items[i])
                    [] OTHER              -> ClearedRow(db.items[i])]
    BY DEF FlushedRows, base
  <1>. HIDE DEF rows, new, old, t
  <1>9. IsTable(rows, Nat, Rows) /\ DOMAIN rows = new \cup old
    <2>1. DOMAIN rows = new \cup old
      BY <1>8
    <2>2. ASSUME NEW i \in new \cup old PROVE rows[i] \in Rows
      <3>1. \/ i \in new /\ rows[i] = NewRow(w, t.ins[i - base])
            \/ i \in old /\ rows[i] = BoughtRow(w, db.items[i])
            \/ i \in old /\ rows[i] = ClearedRow(db.items[i])
        BY <1>8
      <3> QED BY <3>1, <1>6, <1>7
    <2> QED BY <1>5, <1>8, <2>1, <2>2 DEF IsTable
  <1>10. IsStore(r)
    BY <1>1, <1>9 DEF IsStore
  <1>11. /\ pend' = [pend EXCEPT ![w] = r]
         /\ seq' = [seq EXCEPT !.item = @ + Len(t.ins)]
         /\ db' = db
    BY DEF Flush, t, rows
  <1>12. /\ seq'.family = seq.family
         /\ seq'.list = seq.list
         /\ seq'.item = seq.item + Len(t.ins)
         /\ seq' \in [family : Nat, list : Nat, item : Nat]
    BY <1>1, <1>3, <1>11
  <1>13. SeqGrows
    BY <1>1, <1>3, <1>12 DEF SeqGrows
  <1>14. \A i \in new \cup old : i <= seq'.item
    <2>1. \A i \in new : i <= seq.item + Len(t.ins)
      BY <1>1, <1>3, <1>4 DEF new
    <2>2. \A i \in old : i \in Nat /\ i <= seq.item
      BY <1>1, <1>5 DEF IdsDrawn
    <2>3. \A i \in old : i <= seq.item + Len(t.ins)
      BY <1>1, <1>3, <2>2
    <2> QED BY <1>12, <2>1, <2>3
  <1>15. /\ r = [families |-> r.families, lists |-> r.lists, users |-> r.users,
                 items |-> r.items, gone |-> r.gone]
         /\ r.gone \in SUBSET Nat
         /\ \A x \in r.families : x <= seq'.family
         /\ \A x \in DOMAIN r.lists : x <= seq'.list
         /\ \A x \in DOMAIN r.items : x <= seq'.item
    BY <1>1, <1>3, <1>9, <1>12, <1>14 DEF IdsDrawn, DeletedItems, t
  <1>. HIDE DEF r
  <1> QED BY <1>10, <1>11, <1>13, <1>15, PendingStore

\* Every step keeps the store well-typed.
LEMMA StepStore ==
    ASSUME TInv, NEW w \in Workers, TakeJob(w) \/ Statement(w) \/ Fail(w)
    PROVE  StoreInv'
  <1>1. CASE TakeJob(w) \/ SelectUser(w) \/ SelectFamily(w) \/ Decide(w) \/ Say(w)
             \/ Follow(w) \/ Prompt(w)
    <2>1. UNCHANGED <<db, pend, seq>>
      BY <1>1 DEF TakeJob, SelectUser, SelectFamily, Decide, Say, Follow, Prompt
    <2> QED BY <2>1, SameStore
  <1>2. CASE InsertUserConflict(w) \/ FlushStale(w) \/ Fail(w)
    BY <1>2, RollbackStore DEF InsertUserConflict, FlushStale, Fail
  <1> QED BY <1>1, <1>2, InsertFamilyStore, InsertUserStore, SelectListStore,
             FlushStore, CommitStore DEF Statement

-----------------------------------------------------------------------------
(* The steps keep what a worker knows and decided well-typed.              *)

\* What TInv says of the workers.
ControlInv ==
    /\ at \in [Workers -> Locations]
    /\ job \in [Workers -> Jobs \cup {NoJob}]
    /\ family \in [Workers -> Nat]
    /\ active \in [Workers -> Nat]
    /\ todo \in [Workers -> Todos]
    /\ jobs \in 0..MaxJobs
    /\ JobInHand

\* A session that ends leaves an idle worker without a job.
LEMMA EndJobControl ==
    ASSUME TInv, NEW w \in Workers, EndJob(w), UNCHANGED jobs
    PROVE  ControlInv'
  <1>1. /\ at' = [at EXCEPT ![w] = "idle"]
        /\ job' = [job EXCEPT ![w] = NoJob]
        /\ family' = [family EXCEPT ![w] = 0]
        /\ active' = [active EXCEPT ![w] = 0]
        /\ todo' = [todo EXCEPT ![w] = NoTodo]
    BY DEF EndJob, Goto
  <1>2. NoTodo \in Todos
    BY AnswerType DEF NoTodo
  <1>3. JobInHand'
    BY <1>1 DEF JobInHand, TInv, TypeOK
  <1> QED BY <1>1, <1>2, <1>3 DEF TInv, TypeOK, ControlInv, Locations

\* A step that keeps the job and goes to a statement of it.
LEMMA GotoControl ==
    ASSUME TInv, NEW w \in Workers, at[w] # "idle", NEW l \in Locations, Goto(w, l),
           UNCHANGED <<job, jobs>>,
           family' \in [Workers -> Nat], active' \in [Workers -> Nat],
           todo' \in [Workers -> Todos]
    PROVE  ControlInv'
  <1>1. at' = [at EXCEPT ![w] = l]
    BY DEF Goto
  <1>2. JobInHand'
    BY <1>1 DEF JobInHand, TInv, TypeOK
  <1> QED BY <1>1, <1>2 DEF TInv, TypeOK, ControlInv

\* Every job taken is one the bot can get: the rows tapped on were once sent.
LEMMA TakeJobControl ==
    ASSUME TInv, NEW w \in Workers, TakeJob(w)
    PROVE  ControlInv'
  <1>1. TypedJobs \subseteq Jobs
    <2>1. <<>> \in Seq(Texts)
      OBVIOUS
    <2>2. ASSUME NEW a \in ItemActions \cup PlainActions \cup ButtonActions,
                 NEW p \in Phones, NEW ts \in Seq(Texts)
          PROVE  Message(a, p, ts) \in Jobs
      BY DEF Message, Jobs
    <2>3. ASSUME NEW j \in TypedJobs
          PROVE  \E a \in ItemActions \cup PlainActions \cup ButtonActions, p \in Phones,
                    ts \in Seq(Texts) : j = Message(a, p, ts)
      <3>1. \/ \E a \in ItemActions, p \in Phones, ts \in Batches : j = Message(a, p, ts)
            \/ \E a \in PlainActions \cup ButtonActions, p \in Phones : j = Message(a, p, <<>>)
        BY <2>3 DEF TypedJobs
      <3> QED BY <2>1, <3>1, BatchesAssumption
    <2> QED BY <2>2, <2>3
  <1>2. BuyJobs \subseteq Jobs
    <2>1. ASSUME NEW p \in Phones, NEW row \in shown
          PROVE  [action |-> "buy", phone |-> p, texts |-> <<row[2]>>, id |-> row[1]] \in Jobs
      <3>1. row[1] \in Nat /\ row[2] \in Texts
        BY DEF TInv, TypeOK
      <3>2. <<row[2]>> \in Seq(Texts)
        BY <3>1
      <3> QED BY <3>1, <3>2 DEF Jobs
    <2> QED BY <2>1 DEF BuyJobs
  <1>3. ReaddJobs \subseteq Jobs
    <2>1. ASSUME NEW p \in Phones, NEW t \in offered
          PROVE  Message("readd", p, <<t>>) \in Jobs
      <3>1. <<t>> \in Seq(Texts)
        BY DEF TInv, TypeOK
      <3> QED BY <3>1 DEF Message, Jobs
    <2>2. \A j \in ReaddJobs : \E p \in Phones, t \in offered : j = Message("readd", p, <<t>>)
      BY DEF ReaddJobs
    <2> QED BY <2>1, <2>2
  <1>4. PICK j \in Jobs : job' = [job EXCEPT ![w] = j]
    BY <1>1, <1>2, <1>3 DEF TakeJob
  <1>5. at' = [at EXCEPT ![w] = "user"]
    BY DEF TakeJob, Goto
  <1>6. JobInHand'
    BY <1>4, <1>5 DEF JobInHand, TInv, TypeOK
  <1>7. jobs' \in 0..MaxJobs
    BY MaxJobsAssumption DEF TakeJob, TInv, TypeOK
  <1>8. UNCHANGED <<family, active, todo>>
    BY DEF TakeJob
  <1> QED BY <1>4, <1>5, <1>6, <1>7, <1>8 DEF TInv, TypeOK, ControlInv, Locations

\* After its flush a worker answers, ends, or sends a list it has decided to send.
LEMMA AfterWriteType ==
    ASSUME NEW t \in Todos
    PROVE  AfterWrite(t) \in {"say", "commit"} \/ (AfterWrite(t) = "list" /\ t.follow # "none")
  <1>1. t.text # "none" => AfterWrite(t) = "say"
    BY DEF AfterWrite
  <1>2. t.text = "none" /\ t.follow # "none" => AfterWrite(t) = "list"
    BY DEF AfterWrite
  <1>3. t.text = "none" /\ t.follow = "none" => AfterWrite(t) = "commit"
    BY DEF AfterWrite
  <1> QED BY <1>1, <1>2, <1>3

\* Every step keeps what the workers know and decided well-typed.
LEMMA StepControl ==
    ASSUME TInv, NEW w \in Workers, TakeJob(w) \/ Statement(w) \/ Fail(w)
    PROVE  ControlInv'
  <1>1. /\ family \in [Workers -> Nat] /\ active \in [Workers -> Nat]
        /\ todo \in [Workers -> Todos]
    BY DEF TInv, TypeOK
  <1>2. CASE TakeJob(w)
    BY <1>2, TakeJobControl
  <1>3. CASE InsertUserConflict(w) \/ FlushStale(w) \/ Fail(w) \/ Commit(w)
    BY <1>3, EndJobControl DEF InsertUserConflict, FlushStale, Fail, Commit, Rollback
  <1>4. CASE SelectUser(w)
    <2>1. family' \in [Workers -> Nat]
      <3>1. job[w].phone \in DOMAIN db.users => db.users[job[w].phone] \in Nat
        BY DEF TInv, TypeOK, IsStore, IsTable
      <3> QED BY <1>1, <1>4, <3>1 DEF SelectUser
    <2>2. \E l \in Locations : Goto(w, l)
      BY <1>4 DEF SelectUser, AfterUser, Locations
    <2>3. at[w] # "idle" /\ UNCHANGED <<job, jobs, active, todo>>
      BY <1>4 DEF SelectUser
    <2> QED BY <1>1, <2>1, <2>2, <2>3, GotoControl
  <1>5. CASE SelectFamily(w)
    <2>1. family' \in [Workers -> Nat]
      BY <1>1, <1>5 DEF SelectFamily, TInv, TypeOK, IsStore
    <2>2. /\ at[w] # "idle" /\ UNCHANGED <<job, jobs, active, todo>>
          /\ \E l \in Locations : Goto(w, l)
      BY <1>5 DEF SelectFamily, Locations
    <2> QED BY <1>1, <2>1, <2>2, GotoControl
  <1>6. CASE InsertFamily(w)
    <2>1. IdBase(db.families, seq.family) + 1 \in Nat
      BY IdBaseType DEF TInv, TypeOK, IsStore, IdsDrawn
    <2>2. family' \in [Workers -> Nat]
      BY <1>1, <1>6, <2>1 DEF InsertFamily
    <2>3. /\ at[w] # "idle" /\ UNCHANGED <<job, jobs, active, todo>>
          /\ Goto(w, "register") /\ "register" \in Locations
      BY <1>6 DEF InsertFamily, Locations
    <2> QED BY <1>1, <2>2, <2>3, GotoControl
  <1>7. CASE InsertUser(w)
    <2>1. /\ at[w] # "idle" /\ UNCHANGED <<job, jobs, family, active, todo>>
          /\ \E l \in Locations : Goto(w, l)
      BY <1>7 DEF InsertUser, AfterUser, Locations
    <2> QED BY <1>1, <2>1, GotoControl
  <1>8. CASE SelectList(w)
    <2>1. active' \in [Workers -> Nat]
      BY <1>8, SelectListStore
    <2>2. /\ at[w] # "idle" /\ UNCHANGED <<job, jobs, family, todo>>
          /\ \E l \in Locations : Goto(w, l)
      BY <1>8 DEF SelectList, Locations
    <2> QED BY <1>1, <2>1, <2>2, GotoControl
  <1>9. CASE Decide(w)
    <2>. DEFINE t == Decision(View(w), active[w], job[w])
    <2>1. t \in Todos
      BY <1>9, ViewType, JobDecisionType DEF Decide, TInv, JobInHand
    <2>2. todo' \in [Workers -> Todos]
      BY <1>1, <1>9, <2>1 DEF Decide
    <2>3. AfterWrite(t) \in Locations
      BY <2>1, AfterWriteType DEF Locations
    <2>4. /\ at[w] # "idle" /\ UNCHANGED <<job, jobs, family, active>>
          /\ \E l \in Locations : Goto(w, l)
      BY <1>9, <2>3 DEF Decide, Locations
    <2> QED BY <1>1, <2>2, <2>4, GotoControl
  <1>10. CASE Flush(w)
    <2>1. AfterWrite(todo[w]) \in Locations
      BY <1>1, AfterWriteType DEF Locations
    <2>2. /\ at[w] # "idle" /\ UNCHANGED <<job, jobs, family, active, todo>>
          /\ \E l \in Locations : Goto(w, l)
      BY <1>10, <2>1 DEF Flush
    <2> QED BY <1>1, <2>2, GotoControl
  <1>11. CASE Say(w) \/ Prompt(w)
    <2>1. /\ at[w] # "idle" /\ UNCHANGED <<job, jobs, family, active, todo>>
          /\ \E l \in Locations : Goto(w, l)
      BY <1>11 DEF Say, Prompt, Locations
    <2> QED BY <1>1, <2>1, GotoControl
  <1>12. CASE Follow(w)
    <2>1. todo' \in [Workers -> Todos]
      <3>1. UNCHANGED todo \/ todo' = [todo EXCEPT ![w].follow = "list"]
        BY <1>12 DEF Follow, SendListInstead
      <3>2. [todo[w] EXCEPT !.follow = "list"] \in Todos
        BY <1>1 DEF Todos
      <3>3. todo' = todo \/ todo' = [todo EXCEPT ![w] = [todo[w] EXCEPT !.follow = "list"]]
        BY <3>1
      <3> QED BY <1>1, <3>2, <3>3
    <2>2. /\ at[w] # "idle" /\ UNCHANGED <<job, jobs, family, active>>
          /\ \E l \in Locations : Goto(w, l)
      BY <1>12 DEF Follow, SendList, SendPicker, SendListInstead, Locations
    <2> QED BY <1>1, <2>1, <2>2, GotoControl
  <1> QED BY <1>2, <1>3, <1>4, <1>5, <1>6, <1>7, <1>8, <1>9, <1>10, <1>11, <1>12 DEF Statement

-----------------------------------------------------------------------------
(* The steps keep what was sent well-typed.                                *)

\* What TInv says of the messages sent.
SentInv ==
    /\ shown \in SUBSET (Nat \X Texts)
    /\ offered \in SUBSET Texts
    /\ last \in [Workers -> {"nothing", "plain", "interactive"}]
    /\ listed \in [Workers -> SUBSET SUBSET Nat]
    /\ picker \in [Workers -> SUBSET Texts]

\* Every step keeps what was sent well-typed.
LEMMA StepSent ==
    ASSUME TInv, NEW w \in Workers, TakeJob(w) \/ Statement(w) \/ Fail(w)
    PROVE  SentInv'
  <1>1. SentInv
    BY DEF TInv, TypeOK, SentInv
  <1>2. IsStore(View(w))
    BY ViewType
  <1>3. CASE UNCHANGED <<phoneVars, sentVars>>
    BY <1>1, <1>3 DEF SentInv, phoneVars, sentVars
  <1>4. CASE TakeJob(w) \/ SelectUser(w) \/ SelectFamily(w) \/ InsertFamily(w) \/ InsertUser(w)
             \/ SelectList(w) \/ Decide(w) \/ Flush(w)
    BY <1>3, <1>4 DEF TakeJob, SelectUser, SelectFamily, InsertFamily, InsertUser,
                      SelectList, Decide, Flush
  <1>5. CASE InsertUserConflict(w) \/ FlushStale(w) \/ Fail(w) \/ Commit(w)
    <2>1. /\ UNCHANGED phoneVars
          /\ last' = [last EXCEPT ![w] = "nothing"]
          /\ listed' = [listed EXCEPT ![w] = {}]
          /\ picker' = [picker EXCEPT ![w] = {}]
      BY <1>5 DEF InsertUserConflict, FlushStale, Fail, Commit, Rollback, EndJob
    <2> QED BY <1>1, <2>1 DEF SentInv, phoneVars
  <1>6. CASE Say(w) \/ Prompt(w)
    <2>1. /\ UNCHANGED <<phoneVars, listed, picker>>
          /\ \E kind \in {"plain", "interactive"} : last' = [last EXCEPT ![w] = kind]
      BY <1>6 DEF Say, Prompt, Sent
    <2> QED BY <1>1, <2>1 DEF SentInv, phoneVars
  <1>7. ASSUME SendList(w) PROVE SentInv'
    <2>. DEFINE needed == NeededItems(View(w), active[w])
    <2>1. needed \in SUBSET Nat /\ \A i \in needed : View(w).items[i].text \in Texts
      BY <1>2 DEF NeededItems, IsStore, IsTable, Rows
    <2>2. /\ last' = [last EXCEPT ![w] = "interactive"]
          /\ listed' = [listed EXCEPT ![w] = {needed}]
          /\ shown' = shown \cup {<<i, View(w).items[i].text>> : i \in needed}
          /\ UNCHANGED <<offered, picker>>
      BY <1>7 DEF SendList, Sent
    <2>. HIDE DEF needed
    <2>3. {<<i, View(w).items[i].text>> : i \in needed} \in SUBSET (Nat \X Texts)
      BY <2>1
    <2>4. {needed} \in SUBSET SUBSET Nat
      BY <2>1
    <2> QED BY <1>1, <2>2, <2>3, <2>4 DEF SentInv
  <1>8. ASSUME SendPicker(w) PROVE SentInv'
    <2>. DEFINE past == PastTexts(View(w), family[w], active[w])
    <2>1. past \in SUBSET Texts
      BY <1>2 DEF PastTexts, IsStore, IsTable, Rows
    <2>2. /\ last' = [last EXCEPT ![w] = "interactive"]
          /\ picker' = [picker EXCEPT ![w] = past]
          /\ offered' = offered \cup past
          /\ UNCHANGED <<shown, listed>>
      BY <1>8 DEF SendPicker, Sent
    <2>. HIDE DEF past
    <2> QED BY <1>1, <2>1, <2>2 DEF SentInv
  <1>9. CASE Follow(w)
    <2>1. SendList(w) \/ SendPicker(w) \/ UNCHANGED <<phoneVars, sentVars>>
      BY <1>9 DEF Follow, SendListInstead
    <2> QED BY <2>1, <1>3, <1>7, <1>8
  <1> QED BY <1>4, <1>5, <1>6, <1>9 DEF Statement

-----------------------------------------------------------------------------

\* TInv is inductive.
LEMMA NextTInv ==
    ASSUME TInv, [Next]_vars
    PROVE  TInv'
  <1>1. CASE UNCHANGED vars
    <2>1. SeqGrows \/ TRUE
      OBVIOUS
    <2> QED BY <1>1 DEF vars, phoneVars, sentVars, TInv, TypeOK, PendShape, IdsDrawn, JobInHand
  <1>2. CASE Next
    <2>1. PICK w \in Workers : TakeJob(w) \/ Statement(w) \/ Fail(w)
      BY <1>2 DEF Next
    <2>2. StoreInv' /\ ControlInv' /\ SentInv'
      BY <2>1, StepStore, StepControl, StepSent
    <2> QED BY <2>2 DEF TInv, TypeOK, StoreInv, ControlInv, SentInv
  <1> QED BY <1>1, <1>2

\* TypeOK: whatever sessions overlap, wait, fail or are rolled back, what is
\* stored, pending, decided and sent stays well-typed.
THEOREM TypeCorrect == Spec => []TypeOK
  <1>1. TInv => TypeOK
    BY DEF TInv
  <1> QED BY InitTInv, NextTInv, <1>1, PTL DEF Spec

-----------------------------------------------------------------------------
(* A family and its one list.                                              *)

\* Every list belongs to a family, and every family has one list.
OneListEach(store) ==
    /\ \A l \in DOMAIN store.lists : store.lists[l] \in store.families
    /\ \A f \in store.families : \E l : ActiveLists(store, f) = {l}

\* A pending family is pending with its list, and a list with its family.
FamilyWithList(rows) ==
    \/ rows.families = {} /\ DOMAIN rows.lists = {}
    \/ \E f, l : rows.families = {f} /\ rows.lists = Row(l, f)

\* Pending families and lists have ids that nobody else has.
PendingIsNew ==
    \A w \in Workers :
        /\ pend[w].families \cap db.families = {}
        /\ DOMAIN pend[w].lists \cap DOMAIN db.lists = {}
        /\ \A v \in Workers \ {w} :
            /\ pend[v].families \cap pend[w].families = {}
            /\ DOMAIN pend[v].lists \cap DOMAIN pend[w].lists = {}

\* A session sees the family of every user that it sees.
UsersHaveFamilies ==
    /\ \A p \in DOMAIN db.users : db.users[p] \in db.families
    /\ \A w \in Workers : \A p \in DOMAIN pend[w].users :
        pend[w].users[p] \in db.families \cup pend[w].families

\* The statements a session has to execute before it has a family.
BeforeFamily == {"idle", "user", "family", "create"}

\* Before it has a family a session has flushed nothing; then it sees the family.
FamilyInHand ==
    \A w \in Workers :
        IF at[w] \in BeforeFamily THEN pend[w] = NoRows
                                  ELSE family[w] \in db.families \cup pend[w].families

\* SQLite lets one session write at a time.
OneWriter ==
    Backend = "sqlite" =>
        \A v, w \in Workers : v # w => pend[v] = NoRows \/ pend[w] = NoRows

\* The inductive invariant.
FamInv ==
    /\ OneListEach(db)
    /\ \A w \in Workers : FamilyWithList(pend[w])
    /\ PendingIsNew
    /\ UsersHaveFamilies
    /\ FamilyInHand
    /\ OneWriter

\* Initially there is no family, and nothing is pending.
LEMMA InitFam == Init => FamInv
  <1>. SUFFICES ASSUME Init PROVE FamInv
    OBVIOUS
  <1>1. \A w \in Workers : pend[w] = NoRows /\ at[w] = "idle"
    BY DEF Init
  <1>2. db.families = {} /\ DOMAIN db.lists = {} /\ DOMAIN db.users = {}
    BY DEF Init, EmptyStore
  <1>3. NoRows.families = {} /\ DOMAIN NoRows.lists = {} /\ DOMAIN NoRows.users = {}
    BY DEF NoRows
  <1> QED BY <1>1, <1>2, <1>3
          DEF FamInv, OneListEach, FamilyWithList, PendingIsNew, UsersHaveFamilies,
              FamilyInHand, BeforeFamily, OneWriter

\* A session sees one list for every family that it sees.
LEMMA ViewHasOneList ==
    ASSUME FamInv, NEW w \in Workers
    PROVE  OneListEach(View(w))
  <1>. DEFINE s == View(w)
              p == pend[w]
  <1>1. /\ s.families = db.families \cup p.families
        /\ s.lists = Overwrite(db.lists, p.lists)
    BY DEF View, Overlay
  <1>2. /\ p.families \cap db.families = {} /\ DOMAIN p.lists \cap DOMAIN db.lists = {}
        /\ OneListEach(db) /\ FamilyWithList(p)
    BY DEF FamInv, PendingIsNew
  <1>3. /\ DOMAIN s.lists = DOMAIN db.lists \cup DOMAIN p.lists
        /\ \A l \in DOMAIN db.lists : s.lists[l] = db.lists[l]
        /\ \A l \in DOMAIN p.lists : s.lists[l] = p.lists[l]
    BY <1>1, <1>2 DEF Overwrite
  <1>. HIDE DEF s, p
  <1>4. CASE p.families = {} /\ DOMAIN p.lists = {}
    <2>1. s.families = db.families /\ DOMAIN s.lists = DOMAIN db.lists
      BY <1>1, <1>3, <1>4
    <2>2. \A f : ActiveLists(s, f) = ActiveLists(db, f)
      BY <1>3, <2>1 DEF ActiveLists
    <2> QED BY <1>2, <1>3, <2>1, <2>2 DEF OneListEach, s
  <1>5. CASE \E f, l : p.families = {f} /\ p.lists = Row(l, f)
    <2>1. PICK f, l : p.families = {f} /\ p.lists = Row(l, f)
      BY <1>5
    <2>2. /\ DOMAIN p.lists = {l} /\ p.lists[l] = f
          /\ f \notin db.families /\ l \notin DOMAIN db.lists
      BY <1>2, <2>1 DEF Row
    <2>3. \A k \in DOMAIN db.lists : db.lists[k] \in db.families
      BY <1>2 DEF OneListEach
    <2>4. \A k \in DOMAIN s.lists : s.lists[k] \in s.families
      BY <1>1, <1>3, <2>1, <2>2, <2>3
    <2>5. ActiveLists(s, f) = {l}
      BY <1>3, <2>2, <2>3 DEF ActiveLists
    <2>6. \A g \in db.families : ActiveLists(s, g) = ActiveLists(db, g)
      BY <1>3, <2>2 DEF ActiveLists
    <2>7. \A g \in s.families : \E k : ActiveLists(s, g) = {k}
      BY <1>1, <1>2, <2>1, <2>5, <2>6 DEF OneListEach
    <2> QED BY <2>4, <2>7 DEF OneListEach, s
  <1> QED BY <1>2, <1>4, <1>5 DEF FamilyWithList

\* A statement that reads: the worker keeps or gets a family that it sees.
LEMMA ReadFam ==
    ASSUME TInv, FamInv, NEW w \in Workers, UNCHANGED <<db, pend>>,
           \A v \in Workers \ {w} : at'[v] = at[v] /\ family'[v] = family[v],
           IF at'[w] \in BeforeFamily THEN at[w] \in BeforeFamily
                                      ELSE family'[w] \in db.families \cup pend[w].families
    PROVE  FamInv'
  <1>1. FamilyInHand'
    BY DEF FamInv, FamilyInHand
  <1>2. OneListEach(db)' /\ PendingIsNew' /\ UsersHaveFamilies' /\ OneWriter'
    BY DEF FamInv, OneListEach, PendingIsNew, UsersHaveFamilies, OneWriter
  <1>3. \A v \in Workers : FamilyWithList(pend[v])'
    BY DEF FamInv
  <1> QED BY <1>1, <1>2, <1>3 DEF FamInv

\* get_active_list finds the list of the family and makes none.
LEMMA SelectListFinds ==
    ASSUME FamInv, NEW w \in Workers, SelectList(w)
    PROVE  /\ UNCHANGED <<pend, seq>>
           /\ \E l \in ActiveLists(View(w), family[w]) : active' = [active EXCEPT ![w] = l]
  <1>1. family[w] \in View(w).families
    <2>1. at[w] \notin BeforeFamily
      BY DEF SelectList, BeforeFamily
    <2> QED BY <2>1 DEF FamInv, FamilyInHand, View, Overlay
  <1>2. ActiveLists(View(w), family[w]) # {}
    BY <1>1, ViewHasOneList DEF OneListEach
  <1> QED BY <1>2 DEF SelectList

\* The reading statements, the decision and the messages keep the invariant.
LEMMA ReadsFam ==
    ASSUME TInv, FamInv, NEW w \in Workers,
           \/ TakeJob(w) \/ SelectUser(w) \/ SelectFamily(w) \/ SelectList(w)
           \/ Decide(w) \/ Say(w) \/ Follow(w) \/ Prompt(w)
    PROVE  FamInv'
  <1>1. /\ at \in [Workers -> Locations] /\ family \in [Workers -> Nat]
        /\ todo \in [Workers -> Todos]
    BY DEF TInv, TypeOK
  <1>2. ASSUME TakeJob(w) PROVE FamInv'
    <2>1. /\ UNCHANGED <<db, pend, family>> /\ at[w] = "idle" /\ at' = [at EXCEPT ![w] = "user"]
      BY <1>2 DEF TakeJob, Goto
    <2> QED BY <1>1, <2>1, ReadFam DEF BeforeFamily
  <1>3. ASSUME SelectUser(w) PROVE FamInv'
    <2>1. UNCHANGED <<db, pend>> /\ at[w] = "user"
      BY <1>3 DEF SelectUser
    <2>2. CASE job[w].phone \in DOMAIN db.users
      <3>1. /\ family' = [family EXCEPT ![w] = db.users[job[w].phone]]
            /\ at' = [at EXCEPT ![w] = "list"] \/ at' = [at EXCEPT ![w] = "decide"]
        BY <1>3, <2>2 DEF SelectUser, AfterUser, Goto
      <3>2. db.users[job[w].phone] \in db.families
        BY <2>2 DEF FamInv, UsersHaveFamilies
      <3>3. at'[w] \notin BeforeFamily
        BY <1>1, <3>1 DEF BeforeFamily
      <3>4. \A v \in Workers \ {w} : at'[v] = at[v] /\ family'[v] = family[v]
        BY <1>1, <3>1
      <3> QED BY <1>1, <2>1, <3>1, <3>2, <3>3, <3>4, ReadFam
    <2>3. CASE job[w].phone \notin DOMAIN db.users
      <3>1. family' = family /\ at' = [at EXCEPT ![w] = "family"]
        BY <1>3, <2>3 DEF SelectUser, Goto
      <3> QED BY <1>1, <2>1, <3>1, ReadFam DEF BeforeFamily
    <2> QED BY <2>2, <2>3
  <1>4. ASSUME SelectFamily(w) PROVE FamInv'
    <2>1. UNCHANGED <<db, pend>> /\ at[w] = "family"
      BY <1>4 DEF SelectFamily
    <2>2. CASE db.families # {}
      <3>1. PICK f \in db.families : family' = [family EXCEPT ![w] = f]
        BY <1>4, <2>2 DEF SelectFamily
      <3>2. at' = [at EXCEPT ![w] = "register"]
        BY <1>4, <2>2 DEF SelectFamily, Goto
      <3> QED BY <1>1, <2>1, <3>1, <3>2, ReadFam DEF BeforeFamily
    <2>3. CASE db.families = {}
      <3>1. family' = family /\ at' = [at EXCEPT ![w] = "create"]
        BY <1>4, <2>3 DEF SelectFamily, Goto
      <3> QED BY <1>1, <2>1, <3>1, ReadFam DEF BeforeFamily
    <2> QED BY <2>2, <2>3
  <1>5. ASSUME UNCHANGED <<db, pend, family>>, at[w] \notin BeforeFamily,
               NEW l, Goto(w, l), l \notin BeforeFamily
        PROVE  FamInv'
    <2>1. at' = [at EXCEPT ![w] = l]
      BY <1>5 DEF Goto
    <2>2. family[w] \in db.families \cup pend[w].families
      BY <1>5 DEF FamInv, FamilyInHand
    <2> QED BY <1>1, <1>5, <2>1, <2>2, ReadFam
  <1>6. ASSUME SelectList(w) PROVE FamInv'
    <2>1. UNCHANGED <<db, pend, family>> /\ at[w] = "list"
      BY <1>6, SelectListFinds DEF SelectList
    <2>2. Goto(w, "decide") \/ Goto(w, "follow")
      BY <1>6 DEF SelectList
    <2> QED BY <1>5, <2>1, <2>2 DEF BeforeFamily
  <1>7. ASSUME Decide(w) PROVE FamInv'
    <2>1. UNCHANGED <<db, pend, family>> /\ at[w] = "decide"
      BY <1>7 DEF Decide
    <2>. DEFINE t == Decision(View(w), active[w], job[w])
    <2>2. t \in Todos
      BY <2>1, ViewType, JobDecisionType DEF TInv, JobInHand
    <2>3. Goto(w, "write") \/ Goto(w, AfterWrite(t))
      BY <1>7 DEF Decide
    <2>4. AfterWrite(t) \notin BeforeFamily
      BY <2>2, AfterWriteType DEF BeforeFamily
    <2>. HIDE DEF t
    <2> QED BY <1>5, <2>1, <2>3, <2>4 DEF BeforeFamily
  <1>8. ASSUME Say(w) \/ Prompt(w) PROVE FamInv'
    <2>1. UNCHANGED <<db, pend, family>> /\ at[w] \in {"say", "prompt"}
      BY <1>8 DEF Say, Prompt
    <2>2. Goto(w, "commit") \/ Goto(w, "list")
      BY <1>8 DEF Say, Prompt
    <2> QED BY <1>5, <2>1, <2>2 DEF BeforeFamily
  <1>9. ASSUME Follow(w) PROVE FamInv'
    <2>1. UNCHANGED <<db, pend, family>> /\ at[w] = "follow"
      BY <1>9 DEF Follow
    <2>2. Goto(w, "commit") \/ Goto(w, "prompt") \/ Goto(w, "list")
      BY <1>9 DEF Follow, SendList, SendPicker, SendListInstead
    <2> QED BY <1>5, <2>1, <2>2 DEF BeforeFamily
  <1> QED BY <1>2, <1>3, <1>4, <1>6, <1>7, <1>8, <1>9

\* A statement that writes rows of users or items for a session with a family.
LEMMA WriteFam ==
    ASSUME TInv, FamInv, NEW w \in Workers, MayWrite(w),
           at[w] \notin BeforeFamily, UNCHANGED <<db, family>>,
           NEW l, l \notin BeforeFamily, at' = [at EXCEPT ![w] = l],
           NEW r, pend' = [pend EXCEPT ![w] = r],
           r.families = pend[w].families, r.lists = pend[w].lists,
           \A p \in DOMAIN r.users : r.users[p] \in db.families \cup pend[w].families
    PROVE  FamInv'
  <1>1. DOMAIN at = Workers /\ DOMAIN pend = Workers
    BY DEF TInv, TypeOK, PendShape
  <1>2. /\ pend'[w] = r /\ at'[w] = l
        /\ \A v \in Workers \ {w} : pend'[v] = pend[v] /\ at'[v] = at[v]
    BY <1>1
  <1>3. \A v \in Workers : pend'[v].families = pend[v].families /\ pend'[v].lists = pend[v].lists
    BY <1>2
  <1>4. OneListEach(db)'
    BY DEF FamInv, OneListEach
  <1>5. \A v \in Workers : FamilyWithList(pend[v])'
    BY <1>3 DEF FamInv, FamilyWithList
  <1>6. PendingIsNew'
    BY <1>3 DEF FamInv, PendingIsNew
  <1>7. UsersHaveFamilies'
    <2>1. ASSUME NEW v \in Workers, NEW p \in DOMAIN pend'[v].users
          PROVE  pend'[v].users[p] \in db.families \cup pend[v].families
      BY <1>2 DEF FamInv, UsersHaveFamilies
    <2> QED BY <1>3, <2>1 DEF FamInv, UsersHaveFamilies
  <1>8. FamilyInHand'
    BY <1>2, <1>3 DEF FamInv, FamilyInHand
  <1>9. OneWriter'
    BY <1>2 DEF FamInv, OneWriter, MayWrite
  <1> QED BY <1>4, <1>5, <1>6, <1>7, <1>8, <1>9 DEF FamInv

\* A new user gets the family in hand, and a flush has no row of a user.
LEMMA WritesFam ==
    ASSUME TInv, FamInv, NEW w \in Workers, InsertUser(w) \/ Flush(w)
    PROVE  FamInv'
  <1>. DEFINE p == pend[w]
  <1>1. /\ at[w] \notin BeforeFamily /\ MayWrite(w) /\ UNCHANGED <<db, family>>
    BY DEF InsertUser, Flush, BeforeFamily
  <1>2. family[w] \in db.families \cup pend[w].families
    BY <1>1 DEF FamInv, FamilyInHand
  <1>3. ASSUME InsertUser(w) PROVE FamInv'
    <2>. DEFINE u == Row(job[w].phone, family[w])
                r == [families |-> p.families, lists |-> p.lists, users |-> u,
                      items |-> p.items, gone |-> p.gone]
    <2>1. pend' = [pend EXCEPT ![w] = r]
      <3>1. p = [families |-> p.families, lists |-> p.lists, users |-> p.users,
                 items |-> p.items, gone |-> p.gone]
        BY DEF TInv, PendShape
      <3>2. [p EXCEPT !.users = u] = r
        BY <3>1
      <3>3. pend' = [pend EXCEPT ![w] = [p EXCEPT !.users = u]]
        BY <1>3 DEF InsertUser
      <3> QED BY <3>2, <3>3
    <2>2. \A x \in DOMAIN r.users : r.users[x] \in db.families \cup pend[w].families
      BY <1>2 DEF Row
    <2>3. /\ \E l : l \notin BeforeFamily /\ at' = [at EXCEPT ![w] = l]
          /\ r.families = pend[w].families /\ r.lists = pend[w].lists
      BY <1>3 DEF InsertUser, AfterUser, Goto, BeforeFamily
    <2>. HIDE DEF r, p
    <2> QED BY <1>1, <2>1, <2>2, <2>3, WriteFam
  <1>4. ASSUME Flush(w) PROVE FamInv'
    <2>. DEFINE r == [families |-> p.families, lists |-> p.lists, users |-> p.users,
                      items |-> FlushedRows(w), gone |-> DeletedItems(w)]
    <2>1. pend' = [pend EXCEPT ![w] = r] /\ at' = [at EXCEPT ![w] = AfterWrite(todo[w])]
      BY <1>4 DEF Flush, Goto
    <2>2. \A x \in DOMAIN r.users : r.users[x] \in db.families \cup pend[w].families
      BY DEF FamInv, UsersHaveFamilies
    <2>3. AfterWrite(todo[w]) \notin BeforeFamily
      BY AfterWriteType DEF BeforeFamily, TInv, TypeOK
    <2>4. r.families = pend[w].families /\ r.lists = pend[w].lists
      OBVIOUS
    <2>. HIDE DEF r, p
    <2> QED BY <1>1, <2>1, <2>2, <2>3, <2>4, WriteFam
  <1> QED BY <1>3, <1>4

\* The new family has its list, and both have ids that are new to everybody.
LEMMA InsertFamilyFam ==
    ASSUME TInv, FamInv, NEW w \in Workers, InsertFamily(w)
    PROVE  FamInv'
  <1>. DEFINE f == IdBase(db.families, seq.family) + 1
              l == IdBase(DOMAIN db.lists, seq.list) + 1
              p == pend[w]
              r == [families |-> {f}, lists |-> Row(l, f), users |-> p.users,
                    items |-> p.items, gone |-> p.gone]
  <1>1. /\ DOMAIN at = Workers /\ DOMAIN pend = Workers /\ DOMAIN family = Workers
        /\ db.families \in SUBSET Nat /\ DOMAIN db.lists \in SUBSET Nat /\ IdsDrawn(db)
        /\ seq.family \in Nat /\ seq.list \in Nat
        /\ \A v \in Workers : /\ pend[v].families \in SUBSET Nat
                              /\ DOMAIN pend[v].lists \in SUBSET Nat
                              /\ IdsDrawn(pend[v])
    BY DEF TInv, TypeOK, PendShape, IsStore, IsTable
  <1>2. p = NoRows /\ MayWrite(w)
    BY DEF InsertFamily, FamInv, FamilyInHand, BeforeFamily
  <1>3. f \notin db.families /\ l \notin DOMAIN db.lists
    <2>1. ASSUME NEW ids \in SUBSET Nat, NEW next \in Nat, \A i \in ids : i <= next
          PROVE  IdBase(ids, next) + 1 \notin ids
      <3>1. \A x \in ids : x <= IdBase(ids, next)
        BY <2>1, IdBaseAbove
      <3>2. IdBase(ids, next) \in Nat
        BY <2>1, IdBaseType
      <3> QED BY <3>1, <3>2
    <2> QED BY <1>1, <2>1 DEF IdsDrawn
  <1>4. \A v \in Workers \ {w} : f \notin pend[v].families /\ l \notin DOMAIN pend[v].lists
    <2>1. CASE Backend = "sqlite"
      BY <1>2, <2>1 DEF MayWrite, NoRows
    <2>2. CASE Backend # "sqlite"
      <3>1. f = seq.family + 1 /\ l = seq.list + 1
        BY <2>2 DEF IdBase
      <3> QED BY <1>1, <3>1 DEF IdsDrawn
    <2> QED BY <2>1, <2>2
  <1>5. /\ pend' = [pend EXCEPT ![w] = r] /\ family' = [family EXCEPT ![w] = f] /\ db' = db
        /\ at' = [at EXCEPT ![w] = "register"]
    BY DEF InsertFamily, Goto
  <1>. HIDE DEF f, l, p
  <1>6. /\ r.families = {f} /\ DOMAIN r.lists = {l} /\ r.lists = Row(l, f)
        /\ DOMAIN r.users = {}
    BY <1>2 DEF Row, NoRows
  <1>. HIDE DEF r
  <1>7. /\ pend'[w] = r /\ at'[w] = "register" /\ family'[w] = f
        /\ \A v \in Workers \ {w} : pend'[v] = pend[v] /\ at'[v] = at[v] /\ family'[v] = family[v]
    BY <1>1, <1>5
  <1>8. OneListEach(db)'
    BY <1>5 DEF FamInv, OneListEach
  <1>9. \A v \in Workers : FamilyWithList(pend'[v])
    BY <1>6, <1>7 DEF FamInv, FamilyWithList
  <1>10. PendingIsNew'
    <2>1. /\ pend'[w].families \cap db'.families = {}
          /\ DOMAIN pend'[w].lists \cap DOMAIN db'.lists = {}
      BY <1>3, <1>5, <1>6, <1>7
    <2>2. \A v \in Workers \ {w} : /\ pend'[v].families \cap pend'[w].families = {}
                                   /\ DOMAIN pend'[v].lists \cap DOMAIN pend'[w].lists = {}
      BY <1>4, <1>6, <1>7
    <2> QED BY <1>5, <1>7, <2>1, <2>2 DEF FamInv, PendingIsNew
  <1>11. UsersHaveFamilies'
    BY <1>5, <1>6, <1>7 DEF FamInv, UsersHaveFamilies
  <1>12. FamilyInHand'
    BY <1>5, <1>6, <1>7 DEF FamInv, FamilyInHand, BeforeFamily
  <1>13. OneWriter'
    BY <1>2, <1>7 DEF FamInv, OneWriter, MayWrite
  <1> QED BY <1>8, <1>9, <1>10, <1>11, <1>12, <1>13 DEF FamInv

\* A session that ends has no rows pending, and the others keep theirs.
LEMMA EndJobPend ==
    ASSUME TInv, NEW w \in Workers, EndJob(w)
    PROVE  /\ pend'[w] = NoRows /\ at'[w] = "idle"
           /\ \A v \in Workers \ {w} :
                pend'[v] = pend[v] /\ at'[v] = at[v] /\ family'[v] = family[v]
  BY DEF EndJob, Goto, TInv, TypeOK, PendShape

\* A rollback forgets a family together with its list and its users.
LEMMA RollbackFam ==
    ASSUME TInv, FamInv, NEW w \in Workers, Rollback(w)
    PROVE  FamInv'
  <1>1. /\ db' = db /\ pend'[w] = NoRows /\ at'[w] = "idle"
        /\ \A v \in Workers \ {w} :
                pend'[v] = pend[v] /\ at'[v] = at[v] /\ family'[v] = family[v]
    BY EndJobPend DEF Rollback
  <1>2. /\ NoRows.families = {} /\ DOMAIN NoRows.lists = {} /\ DOMAIN NoRows.users = {}
    BY DEF NoRows
  <1>3. OneListEach(db')
    BY <1>1 DEF FamInv
  <1>4. \A v \in Workers : FamilyWithList(pend'[v])
    BY <1>1, <1>2 DEF FamInv, FamilyWithList
  <1>5. PendingIsNew'
    BY <1>1, <1>2 DEF FamInv, PendingIsNew
  <1>6. UsersHaveFamilies'
    BY <1>1, <1>2 DEF FamInv, UsersHaveFamilies
  <1>7. FamilyInHand' /\ OneWriter'
    BY <1>1 DEF FamInv, FamilyInHand, BeforeFamily, OneWriter
  <1> QED BY <1>3, <1>4, <1>5, <1>6, <1>7 DEF FamInv

\* A commit stores a family together with its list.
LEMMA CommitFam ==
    ASSUME TInv, FamInv, NEW w \in Workers, Commit(w)
    PROVE  FamInv'
  <1>1. /\ db' = View(w) /\ pend'[w] = NoRows /\ at'[w] = "idle"
        /\ \A v \in Workers \ {w} :
                pend'[v] = pend[v] /\ at'[v] = at[v] /\ family'[v] = family[v]
    BY EndJobPend DEF Commit, View
  <1>2. /\ NoRows.families = {} /\ DOMAIN NoRows.lists = {} /\ DOMAIN NoRows.users = {}
    BY DEF NoRows
  <1>3. /\ db'.families = db.families \cup pend[w].families
        /\ DOMAIN db'.lists = DOMAIN db.lists \cup DOMAIN pend[w].lists
    BY <1>1 DEF View, Overlay, Overwrite
  <1>4. OneListEach(db')
    BY <1>1, ViewHasOneList
  <1>5. \A v \in Workers : FamilyWithList(pend'[v])
    BY <1>1, <1>2 DEF FamInv, FamilyWithList
  <1>6. PendingIsNew'
    <2>1. ASSUME NEW v \in Workers
          PROVE  /\ pend'[v].families \cap db'.families = {}
                 /\ DOMAIN pend'[v].lists \cap DOMAIN db'.lists = {}
      BY <1>1, <1>2, <1>3 DEF FamInv, PendingIsNew
    <2>2. ASSUME NEW v \in Workers, NEW u \in Workers \ {v}
          PROVE  /\ pend'[u].families \cap pend'[v].families = {}
                 /\ DOMAIN pend'[u].lists \cap DOMAIN pend'[v].lists = {}
      BY <1>1, <1>2 DEF FamInv, PendingIsNew
    <2> QED BY <2>1, <2>2 DEF PendingIsNew
  <1>7. UsersHaveFamilies'
    <2>1. \A x \in DOMAIN db'.users : db'.users[x] \in db'.families
      <3>1. db'.users = Overwrite(db.users, pend[w].users)
        BY <1>1 DEF View, Overlay
      <3> QED BY <1>3, <3>1 DEF FamInv, UsersHaveFamilies, Overwrite
    <2>2. ASSUME NEW v \in Workers, NEW x \in DOMAIN pend'[v].users
          PROVE  pend'[v].users[x] \in db'.families \cup pend'[v].families
      BY <1>1, <1>2, <1>3 DEF FamInv, UsersHaveFamilies
    <2> QED BY <2>1, <2>2 DEF UsersHaveFamilies
  <1>8. FamilyInHand' /\ OneWriter'
    BY <1>1, <1>3 DEF FamInv, FamilyInHand, BeforeFamily, OneWriter
  <1> QED BY <1>4, <1>5, <1>6, <1>7, <1>8 DEF FamInv

\* FamInv is inductive, given that the store is well-typed.
LEMMA NextFam ==
    ASSUME TInv, FamInv, [Next]_vars
    PROVE  FamInv'
  <1>1. CASE UNCHANGED vars
    <2>1. UNCHANGED <<db, pend, at, family>>
      BY <1>1 DEF vars
    <2> QED BY <2>1 DEF FamInv, OneListEach, PendingIsNew, UsersHaveFamilies, FamilyInHand,
                        OneWriter
  <1>2. CASE Next
    <2>1. PICK w \in Workers : TakeJob(w) \/ Statement(w) \/ Fail(w)
      BY <1>2 DEF Next
    <2>2. CASE InsertUserConflict(w) \/ FlushStale(w) \/ Fail(w)
      BY <2>2, RollbackFam DEF InsertUserConflict, FlushStale, Fail
    <2> QED BY <2>1, <2>2, ReadsFam, WritesFam, InsertFamilyFam, CommitFam DEF Statement
  <1> QED BY <1>1, <1>2

\* FamilyHasOneList: however sessions that register users, make families and fail
\* overlap, get_active_list has one list to find, on either database.
THEOREM OneListPerFamily == Spec => []FamilyHasOneList
  <1>1. Init => TInv /\ FamInv
    BY InitTInv, InitFam
  <1>2. TInv /\ FamInv /\ [Next]_vars => (TInv /\ FamInv)'
    BY NextTInv, NextFam
  <1>3. FamInv => FamilyHasOneList
    BY FS_Singleton DEF FamInv, OneListEach, FamilyHasOneList
  <1> QED BY <1>1, <1>2, <1>3, PTL DEF Spec

-----------------------------------------------------------------------------
(* The last message of a turn.                                             *)

\* The inductive invariant: the last message carries buttons, or one that does is
\* still to come.
TurnInv ==
    \A w \in Workers :
        /\ at[w] \in {"write", "say"} => EndsWithButtons(todo[w], job[w])
        /\ at[w] \in {"prompt", "commit"} =>
            (job[w].action # "cmd:none" => last[w] = "interactive")

\* Initially all workers are idle.
LEMMA InitTurn == Init => TurnInv
  BY DEF Init, TurnInv

\* A step of w keeps the invariant when it keeps what it says of w.
LEMMA StepTurn ==
    ASSUME TInv, TurnInv, NEW w \in Workers, TakeJob(w) \/ Statement(w) \/ Fail(w)
    PROVE  TurnInv'
  <1>1. /\ DOMAIN at = Workers /\ DOMAIN job = Workers /\ DOMAIN todo = Workers
        /\ DOMAIN last = Workers /\ todo[w] \in Todos
    BY DEF TInv, TypeOK
  <1>2. \A v \in Workers \ {w} :
            at'[v] = at[v] /\ job'[v] = job[v] /\ todo'[v] = todo[v] /\ last'[v] = last[v]
    <2>1. CASE TakeJob(w) \/ SelectUser(w) \/ SelectFamily(w) \/ InsertFamily(w)
               \/ InsertUser(w) \/ SelectList(w)
      BY <1>1, <2>1 DEF TakeJob, SelectUser, SelectFamily, InsertFamily, InsertUser,
                        SelectList, Goto, sentVars
    <2>2. CASE Decide(w) \/ Flush(w) \/ Say(w) \/ Prompt(w)
      BY <1>1, <2>2 DEF Decide, Flush, Say, Prompt, Sent, Goto, sentVars
    <2>3. CASE Follow(w)
      BY <1>1, <2>3 DEF Follow, SendList, SendPicker, SendListInstead, Sent, Goto, sentVars
    <2>4. CASE InsertUserConflict(w) \/ FlushStale(w) \/ Commit(w) \/ Fail(w)
      BY <1>1, <2>4 DEF InsertUserConflict, FlushStale, Commit, Fail, Rollback, EndJob, Goto
    <2> QED BY <2>1, <2>2, <2>3, <2>4 DEF Statement
  <1>. DEFINE Turn == /\ at[w] \in {"write", "say"} => EndsWithButtons(todo[w], job[w])
                      /\ at[w] \in {"prompt", "commit"} =>
                            (job[w].action # "cmd:none" => last[w] = "interactive")
  <1>3. SUFFICES Turn'
    BY <1>2, <1>3 DEF TurnInv
  <1>4. Turn
    BY DEF TurnInv
  <1>5. CASE TakeJob(w) \/ SelectUser(w) \/ SelectFamily(w) \/ InsertFamily(w)
             \/ InsertUser(w) \/ SelectList(w)
    <2>1. at'[w] \in {"user", "family", "create", "register", "list", "decide", "follow"}
      BY <1>1, <1>5 DEF TakeJob, SelectUser, SelectFamily, InsertFamily, InsertUser,
                        SelectList, Goto, AfterUser
    <2> QED BY <2>1
  <1>6. CASE Decide(w)
    <2>. DEFINE t == Decision(View(w), active[w], job[w])
    <2>1. /\ todo'[w] = t /\ job' = job
          /\ at'[w] = "write" \/ at'[w] = AfterWrite(t)
      BY <1>1, <1>6 DEF Decide, Goto
    <2>2. job[w] \in Jobs
      BY <1>6 DEF Decide, TInv, JobInHand
    <2>3. t \in Todos /\ EndsWithButtons(t, job[w])
      BY <2>2, ViewType, JobDecisionType, JobAsks, DecisionAnswers
    <2>. HIDE DEF t
    <2>4. AfterWrite(t) \in {"prompt", "commit"} => t.text = "none" /\ t.follow = "none"
      BY <2>3, AfterWriteType DEF AfterWrite, Todos
    <2> QED BY <2>1, <2>3, <2>4 DEF EndsWithButtons
  <1>7. CASE Flush(w)
    <2>1. /\ at[w] = "write" /\ at'[w] = AfterWrite(todo[w])
          /\ todo' = todo /\ job' = job
      BY <1>1, <1>7 DEF Flush, Goto
    <2>2. /\ AfterWrite(todo[w]) # "write"
          /\ AfterWrite(todo[w]) \in {"prompt", "commit"} =>
                todo[w].text = "none" /\ todo[w].follow = "none"
      BY <1>1, AfterWriteType DEF AfterWrite, Todos
    <2> QED BY <1>4, <2>1, <2>2 DEF EndsWithButtons
  <1>8. CASE Say(w)
    <2>1. /\ at[w] = "say" /\ UNCHANGED <<todo, job>>
          /\ at'[w] = IF todo[w].follow = "none" THEN "commit" ELSE "list"
          /\ last'[w] = IF todo[w].text = "final" THEN "interactive" ELSE "plain"
      BY <1>1, <1>8 DEF Say, Sent, Goto
    <2> QED BY <1>4, <2>1 DEF EndsWithButtons
  <1>9. CASE Follow(w) \/ Prompt(w)
    <2>1. \/ at'[w] \in {"prompt", "commit"} /\ last'[w] = "interactive"
          \/ at'[w] = "list"
      BY <1>1, <1>9 DEF Follow, Prompt, SendList, SendPicker, SendListInstead, Sent, Goto
    <2> QED BY <2>1
  <1>10. CASE InsertUserConflict(w) \/ FlushStale(w) \/ Commit(w) \/ Fail(w)
    <2>1. at'[w] = "idle"
      BY <1>1, <1>10 DEF InsertUserConflict, FlushStale, Commit, Fail, Rollback, EndJob, Goto
    <2> QED BY <2>1
  <1> QED BY <1>5, <1>6, <1>7, <1>8, <1>9, <1>10 DEF Statement

\* TurnEndsInteractive: whatever the job decides, and whatever a picker or a list
\* turns out to hold when it is sent, the last message of a turn has buttons.
THEOREM TurnsEndInteractive == Spec => TurnEndsInteractive
  <1>1. Init => TInv /\ TurnInv
    BY InitTInv, InitTurn
  <1>2. TInv /\ TurnInv /\ [Next]_vars => (TInv /\ TurnInv)'
    <2>. SUFFICES ASSUME TInv, TurnInv, [Next]_vars PROVE TurnInv'
      BY NextTInv
    <2>1. CASE UNCHANGED vars
      BY <2>1 DEF vars, TurnInv
    <2>2. CASE Next
      BY <2>2, StepTurn DEF Next
    <2> QED BY <2>1, <2>2
  <1>. DEFINE Ends == \A w \in Workers : Commit(w) /\ job[w].action # "cmd:none" =>
                        last[w] = "interactive"
  <1>3. TInv /\ TurnInv => [Ends]_vars
    BY DEF TurnInv, Commit
  <1> QED BY <1>1, <1>2, <1>3, PTL DEF Spec, TurnEndsInteractive

-----------------------------------------------------------------------------
(* What overlapping sessions on Postgres do to the history of purchases:   *)
(* what is bought stays bought, what is cleared stays cleared and was      *)
(* bought.                                                                 *)

\* A session that has not come to its flush.
BeforeFlush(w) ==
    \/ at[w] \in {"idle", "user", "family", "create", "register", "decide", "write"}
    \/ at[w] = "list" /\ todo[w].follow = "none"

\* The items of which w has a pending row.
Pending(w) == DOMAIN pend[w].items

\* Rows are pending in one session only, and none before its flush.
PendingApart ==
    /\ \A w \in Workers : BeforeFlush(w) => Pending(w) = {}
    /\ \A v, w \in Workers : v # w => Pending(v) \cap Pending(w) = {}

\* A pending row that is needed is a new one: its id is neither committed nor
\* known to anybody who clears items.
NeededIsNew ==
    \A v \in Workers : \A i \in Pending(v) :
        pend[v].items[i].status = "NEEDED" =>
            /\ i \notin DOMAIN db.items
            /\ \A w \in Workers : i \notin todo[w].clr

\* Whoever clears an item has seen it bought, and it still is.
ClearsBought ==
    \A w \in Workers : \A i \in todo[w].clr :
        /\ i <= seq.item
        /\ i \in DOMAIN db.items => db.items[i].status = "BOUGHT"

\* A pending row has kept the flag of the committed one.
KeepsCleared ==
    \A w \in Workers : \A i \in Pending(w) \cap DOMAIN db.items :
        db.items[i].cleared => pend[w].items[i].cleared

\* Pending rows, too, are cleared only when they are bought.
PendingClearedIsBought ==
    \A w \in Workers : \A i \in Pending(w) :
        pend[w].items[i].cleared => pend[w].items[i].status = "BOUGHT"

\* The inductive invariant.
HistoryInv ==
    /\ PendingApart
    /\ NeededIsNew
    /\ ClearsBought
    /\ KeepsCleared
    /\ PendingClearedIsBought
    /\ OnlyBoughtIsCleared

\* Initially nothing is stored, pending or decided.
LEMMA InitHistory == Init => HistoryInv
  <1>. SUFFICES ASSUME Init PROVE HistoryInv
    OBVIOUS
  <1>1. /\ DOMAIN db.items = {}
        /\ \A w \in Workers : Pending(w) = {} /\ todo[w].clr = {}
    BY DEF Init, EmptyStore, Pending, NoRows, NoTodo, Answer
  <1> QED BY <1>1 DEF HistoryInv, PendingApart, NeededIsNew, ClearsBought, KeepsCleared,
                      PendingClearedIsBought, OnlyBoughtIsCleared

-----------------------------------------------------------------------------
(* Steps that leave rows, pending rows and decisions to clear alone.       *)

\* Such a step, in which no session goes back before its flush.
LeavesAlone ==
    /\ db' = db /\ seq'.item = seq.item
    /\ \A v \in Workers : /\ pend'[v].items = pend[v].items
                          /\ pend'[v].gone = pend[v].gone
                          /\ todo'[v].clr = todo[v].clr
    /\ \A v \in Workers : BeforeFlush(v)' => BeforeFlush(v)

\* It keeps the invariant.
LEMMA QuietHistory ==
    ASSUME HistoryInv, LeavesAlone
    PROVE  HistoryInv'
  <1>. USE DEF LeavesAlone
  <1>1. \A v \in Workers : Pending(v)' = Pending(v)
    BY DEF Pending
  <1>2. PendingApart'
    BY <1>1 DEF HistoryInv, PendingApart
  <1>3. NeededIsNew'
    BY <1>1 DEF HistoryInv, NeededIsNew
  <1>4. ClearsBought'
    BY DEF HistoryInv, ClearsBought
  <1>5. KeepsCleared'
    BY <1>1 DEF HistoryInv, KeepsCleared
  <1>6. PendingClearedIsBought'
    BY <1>1 DEF HistoryInv, PendingClearedIsBought
  <1>7. OnlyBoughtIsCleared'
    BY DEF HistoryInv, OnlyBoughtIsCleared
  <1> QED BY <1>2, <1>3, <1>4, <1>5, <1>6, <1>7 DEF HistoryInv

\* What the statements before the decision and the messages leave alone.
LEMMA QuietEffect ==
    ASSUME TInv, NEW w \in Workers,
           \/ TakeJob(w) \/ SelectUser(w) \/ SelectFamily(w) \/ InsertFamily(w)
           \/ InsertUser(w) \/ SelectList(w) \/ Say(w) \/ Follow(w) \/ Prompt(w)
    PROVE  LeavesAlone /\ at'[w] # "write"
  <1>1. /\ at \in [Workers -> Locations] /\ todo \in [Workers -> Todos]
        /\ seq \in [family : Nat, list : Nat, item : Nat] /\ DOMAIN pend = Workers
    BY DEF TInv, TypeOK, PendShape
  <1>2. ASSUME BeforeFlush(w), \A v \in Workers \ {w} : at'[v] = at[v], UNCHANGED todo
        PROVE  \A v \in Workers : BeforeFlush(v)' => BeforeFlush(v)
    BY <1>2 DEF BeforeFlush
  <1>. USE DEF LeavesAlone
  <1>3. ASSUME TakeJob(w) \/ SelectUser(w) \/ SelectFamily(w)
        PROVE  LeavesAlone
    <2>1. UNCHANGED <<db, seq, pend, todo>> /\ BeforeFlush(w)
      BY <1>3 DEF TakeJob, SelectUser, SelectFamily, BeforeFlush
    <2>2. \A v \in Workers \ {w} : at'[v] = at[v]
      BY <1>1, <1>3 DEF TakeJob, SelectUser, SelectFamily, Goto
    <2> QED BY <1>2, <2>1, <2>2
  <1>4. ASSUME InsertFamily(w)
        PROVE  LeavesAlone
    <2>1. UNCHANGED <<db, todo>> /\ BeforeFlush(w) /\ seq'.item = seq.item
      BY <1>4 DEF InsertFamily, BeforeFlush
    <2>2. \A v \in Workers \ {w} : at'[v] = at[v]
      BY <1>1, <1>4 DEF InsertFamily, Goto
    <2>3. \A v \in Workers : pend'[v].items = pend[v].items /\ pend'[v].gone = pend[v].gone
      BY <1>1, <1>4 DEF InsertFamily
    <2> QED BY <1>2, <2>1, <2>2, <2>3
  <1>5. ASSUME InsertUser(w)
        PROVE  LeavesAlone
    <2>1. UNCHANGED <<db, seq, todo>> /\ BeforeFlush(w)
      BY <1>5 DEF InsertUser, BeforeFlush
    <2>2. \A v \in Workers \ {w} : at'[v] = at[v]
      BY <1>1, <1>5 DEF InsertUser, Goto
    <2>3. \A v \in Workers : pend'[v].items = pend[v].items /\ pend'[v].gone = pend[v].gone
      <3>1. \E u : pend' = [pend EXCEPT ![w] = [pend[w] EXCEPT !.users = u]]
        BY <1>5 DEF InsertUser
      <3>2. PICK u : pend' = [pend EXCEPT ![w] = [pend[w] EXCEPT !.users = u]]
        BY <3>1
      <3>3. /\ [pend[w] EXCEPT !.users = u].items = pend[w].items
            /\ [pend[w] EXCEPT !.users = u].gone = pend[w].gone
        <4>1. pend[w] = [families |-> pend[w].families, lists |-> pend[w].lists,
                         users |-> pend[w].users, items |-> pend[w].items,
                         gone |-> pend[w].gone]
          BY DEF TInv, PendShape
        <4> QED BY <4>1
      <3> QED BY <1>1, <3>2, <3>3
    <2> QED BY <1>2, <2>1, <2>2, <2>3
  <1>6. ASSUME SelectList(w)
        PROVE  LeavesAlone
    <2>1. /\ UNCHANGED <<db, todo>> /\ seq'.item = seq.item /\ at[w] = "list"
          /\ at' = [at EXCEPT ![w] = IF todo[w].follow = "none" THEN "decide" ELSE "follow"]
      BY <1>1, <1>6 DEF SelectList, Goto
    <2>2. \A v \in Workers : BeforeFlush(v)' => BeforeFlush(v)
      BY <1>1, <2>1 DEF BeforeFlush
    <2>3. \A v \in Workers : pend'[v].items = pend[v].items /\ pend'[v].gone = pend[v].gone
      <3>1. CASE pend' = pend
        BY <3>1
      <3>2. ASSUME NEW ls, pend' = [pend EXCEPT ![w] = [pend[w] EXCEPT !.lists = ls]]
            PROVE  \A v \in Workers : pend'[v].items = pend[v].items /\ pend'[v].gone = pend[v].gone
        <4>1. pend[w] = [families |-> pend[w].families, lists |-> pend[w].lists,
                         users |-> pend[w].users, items |-> pend[w].items,
                         gone |-> pend[w].gone]
          BY DEF TInv, PendShape
        <4>2. /\ [pend[w] EXCEPT !.lists = ls].items = pend[w].items
              /\ [pend[w] EXCEPT !.lists = ls].gone = pend[w].gone
          BY <4>1
        <4> QED BY <1>1, <3>2, <4>2
      <3>3. \/ pend' = pend
            \/ \E ls : pend' = [pend EXCEPT ![w] = [pend[w] EXCEPT !.lists = ls]]
        BY <1>6 DEF SelectList
      <3> QED BY <3>1, <3>2, <3>3
    <2> QED BY <2>1, <2>2, <2>3
  <1>7. ASSUME Say(w) \/ Prompt(w)
        PROVE  LeavesAlone
    <2>1. UNCHANGED <<db, seq, pend, todo>>
      BY <1>7 DEF Say, Prompt
    <2>2. /\ at' = [at EXCEPT ![w] = "commit"] \/ at' = [at EXCEPT ![w] = "list"]
          /\ at'[w] = "list" => todo'[w].follow # "none"
      BY <1>1, <1>7 DEF Say, Prompt, Goto
    <2>3. \A v \in Workers : BeforeFlush(v)' => BeforeFlush(v)
      BY <1>1, <2>1, <2>2 DEF BeforeFlush
    <2> QED BY <2>1, <2>3
  <1>8. ASSUME Follow(w)
        PROVE  LeavesAlone
    <2>1. UNCHANGED <<db, seq, pend>>
      BY <1>8 DEF Follow
    <2>2. CASE UNCHANGED todo /\ (SendList(w) \/ SendPicker(w))
      <3>1. at' = [at EXCEPT ![w] = "commit"] \/ at' = [at EXCEPT ![w] = "prompt"]
        BY <2>2 DEF SendList, SendPicker, Goto
      <3>2. \A v \in Workers : BeforeFlush(v)' => BeforeFlush(v)
        BY <1>1, <2>2, <3>1 DEF BeforeFlush
      <3> QED BY <2>1, <2>2, <3>2
    <2>3. CASE SendListInstead(w)
      <3>1. /\ at' = [at EXCEPT ![w] = "list"]
            /\ todo' = [todo EXCEPT ![w].follow = "list"]
        BY <2>3 DEF SendListInstead, Goto
      <3>2. \A v \in Workers : BeforeFlush(v)' => BeforeFlush(v)
        BY <1>1, <3>1 DEF BeforeFlush, Todos
      <3>3. \A v \in Workers : todo'[v].clr = todo[v].clr
        BY <1>1, <3>1 DEF Todos
      <3> QED BY <2>1, <3>2, <3>3
    <2> QED BY <1>8, <2>2, <2>3 DEF Follow
  <1>9. at'[w] # "write"
    BY <1>1 DEF TakeJob, SelectUser, SelectFamily, InsertFamily, InsertUser, SelectList, Say,
         Follow, SendList, SendPicker, SendListInstead, Prompt, Goto, AfterUser
  <1>. HIDE DEF LeavesAlone
  <1> QED BY <1>3, <1>4, <1>5, <1>6, <1>7, <1>8, <1>9

\* They keep the invariant.
LEMMA QuietStep ==
    ASSUME TInv, HistoryInv, NEW w \in Workers,
           \/ TakeJob(w) \/ SelectUser(w) \/ SelectFamily(w) \/ InsertFamily(w)
           \/ InsertUser(w) \/ SelectList(w) \/ Say(w) \/ Follow(w) \/ Prompt(w)
    PROVE  HistoryInv'
  BY QuietEffect, QuietHistory

-----------------------------------------------------------------------------
(* The end of a session.                                                   *)

\* A session that ends has nothing pending and nothing decided any more.
LEMMA EndJobClears ==
    ASSUME TInv, NEW w \in Workers, EndJob(w)
    PROVE  /\ Pending(w)' = {} /\ todo'[w].clr = {}
           /\ \A v \in Workers \ {w} :
                /\ Pending(v)' = Pending(v) /\ pend'[v] = pend[v] /\ todo'[v] = todo[v]
                /\ BeforeFlush(v)' => BeforeFlush(v)
  <1>1. /\ at' = [at EXCEPT ![w] = "idle"]
        /\ pend' = [pend EXCEPT ![w] = NoRows]
        /\ todo' = [todo EXCEPT ![w] = NoTodo]
    BY DEF EndJob, Goto
  <1>2. DOMAIN at = Workers /\ DOMAIN todo = Workers /\ DOMAIN pend = Workers
    BY DEF TInv, TypeOK, PendShape
  <1>3. pend'[w] = NoRows /\ todo'[w] = NoTodo
    BY <1>1, <1>2
  <1>4. \A v \in Workers \ {w} : pend'[v] = pend[v] /\ todo'[v] = todo[v] /\ at'[v] = at[v]
    BY <1>1, <1>2
  <1> QED BY <1>3, <1>4 DEF Pending, NoRows, NoTodo, Answer, BeforeFlush

\* A rollback changes no row and frees what was pending.
LEMMA RollbackHistory ==
    ASSUME TInv, HistoryInv, NEW w \in Workers, Rollback(w), UNCHANGED seq
    PROVE  HistoryInv'
  <1>1. db' = db /\ EndJob(w)
    BY DEF Rollback
  <1>2. PendingApart'
    BY <1>1, EndJobClears DEF HistoryInv, PendingApart
  <1>3. NeededIsNew'
    BY <1>1, EndJobClears DEF HistoryInv, NeededIsNew
  <1>4. ClearsBought'
    BY <1>1, EndJobClears DEF HistoryInv, ClearsBought
  <1>5. KeepsCleared'
    BY <1>1, EndJobClears DEF HistoryInv, KeepsCleared
  <1>6. PendingClearedIsBought'
    BY <1>1, EndJobClears DEF HistoryInv, PendingClearedIsBought
  <1>7. OnlyBoughtIsCleared'
    BY <1>1 DEF HistoryInv, OnlyBoughtIsCleared
  <1> QED BY <1>2, <1>3, <1>4, <1>5, <1>6, <1>7 DEF HistoryInv

\* A statement reads its own pending row of an item, or the committed one.
LEMMA ViewItems ==
    ASSUME NEW w \in Workers, NEW i \in DOMAIN View(w).items
    PROVE  \/ i \in Pending(w) /\ View(w).items[i] = pend[w].items[i]
           \/ i \in DOMAIN db.items \ Pending(w) /\ View(w).items[i] = db.items[i]
  BY DEF View, Overlay, Restrict, Overwrite, Pending

\* A commit makes bought what is no longer needed, keeps the flags, and adds
\* needed items under new ids only.
LEMMA CommitKeeps ==
    ASSUME TInv, HistoryInv, NEW w \in Workers, Commit(w),
           NEW i \in DOMAIN db.items, i \in DOMAIN db'.items
    PROVE  /\ db.items[i].status = "BOUGHT" => db'.items[i].status = "BOUGHT"
           /\ db.items[i].cleared => db'.items[i].cleared
  <1>1. db' = View(w)
    BY DEF Commit, View
  <1>2. CASE i \in Pending(w) /\ View(w).items[i] = pend[w].items[i]
    <2>1. pend[w].items[i].status = "BOUGHT"
      <3>1. pend[w].items[i] \in Rows
        BY <1>2 DEF TInv, TypeOK, IsStore, IsTable, Pending
      <3> QED BY <3>1, <1>2 DEF HistoryInv, NeededIsNew, Rows, Statuses
    <2> QED BY <1>1, <1>2, <2>1 DEF HistoryInv, KeepsCleared
  <1>3. CASE View(w).items[i] = db.items[i]
    BY <1>1, <1>3
  <1> QED BY <1>1, <1>2, <1>3, ViewItems

\* A commit moves rows that meet nobody else's rows or decisions.
LEMMA CommitHistory ==
    ASSUME TInv, HistoryInv, NEW w \in Workers, Commit(w)
    PROVE  HistoryInv'
  <1>1. db' = View(w) /\ EndJob(w) /\ UNCHANGED seq
    BY DEF Commit, View
  <1>2. DOMAIN db'.items \subseteq DOMAIN db.items \cup Pending(w)
    BY <1>1, ViewItems
  <1>3. PendingApart'
    BY <1>1, EndJobClears DEF HistoryInv, PendingApart
  <1>4. NeededIsNew'
    <2>1. ASSUME NEW v \in Workers \ {w}, NEW i \in Pending(v),
                 pend[v].items[i].status = "NEEDED"
          PROVE  i \notin DOMAIN db'.items /\ \A u \in Workers : i \notin todo'[u].clr
      <3>1. i \notin Pending(w)
        BY DEF HistoryInv, PendingApart
      <3>2. i \notin DOMAIN db.items /\ \A u \in Workers : i \notin todo[u].clr
        BY <2>1 DEF HistoryInv, NeededIsNew
      <3> QED BY <1>1, <1>2, <3>1, <3>2, EndJobClears
    <2> QED BY <1>1, <2>1, EndJobClears DEF NeededIsNew
  <1>5. ClearsBought'
    <2>1. ASSUME NEW v \in Workers \ {w}, NEW i \in todo[v].clr
          PROVE  i <= seq.item /\ (i \in DOMAIN db'.items => db'.items[i].status = "BOUGHT")
      <3>1. i <= seq.item /\ (i \in DOMAIN db.items => db.items[i].status = "BOUGHT")
        BY DEF HistoryInv, ClearsBought
      <3>2. i \in Pending(w) => pend[w].items[i].status = "BOUGHT"
        BY DEF HistoryInv, NeededIsNew, TInv, TypeOK, IsStore, IsTable, Pending, Rows, Statuses
      <3> QED BY <1>1, <3>1, <3>2, ViewItems
    <2> QED BY <1>1, <2>1, EndJobClears DEF ClearsBought
  <1>6. KeepsCleared'
    <2>1. ASSUME NEW v \in Workers \ {w}, NEW i \in Pending(v), i \in DOMAIN db'.items,
                 db'.items[i].cleared
          PROVE  pend[v].items[i].cleared
      <3>1. i \notin Pending(w)
        BY DEF HistoryInv, PendingApart
      <3>2. i \in DOMAIN db.items /\ db'.items[i] = db.items[i]
        BY <1>1, <2>1, <3>1, ViewItems
      <3> QED BY <2>1, <3>2 DEF HistoryInv, KeepsCleared
    <2> QED BY <1>1, <2>1, EndJobClears DEF KeepsCleared
  <1>7. PendingClearedIsBought'
    BY <1>1, EndJobClears DEF HistoryInv, PendingClearedIsBought
  <1>8. OnlyBoughtIsCleared'
    <2>1. ASSUME NEW i \in DOMAIN View(w).items, View(w).items[i].cleared
          PROVE  View(w).items[i].status = "BOUGHT"
      BY <2>1, ViewItems DEF HistoryInv, PendingClearedIsBought, OnlyBoughtIsCleared
    <2> QED BY <1>1, <2>1 DEF OnlyBoughtIsCleared
  <1> QED BY <1>3, <1>4, <1>5, <1>6, <1>7, <1>8 DEF HistoryInv

-----------------------------------------------------------------------------
(* The decision and the flush.                                             *)

\* Before its flush a session sees committed items only, so those it decides to
\* clear are bought.
LEMMA DecideHistory ==
    ASSUME TInv, HistoryInv, NEW w \in Workers, Decide(w)
    PROVE  HistoryInv'
  <1>. DEFINE t == Decision(View(w), active[w], job[w])
  <1>1. /\ at \in [Workers -> Locations] /\ todo \in [Workers -> Todos]
        /\ DOMAIN db.items \in SUBSET Nat /\ IdsDrawn(db)
    BY DEF TInv, TypeOK, IsStore, IsTable
  <1>2. /\ UNCHANGED <<db, seq, pend>> /\ BeforeFlush(w)
        /\ todo' = [todo EXCEPT ![w] = t]
    BY DEF Decide, BeforeFlush
  <1>3. job[w] \in Jobs
    BY DEF Decide, TInv, JobInHand
  <1>4. ASSUME NEW i \in t.clr PROVE i \in DOMAIN db.items /\ db.items[i].status = "BOUGHT"
    <2>1. i \in DOMAIN View(w).items /\ View(w).items[i].status = "BOUGHT"
      BY <1>3, JobAsks, DecisionClearsBought
    <2>2. Pending(w) = {}
      BY <1>2 DEF HistoryInv, PendingApart
    <2> QED BY <2>1, <2>2, ViewItems
  <1>. HIDE DEF t
  <1>5. \A v \in Workers : \A i \in todo'[v].clr : i \in todo[v].clr \/ (v = w /\ i \in t.clr)
    <2>1. todo'[w] = t /\ \A v \in Workers \ {w} : todo'[v] = todo[v]
      BY <1>1, <1>2
    <2> QED BY <2>1
  <1>6. \A v \in Workers : Pending(v)' = Pending(v)
    BY <1>2 DEF Pending
  <1>7. PendingApart'
    <2>1. ASSUME NEW v \in Workers \ {w}, BeforeFlush(v)' PROVE BeforeFlush(v)
      <3>1. at'[v] = at[v] /\ todo'[v] = todo[v]
        BY <1>1, <1>2 DEF Decide, Goto
      <3> QED BY <2>1, <3>1 DEF BeforeFlush
    <2> QED BY <1>2, <1>6, <2>1 DEF HistoryInv, PendingApart
  <1>8. NeededIsNew'
    BY <1>2, <1>4, <1>5, <1>6 DEF HistoryInv, NeededIsNew
  <1>9. ClearsBought'
    BY <1>1, <1>2, <1>4, <1>5 DEF HistoryInv, ClearsBought, IdsDrawn
  <1>10. KeepsCleared' /\ PendingClearedIsBought' /\ OnlyBoughtIsCleared'
    BY <1>2, <1>6 DEF HistoryInv, KeepsCleared, PendingClearedIsBought, OnlyBoughtIsCleared
  <1> QED BY <1>7, <1>8, <1>9, <1>10 DEF HistoryInv

\* A flush takes new ids above all that are drawn, and rows nobody else has pending.
LEMMA FlushHistory ==
    ASSUME Backend = "postgres", TInv, HistoryInv, NEW w \in Workers, Flush(w)
    PROVE  HistoryInv'
  <1>. DEFINE t == todo[w]
              new == seq.item + 1 .. seq.item + Len(t.ins)
              old == (t.mark \cup t.clr) \cap DOMAIN db.items
              rows == FlushedRows(w)
  <1>1. /\ at \in [Workers -> Locations] /\ todo \in [Workers -> Todos]
        /\ seq \in [family : Nat, list : Nat, item : Nat] /\ DOMAIN pend = Workers
        /\ DOMAIN db.items \in SUBSET Nat /\ IdsDrawn(db)
        /\ \A v \in Workers : Pending(v) \in SUBSET Nat /\ IdsDrawn(pend[v])
    BY DEF TInv, TypeOK, PendShape, IsStore, IsTable, Pending
  <1>2. t.ins \in Seq(Texts) /\ Len(t.ins) \in Nat
    BY <1>1 DEF Todos
  <1>3. /\ UNCHANGED <<db, todo>>
        /\ seq' = [seq EXCEPT !.item = @ + Len(t.ins)]
        /\ pend'[w].items = rows
        /\ \A v \in Workers \ {w} : pend'[v] = pend[v]
        /\ (t.mark \cup t.clr) \cap LockedItems(w) = {}
    BY <1>1 DEF Flush
  <1>4. seq'.item = seq.item + Len(t.ins)
    BY <1>1, <1>3
  <1>5. rows = [i \in new \cup old |->
                  CASE i \in new           -> NewRow(w, t.ins[i - seq.item])
                    [] i \in t.mark \ new  -> BoughtRow(w, db.items[i])
                    [] OTHER               -> ClearedRow(db.items[i])]
    BY DEF FlushedRows, IdBase
  <1>6. \A i \in new : i \in Nat /\ i > seq.item
    BY <1>1, <1>2
  <1>7. \A i \in new : /\ i \notin DOMAIN db.items
                       /\ \A v \in Workers : i \notin Pending(v) /\ i \notin todo[v].clr
    <2>1. \A i \in DOMAIN db.items : i <= seq.item
      BY <1>1 DEF IdsDrawn
    <2>2. \A v \in Workers : \A i \in Pending(v) : i <= seq.item
      BY <1>1 DEF IdsDrawn, Pending
    <2>3. \A v \in Workers : \A i \in todo[v].clr : i <= seq.item
      BY DEF HistoryInv, ClearsBought
    <2> QED BY <1>1, <1>6, <2>1, <2>2, <2>3
  <1>. HIDE DEF rows, new, t
  <1>8. DOMAIN rows = new \cup old /\ Pending(w)' = new \cup old
    BY <1>3, <1>5 DEF Pending
  <1>9. \A v \in Workers \ {w} : Pending(v)' = Pending(v)
    BY <1>3 DEF Pending
  <1>10. ASSUME NEW i \in old
         PROVE  /\ i \in DOMAIN db.items /\ db.items[i] \in Rows
                /\ i \in t.clr => db.items[i].status = "BOUGHT"
    BY DEF t, HistoryInv, ClearsBought, TInv, TypeOK, IsStore, IsTable
  <1>11. ASSUME NEW i \in new \cup old
         PROVE  \/ i \in new /\ rows[i].status = "NEEDED" /\ ~ rows[i].cleared
                \/ i \in old /\ rows[i].status = "BOUGHT" /\ rows[i].cleared = db.items[i].cleared
                \/ i \in old /\ rows[i].status = "BOUGHT" /\ rows[i].cleared
    <2>1. CASE i \in new
      BY <2>1, <1>5 DEF NewRow
    <2>2. CASE i \in t.mark \ new
      <3>1. i \in old /\ db.items[i] \in Rows
        BY <2>2, <1>10
      <3>2. rows[i] = BoughtRow(w, db.items[i])
        BY <2>2, <1>5
      <3> QED BY <3>1, <3>2 DEF BoughtRow, Rows
    <2>3. CASE i \notin new /\ i \notin t.mark
      <3>1. i \in old /\ db.items[i] \in Rows /\ db.items[i].status = "BOUGHT"
        BY <2>3, <1>10
      <3>2. rows[i] = ClearedRow(db.items[i])
        BY <2>3, <1>5
      <3> QED BY <3>1, <3>2 DEF ClearedRow, Rows
    <2> QED BY <2>1, <2>2, <2>3
  <1>12. PendingApart'
    <2>1. ~ BeforeFlush(w)'
      <3>1. at' = [at EXCEPT ![w] = AfterWrite(t)] /\ todo' = todo
        BY DEF Flush, Goto, t
      <3>2. AfterWrite(t) \in {"say", "commit"} \/ (AfterWrite(t) = "list" /\ t.follow # "none")
        BY <1>1, AfterWriteType DEF t
      <3> QED BY <1>1, <3>1, <3>2 DEF BeforeFlush, t
    <2>2. ASSUME NEW v \in Workers \ {w}, BeforeFlush(v)' PROVE BeforeFlush(v)
      <3>1. at'[v] = at[v] /\ todo'[v] = todo[v]
        BY <1>1 DEF Flush, Goto
      <3> QED BY <2>2, <3>1 DEF BeforeFlush
    <2>3. ASSUME NEW v \in Workers \ {w} PROVE Pending(v) \cap (new \cup old) = {}
      <3>1. Pending(v) \cap old = {}
        BY <1>3 DEF LockedItems, Pending
      <3> QED BY <3>1, <1>7
    <2> QED BY <1>8, <1>9, <2>1, <2>2, <2>3 DEF HistoryInv, PendingApart
  <1>13. NeededIsNew'
    <2>1. ASSUME NEW i \in new \cup old, rows[i].status = "NEEDED"
          PROVE  i \notin DOMAIN db.items /\ \A v \in Workers : i \notin todo[v].clr
      BY <2>1, <1>7, <1>11
    <2> QED BY <1>3, <1>8, <1>9, <2>1 DEF HistoryInv, NeededIsNew
  <1>14. ClearsBought'
    <2>1. \A v \in Workers : \A i \in todo[v].clr : i \in Nat /\ i <= seq.item
      BY <1>1 DEF HistoryInv, ClearsBought, Todos
    <2>2. \A v \in Workers : \A i \in todo[v].clr : i <= seq'.item
      BY <1>1, <1>2, <1>4, <2>1
    <2> QED BY <1>3, <2>2 DEF HistoryInv, ClearsBought
  <1>15. KeepsCleared'
    <2>1. ASSUME NEW i \in new \cup old, i \in DOMAIN db.items, db.items[i].cleared
          PROVE  rows[i].cleared
      BY <2>1, <1>7, <1>11
    <2> QED BY <1>3, <1>8, <1>9, <2>1 DEF HistoryInv, KeepsCleared
  <1>16. PendingClearedIsBought'
    BY <1>3, <1>8, <1>9, <1>11 DEF HistoryInv, PendingClearedIsBought
  <1>17. OnlyBoughtIsCleared'
    BY <1>3 DEF HistoryInv, OnlyBoughtIsCleared
  <1> QED BY <1>12, <1>13, <1>14, <1>15, <1>16, <1>17 DEF HistoryInv

-----------------------------------------------------------------------------

\* HistoryInv is inductive, given that the store is well-typed.
LEMMA NextHistory ==
    ASSUME Backend = "postgres", TInv, HistoryInv, [Next]_vars
    PROVE  HistoryInv'
  <1>1. CASE UNCHANGED vars
    <2>1. UNCHANGED <<db, seq, pend, todo, at>>
      BY <1>1 DEF vars
    <2>2. LeavesAlone
      BY <2>1 DEF LeavesAlone, BeforeFlush
    <2> QED BY <2>2, QuietHistory
  <1>2. CASE Next
    <2>1. PICK w \in Workers : TakeJob(w) \/ Statement(w) \/ Fail(w)
      BY <1>2 DEF Next
    <2>2. CASE InsertUserConflict(w) \/ FlushStale(w) \/ Fail(w)
      BY <2>2, RollbackHistory DEF InsertUserConflict, FlushStale, Fail
    <2> QED BY <2>1, <2>2, QuietStep, DecideHistory, FlushHistory, CommitHistory DEF Statement
  <1> QED BY <1>1, <1>2

\* OnlyBoughtIsCleared, with any number of workers on Postgres: clearing hides
\* nothing that is needed, however decisions, flushes, failures and commits of
\* other sessions come in between.
THEOREM ClearedWasBought ==
    ASSUME Backend = "postgres"
    PROVE  Spec => []OnlyBoughtIsCleared
  <1>1. Init => TInv /\ HistoryInv
    BY InitTInv, InitHistory
  <1>2. TInv /\ HistoryInv /\ [Next]_vars => (TInv /\ HistoryInv)'
    BY NextTInv, NextHistory
  <1>3. HistoryInv => OnlyBoughtIsCleared
    BY DEF HistoryInv
  <1> QED BY <1>1, <1>2, <1>3, PTL DEF Spec

\* NothingReturnsToTheList, with any number of workers on Postgres: a step of one
\* session never takes back a purchase or a clearing committed by another.
THEOREM PurchasesStay ==
    ASSUME Backend = "postgres"
    PROVE  Spec => NothingReturnsToTheList
  <1>. DEFINE Kept == \A i \in DOMAIN db.items \cap DOMAIN db'.items :
                        /\ db.items[i].status = "BOUGHT" => db'.items[i].status = "BOUGHT"
                        /\ db.items[i].cleared => db'.items[i].cleared
  <1>1. Init => TInv /\ HistoryInv
    BY InitTInv, InitHistory
  <1>2. TInv /\ HistoryInv /\ [Next]_vars => (TInv /\ HistoryInv)'
    BY NextTInv, NextHistory
  <1>3. TInv /\ HistoryInv /\ [Next]_vars => [Kept]_vars
    <2>. SUFFICES ASSUME TInv, HistoryInv, Next PROVE Kept
      BY DEF Next
    <2>1. PICK w \in Workers : TakeJob(w) \/ Statement(w) \/ Fail(w)
      BY DEF Next
    <2>2. CASE Commit(w)
      BY <2>2, CommitKeeps
    <2>3. CASE ~ Commit(w)
      <3>1. db' = db
        BY <2>1, <2>3 DEF Statement, TakeJob, SelectUser, SelectFamily, InsertFamily, InsertUser,
              InsertUserConflict, SelectList, Decide, Flush, FlushStale, Say, Follow, Prompt,
              Fail, Rollback
      <3> QED BY <3>1
    <2> QED BY <2>2, <2>3
  <1> QED BY <1>1, <1>2, <1>3, PTL DEF Spec, NothingReturnsToTheList

-----------------------------------------------------------------------------
(* Taps on list rows.                                                      *)

\* Whoever reads a row on a phone reads the text that the item has, wherever it
\* is stored or pending.
ShownTitles ==
    \A row \in shown :
        /\ row[1] <= seq.item
        /\ row[1] \in DOMAIN db.items => db.items[row[1]].text = row[2]
        /\ \A v \in Workers : row[1] \in Pending(v) => pend[v].items[row[1]].text = row[2]

\* A pending row has the text of the committed one.
TextsStay ==
    \A v \in Workers : \A i \in Pending(v) \cap DOMAIN db.items :
        pend[v].items[i].text = db.items[i].text

\* A tap in hand is one on a row that was shown, and writes that item at most.
TapInHand ==
    \A w \in Workers : job[w].action = "buy" =>
        /\ <<job[w].id, job[w].texts[1]>> \in shown
        /\ Pending(w) \subseteq {job[w].id} /\ pend[w].gone = {}
        /\ at[w] = "write" => /\ todo[w].ins = <<>> /\ todo[w].clr = {} /\ todo[w].del = {}
                              /\ todo[w].mark \subseteq {job[w].id}

\* The inductive invariant, next to HistoryInv.
RowInv == ShownTitles /\ TextsStay /\ TapInHand

\* Initially no phone shows a row.
LEMMA InitRow == Init => RowInv
  <1>. SUFFICES ASSUME Init PROVE RowInv
    OBVIOUS
  <1>1. /\ shown = {} /\ DOMAIN db.items = {}
        /\ \A w \in Workers : job[w].action = "none" /\ Pending(w) = {}
    BY DEF Init, EmptyStore, NoJob, Pending, NoRows
  <1> QED BY <1>1 DEF RowInv, ShownTitles, TextsStay, TapInHand

\* A tap marks the tapped item or nothing.
LEMMA DecisionOfTap ==
    ASSUME NEW store, NEW l, NEW j, j.action = "buy"
    PROVE  LET t == Decision(store, l, j)
           IN  t.ins = <<>> /\ t.clr = {} /\ t.del = {} /\ t.mark \subseteq {j.id}
  <1>. DEFINE plain == Answer("plain", "list")
              tapped == TappedItems(store, j.id)
  <1>1. tapped \subseteq {j.id}
    BY DEF TappedItems
  <1>2. /\ [plain EXCEPT !.mark = tapped].ins = <<>>
        /\ [plain EXCEPT !.mark = tapped].clr = {}
        /\ [plain EXCEPT !.mark = tapped].del = {}
        /\ [plain EXCEPT !.mark = tapped].mark = tapped
    <2>. HIDE DEF tapped
    <2> QED BY DEF Answer
  <1>3. /\ Answer("final", "none").ins = <<>> /\ Answer("final", "none").clr = {}
        /\ Answer("final", "none").mark = {} /\ Answer("final", "none").del = {}
    BY DEF Answer
  <1>4. \/ Decision(store, l, j) = [plain EXCEPT !.mark = tapped]
        \/ Decision(store, l, j) = Answer("final", "none")
    BY DEF Decision, FoundOr
  <1>. HIDE DEF plain, tapped
  <1> QED BY <1>1, <1>2, <1>3, <1>4

\* A step that leaves rows and pending rows alone and shows no new title.
LEMMA QuietRow ==
    ASSUME TInv, HistoryInv, RowInv, LeavesAlone, NEW w \in Workers,
           at'[w] # "write", job'[w] = job[w],
           \A v \in Workers \ {w} : at'[v] = at[v] /\ job'[v] = job[v] /\ todo'[v] = todo[v],
           \A row \in shown' \ shown :
                \E i \in DOMAIN View(w).items : row = <<i, View(w).items[i].text>>,
           shown \subseteq shown'
    PROVE  RowInv'
  <1>1. /\ db' = db /\ seq'.item = seq.item
        /\ \A v \in Workers : /\ pend'[v].items = pend[v].items /\ Pending(v)' = Pending(v)
                              /\ pend'[v].gone = pend[v].gone
    BY DEF LeavesAlone, Pending
  <1>2. ASSUME NEW i \in DOMAIN View(w).items
        PROVE  /\ i <= seq.item
               /\ i \in DOMAIN db.items => db.items[i].text = View(w).items[i].text
               /\ \A v \in Workers : i \in Pending(v) =>
                    pend[v].items[i].text = View(w).items[i].text
    <2>1. i <= seq.item
      BY ViewType DEF IdsDrawn
    <2>2. CASE i \in Pending(w) /\ View(w).items[i] = pend[w].items[i]
      <3>1. \A v \in Workers : i \in Pending(v) => v = w
        BY <2>2 DEF HistoryInv, PendingApart
      <3> QED BY <2>1, <2>2, <3>1 DEF RowInv, TextsStay
    <2>3. CASE i \in DOMAIN db.items \ Pending(w) /\ View(w).items[i] = db.items[i]
      BY <2>1, <2>3 DEF RowInv, TextsStay
    <2> QED BY <2>2, <2>3, ViewItems
  <1>3. ShownTitles'
    <2>1. ASSUME NEW row \in shown'
          PROVE  /\ row[1] <= seq.item
                 /\ row[1] \in DOMAIN db.items => db.items[row[1]].text = row[2]
                 /\ \A v \in Workers : row[1] \in Pending(v) =>
                        pend[v].items[row[1]].text = row[2]
      <3>1. CASE row \in shown
        BY <3>1 DEF RowInv, ShownTitles
      <3>2. CASE row \notin shown
        <4>1. PICK i \in DOMAIN View(w).items : row = <<i, View(w).items[i].text>>
          BY <3>2
        <4> QED BY <4>1, <1>2
      <3> QED BY <3>1, <3>2
    <2> QED BY <1>1, <2>1 DEF ShownTitles
  <1>4. TextsStay'
    BY <1>1 DEF RowInv, TextsStay
  <1>5. TapInHand'
    BY <1>1 DEF RowInv, TapInHand
  <1> QED BY <1>3, <1>4, <1>5 DEF RowInv

\* A tap is taken from a row that is shown.
LEMMA TakeJobRow ==
    ASSUME TInv, FamInv, HistoryInv, RowInv, NEW w \in Workers, TakeJob(w)
    PROVE  RowInv'
  <1>1. /\ UNCHANGED <<db, seq, pend, todo, shown>> /\ at[w] = "idle" /\ at'[w] = "user"
        /\ \A v \in Workers \ {w} : at'[v] = at[v] /\ job'[v] = job[v]
    BY DEF TakeJob, Goto, TInv, TypeOK, phoneVars
  <1>2. Pending(w) = {} /\ pend[w].gone = {}
    BY <1>1 DEF FamInv, FamilyInHand, BeforeFamily, NoRows, Pending
  <1>3. PICK j \in TypedJobs \cup BuyJobs \cup ReaddJobs : job' = [job EXCEPT ![w] = j]
    BY DEF TakeJob
  <1>4. job'[w] = j
    BY <1>3 DEF TInv, TypeOK
  <1>5. j.action = "buy" => <<j.id, j.texts[1]>> \in shown
    <2>1. \A x \in TypedJobs \cup ReaddJobs : x.action # "buy"
      BY DEF TypedJobs, ReaddJobs, Message, ItemActions, PlainActions, ButtonActions
    <2>2. ASSUME j \in BuyJobs PROVE <<j.id, j.texts[1]>> \in shown
      <3>1. PICK p \in Phones, row \in shown :
                j = [action |-> "buy", phone |-> p, texts |-> <<row[2]>>, id |-> row[1]]
        BY <2>2 DEF BuyJobs
      <3>2. row = <<row[1], row[2]>>
        BY DEF TInv, TypeOK
      <3>3. j.id = row[1] /\ j.texts[1] = row[2]
        BY <3>1
      <3> QED BY <3>2, <3>3
    <2> QED BY <2>1, <2>2
  <1>6. ShownTitles' /\ TextsStay'
    BY <1>1 DEF RowInv, ShownTitles, TextsStay, Pending
  <1>7. TapInHand'
    BY <1>1, <1>2, <1>4, <1>5 DEF RowInv, TapInHand, Pending
  <1> QED BY <1>6, <1>7 DEF RowInv

\* The other statements that do not flush.
LEMMA QuietRowStep ==
    ASSUME TInv, HistoryInv, RowInv, NEW w \in Workers,
           \/ SelectUser(w) \/ SelectFamily(w) \/ InsertFamily(w) \/ InsertUser(w)
           \/ SelectList(w) \/ Say(w) \/ Follow(w) \/ Prompt(w)
    PROVE  RowInv'
  <1>1. LeavesAlone /\ at'[w] # "write"
    BY QuietEffect
  <1>2. DOMAIN at = Workers /\ DOMAIN todo = Workers
    BY DEF TInv, TypeOK
  <1>3. job' = job
    BY DEF SelectUser, SelectFamily, InsertFamily, InsertUser, SelectList, Say, Follow, Prompt
  <1>4. \A v \in Workers \ {w} : at'[v] = at[v] /\ todo'[v] = todo[v]
    <2>1. CASE \/ SelectUser(w) \/ SelectFamily(w) \/ InsertFamily(w) \/ InsertUser(w)
               \/ SelectList(w) \/ Say(w) \/ Prompt(w)
      BY <1>2, <2>1 DEF SelectUser, SelectFamily, InsertFamily, InsertUser, SelectList, Say,
                        Prompt, Goto
    <2>2. CASE Follow(w)
      BY <1>2, <2>2 DEF Follow, SendList, SendPicker, SendListInstead, Goto
    <2> QED BY <2>1, <2>2
  <1>5. /\ shown \subseteq shown'
        /\ \A row \in shown' \ shown :
                \E i \in DOMAIN View(w).items : row = <<i, View(w).items[i].text>>
    <2>1. CASE shown' = shown
      BY <2>1
    <2>2. CASE SendList(w)
      <3>. DEFINE needed == NeededItems(View(w), active[w])
      <3>1. needed \subseteq DOMAIN View(w).items
        BY DEF NeededItems
      <3>2. shown' = shown \cup {<<i, View(w).items[i].text>> : i \in needed}
        BY <2>2 DEF SendList
      <3>. HIDE DEF needed
      <3> QED BY <3>1, <3>2
    <2>3. shown' = shown \/ SendList(w)
      BY DEF SelectUser, SelectFamily, InsertFamily, InsertUser, SelectList, Say, Follow,
             Prompt, SendPicker, SendListInstead, phoneVars
    <2> QED BY <2>1, <2>2, <2>3
  <1> QED BY <1>1, <1>3, <1>4, <1>5, QuietRow

\* A decision is not yet written.
LEMMA DecideRow ==
    ASSUME TInv, HistoryInv, RowInv, NEW w \in Workers, Decide(w)
    PROVE  RowInv'
  <1>. DEFINE t == Decision(View(w), active[w], job[w])
  <1>1. /\ UNCHANGED <<db, seq, pend, shown, job>> /\ todo'[w] = t
        /\ \A v \in Workers \ {w} : at'[v] = at[v] /\ todo'[v] = todo[v]
    BY DEF Decide, Goto, TInv, TypeOK, phoneVars
  <1>2. job[w].action = "buy" =>
            t.ins = <<>> /\ t.clr = {} /\ t.del = {} /\ t.mark \subseteq {job[w].id}
    BY DecisionOfTap
  <1>. HIDE DEF t
  <1>3. ShownTitles' /\ TextsStay'
    BY <1>1 DEF RowInv, ShownTitles, TextsStay, Pending
  <1>4. TapInHand'
    BY <1>1, <1>2 DEF RowInv, TapInHand, Pending
  <1> QED BY <1>3, <1>4 DEF RowInv

\* A flush gives new ids to new texts and keeps the texts of the rows it changes.
LEMMA FlushRow ==
    ASSUME Backend = "postgres", TInv, HistoryInv, RowInv, NEW w \in Workers, Flush(w)
    PROVE  RowInv'
  <1>. DEFINE t == todo[w]
              new == seq.item + 1 .. seq.item + Len(t.ins)
              old == (t.mark \cup t.clr) \cap DOMAIN db.items
              rows == FlushedRows(w)
  <1>1. /\ seq \in [family : Nat, list : Nat, item : Nat] /\ DOMAIN pend = Workers
        /\ DOMAIN at = Workers /\ todo[w] \in Todos
        /\ DOMAIN db.items \in SUBSET Nat /\ IdsDrawn(db)
        /\ shown \in SUBSET (Nat \X Texts)
    BY DEF TInv, TypeOK, PendShape, IsStore, IsTable
  <1>2. Len(t.ins) \in Nat
    BY <1>1 DEF Todos
  <1>3. /\ UNCHANGED <<db, todo, job, shown>> /\ at[w] = "write" /\ at'[w] = AfterWrite(t)
        /\ seq' = [seq EXCEPT !.item = @ + Len(t.ins)]
        /\ pend'[w].items = rows /\ pend'[w].gone = t.del \cap DOMAIN db.items
        /\ \A v \in Workers \ {w} : pend'[v] = pend[v] /\ at'[v] = at[v]
    BY <1>1 DEF Flush, Goto, phoneVars, DeletedItems
  <1>4. seq'.item = seq.item + Len(t.ins)
    BY <1>1, <1>3
  <1>5. rows = [i \in new \cup old |->
                  CASE i \in new           -> NewRow(w, t.ins[i - seq.item])
                    [] i \in t.mark \ new  -> BoughtRow(w, db.items[i])
                    [] OTHER               -> ClearedRow(db.items[i])]
    BY DEF FlushedRows, IdBase
  <1>6. AfterWrite(t) # "write"
    BY <1>1, AfterWriteType
  <1>7. \A i \in new : i \in Nat /\ i > seq.item
    BY <1>1, <1>2
  <1>8. \A i \in new : i \notin DOMAIN db.items
    BY <1>1, <1>7 DEF IdsDrawn
  <1>9. t.ins = <<>> => new = {}
    BY <1>1
  <1>. HIDE DEF rows, new, t
  <1>10. DOMAIN rows = new \cup old /\ Pending(w)' = new \cup old
    BY <1>3, <1>5 DEF Pending
  <1>11. \A v \in Workers \ {w} : Pending(v)' = Pending(v) /\ pend'[v].items = pend[v].items
    BY <1>3 DEF Pending
  <1>12. \A i \in old : i \in DOMAIN db.items /\ rows[i].text = db.items[i].text
    <2>. TAKE i \in old
    <2>1. i \in DOMAIN db.items /\ i \notin new
      BY <1>8
    <2>2. db.items[i] \in Rows
      BY <2>1 DEF TInv, TypeOK, IsStore, IsTable
    <2>3. rows[i] = BoughtRow(w, db.items[i]) \/ rows[i] = ClearedRow(db.items[i])
      BY <1>5, <2>1
    <2> QED BY <2>1, <2>2, <2>3 DEF BoughtRow, ClearedRow, Rows
  <1>13. ShownTitles'
    <2>1. ASSUME NEW row \in shown
          PROVE  /\ row[1] <= seq'.item
                 /\ row[1] \in DOMAIN db.items => db.items[row[1]].text = row[2]
                 /\ \A v \in Workers \ {w} : row[1] \in Pending(v) =>
                        pend[v].items[row[1]].text = row[2]
                 /\ row[1] \in new \cup old => rows[row[1]].text = row[2]
      <3>1. /\ row[1] \in Nat /\ row[1] <= seq.item
            /\ row[1] \in DOMAIN db.items => db.items[row[1]].text = row[2]
            /\ \A v \in Workers : row[1] \in Pending(v) =>
                        pend[v].items[row[1]].text = row[2]
        BY <1>1 DEF RowInv, ShownTitles
      <3>2. row[1] <= seq'.item
        BY <1>1, <1>2, <1>4, <3>1
      <3>3. row[1] \notin new
        BY <1>1, <1>7, <3>1
      <3> QED BY <3>1, <3>2, <3>3, <1>12
    <2> QED BY <1>3, <1>10, <1>11, <2>1 DEF ShownTitles
  <1>14. TextsStay'
    <2>1. \A i \in (new \cup old) \cap DOMAIN db.items : rows[i].text = db.items[i].text
      BY <1>8, <1>12
    <2> QED BY <1>3, <1>10, <1>11, <2>1 DEF RowInv, TextsStay
  <1>15. TapInHand'
    <2>1. job[w].action = "buy" => new \cup old \subseteq {job[w].id} /\ t.del = {}
      BY <1>3, <1>9 DEF RowInv, TapInHand, t
    <2>2. at'[w] # "write" /\ (job[w].action = "buy" => pend'[w].gone = {})
      BY <1>3, <1>6, <2>1
    <2>3. job[w].action = "buy" => <<job[w].id, job[w].texts[1]>> \in shown
      BY DEF RowInv, TapInHand
    <2>4. ASSUME NEW v \in Workers \ {w}, job[v].action = "buy"
          PROVE  /\ <<job[v].id, job[v].texts[1]>> \in shown
                 /\ Pending(v) \subseteq {job[v].id} /\ pend'[v].gone = {}
                 /\ at'[v] = "write" => /\ todo[v].ins = <<>> /\ todo[v].clr = {}
                                        /\ todo[v].del = {} /\ todo[v].mark \subseteq {job[v].id}
      BY <1>3, <2>4 DEF RowInv, TapInHand
    <2> QED BY <1>3, <1>10, <1>11, <2>1, <2>2, <2>3, <2>4 DEF TapInHand
  <1> QED BY <1>13, <1>14, <1>15 DEF RowInv

\* A rollback frees rows, a commit stores them with their texts.
LEMMA EndRow ==
    ASSUME TInv, HistoryInv, RowInv, NEW w \in Workers, EndJob(w),
           UNCHANGED <<seq, shown>>, db' = db \/ db' = View(w)
    PROVE  RowInv'
  <1>1. /\ Pending(w)' = {} /\ at'[w] = "idle" /\ job'[w].action = "none"
        /\ \A v \in Workers \ {w} : /\ Pending(v)' = Pending(v) /\ pend'[v] = pend[v]
                                    /\ todo'[v] = todo[v] /\ at'[v] = at[v] /\ job'[v] = job[v]
    BY EndJobClears DEF EndJob, Goto, NoJob, TInv, TypeOK
  <1>2. ASSUME NEW i \in DOMAIN db'.items
        PROVE  \/ i \in DOMAIN db.items /\ db'.items[i] = db.items[i]
               \/ i \in Pending(w) /\ db'.items[i] = pend[w].items[i]
    BY ViewItems
  <1>3. ShownTitles'
    BY <1>1, <1>2 DEF RowInv, ShownTitles
  <1>4. TextsStay'
    <2>1. ASSUME NEW v \in Workers \ {w}, NEW i \in Pending(v) \cap DOMAIN db'.items
          PROVE  pend[v].items[i].text = db'.items[i].text
      <3>1. i \notin Pending(w)
        BY DEF HistoryInv, PendingApart
      <3> QED BY <1>2, <3>1 DEF RowInv, TextsStay
    <2> QED BY <1>1, <2>1 DEF TextsStay
  <1>5. TapInHand'
    BY <1>1 DEF RowInv, TapInHand
  <1> QED BY <1>3, <1>4, <1>5 DEF RowInv

\* RowInv is inductive next to HistoryInv.
LEMMA NextRow ==
    ASSUME Backend = "postgres", TInv, FamInv, HistoryInv, RowInv, [Next]_vars
    PROVE  RowInv'
  <1>1. CASE UNCHANGED vars
    <2>1. UNCHANGED <<db, seq, at, job, pend, todo, shown>>
      BY <1>1 DEF vars
    <2> QED BY <2>1 DEF RowInv, ShownTitles, TextsStay, TapInHand, Pending
  <1>2. CASE Next
    <2>1. PICK w \in Workers : TakeJob(w) \/ Statement(w) \/ Fail(w)
      BY <1>2 DEF Next
    <2>2. CASE InsertUserConflict(w) \/ FlushStale(w) \/ Fail(w)
      BY <2>2, EndRow DEF InsertUserConflict, FlushStale, Fail, Rollback, phoneVars
    <2>3. CASE Commit(w)
      BY <2>3, EndRow DEF Commit, View, phoneVars
    <2> QED BY <2>1, <2>2, <2>3, TakeJobRow, QuietRowStep, DecideRow, FlushRow DEF Statement
  <1> QED BY <1>1, <1>2

\* RowBuysItsTitle, with any number of workers on Postgres: a tap on a row of a
\* list message of any age buys an item of the title the user read, or nothing,
\* whatever other sessions flush, commit and delete in between.
THEOREM TapBuysItsTitle ==
    ASSUME Backend = "postgres"
    PROVE  Spec => RowBuysItsTitle
  <1>. DEFINE Buys == \A w \in Workers : Commit(w) /\ job[w].action = "buy" =>
                        \A i \in DOMAIN db.items :
                            /\ db.items[i].status = "NEEDED"
                            /\ db'.items[i].status = "BOUGHT"
                            => db.items[i].text = job[w].texts[1]
  <1>1. Init => TInv /\ FamInv /\ HistoryInv /\ RowInv
    BY InitTInv, InitFam, InitHistory, InitRow
  <1>2. TInv /\ FamInv /\ HistoryInv /\ RowInv /\ [Next]_vars =>
            (TInv /\ FamInv /\ HistoryInv /\ RowInv)'
    BY NextTInv, NextFam, NextHistory, NextRow
  <1>3. TInv /\ FamInv /\ HistoryInv /\ RowInv => [Buys]_vars
    <2>. SUFFICES ASSUME RowInv, NEW w \in Workers, Commit(w), job[w].action = "buy",
                         NEW i \in DOMAIN db.items, db.items[i].status = "NEEDED",
                         db'.items[i].status = "BOUGHT"
                  PROVE  db.items[i].text = job[w].texts[1]
      OBVIOUS
    <2>1. db' = View(w)
      BY DEF Commit, View
    <2>2. i \in Pending(w)
      <3>1. pend[w].gone = {}
        BY DEF RowInv, TapInHand
      <3>2. i \in DOMAIN View(w).items
        BY <3>1 DEF View, Overlay, Restrict, Overwrite
      <3> QED BY <2>1, <3>2, ViewItems
    <2>3. i = job[w].id /\ <<job[w].id, job[w].texts[1]>> \in shown
      BY <2>2 DEF RowInv, TapInHand
    <2> QED BY <2>3 DEF RowInv, ShownTitles
  <1> QED BY <1>1, <1>2, <1>3, PTL DEF Spec, RowBuysItsTitle

=============================================================================
