--------------------------- MODULE JobList_proofs ---------------------------
(***************************************************************************)
(* What one worker at a time keeps of the list, for any phones, texts,     *)
(* batches and jobs, on either database: a list never shows a name twice,  *)
(* every job is one action of FamilyList, and what it says is stored.      *)
(***************************************************************************)
EXTENDS JobProcessing_proofs

-----------------------------------------------------------------------------
(* Tables of items without duplicates.                                     *)

\* No list has two needed items of one name.
NoDuplicateIn(items) ==
    \A i, k \in DOMAIN items :
        /\ i # k
        /\ items[i].list = items[k].list
        /\ items[i].status = "NEEDED"
        /\ items[k].status = "NEEDED"
        => Lower[items[i].text] # Lower[items[k].text]

\* Nothing is flushed before the flush, nothing deleted either.
NothingPending(w) == pend[w].gone = {} /\ Pending(w) = {}

\* What is to be flushed was decided on the rows as they still are.
DecidedOnView(w) ==
    at[w] = "write" => todo[w] = Decision(View(w), active[w], job[w])

\* The inductive invariant.
ListInv ==
    /\ NoDuplicateIn(db.items)
    /\ \A w \in Workers : /\ NoDuplicateIn(View(w).items)
                          /\ BeforeFlush(w) => NothingPending(w)
                          /\ DecidedOnView(w)

\* There is at most one worker process.
OneWorker == \A v, w \in Workers : v = w

\* An overlay without items shows the items below.
LEMMA OverlayNothing ==
    ASSUME NEW store, IsStore(store), NEW rows, DOMAIN rows.items = {}, rows.gone = {}
    PROVE  Overlay(store, rows).items = store.items
  <1>1. DOMAIN store.items = DOMAIN store.items \ {} /\ store.items \in [DOMAIN store.items -> Rows]
    BY DEF IsStore, IsTable
  <1>. DEFINE all == Overwrite(store.items, rows.items)
  <1>2. DOMAIN all = DOMAIN store.items /\ \A i \in DOMAIN store.items : all[i] = store.items[i]
    BY DEF Overwrite
  <1>3. Overlay(store, rows).items = [i \in DOMAIN store.items |-> all[i]]
    BY <1>2 DEF Overlay, Restrict
  <1>. HIDE DEF all
  <1> QED BY <1>1, <1>2, <1>3

\* A session that has nothing pending reads what is committed.
LEMMA ViewOfNothing ==
    ASSUME TInv, NEW w \in Workers, NothingPending(w)
    PROVE  View(w).items = db.items
  BY OverlayNothing DEF View, NothingPending, Pending, TInv, TypeOK

\* A table with fewer needed items has no more duplicates.
LEMMA FewerNeeded ==
    ASSUME NEW t, NEW u, NoDuplicateIn(t),
           \A i \in DOMAIN u : u[i].status = "NEEDED" =>
               /\ i \in DOMAIN t
               /\ t[i].status = "NEEDED"
               /\ t[i].list = u[i].list
               /\ t[i].text = u[i].text
    PROVE  NoDuplicateIn(u)
  BY DEF NoDuplicateIn

\* Initially there are no items.
LEMMA InitList == Init => ListInv
  <1>. SUFFICES ASSUME Init PROVE ListInv
    OBVIOUS
  <1>1. TInv
    BY InitTInv
  <1>2. DOMAIN db.items = {}
    BY DEF Init, EmptyStore
  <1>3. \A w \in Workers : NothingPending(w) /\ DecidedOnView(w)
    BY DEF Init, NothingPending, Pending, NoRows, DecidedOnView
  <1>4. \A w \in Workers : View(w).items = db.items
    BY <1>1, <1>3, ViewOfNothing
  <1> QED BY <1>2, <1>3, <1>4 DEF ListInv, NoDuplicateIn

-----------------------------------------------------------------------------
(* Steps that do not flush.                                                *)

\* What a session reads stays as it is.
LEMMA QuietList ==
    ASSUME TInv, ListInv, OneWorker, NEW w \in Workers, LeavesAlone, at'[w] # "write"
    PROVE  ListInv'
  <1>1. /\ db' = db /\ pend'[w].items = pend[w].items /\ pend'[w].gone = pend[w].gone
        /\ BeforeFlush(w)' => BeforeFlush(w)
    BY DEF LeavesAlone
  <1>2. View(w)'.items = View(w).items
    BY <1>1 DEF View, Overlay
  <1>3. NoDuplicateIn(db.items)' /\ NoDuplicateIn(View(w).items)'
    BY <1>1, <1>2 DEF ListInv
  <1>4. BeforeFlush(w)' => NothingPending(w)'
    BY <1>1 DEF ListInv, NothingPending, Pending
  <1>5. DecidedOnView(w)'
    BY DEF DecidedOnView
  <1>6. \A v \in Workers : v = w
    BY DEF OneWorker
  <1> QED BY <1>3, <1>4, <1>5, <1>6 DEF ListInv

\* A job ends on an empty session, whose statements read what is committed.
LEMMA EndJobList ==
    ASSUME TInv, TInv', ListInv, OneWorker, NEW w \in Workers, EndJob(w),
           NoDuplicateIn(db'.items)
    PROVE  ListInv'
  <1>1. at'[w] = "idle" /\ pend'[w] = NoRows
    BY DEF EndJob, Goto, TInv, TypeOK, PendShape
  <1>2. NothingPending(w)' /\ DecidedOnView(w)'
    BY <1>1 DEF NothingPending, Pending, NoRows, DecidedOnView
  <1>3. View(w)'.items = db'.items
    <2>1. IsStore(db')
      BY DEF TInv, TypeOK
    <2>2. View(w)' = Overlay(db', pend'[w])
      BY DEF View
    <2>3. DOMAIN pend'[w].items = {} /\ pend'[w].gone = {}
      BY <1>1 DEF NoRows
    <2> QED BY <2>1, <2>2, <2>3, OverlayNothing
  <1>4. \A v \in Workers : v = w
    BY DEF OneWorker
  <1> QED BY <1>2, <1>3, <1>4 DEF ListInv

-----------------------------------------------------------------------------
(* The decision and the flush.                                             *)

\* What is decided without asking for the active list adds and clears nothing.
LEMMA DecisionWithoutList ==
    ASSUME NEW store, NEW l, NEW j, j.action \in ButtonActions \cup {"buy"}
    PROVE  Decision(store, l, j).ins = <<>> /\ Decision(store, l, j).clr = {}
  <1>. DEFINE plain == Answer("plain", "list")
              tapped == TappedItems(store, j.id)
  <1>1. [plain EXCEPT !.mark = tapped].ins = <<>> /\ [plain EXCEPT !.mark = tapped].clr = {}
    <2>. HIDE DEF tapped
    <2> QED BY DEF Answer
  <1>2. \A text, follow : Answer(text, follow).ins = <<>> /\ Answer(text, follow).clr = {}
    BY DEF Answer
  <1>3. \/ Decision(store, l, j) = [plain EXCEPT !.mark = tapped]
        \/ \E text, follow : Decision(store, l, j) = Answer(text, follow)
    BY DEF Decision, FoundOr, ButtonActions, NoTodo
  <1>. HIDE DEF plain, tapped
  <1> QED BY <1>1, <1>2, <1>3

\* A decision changes no row and is taken on the view it is flushed on.
LEMMA DecideList ==
    ASSUME TInv, ListInv, OneWorker, NEW w \in Workers, Decide(w)
    PROVE  ListInv'
  <1>1. /\ UNCHANGED <<db, pend, active, job>> /\ BeforeFlush(w)
        /\ todo'[w] = Decision(View(w), active[w], job[w])
    BY DEF Decide, BeforeFlush, TInv, TypeOK
  <1>2. View(w)' = View(w)
    BY <1>1 DEF View
  <1>3. NothingPending(w)'
    BY <1>1 DEF ListInv, NothingPending, Pending
  <1>4. DecidedOnView(w)'
    BY <1>1, <1>2 DEF DecidedOnView
  <1>5. \A v \in Workers : v = w
    BY DEF OneWorker
  <1> QED BY <1>1, <1>2, <1>3, <1>4, <1>5 DEF ListInv

\* New rows meet neither the names on their list nor each other.
LEMMA AddingKeepsNames ==
    ASSUME NEW items, NoDuplicateIn(items), NEW rows, NEW base \in Nat, NEW list,
           NEW texts \in Seq(Texts),
           DOMAIN rows = base + 1 .. base + Len(texts),
           \A i \in DOMAIN rows : /\ rows[i].list = list
                                 /\ rows[i].text = texts[i - base],
           \A k \in 1..Len(texts) : \A i \in DOMAIN items :
               items[i].list = list /\ items[i].status = "NEEDED"
                   => Lower[items[i].text] # Lower[texts[k]],
           \A j, k \in 1..Len(texts) : j # k => Lower[texts[j]] # Lower[texts[k]]
    PROVE  NoDuplicateIn(Overwrite(items, rows))
  <1>. DEFINE all == Overwrite(items, rows)
              new == DOMAIN rows
  <1>1. /\ DOMAIN all = DOMAIN items \cup new
        /\ \A i \in new : all[i] = rows[i]
        /\ \A i \in DOMAIN all \ new : i \in DOMAIN items /\ all[i] = items[i]
    BY DEF Overwrite
  <1>. HIDE DEF all, new
  <1>2. \A i \in new : i - base \in 1..Len(texts) /\ i \in Nat
    BY DEF new
  <1>3. SUFFICES ASSUME NEW i \in DOMAIN all, NEW k \in DOMAIN all, i # k,
                        all[i].list = all[k].list,
                        all[i].status = "NEEDED", all[k].status = "NEEDED"
                 PROVE  Lower[all[i].text] # Lower[all[k].text]
    BY DEF NoDuplicateIn, all
  <1>4. CASE i \in new /\ k \in new
    <2>1. i - base # k - base
      BY <1>2, <1>3, <1>4
    <2> QED BY <1>1, <1>2, <1>4, <2>1 DEF new
  <1>5. CASE i \in new /\ k \notin new
    BY <1>1, <1>2, <1>3, <1>5 DEF new
  <1>6. CASE i \notin new /\ k \in new
    BY <1>1, <1>2, <1>3, <1>6 DEF new
  <1>7. CASE i \notin new /\ k \notin new
    BY <1>1, <1>3, <1>7 DEF NoDuplicateIn
  <1> QED BY <1>4, <1>5, <1>6, <1>7

\* The flushed rows add names that are not on the list, or make no more items needed.
LEMMA FlushKeepsNames ==
    ASSUME TInv, ListInv, NEW w \in Workers, Flush(w)
    PROVE  NoDuplicateIn(Overwrite(db.items, FlushedRows(w)))
  <1>. DEFINE t == todo[w]
              base == IdBase(DOMAIN View(w).items, seq.item)
              new == base + 1 .. base + Len(t.ins)
              old == (t.mark \cup t.clr) \cap DOMAIN db.items
              rows == FlushedRows(w)
  <1>1. /\ IsStore(db) /\ seq \in [family : Nat, list : Nat, item : Nat]
        /\ todo[w] \in Todos /\ NoDuplicateIn(db.items)
    BY DEF TInv, TypeOK, ListInv
  <1>2. job[w] \in Jobs /\ job[w].texts \in Seq(Texts)
    BY DEF Flush, TInv, JobInHand, Jobs
  <1>3. View(w).items = db.items
    <2>1. NothingPending(w)
      BY DEF Flush, ListInv, BeforeFlush
    <2> QED BY <2>1, ViewOfNothing
  <1>4. base \in Nat
    <2>1. IsStore(View(w)) /\ IdsDrawn(View(w))
      BY ViewType
    <2> QED BY <1>1, <2>1, IdBaseType DEF IsStore, IsTable, IdsDrawn
  <1>5. rows = [i \in new \cup old |->
                  CASE i \in new           -> NewRow(w, t.ins[i - base])
                    [] i \in t.mark \ new  -> BoughtRow(w, db.items[i])
                    [] OTHER               -> ClearedRow(db.items[i])]
    BY DEF FlushedRows
  <1>6. t = Decision(View(w), active[w], job[w])
    BY DEF Flush, ListInv, DecidedOnView
  <1>. HIDE DEF base, rows
  <1>7. CASE t.ins # <<>>
    <2>. DEFINE texts == NewTexts(View(w), active[w], job[w].texts)
    <2>1. t.ins = texts /\ t.mark = {} /\ t.clr = {}
      BY <1>2, <1>6, <1>7, JobAsks, DecisionKinds
    <2>2. /\ texts \in Seq(Texts)
          /\ \A k \in 1..Len(texts) :
                Lower[texts[k]] \notin Names(View(w), NeededItems(View(w), active[w]))
          /\ \A j, k \in 1..Len(texts) : j # k => Lower[texts[j]] # Lower[texts[k]]
      BY <1>2, NewTextsAreNew
    <2>. HIDE DEF texts
    <2>3. \A k \in 1..Len(texts) : \A i \in DOMAIN db.items :
              db.items[i].list = active[w] /\ db.items[i].status = "NEEDED"
                  => Lower[db.items[i].text] # Lower[texts[k]]
      BY <1>3, <2>2 DEF Names, NeededItems
    <2>4. DOMAIN rows = base + 1 .. base + Len(texts)
      BY <1>5, <2>1
    <2>5. \A i \in DOMAIN rows : rows[i].list = active[w] /\ rows[i].text = texts[i - base]
      BY <1>5, <2>1, <2>4 DEF NewRow
    <2>6. NoDuplicateIn(Overwrite(db.items, rows))
      BY <1>1, <1>4, <2>2, <2>3, <2>4, <2>5, AddingKeepsNames
    <2> QED BY <2>6 DEF rows
  <1>8. CASE t.ins = <<>>
    <2>1. new = {}
      BY <1>4, <1>8
    <2>2. DOMAIN rows = old
      BY <1>5, <2>1
    <2>3. ASSUME NEW i \in old, rows[i].status = "NEEDED"
          PROVE  /\ db.items[i].status = "NEEDED"
                 /\ db.items[i].list = rows[i].list /\ db.items[i].text = rows[i].text
      <3>1. db.items[i] \in Rows
        BY <1>1 DEF IsStore, IsTable
      <3>2. rows[i] = BoughtRow(w, db.items[i]) \/ rows[i] = ClearedRow(db.items[i])
        BY <1>5, <2>1
      <3>3. BoughtRow(w, db.items[i]).status = "BOUGHT"
        BY <3>1 DEF BoughtRow, Rows
      <3>4. /\ ClearedRow(db.items[i]).status = db.items[i].status
            /\ ClearedRow(db.items[i]).list = db.items[i].list
            /\ ClearedRow(db.items[i]).text = db.items[i].text
        BY <3>1 DEF ClearedRow, Rows
      <3> QED BY <2>3, <3>2, <3>3, <3>4
    <2>. DEFINE all == Overwrite(db.items, rows)
    <2>4. DOMAIN all = DOMAIN db.items /\ \A i \in DOMAIN all :
            all[i] = IF i \in old THEN rows[i] ELSE db.items[i]
      BY <2>2 DEF Overwrite
    <2>. HIDE DEF all
    <2>5. NoDuplicateIn(all)
      BY <1>1, <2>3, <2>4, FewerNeeded
    <2> QED BY <2>5 DEF all, rows
  <1> QED BY <1>7, <1>8

\* After the flush the session reads a list without duplicates.
LEMMA FlushList ==
    ASSUME TInv, ListInv, OneWorker, NEW w \in Workers, Flush(w)
    PROVE  ListInv'
  <1>. DEFINE all == Overwrite(db.items, FlushedRows(w))
  <1>1. NoDuplicateIn(all)
    BY FlushKeepsNames
  <1>2. /\ UNCHANGED <<db, todo>> /\ at'[w] = AfterWrite(todo[w])
        /\ pend'[w].items = FlushedRows(w) /\ pend'[w].gone = DeletedItems(w)
    BY DEF Flush, Goto, TInv, TypeOK, PendShape
  <1>3. View(w)'.items = Restrict(all, DOMAIN all \ DeletedItems(w))
    BY <1>2 DEF View, Overlay
  <1>. HIDE DEF all
  <1>4. NoDuplicateIn(View(w)'.items)
    <2>1. \A i \in DOMAIN View(w)'.items : i \in DOMAIN all /\ View(w)'.items[i] = all[i]
      BY <1>3 DEF Restrict
    <2> QED BY <1>1, <2>1, FewerNeeded
  <1>5. ~ BeforeFlush(w)' /\ at'[w] # "write"
    <2>1. todo[w] \in Todos
      BY DEF TInv, TypeOK
    <2>2. \/ at'[w] \in {"say", "commit"}
          \/ at'[w] = "list" /\ todo'[w].follow # "none"
      BY <1>2, <2>1, AfterWriteType
    <2> QED BY <2>2 DEF BeforeFlush
  <1>6. \A v \in Workers : v = w
    BY DEF OneWorker
  <1> QED BY <1>2, <1>4, <1>5, <1>6 DEF ListInv, DecidedOnView

-----------------------------------------------------------------------------

\* ListInv is inductive, given that the store is well-typed.
LEMMA NextList ==
    ASSUME OneWorker, TInv, TInv', ListInv, [Next]_vars
    PROVE  ListInv'
  <1>1. CASE UNCHANGED vars
    <2>1. UNCHANGED <<db, pend, todo, at, active, job>>
      BY <1>1 DEF vars
    <2> QED BY <2>1 DEF ListInv, View, BeforeFlush, NothingPending, Pending, DecidedOnView
  <1>2. CASE Next
    <2>1. PICK w \in Workers : TakeJob(w) \/ Statement(w) \/ Fail(w)
      BY <1>2 DEF Next
    <2>2. CASE Commit(w)
      <3>1. EndJob(w) /\ db'.items = View(w).items
        BY <2>2 DEF Commit, View
      <3> QED BY <3>1, EndJobList DEF ListInv
    <2>3. CASE InsertUserConflict(w) \/ FlushStale(w) \/ Fail(w)
      <3>1. EndJob(w) /\ db'.items = db.items
        BY <2>3 DEF InsertUserConflict, FlushStale, Fail, Rollback
      <3> QED BY <3>1, EndJobList DEF ListInv
    <2>4. CASE \/ TakeJob(w) \/ SelectUser(w) \/ SelectFamily(w) \/ InsertFamily(w)
               \/ InsertUser(w) \/ SelectList(w) \/ Say(w) \/ Follow(w) \/ Prompt(w)
      <3>1. LeavesAlone /\ at'[w] # "write"
        BY <2>4, QuietEffect
      <3> QED BY <3>1, QuietList
    <2> QED BY <2>1, <2>2, <2>3, <2>4, DecideList, FlushList DEF Statement
  <1> QED BY <1>1, <1>2

\* NoDuplicateNeeded, with one worker: whatever messages, picker taps, forms and
\* failures follow each other, and on whatever old messages, a list never shows
\* one name twice.
THEOREM ListHasNoDuplicates ==
    ASSUME OneWorker
    PROVE  Spec => []NoDuplicateNeeded
  <1>1. Init => TInv /\ ListInv
    BY InitTInv, InitList
  <1>2. TInv /\ ListInv /\ [Next]_vars => (TInv /\ ListInv)'
    BY NextTInv, NextList
  <1>3. ListInv => NoDuplicateNeeded
    BY DEF ListInv, NoDuplicateIn, NoDuplicateNeeded
  <1> QED BY <1>1, <1>2, <1>3, PTL DEF Spec

-----------------------------------------------------------------------------
(* One family and its one list.                                            *)

\* A session that is about to make a family has found none.
OneFamily ==
    /\ \A f, g \in db.families : f = g
    /\ \A w \in Workers :
        /\ \A f, g \in View(w).families : f = g
        /\ at[w] = "create" => db.families = {}

\* Every item is on a list.
OnLists(store) == \A i \in DOMAIN store.items : store.items[i].list \in DOMAIN store.lists

ItemsOnLists == OnLists(db) /\ \A w \in Workers : OnLists(View(w))

\* A session that has nothing pending reads the committed tables.
LEMMA ViewOfNoRows ==
    ASSUME NEW store, IsStore(store)
    PROVE  /\ Overlay(store, NoRows).families = store.families
           /\ Overlay(store, NoRows).lists = store.lists
           /\ Overlay(store, NoRows).items = store.items
  <1>1. DOMAIN NoRows.items = {} /\ NoRows.gone = {} /\ DOMAIN NoRows.lists = {}
        /\ NoRows.families = {}
    BY DEF NoRows
  <1>2. Overlay(store, NoRows).items = store.items
    BY <1>1, OverlayNothing
  <1>3. Overwrite(store.lists, NoRows.lists) = store.lists
    <2>1. DOMAIN Overwrite(store.lists, NoRows.lists) = DOMAIN store.lists
      BY <1>1 DEF Overwrite
    <2>2. \A l \in DOMAIN store.lists : Overwrite(store.lists, NoRows.lists)[l] = store.lists[l]
      BY <1>1 DEF Overwrite
    <2>3. store.lists \in [DOMAIN store.lists -> Nat]
      BY DEF IsStore, IsTable
    <2>4. Overwrite(store.lists, NoRows.lists) =
            [l \in DOMAIN store.lists |-> Overwrite(store.lists, NoRows.lists)[l]]
      BY <1>1 DEF Overwrite
    <2> QED BY <2>1, <2>2, <2>3, <2>4
  <1> QED BY <1>1, <1>2, <1>3 DEF Overlay

\* After a job the session reads what was committed.
LEMMA EndJobView ==
    ASSUME TInv, TInv', NEW w \in Workers, EndJob(w)
    PROVE  /\ View(w)'.families = db'.families
           /\ View(w)'.lists = db'.lists
           /\ View(w)'.items = db'.items
  <1>1. pend'[w] = NoRows
    BY EndJobPend
  <1>2. IsStore(db') /\ View(w)' = Overlay(db', pend'[w])
    BY DEF TInv, TypeOK, View
  <1> QED BY <1>1, <1>2, ViewOfNoRows

\* Before it inserts a family or a user a session reads what is committed.
LEMMA ViewOfCommitted ==
    ASSUME TInv, FamInv, NEW w \in Workers, at[w] \in BeforeFamily
    PROVE  /\ View(w).families = db.families
           /\ View(w).lists = db.lists
           /\ View(w).items = db.items
  BY ViewOfNoRows DEF View, FamInv, FamilyInHand, TInv, TypeOK

\* The statements and messages that change no list and no item.
LEMMA SameView ==
    ASSUME TInv, FamInv, NEW w \in Workers,
           \/ TakeJob(w) \/ SelectUser(w) \/ SelectFamily(w) \/ InsertUser(w)
           \/ SelectList(w) \/ Decide(w) \/ Say(w) \/ Follow(w) \/ Prompt(w)
    PROVE  /\ db' = db /\ View(w)'.families = View(w).families
           /\ View(w)'.lists = View(w).lists /\ View(w)'.items = View(w).items
           /\ seq' = seq
  <1>1. CASE InsertUser(w)
    <2>1. /\ db' = db /\ seq' = seq
          /\ pend' = [pend EXCEPT ![w] = [pend[w] EXCEPT !.users = Row(job[w].phone, family[w])]]
      BY <1>1 DEF InsertUser
    <2>2. pend[w] = [families |-> pend[w].families, lists |-> pend[w].lists,
                     users |-> pend[w].users, items |-> pend[w].items,
                     gone |-> pend[w].gone]
      BY DEF TInv, PendShape
    <2>3. ASSUME NEW u
          PROVE  LET r == [pend[w] EXCEPT !.users = u]
                 IN  /\ r.families = pend[w].families /\ r.lists = pend[w].lists
                     /\ r.items = pend[w].items /\ r.gone = pend[w].gone
      BY <2>2
    <2>4. DOMAIN pend = Workers
      BY DEF TInv, PendShape
    <2>5. /\ pend'[w].families = pend[w].families /\ pend'[w].lists = pend[w].lists
          /\ pend'[w].items = pend[w].items /\ pend'[w].gone = pend[w].gone
      BY <2>1, <2>3, <2>4
    <2> QED BY <2>1, <2>5 DEF View, Overlay
  <1>2. CASE SelectList(w)
    BY <1>2, SelectListFinds DEF SelectList, View
  <1>3. CASE TakeJob(w) \/ SelectUser(w) \/ SelectFamily(w) \/ Decide(w) \/ Say(w)
             \/ Follow(w) \/ Prompt(w)
    BY <1>3 DEF TakeJob, SelectUser, SelectFamily, Decide, Say, Follow, Prompt, View
  <1> QED BY <1>1, <1>2, <1>3

\* A new family finds none, and its list is new.
LEMMA InsertFamilyView ==
    ASSUME TInv, FamInv, NEW w \in Workers, InsertFamily(w)
    PROVE  /\ db' = db /\ View(w)'.items = View(w).items
           /\ DOMAIN View(w).lists \subseteq DOMAIN View(w)'.lists
           /\ \E f : View(w)'.families = db.families \cup {f}
  <1>. DEFINE f == IdBase(db.families, seq.family) + 1
              l == IdBase(DOMAIN db.lists, seq.list) + 1
              r == [families |-> {f}, lists |-> Row(l, f), users |-> pend[w].users,
                    items |-> pend[w].items, gone |-> pend[w].gone]
  <1>1. db' = db /\ pend' = [pend EXCEPT ![w] = r]
    BY DEF InsertFamily
  <1>2. pend'[w] = r
    BY <1>1 DEF TInv, PendShape
  <1>3. /\ pend'[w].items = pend[w].items /\ pend'[w].gone = pend[w].gone
        /\ pend'[w].families = {f}
    BY <1>2
  <1>4. View(w).lists = db.lists
    BY ViewOfCommitted DEF InsertFamily, BeforeFamily
  <1>. HIDE DEF f, l, r
  <1>5. View(w)'.items = View(w).items /\ View(w)'.families = db.families \cup {f}
    BY <1>1, <1>3 DEF View, Overlay
  <1>6. DOMAIN View(w)'.lists = DOMAIN db.lists \cup DOMAIN pend'[w].lists
    BY <1>1 DEF View, Overlay, Overwrite
  <1> QED BY <1>1, <1>4, <1>5, <1>6

\* Initially there is nothing.
LEMMA InitOne == Init => OneFamily /\ ItemsOnLists
  <1>. SUFFICES ASSUME Init PROVE OneFamily /\ ItemsOnLists
    OBVIOUS
  <1>1. db.families = {} /\ DOMAIN db.items = {}
    BY DEF Init, EmptyStore
  <1>2. \A w \in Workers : at[w] \in BeforeFamily /\ at[w] # "create"
    BY DEF Init, BeforeFamily
  <1>3. \A w \in Workers : View(w).families = db.families /\ View(w).items = db.items
    BY <1>2, InitTInv, InitFam, ViewOfCommitted
  <1> QED BY <1>1, <1>2, <1>3 DEF OneFamily, ItemsOnLists, OnLists

\* One worker makes one family.
LEMMA NextOneFamily ==
    ASSUME OneWorker, TInv, TInv', FamInv, OneFamily, [Next]_vars
    PROVE  OneFamily'
  <1>1. CASE UNCHANGED vars
    <2>1. UNCHANGED <<db, pend, at>>
      BY <1>1 DEF vars
    <2> QED BY <2>1 DEF OneFamily, View
  <1>2. CASE Next
    <2>1. PICK w \in Workers : TakeJob(w) \/ Statement(w) \/ Fail(w)
      BY <1>2 DEF Next
    <2>2. \A v \in Workers : v = w
      BY DEF OneWorker
    <2>3. SUFFICES /\ \A f, g \in View(w)'.families : f = g
                   /\ at'[w] = "create" => db'.families = {}
      <3>1. db'.families \subseteq View(w)'.families
        BY DEF View, Overlay
      <3> QED BY <2>2, <2>3, <3>1 DEF OneFamily
    <2>4. \A f, g \in View(w).families : f = g
      BY DEF OneFamily
    <2>5. DOMAIN at = Workers /\ DOMAIN pend = Workers /\ todo[w] \in Todos
      BY DEF TInv, TypeOK, PendShape
    <2>6. CASE \/ TakeJob(w) \/ SelectUser(w) \/ SelectFamily(w) \/ InsertUser(w)
               \/ SelectList(w) \/ Say(w) \/ Follow(w) \/ Prompt(w)
      <3>1. at'[w] = "create" => db.families = {}
        BY <2>5, <2>6 DEF TakeJob, SelectUser, SelectFamily, InsertUser, SelectList, Say,
              Follow, Prompt, SendList, SendPicker, SendListInstead, Goto, AfterUser
      <3> QED BY <2>4, <2>6, <3>1, SameView
    <2>7. CASE Decide(w)
      <3>1. Decision(View(w), active[w], job[w]) \in Todos
        BY <2>7, ViewType, JobDecisionType DEF Decide, TInv, JobInHand
      <3>2. at'[w] # "create"
        BY <2>5, <2>7, <3>1, AfterWriteType DEF Decide, Goto
      <3> QED BY <2>4, <2>7, <3>2, SameView
    <2>8. CASE InsertFamily(w)
      <3>1. db.families = {} /\ at'[w] # "create"
        BY <2>5, <2>8 DEF InsertFamily, Goto, OneFamily
      <3> QED BY <2>8, <3>1, InsertFamilyView
    <2>9. CASE Flush(w)
      <3>1. db' = db /\ pend'[w].families = pend[w].families /\ at'[w] # "create"
        BY <2>5, <2>9, AfterWriteType DEF Flush, Goto
      <3>2. View(w)'.families = View(w).families
        BY <3>1 DEF View, Overlay
      <3> QED BY <2>4, <3>1, <3>2
    <2>10. CASE InsertUserConflict(w) \/ FlushStale(w) \/ Fail(w) \/ Commit(w)
      <3>1. EndJob(w) /\ (db' = db \/ db' = View(w))
        BY <2>10 DEF InsertUserConflict, FlushStale, Fail, Commit, Rollback, View
      <3>2. at'[w] = "idle" /\ View(w)'.families = db'.families
        BY <3>1, EndJobPend, EndJobView
      <3>3. db'.families \subseteq View(w).families
        BY <3>1 DEF View, Overlay
      <3> QED BY <2>4, <3>2, <3>3
    <2> QED BY <2>1, <2>6, <2>7, <2>8, <2>9, <2>10 DEF Statement
  <1> QED BY <1>1, <1>2

\* SingleFamily, with one worker: two phones always share one family.
THEOREM FamilyIsSingle ==
    ASSUME OneWorker
    PROVE  Spec => []SingleFamily
  <1>1. Init => TInv /\ FamInv /\ OneFamily
    BY InitTInv, InitFam, InitOne
  <1>2. TInv /\ FamInv /\ OneFamily /\ [Next]_vars => (TInv /\ FamInv /\ OneFamily)'
    BY NextTInv, NextFam, NextOneFamily
  <1>3. TInv /\ OneFamily => SingleFamily
    <2>. SUFFICES ASSUME OneFamily PROVE SingleFamily
      OBVIOUS
    <2>1. db.families = {} \/ \E f : db.families = {f}
      BY DEF OneFamily
    <2>2. Cardinality(db.families) = 0 \/ Cardinality(db.families) = 1
      BY <2>1, FS_EmptySet, FS_Singleton
    <2> QED BY <2>2 DEF SingleFamily
  <1> QED BY <1>1, <1>2, <1>3, PTL DEF Spec

-----------------------------------------------------------------------------
(* The list in hand.                                                       *)

\* The worker has the list of its family in hand.
Found(w) == ActiveLists(View(w), family[w]) = {active[w]}

\* A session that has decided nothing yet.
BeforeDecision(w) ==
    \/ at[w] \in BeforeFamily \cup {"register", "decide"}
    \/ at[w] = "list" /\ todo[w].follow = "none"

\* Whoever adds or clears has the list in hand, from the decision to the commit.
ListFound ==
    \A w \in Workers :
        /\ BeforeDecision(w) => todo[w] = NoTodo
        /\ at[w] = "decide" /\ job[w].action \notin ButtonActions \cup {"buy"} => Found(w)
        /\ todo[w].ins # <<>> \/ todo[w].clr # {} => Found(w)

\* A session that sees no more than one family sees no more than one list.
LEMMA SingleList ==
    ASSUME FamInv, OneFamily, NEW w \in Workers,
           NEW k \in DOMAIN View(w).lists, NEW l \in DOMAIN View(w).lists
    PROVE  k = l
  <1>. DEFINE s == View(w)
  <1>1. OneListEach(s) /\ \A f, g \in s.families : f = g
    BY ViewHasOneList DEF OneFamily
  <1>. HIDE DEF s
  <1>2. s.lists[k] \in s.families /\ s.lists[l] = s.lists[k]
    BY <1>1 DEF OneListEach, s
  <1>3. PICK m : ActiveLists(s, s.lists[k]) = {m}
    BY <1>1, <1>2 DEF OneListEach
  <1> QED BY <1>2, <1>3 DEF ActiveLists, s

\* get_active_list gives the worker the list of its family.
LEMMA SelectListIsFound ==
    ASSUME TInv, FamInv, NEW w \in Workers, SelectList(w)
    PROVE  Found(w)' /\ (Found(w) => active'[w] = active[w])
  <1>1. family[w] \in View(w).families
    <2>1. at[w] \notin BeforeFamily
      BY DEF SelectList, BeforeFamily
    <2> QED BY <2>1 DEF FamInv, FamilyInHand, View, Overlay
  <1>2. PICK k : ActiveLists(View(w), family[w]) = {k}
    BY <1>1, ViewHasOneList DEF OneListEach
  <1>3. active'[w] = k
    BY <1>2, SelectListFinds DEF TInv, TypeOK
  <1>4. ActiveLists(View(w)', family'[w]) = {k}
    <2>1. View(w)'.lists = View(w).lists /\ family' = family
      BY SameView DEF SelectList
    <2> QED BY <1>2, <2>1 DEF ActiveLists
  <1> QED BY <1>2, <1>3, <1>4 DEF Found

\* A step that leaves the lists, the family and the list in hand alone.
LEMMA StillFound ==
    ASSUME NEW w \in Workers, View(w)'.lists = View(w).lists,
           family'[w] = family[w], active'[w] = active[w], Found(w)
    PROVE  Found(w)'
  BY DEF Found, ActiveLists

\* Every step keeps the list in hand of those who add or clear.
LEMMA NextFound ==
    ASSUME OneWorker, TInv, TInv', FamInv, ListFound, [Next]_vars
    PROVE  ListFound'
  <1>1. CASE UNCHANGED vars
    <2>1. UNCHANGED <<db, pend, at, todo, job, family, active>>
      BY <1>1 DEF vars
    <2> QED BY <2>1 DEF ListFound, BeforeDecision, Found, View
  <1>2. CASE Next
    <2>1. PICK w \in Workers : TakeJob(w) \/ Statement(w) \/ Fail(w)
      BY <1>2 DEF Next
    <2>2. \A v \in Workers : v = w
      BY DEF OneWorker
    <2>. DEFINE Inv == /\ BeforeDecision(w) => todo[w] = NoTodo
                       /\ at[w] = "decide" /\ job[w].action \notin ButtonActions \cup {"buy"}
                            => Found(w)
                       /\ todo[w].ins # <<>> \/ todo[w].clr # {} => Found(w)
    <2>3. SUFFICES Inv'
      BY <2>2, <2>3 DEF ListFound
    <2>4. Inv
      BY DEF ListFound
    <2>5. /\ DOMAIN at = Workers /\ DOMAIN todo = Workers /\ todo[w] \in Todos
          /\ NoTodo.ins = <<>> /\ NoTodo.clr = {} /\ NoTodo.follow = "none"
      BY DEF TInv, TypeOK, NoTodo, Answer
    <2>6. CASE \/ TakeJob(w) \/ SelectUser(w) \/ SelectFamily(w) \/ InsertFamily(w)
               \/ InsertUser(w)
      <3>1. todo' = todo /\ todo[w] = NoTodo
        BY <2>4, <2>6 DEF TakeJob, SelectUser, SelectFamily, InsertFamily, InsertUser,
                          BeforeDecision, BeforeFamily
      <3>2. at'[w] = "decide" => job'[w].action \in ButtonActions \cup {"buy"}
        BY <2>5, <2>6 DEF TakeJob, SelectUser, SelectFamily, InsertFamily, InsertUser,
                          Goto, AfterUser
      <3> QED BY <2>5, <3>1, <3>2
    <2>7. CASE SelectList(w)
      <3>1. Found(w)'
        BY <2>7, SelectListIsFound
      <3>2. /\ todo' = todo /\ at[w] = "list"
            /\ at'[w] = IF todo[w].follow = "none" THEN "decide" ELSE "follow"
        BY <2>5, <2>7 DEF SelectList, Goto
      <3>3. BeforeDecision(w)' => todo[w] = NoTodo
        BY <2>4, <3>2 DEF BeforeDecision, BeforeFamily
      <3> QED BY <3>1, <3>2, <3>3
    <2>8. CASE Decide(w)
      <3>. DEFINE t == Decision(View(w), active[w], job[w])
      <3>1. /\ at[w] = "decide" /\ todo'[w] = t
            /\ at'[w] = "write" \/ at'[w] = AfterWrite(t)
        BY <2>5, <2>8 DEF Decide, Goto
      <3>2. t \in Todos
        BY <3>1, ViewType, JobDecisionType DEF TInv, JobInHand
      <3>3. job[w].action \in ButtonActions \cup {"buy"} => t.ins = <<>> /\ t.clr = {}
        BY DecisionWithoutList
      <3>. HIDE DEF t
      <3>4. /\ AfterWrite(t) # "decide" /\ AfterWrite(t) \notin BeforeFamily \cup {"register"}
            /\ AfterWrite(t) = "list" => t.follow # "none"
        BY <3>2, AfterWriteType DEF BeforeFamily
      <3>5. ~ BeforeDecision(w)' /\ at'[w] # "decide"
        BY <3>1, <3>4 DEF BeforeDecision, BeforeFamily
      <3>6. Found(w) => Found(w)'
        BY <2>8, SameView, StillFound DEF Decide
      <3> QED BY <2>4, <3>1, <3>3, <3>5, <3>6
    <2>9. CASE Flush(w) \/ Say(w) \/ Follow(w) \/ Prompt(w)
      <3>1. View(w)'.lists = View(w).lists
        <4>1. CASE Flush(w)
          <5>1. db' = db /\ pend'[w].lists = pend[w].lists
            BY <4>1 DEF Flush, TInv, PendShape
          <5> QED BY <5>1 DEF View, Overlay
        <4> QED BY <2>9, <4>1, SameView
      <3>2. family' = family /\ active' = active
        BY <2>9 DEF Flush, Say, Follow, Prompt
      <3>3. Found(w) => Found(w)'
        BY <3>1, <3>2, StillFound
      <3>4. todo'[w].ins = todo[w].ins /\ todo'[w].clr = todo[w].clr
        BY <2>5, <2>9 DEF Flush, Say, Follow, SendListInstead, Prompt, Todos
      <3>5. ~ BeforeDecision(w)' /\ at'[w] # "decide"
        <4>1. CASE Flush(w)
          BY <2>5, <4>1, AfterWriteType DEF Flush, Goto, BeforeDecision, BeforeFamily
        <4>2. CASE Say(w) \/ Prompt(w)
          BY <2>5, <4>2 DEF Say, Prompt, Goto, BeforeDecision, BeforeFamily
        <4>3. CASE Follow(w)
          <5>1. \/ at'[w] \in {"commit", "prompt"}
                \/ at'[w] = "list" /\ todo'[w].follow = "list"
            BY <2>5, <4>3 DEF Follow, SendList, SendPicker, SendListInstead, Goto, Todos
          <5> QED BY <5>1 DEF BeforeDecision, BeforeFamily
        <4> QED BY <2>9, <4>1, <4>2, <4>3
      <3> QED BY <2>4, <3>3, <3>4, <3>5
    <2>10. CASE InsertUserConflict(w) \/ FlushStale(w) \/ Fail(w) \/ Commit(w)
      <3>1. at'[w] = "idle" /\ todo'[w] = NoTodo
        BY <2>5, <2>10 DEF InsertUserConflict, FlushStale, Fail, Commit, Rollback, EndJob, Goto
      <3> QED BY <2>5, <3>1
    <2> QED BY <2>1, <2>6, <2>7, <2>8, <2>9, <2>10 DEF Statement
  <1> QED BY <1>1, <1>2

-----------------------------------------------------------------------------
(* What a flush does to the items.                                         *)

\* The table b is the table a once w has written its decision, with new items under
\* the ids new, which follow base.
FlushedTo(w, base, new, a, b) ==
    LET t == todo[w]
    IN  /\ new = base + 1 .. base + Len(t.ins)
        /\ new \cap DOMAIN a = {}
        /\ b = [i \in DOMAIN b |-> b[i]]
        /\ DOMAIN b = (DOMAIN a \cup new) \ (t.del \cap DOMAIN a)
        /\ \A i \in DOMAIN b :
              /\ i \in new => b[i] = NewRow(w, t.ins[i - base])
              /\ i \in t.mark \ new => b[i] = BoughtRow(w, a[i])
              /\ i \in t.clr \ (t.mark \cup new) => b[i] = ClearedRow(a[i])
              /\ i \notin t.clr \cup t.mark \cup new => b[i] = a[i]

\* After the flush the session reads the committed items without the deleted ones,
\* with the changed ones changed, and the new ones under ids no item has.
LEMMA FlushedView ==
    ASSUME TInv, ListInv, NEW w \in Workers, Flush(w)
    PROVE  \E base \in Nat : \E new : FlushedTo(w, base, new, db.items, View(w)'.items)
  <1>. DEFINE a == db.items
              t == todo[w]
              base == IdBase(DOMAIN View(w).items, seq.item)
              new == base + 1 .. base + Len(t.ins)
              old == (t.mark \cup t.clr) \cap DOMAIN a
              rows == FlushedRows(w)
              all == Overwrite(a, rows)
              b == View(w)'.items
  <1>1. View(w).items = a
    BY ViewOfNothing DEF Flush, ListInv, BeforeFlush
  <1>2. /\ IsStore(View(w)) /\ IdsDrawn(View(w)) /\ seq.item \in Nat
        /\ DOMAIN a \in SUBSET Nat
    BY ViewType DEF TInv, TypeOK, IsStore, IsTable
  <1>3. base \in Nat /\ \A i \in DOMAIN a : i <= base
    BY <1>1, <1>2, IdBaseType, IdBaseAbove DEF IdsDrawn
  <1>4. rows = [i \in new \cup old |->
                  CASE i \in new           -> NewRow(w, t.ins[i - base])
                    [] i \in t.mark \ new  -> BoughtRow(w, db.items[i])
                    [] OTHER               -> ClearedRow(db.items[i])]
    BY DEF FlushedRows
  <1>5. b = Restrict(all, DOMAIN all \ (t.del \cap DOMAIN a))
    <2>1. db' = db /\ pend'[w].items = rows /\ pend'[w].gone = t.del \cap DOMAIN a
      BY DEF Flush, DeletedItems, TInv, PendShape
    <2> QED BY <2>1 DEF View, Overlay
  <1>6. \A i \in new : i \in Nat /\ i > base
    <2>1. Len(t.ins) \in Nat
      BY DEF TInv, TypeOK, Todos
    <2>. HIDE DEF base
    <2> QED BY <1>3, <2>1
  <1>7. new \cap DOMAIN a = {}
    <2>. HIDE DEF base, new
    <2> QED BY <1>2, <1>3, <1>6
  <1>. HIDE DEF a, t, base, rows, b
  <1>8. DOMAIN rows = new \cup old
    BY <1>4
  <1>9. /\ DOMAIN all = DOMAIN a \cup new
        /\ \A i \in DOMAIN all : all[i] = IF i \in DOMAIN rows THEN rows[i] ELSE a[i]
    BY <1>8 DEF Overwrite
  <1>. HIDE DEF all
  <1>10. /\ b = [i \in DOMAIN b |-> b[i]]
         /\ DOMAIN b = (DOMAIN a \cup new) \ (t.del \cap DOMAIN a)
         /\ \A i \in DOMAIN b : b[i] = all[i]
    BY <1>5, <1>9 DEF Restrict
  <1>11. ASSUME NEW i \in DOMAIN b
         PROVE  /\ i \in new => b[i] = NewRow(w, t.ins[i - base])
                /\ i \in t.mark \ new => b[i] = BoughtRow(w, a[i])
                /\ i \in t.clr \ (t.mark \cup new) => b[i] = ClearedRow(a[i])
                /\ i \notin t.clr \cup t.mark \cup new => b[i] = a[i]
    <2>1. i \in DOMAIN a \cup new /\ b[i] = IF i \in new \cup old THEN rows[i] ELSE a[i]
      BY <1>8, <1>9, <1>10
    <2>2. CASE i \in new
      BY <1>4, <2>1, <2>2
    <2>3. CASE i \in t.mark \ new
      BY <1>4, <2>1, <2>3 DEF a
    <2>4. CASE i \in t.clr \ (t.mark \cup new)
      BY <1>4, <2>1, <2>4 DEF a
    <2>5. CASE i \notin t.clr \cup t.mark \cup new
      BY <2>1, <2>5
    <2> QED BY <2>2, <2>3, <2>4, <2>5
  <1>12. FlushedTo(w, base, new, a, b)
    BY <1>7, <1>10, <1>11 DEF FlushedTo, t
  <1> QED BY <1>3, <1>12 DEF a, b

\* New items come on the list in hand, the others stay where they are.
LEMMA FlushOnLists ==
    ASSUME TInv, FamInv, ListInv, ListFound, ItemsOnLists, NEW w \in Workers, Flush(w)
    PROVE  OnLists(View(w))'
  <1>. DEFINE a == db.items
              b == View(w)'.items
              t == todo[w]
  <1>1. PICK base \in Nat : \E new : FlushedTo(w, base, new, a, b)
    BY FlushedView
  <1>. PICK new : FlushedTo(w, base, new, a, b)
    BY <1>1
  <1>2. /\ View(w)'.lists = View(w).lists /\ View(w).items = a
        /\ a \in [DOMAIN a -> Rows] /\ t.ins \in Seq(Texts)
    <2>1. db' = db /\ pend'[w].lists = pend[w].lists
      BY DEF Flush, TInv, PendShape
    <2>2. View(w).items = a
      BY ViewOfNothing DEF Flush, ListInv, BeforeFlush
    <2> QED BY <2>1, <2>2 DEF View, Overlay, TInv, TypeOK, IsStore, IsTable, Todos
  <1>3. \A i \in DOMAIN a : a[i].list \in DOMAIN View(w).lists
    BY <1>2 DEF ItemsOnLists, OnLists
  <1>4. t.ins # <<>> => active[w] \in DOMAIN View(w).lists
    BY DEF ListFound, Found, ActiveLists
  <1>5. t.ins = <<>> => new = {}
    BY DEF FlushedTo
  <1>6. /\ DOMAIN b = (DOMAIN a \cup new) \ (t.del \cap DOMAIN a)
        /\ \A i \in DOMAIN b :
              /\ i \in new => b[i] = NewRow(w, t.ins[i - base])
              /\ i \notin new => \/ b[i] = BoughtRow(w, a[i])
                                 \/ b[i] = ClearedRow(a[i])
                                 \/ b[i] = a[i]
    BY DEF FlushedTo
  <1>. HIDE DEF a, b, t
  <1>7. ASSUME NEW i \in DOMAIN b PROVE b[i].list \in DOMAIN View(w).lists
    <2>1. CASE i \in new
      <3>1. b[i] = NewRow(w, t.ins[i - base])
        BY <1>6, <2>1
      <3>2. b[i].list = active[w]
        BY <3>1 DEF NewRow
      <3> QED BY <1>4, <1>5, <2>1, <3>2
    <2>2. CASE i \notin new
      <3>1. i \in DOMAIN a /\ a[i] \in Rows
        BY <1>2, <1>6, <2>2
      <3>2. b[i] = BoughtRow(w, a[i]) \/ b[i] = ClearedRow(a[i]) \/ b[i] = a[i]
        BY <1>6, <2>2
      <3>3. b[i].list = a[i].list
        BY <3>1, <3>2 DEF BoughtRow, ClearedRow, Rows
      <3> QED BY <1>3, <3>1, <3>3
    <2> QED BY <2>1, <2>2
  <1> QED BY <1>2, <1>7 DEF OnLists, b

\* Every step keeps items on lists.
LEMMA NextOnLists ==
    ASSUME OneWorker, TInv, TInv', FamInv, ListInv, ListFound, ItemsOnLists, [Next]_vars
    PROVE  ItemsOnLists'
  <1>1. CASE UNCHANGED vars
    <2>1. UNCHANGED <<db, pend>>
      BY <1>1 DEF vars
    <2> QED BY <2>1 DEF ItemsOnLists, OnLists, View
  <1>2. CASE Next
    <2>1. PICK w \in Workers : TakeJob(w) \/ Statement(w) \/ Fail(w)
      BY <1>2 DEF Next
    <2>2. \A v \in Workers : v = w
      BY DEF OneWorker
    <2>3. SUFFICES OnLists(db') /\ OnLists(View(w))'
      BY <2>2, <2>3 DEF ItemsOnLists
    <2>4. OnLists(db) /\ OnLists(View(w))
      BY DEF ItemsOnLists
    <2>5. CASE \/ TakeJob(w) \/ SelectUser(w) \/ SelectFamily(w) \/ InsertUser(w)
               \/ SelectList(w) \/ Decide(w) \/ Say(w) \/ Follow(w) \/ Prompt(w)
      BY <2>4, <2>5, SameView DEF OnLists
    <2>6. CASE InsertFamily(w)
      BY <2>4, <2>6, InsertFamilyView DEF OnLists
    <2>7. CASE Flush(w)
      <3>1. db' = db
        BY <2>7 DEF Flush
      <3> QED BY <2>4, <2>7, <3>1, FlushOnLists
    <2>8. CASE InsertUserConflict(w) \/ FlushStale(w) \/ Fail(w) \/ Commit(w)
      <3>1. EndJob(w) /\ (db' = db \/ db' = View(w))
        BY <2>8 DEF InsertUserConflict, FlushStale, Fail, Commit, Rollback, View
      <3> QED BY <2>4, <3>1, EndJobView DEF OnLists
    <2> QED BY <2>1, <2>5, <2>6, <2>7, <2>8 DEF Statement
  <1> QED BY <1>1, <1>2

-----------------------------------------------------------------------------
(* A job is one action on the list.                                        *)

\* The actions of FamilyList on a table of items: b is what they make of a.
AddsTo(a, b) ==
    /\ DOMAIN a \subseteq DOMAIN b
    /\ \A i \in DOMAIN a : b[i] = a[i]
    /\ \A i \in DOMAIN b \ DOMAIN a :
        /\ b[i].status = "NEEDED"
        /\ \A j \in NeededIn(b) \ {i} : Lower[b[i].text] # Lower[b[j].text]

BuysFrom(a, b) == \E S \in SUBSET NeededIn(a), p \in Phones :
    b = [i \in DOMAIN a |->
            IF i \in S THEN [a[i] EXCEPT !.status = "BOUGHT", !.boughtBy = p] ELSE a[i]]

RemovesFrom(a, b) == \E S \in SUBSET NeededIn(a) : b = [i \in DOMAIN a \ S |-> a[i]]

Clears(a, b) ==
    b = [i \in DOMAIN a |->
            IF i \in NeededIn(a) THEN a[i] ELSE [a[i] EXCEPT !.cleared = TRUE]]

ActionOn(a, b) == AddsTo(a, b) \/ BuysFrom(a, b) \/ RemovesFrom(a, b) \/ Clears(a, b)

\* What w decided holds in what it reads.
Done(w) ==
    LET s == View(w)
        t == todo[w]
    IN  /\ \A k \in DOMAIN t.ins : Lower[t.ins[k]] \in Names(s, NeededItems(s, active[w]))
        /\ \A i \in t.mark : s.items[i].status = "BOUGHT"
        /\ \A i \in t.del : i \notin DOMAIN s.items
        /\ ClearableItems(s, active[w]) \cap t.clr = {}

\* From its flush on a session reads one action more than is committed, the one
\* it decided on.
Written ==
    \A w \in Workers : ~ BeforeFlush(w) => Done(w) /\ ActionOn(db.items, View(w).items)

\* Doing nothing is to add nothing.
LEMMA NoAction ==
    ASSUME NEW a
    PROVE  ActionOn(a, a)
  BY DEF ActionOn, AddsTo

\* On the list of its family, no two needed items have one name.
LEMMA NamesDiffer ==
    ASSUME NEW s, NoDuplicateIn(s.items), OnLists(s),
           \A k, l \in DOMAIN s.lists : k = l,
           NEW i \in NeededIn(s.items), NEW j \in NeededIn(s.items), i # j
    PROVE  Lower[s.items[i].text] # Lower[s.items[j].text]
  <1>1. i \in DOMAIN s.items /\ j \in DOMAIN s.items
    BY DEF NeededIn
  <1>2. s.items[i].list = s.items[j].list
    BY <1>1 DEF OnLists
  <1> QED BY <1>1, <1>2 DEF NoDuplicateIn, NeededIn

\* A flush of new items.
LEMMA FlushAdds ==
    ASSUME NEW w \in Workers, NEW base \in Nat, NEW new, NEW a, NEW s,
           a = [i \in DOMAIN a |-> a[i]],
           FlushedTo(w, base, new, a, s.items),
           todo[w].ins \in Seq(Texts),
           todo[w].mark = {}, todo[w].del = {}, todo[w].clr = {},
           NoDuplicateIn(s.items), OnLists(s), \A k, l \in DOMAIN s.lists : k = l
    PROVE  /\ AddsTo(a, s.items)
           /\ \A k \in DOMAIN todo[w].ins :
                Lower[todo[w].ins[k]] \in Names(s, NeededItems(s, active[w]))
  <1>. DEFINE t == todo[w]
              b == s.items
  <1>1. /\ DOMAIN b = DOMAIN a \cup new /\ new \cap DOMAIN a = {}
        /\ \A i \in new : b[i] = NewRow(w, t.ins[i - base])
        /\ \A i \in DOMAIN a : b[i] = a[i]
        /\ new = base + 1 .. base + Len(t.ins)
    <2>1. /\ new = base + 1 .. base + Len(t.ins) /\ new \cap DOMAIN a = {}
          /\ DOMAIN b = (DOMAIN a \cup new) \ (t.del \cap DOMAIN a)
          /\ \A i \in DOMAIN b : i \in new => b[i] = NewRow(w, t.ins[i - base])
          /\ \A i \in DOMAIN b : i \notin t.clr \cup t.mark \cup new => b[i] = a[i]
      BY DEF FlushedTo
    <2>2. t.del = {} /\ t.clr = {} /\ t.mark = {}
      OBVIOUS
    <2>. HIDE DEF t, b
    <2>3. DOMAIN b = DOMAIN a \cup new
      BY <2>1, <2>2
    <2>4. \A i \in DOMAIN a : i \in DOMAIN b /\ i \notin t.clr \cup t.mark \cup new
      BY <2>1, <2>2, <2>3
    <2> QED BY <2>1, <2>3, <2>4
  <1>2. \A i \in new : /\ b[i].status = "NEEDED" /\ b[i].list = active[w]
                       /\ b[i].text = t.ins[i - base]
    <2>1. \A text : LET r == NewRow(w, text)
                    IN  r.status = "NEEDED" /\ r.list = active[w] /\ r.text = text
      BY DEF NewRow
    <2>. HIDE DEF t, b
    <2> QED BY <1>1, <2>1
  <1>3. ASSUME NEW i \in new, NEW j \in NeededIn(b) \ {i}
        PROVE  Lower[b[i].text] # Lower[b[j].text]
    <2>1. i \in NeededIn(b)
      BY <1>1, <1>2 DEF NeededIn
    <2> QED BY <2>1, NamesDiffer
  <1>4. AddsTo(a, b)
    BY <1>1, <1>2, <1>3 DEF AddsTo
  <1>5. ASSUME NEW k \in DOMAIN t.ins
        PROVE  Lower[t.ins[k]] \in Names(s, NeededItems(s, active[w]))
    <2>1. k \in 1..Len(t.ins)
      OBVIOUS
    <2>2. base + k \in new /\ base + k - base = k
      BY <1>1, <2>1
    <2>3. base + k \in NeededItems(s, active[w]) /\ b[base + k].text = t.ins[k]
      BY <1>1, <1>2, <2>2 DEF NeededItems
    <2> QED BY <2>3 DEF Names
  <1> QED BY <1>4, <1>5

\* A flush of purchases.
LEMMA FlushBuys ==
    ASSUME NEW w \in Workers, NEW base \in Nat, NEW new, NEW a, NEW b,
           FlushedTo(w, base, new, a, b), job[w].phone \in Phones,
           a \in [DOMAIN a -> Rows],
           todo[w].ins = <<>>, todo[w].del = {}, todo[w].clr = {},
           todo[w].mark \subseteq NeededIn(a)
    PROVE  BuysFrom(a, b) /\ \A i \in todo[w].mark : b[i].status = "BOUGHT"
  <1>. DEFINE S == todo[w].mark
  <1>1. new = {}
    BY DEF FlushedTo
  <1>2. /\ DOMAIN b = DOMAIN a /\ b = [i \in DOMAIN b |-> b[i]]
        /\ \A i \in DOMAIN b : /\ i \in S => b[i] = BoughtRow(w, a[i])
                               /\ i \notin S => b[i] = a[i]
    BY <1>1 DEF FlushedTo
  <1>. HIDE DEF S
  <1>3. b = [i \in DOMAIN a |->
                IF i \in S THEN [a[i] EXCEPT !.status = "BOUGHT", !.boughtBy = job[w].phone]
                           ELSE a[i]]
    <2>1. b = [i \in DOMAIN a |-> IF i \in S THEN BoughtRow(w, a[i]) ELSE a[i]]
      BY <1>2
    <2> QED BY <2>1 DEF BoughtRow
  <1>4. \A i \in S : b[i].status = "BOUGHT"
    <2>. TAKE i \in S
    <2>1. i \in DOMAIN a /\ a[i] \in Rows /\ b[i] = BoughtRow(w, a[i])
      BY <1>2 DEF S, NeededIn
    <2> QED BY <2>1 DEF BoughtRow, Rows
  <1> QED BY <1>3, <1>4 DEF BuysFrom, S

\* A flush of removals.
LEMMA FlushRemoves ==
    ASSUME NEW w \in Workers, NEW base \in Nat, NEW new, NEW a, NEW b,
           FlushedTo(w, base, new, a, b),
           todo[w].ins = <<>>, todo[w].mark = {}, todo[w].clr = {},
           todo[w].del \subseteq NeededIn(a)
    PROVE  RemovesFrom(a, b) /\ \A i \in todo[w].del : i \notin DOMAIN b
  <1>. DEFINE S == todo[w].del
  <1>1. new = {} /\ S \subseteq DOMAIN a
    BY DEF FlushedTo, NeededIn
  <1>2. /\ DOMAIN b = DOMAIN a \ S /\ b = [i \in DOMAIN b |-> b[i]]
        /\ \A i \in DOMAIN b : b[i] = a[i]
    BY <1>1 DEF FlushedTo
  <1>. HIDE DEF S
  <1>3. b = [i \in DOMAIN a \ S |-> a[i]]
    BY <1>2
  <1> QED BY <1>2, <1>3 DEF RemovesFrom, S

\* To clear a cleared row changes nothing.
LEMMA ClearedTwice ==
    ASSUME NEW r \in Rows, r.cleared
    PROVE  [r EXCEPT !.cleared = TRUE] = r
  <1>1. r.cleared = TRUE
    BY DEF Rows
  <1> QED BY <1>1 DEF Rows

\* A flush of what is cleared, with every item on the one list.
LEMMA FlushClears ==
    ASSUME NEW w \in Workers, NEW base \in Nat, NEW new, NEW s, NEW b,
           FlushedTo(w, base, new, s.items, b),
           s.items \in [DOMAIN s.items -> Rows],
           \A i \in DOMAIN s.items : s.items[i].list = active[w],
           todo[w].ins = <<>>, todo[w].mark = {}, todo[w].del = {},
           todo[w].clr = ClearableItems(s, active[w])
    PROVE  Clears(s.items, b) /\ \A i \in todo[w].clr : i \in DOMAIN b /\ b[i].cleared
  <1>. DEFINE S == todo[w].clr
              a == s.items
  <1>1. new = {}
    BY DEF FlushedTo
  <1>2. /\ DOMAIN b = DOMAIN a /\ b = [i \in DOMAIN b |-> b[i]]
        /\ \A i \in DOMAIN b : /\ i \in S => b[i] = ClearedRow(a[i])
                               /\ i \notin S => b[i] = a[i]
    BY <1>1 DEF FlushedTo
  <1>3. S \subseteq DOMAIN a /\ \A i \in DOMAIN a : i \in S <=> a[i].status = "BOUGHT" /\ ~ a[i].cleared
    BY DEF ClearableItems
  <1>. HIDE DEF S
  <1>4. ASSUME NEW i \in DOMAIN a
        PROVE  b[i] = IF i \in NeededIn(a) THEN a[i] ELSE [a[i] EXCEPT !.cleared = TRUE]
    <2>1. a[i] \in Rows /\ (i \notin NeededIn(a) <=> a[i].status = "BOUGHT")
      BY DEF NeededIn, Rows, Statuses
    <2>2. CASE i \in S
      BY <1>2, <1>3, <2>1, <2>2 DEF ClearedRow
    <2>3. CASE i \notin S /\ i \in NeededIn(a)
      BY <1>2, <2>3
    <2>4. CASE i \notin S /\ i \notin NeededIn(a)
      <3>1. a[i].cleared
        BY <1>3, <2>1, <2>4
      <3>2. [a[i] EXCEPT !.cleared = TRUE] = a[i]
        BY <2>1, <3>1, ClearedTwice
      <3> QED BY <1>2, <2>4, <3>2
    <2> QED BY <2>2, <2>3, <2>4
  <1>5. Clears(a, b)
    <2>. HIDE DEF a
    <2> QED BY <1>2, <1>4 DEF Clears
  <1>6. \A i \in S : b[i].cleared
    <2>. TAKE i \in S
    <2>1. i \in DOMAIN a /\ a[i] \in Rows /\ b[i] = ClearedRow(a[i])
      BY <1>2, <1>3
    <2> QED BY <2>1 DEF ClearedRow, Rows
  <1> QED BY <1>2, <1>3, <1>5, <1>6 DEF S

\* A flush is one action on the list, and does what was decided.
LEMMA FlushWritten ==
    ASSUME TInv, FamInv, OneFamily, ListInv, ListFound, ItemsOnLists, NEW w \in Workers,
           Flush(w), NoDuplicateIn(View(w)'.items), OnLists(View(w))'
    PROVE  Done(w)' /\ ActionOn(db.items, View(w)'.items)
  <1>. DEFINE a == db.items
              s == View(w)'
              t == todo[w]
              l == active[w]
              Effects == /\ \A k \in DOMAIN t.ins : Lower[t.ins[k]] \in Names(s, NeededItems(s, l))
                         /\ \A i \in t.mark : s.items[i].status = "BOUGHT"
                         /\ \A i \in t.del : i \notin DOMAIN s.items
                         /\ ClearableItems(s, l) \cap t.clr = {}
  <1>1. PICK base \in Nat : \E new : FlushedTo(w, base, new, a, s.items)
    BY FlushedView
  <1>. PICK new : FlushedTo(w, base, new, a, s.items)
    BY <1>1
  <1>2. View(w).items = a
    BY ViewOfNothing DEF Flush, ListInv, BeforeFlush
  <1>3. /\ a \in [DOMAIN a -> Rows] /\ t.ins \in Seq(Texts) /\ job[w] \in Jobs
        /\ job[w].phone \in Phones /\ a = [i \in DOMAIN a |-> a[i]]
    <2>1. at[w] # "idle"
      BY DEF Flush
    <2> QED BY <2>1 DEF TInv, TypeOK, JobInHand, IsStore, IsTable, Todos, Jobs
  <1>4. s.lists = View(w).lists /\ todo' = todo /\ active' = active
    <2>1. db' = db /\ pend'[w].lists = pend[w].lists /\ todo' = todo /\ active' = active
      BY DEF Flush, TInv, PendShape
    <2> QED BY <2>1 DEF View, Overlay
  <1>5. \A j, k \in DOMAIN View(w).lists : j = k
    BY SingleList
  <1>6. t = Decision(View(w), l, job[w])
    BY DEF Flush, ListInv, DecidedOnView
  <1>7. SUFFICES Effects /\ ActionOn(a, s.items)
    <2>1. Effects => Done(w)'
      BY <1>4 DEF Done
    <2> QED BY <1>7, <2>1
  <1>8. NoDuplicateIn(s.items) /\ OnLists(s)
    BY DEF OnLists
  <1>9. CASE t.mark = {} /\ t.del = {} /\ t.clr = {}
    <2>1. /\ AddsTo(a, s.items)
          /\ \A k \in DOMAIN t.ins : Lower[t.ins[k]] \in Names(s, NeededItems(s, l))
      <3>1. \A j, k \in DOMAIN s.lists : j = k
        BY <1>4, <1>5
      <3>. HIDE DEF a, s
      <3> QED BY <1>3, <1>8, <1>9, <3>1, FlushAdds
    <2> QED BY <1>9, <2>1 DEF ActionOn
  <1>10. CASE t.mark \subseteq NeededIn(a) /\ t.ins = <<>> /\ t.del = {} /\ t.clr = {}
    <2>1. BuysFrom(a, s.items) /\ \A i \in t.mark : s.items[i].status = "BOUGHT"
      <3>. HIDE DEF a, s
      <3> QED BY <1>3, <1>10, FlushBuys
    <2> QED BY <1>10, <2>1 DEF ActionOn
  <1>11. CASE t.del \subseteq NeededIn(a) /\ t.ins = <<>> /\ t.mark = {} /\ t.clr = {}
    <2>1. RemovesFrom(a, s.items) /\ \A i \in t.del : i \notin DOMAIN s.items
      <3>. HIDE DEF a, s
      <3> QED BY <1>11, FlushRemoves
    <2> QED BY <1>11, <2>1 DEF ActionOn
  <1>12. CASE /\ t.clr = ClearableItems(View(w), l) /\ t.clr # {}
              /\ t.ins = <<>> /\ t.mark = {} /\ t.del = {}
    <2>1. \A i \in DOMAIN a : a[i].list = l
      <3>1. l \in DOMAIN View(w).lists
        BY <1>12 DEF ListFound, Found, ActiveLists
      <3>2. \A i \in DOMAIN a : a[i].list \in DOMAIN View(w).lists
        BY <1>2 DEF ItemsOnLists, OnLists
      <3> QED BY <1>5, <3>1, <3>2
    <2>. DEFINE v == View(w)
    <2>2. v.items = a
      BY <1>2
    <2>3. Clears(a, s.items) /\ \A i \in t.clr : i \in DOMAIN s.items /\ s.items[i].cleared
      <3>1. t.clr = ClearableItems(v, l)
        BY <1>12
      <3>. HIDE DEF a, s, v
      <3>2. /\ FlushedTo(w, base, new, v.items, s.items)
            /\ v.items \in [DOMAIN v.items -> Rows]
            /\ \A i \in DOMAIN v.items : v.items[i].list = l
        BY <1>3, <2>1, <2>2
      <3> QED BY <1>12, <2>2, <3>1, <3>2, FlushClears
    <2>4. ClearableItems(s, l) \cap t.clr = {}
      <3>. HIDE DEF s
      <3> QED BY <2>3 DEF ClearableItems
    <2> QED BY <1>12, <2>3, <2>4 DEF ActionOn
  <1>13. \/ t.mark = {} /\ t.del = {} /\ t.clr = {}
         \/ t.mark \subseteq NeededIn(a) /\ t.ins = <<>> /\ t.del = {} /\ t.clr = {}
         \/ t.del \subseteq NeededIn(a) /\ t.ins = <<>> /\ t.mark = {} /\ t.clr = {}
         \/ /\ t.clr = ClearableItems(View(w), l)
            /\ t.ins = <<>> /\ t.mark = {} /\ t.del = {}
    BY <1>2, <1>3, <1>6, JobAsks, DecisionKinds
  <1>. HIDE DEF Effects
  <1> QED BY <1>9, <1>10, <1>11, <1>12, <1>13

\* A step that leaves the items and the decision alone, and the list in hand
\* where the decision was about it.
LEMMA StillDone ==
    ASSUME NEW w \in Workers, db' = db, View(w)'.items = View(w).items,
           todo'[w].ins = todo[w].ins, todo'[w].mark = todo[w].mark,
           todo'[w].del = todo[w].del, todo'[w].clr = todo[w].clr,
           todo[w].ins # <<>> \/ todo[w].clr # {} => active'[w] = active[w],
           Done(w), ActionOn(db.items, View(w).items)
    PROVE  Done(w)' /\ ActionOn(db'.items, View(w)'.items)
  <1>1. CASE active'[w] = active[w]
    <2>1. /\ NeededItems(View(w)', active'[w]) = NeededItems(View(w), active[w])
          /\ ClearableItems(View(w)', active'[w]) = ClearableItems(View(w), active[w])
      BY <1>1 DEF NeededItems, ClearableItems
    <2>2. \A S : Names(View(w)', S) = Names(View(w), S)
      BY DEF Names
    <2> QED BY <2>1, <2>2 DEF Done
  <1>2. CASE todo[w].ins = <<>> /\ todo[w].clr = {}
    BY <1>2 DEF Done
  <1> QED BY <1>1, <1>2

\* Every step keeps what a session has written.
LEMMA NextWritten ==
    ASSUME OneWorker, TInv, TInv', FamInv, OneFamily, ListInv, ListInv', ListFound,
           ItemsOnLists, ItemsOnLists', Written, [Next]_vars
    PROVE  Written'
  <1>1. CASE UNCHANGED vars
    <2>1. UNCHANGED <<db, pend, at, todo, active>>
      BY <1>1 DEF vars
    <2> QED BY <2>1 DEF Written, BeforeFlush, Done, View
  <1>2. CASE Next
    <2>1. PICK w \in Workers : TakeJob(w) \/ Statement(w) \/ Fail(w)
      BY <1>2 DEF Next
    <2>2. \A v \in Workers : v = w
      BY DEF OneWorker
    <2>. DEFINE Inv == ~ BeforeFlush(w) => Done(w) /\ ActionOn(db.items, View(w).items)
    <2>3. SUFFICES Inv'
      BY <2>2, <2>3 DEF Written
    <2>4. Inv
      BY DEF Written
    <2>5. DOMAIN at = Workers /\ DOMAIN todo = Workers /\ todo[w] \in Todos
      BY DEF TInv, TypeOK
    <2>6. BeforeDecision(w) => todo[w] = NoTodo
      BY DEF ListFound
    <2>7. CASE \/ TakeJob(w) \/ SelectUser(w) \/ SelectFamily(w) \/ InsertFamily(w)
               \/ InsertUser(w)
      <3>1. todo' = todo /\ todo[w].follow = "none"
        BY <2>6, <2>7 DEF TakeJob, SelectUser, SelectFamily, InsertFamily, InsertUser,
                          BeforeDecision, BeforeFamily, NoTodo, Answer
      <3>2. at'[w] \in {"user", "family", "create", "register", "decide", "list"}
        BY <2>5, <2>7 DEF TakeJob, SelectUser, SelectFamily, InsertFamily, InsertUser,
                          Goto, AfterUser
      <3> QED BY <3>1, <3>2 DEF BeforeFlush
    <2>8. CASE SelectList(w)
      <3>1. /\ todo' = todo /\ at[w] = "list"
            /\ at'[w] = IF todo[w].follow = "none" THEN "decide" ELSE "follow"
        BY <2>5, <2>8 DEF SelectList, Goto
      <3>2. CASE todo[w].follow = "none"
        BY <3>1, <3>2 DEF BeforeFlush
      <3>3. CASE todo[w].follow # "none"
        <4>1. ~ BeforeFlush(w)
          BY <3>1, <3>3 DEF BeforeFlush
        <4>2. todo[w].ins # <<>> \/ todo[w].clr # {} => active'[w] = active[w]
          BY <2>8, SelectListIsFound DEF ListFound
        <4> QED BY <2>4, <2>8, <3>1, <4>1, <4>2, SameView, StillDone
      <3> QED BY <3>2, <3>3
    <2>9. CASE Decide(w)
      <3>. DEFINE t == Decision(View(w), active[w], job[w])
      <3>1. todo'[w] = t /\ (at'[w] = "write" \/ ~ Writes(t))
        BY <2>5, <2>9 DEF Decide, Goto
      <3>. HIDE DEF t
      <3>2. CASE at'[w] = "write"
        BY <3>2 DEF BeforeFlush
      <3>3. CASE ~ Writes(t)
        <4>1. t.ins = <<>> /\ t.mark = {} /\ t.del = {} /\ t.clr = {}
          BY <3>3 DEF Writes
        <4>2. Done(w)'
          BY <3>1, <4>1 DEF Done
        <4>3. View(w)'.items = db'.items
          <5>1. View(w).items = db.items
            BY <2>9, ViewOfNothing DEF Decide, ListInv, BeforeFlush
          <5> QED BY <2>9, <5>1, SameView
        <4> QED BY <4>2, <4>3, NoAction
      <3> QED BY <3>1, <3>2, <3>3
    <2>10. CASE Flush(w)
      <3>1. NoDuplicateIn(View(w)'.items) /\ OnLists(View(w))' /\ db' = db
        BY <2>10 DEF ListInv, ItemsOnLists, Flush
      <3> QED BY <2>10, <3>1, FlushWritten
    <2>11. CASE Say(w) \/ Follow(w) \/ Prompt(w)
      <3>1. ~ BeforeFlush(w) /\ active' = active
        BY <2>11 DEF Say, Follow, Prompt, BeforeFlush
      <3>2. /\ todo'[w].ins = todo[w].ins /\ todo'[w].mark = todo[w].mark
            /\ todo'[w].del = todo[w].del /\ todo'[w].clr = todo[w].clr
        BY <2>5, <2>11 DEF Say, Follow, SendListInstead, Prompt, Todos
      <3> QED BY <2>4, <2>11, <3>1, <3>2, SameView, StillDone
    <2>12. CASE InsertUserConflict(w) \/ FlushStale(w) \/ Fail(w) \/ Commit(w)
      <3>1. at'[w] = "idle"
        BY <2>5, <2>12 DEF InsertUserConflict, FlushStale, Fail, Commit, Rollback, EndJob, Goto
      <3> QED BY <3>1 DEF BeforeFlush
    <2> QED BY <2>1, <2>7, <2>8, <2>9, <2>10, <2>11, <2>12 DEF Statement
  <1> QED BY <1>1, <1>2

-----------------------------------------------------------------------------
(* What was sent is what is read.                                          *)

\* A list message shows the list the session reads, a picker what was bought and is
\* not on it; both are the last words of a job.
SentNow ==
    \A w \in Workers :
        /\ at[w] \notin {"prompt", "commit"} => listed[w] = {} /\ picker[w] = {}
        /\ listed[w] \subseteq {NeededItems(View(w), active[w])}
        /\ picker[w] \subseteq PastTexts(View(w), family[w], active[w])

\* Every step keeps what was sent true.
LEMMA NextSent ==
    ASSUME OneWorker, TInv, TInv', FamInv, SentNow, [Next]_vars
    PROVE  SentNow'
  <1>1. CASE UNCHANGED vars
    <2>1. UNCHANGED <<db, pend, at, family, active, listed, picker>>
      BY <1>1 DEF vars
    <2> QED BY <2>1 DEF SentNow, View
  <1>2. CASE Next
    <2>1. PICK w \in Workers : TakeJob(w) \/ Statement(w) \/ Fail(w)
      BY <1>2 DEF Next
    <2>2. \A v \in Workers : v = w
      BY DEF OneWorker
    <2>. DEFINE Inv ==
            /\ at[w] \notin {"prompt", "commit"} => listed[w] = {} /\ picker[w] = {}
            /\ listed[w] \subseteq {NeededItems(View(w), active[w])}
            /\ picker[w] \subseteq PastTexts(View(w), family[w], active[w])
    <2>3. SUFFICES Inv'
      BY <2>2, <2>3 DEF SentNow
    <2>4. Inv
      BY DEF SentNow
    <2>5. /\ DOMAIN at = Workers /\ DOMAIN listed = Workers /\ DOMAIN picker = Workers
      BY DEF TInv, TypeOK
    <2>6. ASSUME listed'[w] = {}, picker'[w] = {}
          PROVE  Inv'
      BY <2>6
    <2>7. CASE \/ TakeJob(w) \/ SelectUser(w) \/ SelectFamily(w) \/ InsertFamily(w)
               \/ InsertUser(w) \/ SelectList(w) \/ Decide(w) \/ Flush(w) \/ Say(w)
      <3>1. at[w] \notin {"prompt", "commit"} /\ listed' = listed /\ picker' = picker
        BY <2>7 DEF TakeJob, SelectUser, SelectFamily, InsertFamily, InsertUser, SelectList,
                    Decide, Flush, Say, sentVars
      <3> QED BY <2>4, <2>6, <3>1
    <2>8. CASE Follow(w) \/ Prompt(w)
      <3>1. /\ View(w)'.items = View(w).items /\ View(w)'.lists = View(w).lists
            /\ active' = active /\ family' = family
        BY <2>8, SameView DEF Follow, Prompt
      <3>2. /\ NeededItems(View(w), active[w])' = NeededItems(View(w), active[w])
            /\ PastTexts(View(w), family[w], active[w])'
                 = PastTexts(View(w), family[w], active[w])
        BY <3>1 DEF NeededItems, PastTexts, Names, ActiveLists
      <3>3. CASE Prompt(w)
        <4>1. at'[w] = "commit" /\ listed' = listed /\ picker' = picker
          BY <2>5, <3>3 DEF Prompt, Goto
        <4> QED BY <2>4, <3>2, <4>1
      <3>4. CASE Follow(w)
        <4>1. listed[w] = {} /\ picker[w] = {}
          BY <2>4, <3>4 DEF Follow
        <4>2. CASE SendList(w)
          <5>1. /\ listed'[w] = {NeededItems(View(w), active[w])} /\ picker' = picker
                /\ at'[w] \in {"prompt", "commit"}
            BY <2>5, <4>2 DEF SendList, Goto
          <5> QED BY <3>2, <4>1, <5>1
        <4>3. CASE SendPicker(w)
          <5>1. /\ picker'[w] = PastTexts(View(w), family[w], active[w]) /\ listed' = listed
                /\ at'[w] = "commit"
            BY <2>5, <4>3 DEF SendPicker, Goto
          <5> QED BY <3>2, <4>1, <5>1
        <4>4. CASE SendListInstead(w)
          BY <2>6, <4>1, <4>4 DEF SendListInstead, sentVars
        <4> QED BY <3>4, <4>2, <4>3, <4>4 DEF Follow
      <3> QED BY <2>8, <3>3, <3>4
    <2>9. CASE InsertUserConflict(w) \/ FlushStale(w) \/ Fail(w) \/ Commit(w)
      <3>1. listed'[w] = {} /\ picker'[w] = {}
        BY <2>5, <2>9 DEF InsertUserConflict, FlushStale, Fail, Commit, Rollback, EndJob
      <3> QED BY <2>6, <3>1
    <2> QED BY <2>1, <2>7, <2>8, <2>9 DEF Statement
  <1> QED BY <1>1, <1>2

-----------------------------------------------------------------------------

\* Together, one worker at a time.
OneJobInv ==
    /\ TInv
    /\ FamInv
    /\ OneFamily
    /\ ListInv
    /\ ListFound
    /\ ItemsOnLists
    /\ Written
    /\ SentNow

\* Initially nothing is in hand.
LEMMA InitOneJob == Init => OneJobInv
  <1>. SUFFICES ASSUME Init PROVE OneJobInv
    OBVIOUS
  <1>1. \A w \in Workers : /\ at[w] = "idle" /\ todo[w] = NoTodo
                           /\ listed[w] = {} /\ picker[w] = {}
    BY DEF Init
  <1>2. ListFound /\ Written /\ SentNow
    BY <1>1 DEF ListFound, NoTodo, Answer, Written, BeforeFlush, SentNow
  <1> QED BY <1>2, InitTInv, InitFam, InitOne, InitList DEF OneJobInv

\* OneJobInv is inductive.
LEMMA NextOneJob ==
    ASSUME OneWorker, OneJobInv, [Next]_vars
    PROVE  OneJobInv'
  <1>. USE DEF OneJobInv
  <1>1. TInv' /\ FamInv'
    BY NextTInv, NextFam
  <1>2. OneFamily' /\ ListInv' /\ ListFound'
    BY <1>1, NextOneFamily, NextList, NextFound
  <1>3. ItemsOnLists'
    BY <1>1, NextOnLists
  <1>4. Written' /\ SentNow'
    BY <1>1, <1>2, <1>3, NextWritten, NextSent
  <1> QED BY <1>1, <1>2, <1>3, <1>4

-----------------------------------------------------------------------------
(* The theorems.                                                           *)

\* A commit stores what the session reads, which is what was decided.
LEMMA CommitActs ==
    ASSUME OneJobInv, NEW w \in Workers, Commit(w)
    PROVE  /\ db' = View(w) /\ Done(w) /\ ActionOn(db.items, db'.items)
           /\ listed[w] \subseteq {NeededItems(View(w), active[w])}
           /\ picker[w] \subseteq PastTexts(View(w), family[w], active[w])
  <1>1. db' = View(w) /\ ~ BeforeFlush(w)
    BY DEF Commit, View, BeforeFlush
  <1> QED BY <1>1 DEF OneJobInv, Written, SentNow

\* Every step is one action on the list or none.
LEMMA StepActs ==
    ASSUME OneJobInv, [Next]_vars
    PROVE  ActionOn(db.items, db'.items)
  <1>1. db' = db \/ \E w \in Workers : Commit(w)
    BY DEF vars, Next, Statement, TakeJob, SelectUser, SelectFamily, InsertFamily, InsertUser,
           InsertUserConflict, SelectList, Decide, Flush, FlushStale, Say, Follow, Prompt,
           Fail, Rollback
  <1> QED BY <1>1, CommitActs, NoAction

\* An action on the list keeps purchases.
LEMMA ActionKeepsPurchases ==
    ASSUME NEW a, NEW b, ActionOn(a, b), NEW i \in DOMAIN a, a[i].status = "BOUGHT"
    PROVE  i \in DOMAIN b /\ (b[i] = a[i] \/ b[i] = ClearedRow(a[i]))
  <1>1. i \notin NeededIn(a)
    BY DEF NeededIn
  <1>2. CASE AddsTo(a, b)
    BY <1>2 DEF AddsTo
  <1>3. CASE BuysFrom(a, b)
    <2>1. PICK S \in SUBSET NeededIn(a), p \in Phones :
            b = [k \in DOMAIN a |->
                    IF k \in S THEN [a[k] EXCEPT !.status = "BOUGHT", !.boughtBy = p]
                               ELSE a[k]]
      BY <1>3 DEF BuysFrom
    <2> QED BY <1>1, <2>1
  <1>4. CASE RemovesFrom(a, b)
    <2>1. PICK S \in SUBSET NeededIn(a) : b = [k \in DOMAIN a \ S |-> a[k]]
      BY <1>4 DEF RemovesFrom
    <2> QED BY <1>1, <2>1
  <1>5. CASE Clears(a, b)
    BY <1>1, <1>5 DEF Clears, ClearedRow
  <1> QED BY <1>2, <1>3, <1>4, <1>5 DEF ActionOn

\* BoughtItemsAreKept, with one worker on either database: no commit deletes what
\* was bought.
THEOREM PurchasesAreKept ==
    ASSUME OneWorker
    PROVE  Spec => BoughtItemsAreKept
  <1>1. OneJobInv /\ [Next]_vars => (OneJobInv)'
    BY NextOneJob
  <1>2. OneJobInv /\ [Next]_vars =>
          [\A i \in DOMAIN db.items :
              db.items[i].status = "BOUGHT" => i \in DOMAIN db'.items]_vars
    BY StepActs, ActionKeepsPurchases
  <1> QED BY <1>1, <1>2, InitOneJob, PTL DEF Spec, BoughtItemsAreKept

\* PurchaseIsFinal, with one worker on either database: who bought an item first
\* stays its buyer, and the item never becomes needed again.
THEOREM PurchasesAreFinal ==
    ASSUME OneWorker
    PROVE  Spec => PurchaseIsFinal
  <1>1. OneJobInv /\ [Next]_vars => (OneJobInv)'
    BY NextOneJob
  <1>2. OneJobInv /\ [Next]_vars =>
          [\A i \in DOMAIN db.items \cap DOMAIN db'.items :
              db.items[i].status = "BOUGHT" =>
                  \/ db'.items[i] = db.items[i]
                  \/ db'.items[i] = ClearedRow(db.items[i])]_vars
    BY StepActs, ActionKeepsPurchases
  <1> QED BY <1>1, <1>2, InitOneJob, PTL DEF Spec, PurchaseIsFinal

\* AnswerIsTrue, with one worker on either database: when a job commits, what its
\* messages called added, bought, removed or cleared is stored as that, and the
\* list it showed is the list.
THEOREM AnswersAreTrue ==
    ASSUME OneWorker
    PROVE  Spec => AnswerIsTrue
  <1>1. OneJobInv /\ [Next]_vars => (OneJobInv)'
    BY NextOneJob
  <1>2. ASSUME OneJobInv, NEW w \in Workers, Commit(w)
        PROVE  /\ \A k \in DOMAIN todo[w].ins :
                    Lower[todo[w].ins[k]] \in Names(db', NeededItems(db', active[w]))
               /\ \A i \in todo[w].mark : db'.items[i].status = "BOUGHT"
               /\ \A i \in todo[w].del : i \notin DOMAIN db'.items
               /\ ClearableItems(db', active[w]) \cap todo[w].clr = {}
               /\ \A S \in listed[w] : S = NeededItems(db', active[w])
    <2>1. db' = View(w) /\ Done(w) /\ listed[w] \subseteq {NeededItems(View(w), active[w])}
      BY <1>2, CommitActs
    <2> QED BY <2>1 DEF Done
  <1>3. OneJobInv /\ [Next]_vars =>
          [\A w \in Workers : Commit(w) =>
            /\ \A k \in DOMAIN todo[w].ins :
                Lower[todo[w].ins[k]] \in Names(db', NeededItems(db', active[w]))
            /\ \A i \in todo[w].mark : db'.items[i].status = "BOUGHT"
            /\ \A i \in todo[w].del : i \notin DOMAIN db'.items
            /\ ClearableItems(db', active[w]) \cap todo[w].clr = {}
            /\ \A S \in listed[w] : S = NeededItems(db', active[w])]_vars
    BY <1>2
  <1> QED BY <1>1, <1>3, InitOneJob, PTL DEF Spec, AnswerIsTrue

\* PickerOffersNothingNeeded, with one worker on either database: no name of a
\* picker is on the list when its job commits, not even one the job put there.
THEOREM PickersOfferNothingNeeded ==
    ASSUME OneWorker
    PROVE  Spec => PickerOffersNothingNeeded
  <1>1. OneJobInv /\ [Next]_vars => (OneJobInv)'
    BY NextOneJob
  <1>2. ASSUME OneJobInv, NEW w \in Workers, Commit(w), NEW t \in picker[w]
        PROVE  Lower[t] \notin Names(db', NeededItems(db', active[w]))
    <2>1. db' = View(w) /\ t \in PastTexts(View(w), family[w], active[w])
      BY <1>2, CommitActs
    <2> QED BY <2>1 DEF PastTexts
  <1>3. OneJobInv /\ [Next]_vars =>
          [\A w \in Workers : Commit(w) =>
            \A t \in picker[w] : Lower[t] \notin Names(db', NeededItems(db', active[w]))]_vars
    BY <1>2
  <1> QED BY <1>1, <1>3, InitOneJob, PTL DEF Spec, PickerOffersNothingNeeded

\* An action on the table of items is a step of FamilyList.
LEMMA ActionIsPromised ==
    ASSUME ActionOn(db.items, db'.items)
    PROVE  Promise!Next
  <1>. DEFINE a == db.items
              b == db'.items
  <1>1. Promise!Needed = NeededIn(a)
    BY DEF Promise!Needed, NeededIn
  <1>2. CASE AddsTo(a, b)
    <2>1. /\ DOMAIN a \subseteq DOMAIN b
          /\ \A i \in DOMAIN a : b[i] = a[i]
      BY <1>2 DEF AddsTo
    <2>2. ASSUME NEW i \in DOMAIN b \ DOMAIN a
          PROVE  b[i].status = "NEEDED" /\ Lower[b[i].text] \notin Promise!NeededNames
      <3>1. /\ b[i].status = "NEEDED"
            /\ \A j \in NeededIn(b) \ {i} : Lower[b[i].text] # Lower[b[j].text]
        BY <1>2 DEF AddsTo
      <3>2. \A j \in NeededIn(a) : j \in NeededIn(b) \ {i} /\ b[j] = a[j]
        BY <2>1 DEF NeededIn
      <3> QED BY <1>1, <3>1, <3>2 DEF Promise!NeededNames
    <2>3. ASSUME NEW i \in DOMAIN b \ DOMAIN a, NEW j \in DOMAIN b \ DOMAIN a, i # j
          PROVE  Lower[b[i].text] # Lower[b[j].text]
      BY <1>2, <2>3 DEF AddsTo, NeededIn
    <2>4. Promise!Add
      BY <2>1, <2>2, <2>3 DEF Promise!Add
    <2> QED BY <2>4 DEF Promise!Next
  <1>3. CASE BuysFrom(a, b)
    BY <1>1, <1>3 DEF BuysFrom, Promise!Buy, Promise!Next
  <1>4. CASE RemovesFrom(a, b)
    BY <1>1, <1>4 DEF RemovesFrom, Promise!Remove, Promise!Next
  <1>5. CASE Clears(a, b)
    BY <1>1, <1>5 DEF Clears, Promise!Clear, Promise!Next
  <1> QED BY <1>2, <1>3, <1>4, <1>5 DEF ActionOn

\* RefinesFamilyList, with one worker on either database: whatever fails and
\* whatever is tapped, the list changes by one whole user action at a time.
THEOREM ListIsFamilyList ==
    ASSUME OneWorker
    PROVE  Spec => RefinesFamilyList
  <1>1. OneJobInv /\ [Next]_vars => (OneJobInv)'
    BY NextOneJob
  <1>2. Init => Promise!Init
    BY DEF Init, EmptyStore, Promise!Init
  <1>3. OneJobInv /\ [Next]_vars => [Promise!Next]_(db.items)
    BY StepActs, ActionIsPromised
  <1> QED BY <1>1, <1>2, <1>3, InitOneJob, PTL DEF Spec, RefinesFamilyList, Promise!Spec

=============================================================================
