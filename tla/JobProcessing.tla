---------------------------- MODULE JobProcessing ----------------------------
(***************************************************************************)
(* process_job of app/processing.py with the session of app/db/session.py  *)
(* and handle_intent of app/services/lists.py: what one worker does with   *)
(* one job, statement by statement, while other workers do the same.       *)
(*                                                                         *)
(* The database runs at its default isolation.  A statement reads what is  *)
(* committed at that moment together with the session's own flushed rows;  *)
(* a flush makes row locks (Postgres) or the one write lock (SQLite), held *)
(* until the session ends; autoflush is off, so a read never sees a row    *)
(* that was only added to the session.  Messages to the user are sent      *)
(* inside the session, before its commit.                                  *)
(***************************************************************************)
EXTENDS ListLogic

CONSTANTS
    Workers,    \* worker processes
    Backend,    \* "postgres" or "sqlite"
    Batches,    \* the item lists a parsed message or a submitted flow carries
    MaxJobs     \* bound: jobs processed

ASSUME BackendAssumption == Backend \in {"postgres", "sqlite"}
ASSUME BatchesAssumption == Batches \subseteq Seq(Texts)
ASSUME MaxJobsAssumption == MaxJobs \in Nat

VARIABLES
    db,         \* committed rows
    seq,        \* next number of the Postgres id sequences, which no rollback resets
    at,         \* the statement a worker is about to execute
    job,        \* the job a worker processes
    family,     \* user.family_id, once the worker has it
    active,     \* active_list.id, once the worker has it
    pend,       \* flushed and not committed: rows of the tables, deleted items
    todo,       \* what the worker decided to write and to answer
    shown,      \* list rows on the users' phones: item id and title
    offered,    \* texts of the picker rows on the users' phones
    jobs,       \* jobs taken so far
    \* What a worker has sent in its current job, read by the properties only.
    last,       \* the kind of its last message
    listed,     \* the set of items of its list message, if it sent one
    picker      \* the texts of its last picker

phoneVars == <<shown, offered>>
sentVars  == <<last, listed, picker>>
vars == <<db, seq, at, job, family, active, pend, todo, shown, offered, jobs,
          last, listed, picker>>

-----------------------------------------------------------------------------
(* Jobs.                                                                   *)

Message(a, p, ts) == [action |-> a, phone |-> p, texts |-> ts, id |-> 0]

\* A text message or a voice note, once parsed, a submitted flow, a button.
TypedJobs ==
    {Message(a, p, ts) : a \in ItemActions, p \in Phones, ts \in Batches}
    \cup {Message(a, p, <<>>) : a \in PlainActions \cup ButtonActions, p \in Phones}

\* A tap on a row of a list message, however old: callback data "buy:<id>".
\* The text is the title the user read on the row.
BuyJobs == {[action |-> "buy", phone |-> p, texts |-> <<row[2]>>, id |-> row[1]] :
                p \in Phones, row \in shown}

\* A tap on a row of a picker, however old: callback data "readd:<text>".
ReaddJobs == {Message("readd", p, <<t>>) : p \in Phones, t \in offered}

NoJob == [action |-> "none"]

-----------------------------------------------------------------------------
(* Sessions.                                                               *)

Locations == {"idle", "user", "family", "create", "register", "list", "decide", "write",
              "say", "follow", "prompt", "commit"}

NoRows == [families |-> {}, lists |-> <<>>, users |-> <<>>, items |-> <<>>, gone |-> {}]

\* Committed rows overlaid with pending ones.
Overlay(store, rows) ==
    [families |-> store.families \cup rows.families,
     lists    |-> Overwrite(store.lists, rows.lists),
     users    |-> Overwrite(store.users, rows.users),
     items    |-> LET all == Overwrite(store.items, rows.items)
                  IN  Restrict(all, DOMAIN all \ rows.gone)]

\* Mutant of View: nothing is flushed before the next read.
ViewCommitted(w) == db

\* What a statement of w reads.
View(w) == Overlay(db, pend[w])

\* Postgres locks rows, SQLite has one write lock.
MayWrite(w) == Backend = "sqlite" => \A v \in Workers \ {w} : pend[v] = NoRows

LockedItems(w) ==
    UNION {DOMAIN pend[v].items \cup pend[v].gone : v \in Workers \ {w}}

\* Mutant of IdBase: every backend counts on from the largest id.
IdBaseLargest(ids, next) == Max(ids \cup {0})

\* A new id is n more than this: Postgres draws from the sequence of the table,
\* SQLite counts on from the largest id in it.
IdBase(ids, next) == IF Backend = "sqlite" THEN Max(ids \cup {0}) ELSE next

Goto(w, l) == at' = [at EXCEPT ![w] = l]

\* Mutant of EndJob: the session is left open, with its locks.
EndJobKeepsLocks(w) ==
    /\ Goto(w, "idle")
    /\ job' = [job EXCEPT ![w] = NoJob]
    /\ family' = [family EXCEPT ![w] = 0]
    /\ active' = [active EXCEPT ![w] = 0]
    /\ todo' = [todo EXCEPT ![w] = NoTodo]
    /\ last' = [last EXCEPT ![w] = "nothing"]
    /\ listed' = [listed EXCEPT ![w] = {}]
    /\ picker' = [picker EXCEPT ![w] = {}]
    /\ UNCHANGED pend

\* The session is closed, its locks are gone, the worker takes its next job.
EndJob(w) ==
    /\ Goto(w, "idle")
    /\ job' = [job EXCEPT ![w] = NoJob]
    /\ family' = [family EXCEPT ![w] = 0]
    /\ active' = [active EXCEPT ![w] = 0]
    /\ pend' = [pend EXCEPT ![w] = NoRows]
    /\ todo' = [todo EXCEPT ![w] = NoTodo]
    /\ last' = [last EXCEPT ![w] = "nothing"]
    /\ listed' = [listed EXCEPT ![w] = {}]
    /\ picker' = [picker EXCEPT ![w] = {}]

\* get_session rolls back: a send or a statement raised, the commit failed, or
\* the process died and the server ended its transaction.
Rollback(w) ==
    /\ EndJob(w)
    /\ UNCHANGED db

-----------------------------------------------------------------------------
(* get_or_create_user and get_active_list.                                 *)

\* A job is taken from the queue.
TakeJob(w) ==
    /\ at[w] = "idle"
    /\ jobs < MaxJobs
    /\ jobs' = jobs + 1
    /\ \E j \in TypedJobs \cup BuyJobs \cup ReaddJobs : job' = [job EXCEPT ![w] = j]
    /\ Goto(w, "user")
    /\ UNCHANGED <<db, seq, family, active, pend, todo, phoneVars, sentVars>>

\* What comes after the user: handle_intent asks for the active list first, a
\* tapped list row and the buttons need none for what they decide.
AfterUser(w) == IF job[w].action \in ButtonActions \cup {"buy"} THEN "decide" ELSE "list"

\* select(User).where(phone_number == phone)
SelectUser(w) ==
    /\ at[w] = "user"
    /\ IF job[w].phone \in DOMAIN db.users
       THEN /\ family' = [family EXCEPT ![w] = db.users[job[w].phone]]
            /\ Goto(w, AfterUser(w))
       ELSE /\ Goto(w, "family")
            /\ UNCHANGED family
    /\ UNCHANGED <<db, seq, job, active, pend, todo, phoneVars, jobs, sentVars>>

\* Mutant of SelectFamily: every new user gets a family.
SelectNoFamily(w) ==
    /\ at[w] = "family"
    /\ Goto(w, "create")
    /\ UNCHANGED <<db, seq, job, family, active, pend, todo, phoneVars, jobs, sentVars>>

\* get_or_create_default_family: any family, or a new one with its list.
SelectFamily(w) ==
    /\ at[w] = "family"
    /\ IF db.families # {}
       THEN /\ \E f \in db.families : family' = [family EXCEPT ![w] = f]
            /\ Goto(w, "register")
       ELSE /\ Goto(w, "create")
            /\ UNCHANGED family
    /\ UNCHANGED <<db, seq, job, active, pend, todo, phoneVars, jobs, sentVars>>

\* Mutant of InsertFamily: a family has no list.
InsertFamilyOnly(w) ==
    /\ at[w] = "create"
    /\ MayWrite(w)
    /\ LET f == IdBase(db.families, seq.family) + 1
       IN  /\ family' = [family EXCEPT ![w] = f]
           /\ pend' = [pend EXCEPT ![w].families = {f}]
           /\ seq' = [seq EXCEPT !.family = @ + 1]
    /\ Goto(w, "register")
    /\ UNCHANGED <<db, job, active, todo, phoneVars, jobs, sentVars>>

InsertFamily(w) ==
    /\ at[w] = "create"
    /\ MayWrite(w)
    /\ LET f == IdBase(db.families, seq.family) + 1
           l == IdBase(DOMAIN db.lists, seq.list) + 1
       IN  /\ family' = [family EXCEPT ![w] = f]
           /\ pend' = [pend EXCEPT ![w] = [families |-> {f}, lists |-> Row(l, f),
                users |-> @.users, items |-> @.items, gone |-> @.gone]]
           /\ seq' = [family |-> seq.family + 1, list |-> seq.list + 1, item |-> seq.item]
    /\ Goto(w, "register")
    /\ UNCHANGED <<db, job, active, todo, phoneVars, jobs, sentVars>>

\* INSERT of the user.  It waits while another session has inserted the same
\* phone number, and raises when the number is there already.
InsertUser(w) ==
    /\ at[w] = "register"
    /\ MayWrite(w)
    /\ \A v \in Workers \ {w} : job[w].phone \notin DOMAIN pend[v].users
    /\ job[w].phone \notin DOMAIN db.users
    /\ pend' = [pend EXCEPT ![w].users = Row(job[w].phone, family[w])]
    /\ Goto(w, AfterUser(w))
    /\ UNCHANGED <<db, seq, job, family, active, todo, phoneVars, jobs, sentVars>>

InsertUserConflict(w) ==
    /\ at[w] = "register"
    /\ job[w].phone \in DOMAIN db.users
    /\ Rollback(w)
    /\ UNCHANGED <<seq, phoneVars, jobs>>

\* get_active_list: any active list of the family, or a new one.  It is called
\* before a decision and again before a list or a picker is sent.
SelectList(w) ==
    /\ at[w] = "list"
    /\ LET lists == ActiveLists(View(w), family[w])
           new   == IdBase(DOMAIN View(w).lists, seq.list) + 1
       IN  IF lists # {}
           THEN /\ \E l \in lists : active' = [active EXCEPT ![w] = l]
                /\ UNCHANGED <<pend, seq>>
           ELSE /\ MayWrite(w)
                /\ active' = [active EXCEPT ![w] = new]
                /\ pend' = [pend EXCEPT ![w].lists = Overwrite(@, Row(new, family[w]))]
                /\ seq' = [seq EXCEPT !.list = @ + 1]
    /\ Goto(w, IF todo[w].follow = "none" THEN "decide" ELSE "follow")
    /\ UNCHANGED <<db, job, family, todo, phoneVars, jobs, sentVars>>

-----------------------------------------------------------------------------
(* Decide and write.                                                       *)

\* Where a worker goes when its rows are flushed, or when it has none.
AfterWrite(t) ==
    CASE t.text # "none"                        -> "say"
      [] t.text = "none" /\ t.follow # "none"   -> "list"
      [] t.text = "none" /\ t.follow = "none"   -> "commit"

Decide(w) ==
    /\ at[w] = "decide"
    /\ LET t == Decision(View(w), active[w], job[w])
       IN  /\ todo' = [todo EXCEPT ![w] = t]
           /\ Goto(w, IF Writes(t) THEN "write" ELSE AfterWrite(t))
    /\ UNCHANGED <<db, seq, job, family, active, pend, phoneVars, jobs, sentVars>>

\* The rows session.flush() writes: UPDATE sets the columns that changed, on
\* the row as it is when the lock is granted.
NewRow(w, text) ==
    [list |-> active[w], text |-> text, status |-> "NEEDED", cleared |-> FALSE,
     boughtBy |-> NoOne]

\* Mutants of BoughtRow: the family is recorded as the buyer; the flag "cleared"
\* is written as it was when the item was needed.
BoughtByFamily(w, row) == [row EXCEPT !.status = "BOUGHT", !.boughtBy = family[w]]

BoughtAfresh(w, row) ==
    [row EXCEPT !.status = "BOUGHT", !.boughtBy = job[w].phone, !.cleared = FALSE]

BoughtRow(w, row) == [row EXCEPT !.status = "BOUGHT", !.boughtBy = job[w].phone]

ClearedRow(row) == [row EXCEPT !.cleared = TRUE]

FlushedRows(w) ==
    LET t    == todo[w]
        base == IdBase(DOMAIN View(w).items, seq.item)
        new  == base + 1 .. base + Len(t.ins)
        old  == (t.mark \cup t.clr) \cap DOMAIN db.items
    IN  [i \in new \cup old |->
            CASE i \in new              -> NewRow(w, t.ins[i - base])
              [] i \in t.mark \ new     -> BoughtRow(w, db.items[i])
              [] OTHER                  -> ClearedRow(db.items[i])]

\* Mutant of DeletedItems: clear_bought deletes what it clears.
DeletedAndCleared(w) == (todo[w].del \cup todo[w].clr) \cap DOMAIN db.items

DeletedItems(w) == todo[w].del \cap DOMAIN db.items

\* session.flush().  It waits for the row locks of other sessions.  A row read
\* before may be gone by now: a DELETE does not mind, a batch of UPDATEs may
\* pass over it when the driver has no row counts for batches.
Flush(w) ==
    /\ at[w] = "write"
    /\ MayWrite(w)
    /\ LET t == todo[w]
           updated == t.mark \cup t.clr
       IN  /\ (updated \cup t.del) \cap LockedItems(w) = {}
           /\ updated \subseteq DOMAIN db.items \/ Cardinality(updated) > 1
           /\ pend' = [pend EXCEPT ![w] = [families |-> @.families, lists |-> @.lists,
                users |-> @.users, items |-> FlushedRows(w), gone |-> DeletedItems(w)]]
           /\ seq' = [seq EXCEPT !.item = @ + Len(t.ins)]
           /\ Goto(w, AfterWrite(t))
    /\ UNCHANGED <<db, job, family, active, todo, phoneVars, jobs, sentVars>>

\* An UPDATE matches no row: StaleDataError.
FlushStale(w) ==
    /\ at[w] = "write"
    /\ MayWrite(w)
    /\ (todo[w].mark \cup todo[w].clr) \cap LockedItems(w) = {}
    /\ ~ (todo[w].mark \cup todo[w].clr \subseteq DOMAIN db.items)
    /\ Rollback(w)
    /\ UNCHANGED <<seq, phoneVars, jobs>>

-----------------------------------------------------------------------------
(* The messages to the user.                                               *)

Sent(w, kind) == last' = [last EXCEPT ![w] = kind]

\* The answer in words.
Say(w) ==
    /\ at[w] = "say"
    /\ Sent(w, IF todo[w].text = "final" THEN "interactive" ELSE "plain")
    /\ Goto(w, IF todo[w].follow = "none" THEN "commit" ELSE "list")
    /\ UNCHANGED <<db, seq, job, family, active, pend, todo, phoneVars, jobs,
                   listed, picker>>

\* _send_list: the whole list with a row for every item, or, when it is empty,
\* a last word with the quick buttons.
SendList(w) ==
    LET needed == NeededItems(View(w), active[w])
    IN  /\ Sent(w, "interactive")
        /\ listed' = [listed EXCEPT ![w] = {needed}]
        /\ shown' = shown \cup {<<i, View(w).items[i].text>> : i \in needed}
        /\ Goto(w, IF needed = {} THEN "commit" ELSE "prompt")
        /\ UNCHANGED <<offered, picker>>

\* _send_past_items and _send_past_items_list
SendPicker(w) ==
    LET past == PastTexts(View(w), family[w], active[w])
    IN  /\ Sent(w, "interactive")
        /\ picker' = [picker EXCEPT ![w] = past]
        /\ offered' = offered \cup past
        /\ Goto(w, "commit")
        /\ UNCHANGED <<shown, listed>>

\* A readd looks for what is left to pick and sends the list when there is
\* nothing.
SendListInstead(w) ==
    /\ todo' = [todo EXCEPT ![w].follow = "list"]
    /\ Goto(w, "list")
    /\ UNCHANGED <<phoneVars, sentVars>>

Follow(w) ==
    /\ at[w] = "follow"
    /\ LET left == PastTexts(View(w), family[w], active[w])
       IN  \/ /\ todo[w].follow = "list"
              /\ SendList(w)
              /\ UNCHANGED todo
           \/ /\ \/ todo[w].follow = "picker"
                 \/ todo[w].follow = "readd" /\ left # {}
              /\ SendPicker(w)
              /\ UNCHANGED todo
           \/ /\ todo[w].follow = "readd" /\ left = {}
              /\ SendListInstead(w)
    /\ UNCHANGED <<db, seq, job, family, active, pend, jobs>>

\* The message under a list that carries the past-items button.
Prompt(w) ==
    /\ at[w] = "prompt"
    /\ Sent(w, "interactive")
    /\ Goto(w, "commit")
    /\ UNCHANGED <<db, seq, job, family, active, pend, todo, phoneVars, jobs,
                   listed, picker>>

-----------------------------------------------------------------------------
(* The end of a session.                                                   *)

Commit(w) ==
    /\ at[w] = "commit"
    /\ db' = Overlay(db, pend[w])
    /\ EndJob(w)
    /\ UNCHANGED <<seq, phoneVars, jobs>>

\* Any send, statement or the commit itself raises, or the worker dies: what
\* was flushed is gone, what was sent stays sent.
Fail(w) ==
    /\ at[w] # "idle"
    /\ Rollback(w)
    /\ UNCHANGED <<seq, phoneVars, jobs>>

-----------------------------------------------------------------------------

Init ==
    /\ db = EmptyStore
    /\ seq = [family |-> 0, list |-> 0, item |-> 0]
    /\ at = [w \in Workers |-> "idle"]
    /\ job = [w \in Workers |-> NoJob]
    /\ family = [w \in Workers |-> 0]
    /\ active = [w \in Workers |-> 0]
    /\ pend = [w \in Workers |-> NoRows]
    /\ todo = [w \in Workers |-> NoTodo]
    /\ shown = {}
    /\ offered = {}
    /\ jobs = 0
    /\ last = [w \in Workers |-> "nothing"]
    /\ listed = [w \in Workers |-> {}]
    /\ picker = [w \in Workers |-> {}]

\* The next statement of the job in hand.
Statement(w) ==
    \/ SelectUser(w)
    \/ SelectFamily(w)
    \/ InsertFamily(w)
    \/ InsertUser(w)
    \/ InsertUserConflict(w)
    \/ SelectList(w)
    \/ Decide(w)
    \/ Flush(w)
    \/ FlushStale(w)
    \/ Say(w)
    \/ Follow(w)
    \/ Prompt(w)
    \/ Commit(w)

Next == \E w \in Workers : TakeJob(w) \/ Statement(w) \/ Fail(w)

Spec == Init /\ [][Next]_vars

\* A worker executes statement after statement; a statement that waits for a
\* lock goes on when the lock is free.  That jobs arrive or fail is not assumed.
FairSpec == Spec /\ \A w \in Workers : WF_vars(Statement(w))

-----------------------------------------------------------------------------
(* Properties.                                                             *)

IsStore(s) ==
    /\ s.families \in SUBSET Nat
    /\ IsTable(s.lists, Nat, Nat)
    /\ IsTable(s.users, Phones, Nat)
    /\ IsTable(s.items, Nat, Rows)

Jobs == [action : ItemActions \cup PlainActions \cup ButtonActions \cup {"buy", "readd"},
         phone  : Phones,
         texts  : Seq(Texts),
         id     : Nat]

TypeOK ==
    /\ IsStore(db)
    /\ seq \in [family : Nat, list : Nat, item : Nat]
    /\ at \in [Workers -> Locations]
    /\ job \in [Workers -> Jobs \cup {NoJob}]
    /\ family \in [Workers -> Nat]
    /\ active \in [Workers -> Nat]
    /\ \A w \in Workers : IsStore(pend[w]) /\ pend[w].gone \in SUBSET Nat
    /\ todo \in [Workers -> Todos]
    /\ shown \in SUBSET (Nat \X Texts)
    /\ offered \in SUBSET Texts
    /\ jobs \in 0..MaxJobs
    /\ last \in [Workers -> {"nothing", "plain", "interactive"}]
    /\ listed \in [Workers -> SUBSET SUBSET Nat]
    /\ picker \in [Workers -> SUBSET Texts]

\* "For the MVP, any new phone number that messages the bot is auto-joined to a
\* single default family" (README): two phones always share one family.
SingleFamily == Cardinality(db.families) <= 1

\* "one active list per family for the MVP" (models.py): get_active_list, which
\* selects with a limit of one, has exactly one list to find.
FamilyHasOneList == \A f \in db.families : Cardinality(ActiveLists(db, f)) = 1

\* add_items: "skipping ones already on the list as NEEDED (case-insensitive)".
\* However messages, picker taps and retries are combined, a list never shows
\* one name twice.
NoDuplicateNeeded ==
    \A i, k \in DOMAIN db.items :
        /\ i # k
        /\ db.items[i].list = db.items[k].list
        /\ db.items[i].status = "NEEDED"
        /\ db.items[k].status = "NEEDED"
        => Lower[db.items[i].text] # Lower[db.items[k].text]

\* What is cleared was bought before: clearing hides nothing that is needed.
OnlyBoughtIsCleared ==
    \A i \in DOMAIN db.items : db.items[i].cleared => db.items[i].status = "BOUGHT"

\* "Bought items are kept rather than deleted so they remain available as
\* purchase history" (models.py): no commit deletes a bought item.
BoughtItemsAreKept ==
    [][\A i \in DOMAIN db.items :
        db.items[i].status = "BOUGHT" => i \in DOMAIN db'.items]_vars

\* The purchase record of a kept item never changes any more: who bought it
\* first stays its buyer, it does not become needed again, and cleared stays.
PurchaseIsFinal ==
    [][\A i \in DOMAIN db.items \cap DOMAIN db'.items :
        db.items[i].status = "BOUGHT" =>
            \/ db'.items[i] = db.items[i]
            \/ db'.items[i] = ClearedRow(db.items[i])]_vars

\* With several workers the buyer may be overwritten, but a bought item stays
\* bought and a cleared one cleared.
NothingReturnsToTheList ==
    [][\A i \in DOMAIN db.items \cap DOMAIN db'.items :
        /\ db.items[i].status = "BOUGHT" => db'.items[i].status = "BOUGHT"
        /\ db.items[i].cleared => db'.items[i].cleared]_vars

\* When a job commits, what its messages said is what is stored: the items it
\* called added are needed, those it called bought, removed or cleared are
\* that, and the list it showed is the list.
AnswerIsTrue ==
    [][\A w \in Workers : Commit(w) =>
        /\ \A k \in DOMAIN todo[w].ins :
            Lower[todo[w].ins[k]] \in Names(db', NeededItems(db', active[w]))
        /\ \A i \in todo[w].mark : db'.items[i].status = "BOUGHT"
        /\ \A i \in todo[w].del : i \notin DOMAIN db'.items
        /\ ClearableItems(db', active[w]) \cap todo[w].clr = {}
        /\ \A S \in listed[w] : S = NeededItems(db', active[w])]_vars

\* "the picker never offers something already on the list"
\* (get_past_bought_items), also right after a tap has put an item on it.
PickerOffersNothingNeeded ==
    [][\A w \in Workers : Commit(w) =>
        \A t \in picker[w] : Lower[t] \notin Names(db', NeededItems(db', active[w]))]_vars

\* Every turn that answers ends with something to tap: a list, a picker or the
\* quick buttons.
TurnEndsInteractive ==
    [][\A w \in Workers : Commit(w) /\ job[w].action # "cmd:none" =>
        last[w] = "interactive"]_vars

\* A tap on a list row, however old the message it is on, marks an item of the
\* title the user read, or nothing.
RowBuysItsTitle ==
    [][\A w \in Workers : Commit(w) /\ job[w].action = "buy" =>
        \A i \in DOMAIN db.items :
            /\ db.items[i].status = "NEEDED"
            /\ db'.items[i].status = "BOUGHT"
            => db.items[i].text = job[w].texts[1]]_vars

\* Every job ends, whatever locks other sessions hold.
JobsEnd == \A w \in Workers : at[w] # "idle" ~> at[w] = "idle"

\* With one worker a job changes the list as one atomic user action, see
\* FamilyList.
Promise == INSTANCE FamilyList WITH items <- db.items
RefinesFamilyList == Promise!Spec

=============================================================================
