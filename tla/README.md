# Verification of shopping-bot

shopping-bot is a WhatsApp bot that keeps a family's shopping list. A web
process receives WhatsApp's webhook calls and puts one job per event on a queue;
worker processes take jobs from the queue, let a language model parse them,
change the list in a database and answer through WhatsApp. This directory holds
TLA+ models of the two queues, the worker loop, the start of the processes, the
job processing and the conversation with a user, the TLC configurations that
check them on small instances, and proofs checked by TLAPS.

    tlc -config ConsumeLoop_workers.cfg MCConsumeLoop    # one run
    tlapm ConsumeLoop_proofs.tla                         # all proofs of a module

`PROJECT.json` lists the runs, the source lines behind every definition, the
hazards of the code and the properties that watch them, and for every property
a small change of the code that breaks it.

## 1. The system

| Component | State | Operations | Talks to |
|---|---|---|---|
| Webhook handlers (`app/handlers`) | none | turn a text, a voice note, a tap, a button or a submitted form into an `IncomingJob` and enqueue it | WhatsApp calls them; they call the queue |
| Queue contract (`app/queue/base.py`) | - | `enqueue`, `dequeue(timeout)`, `seen` (check and mark), `close` | |
| Redis queue (`redis_queue.py`) | a Redis list, one key with a time-to-live per message id | LPUSH, BRPOP, SET NX EX | shared by all processes |
| In-memory queue (`memory.py`) | deque, set, condition variable | the same | shared by the threads of one process |
| Worker loop (`app/worker.py`) | `running`, the job in hand | dequeue, seen, `process_job`, one second of backoff; signal handler; start | queue, job processing |
| Job processing (`app/processing.py`) | a session per job | text, voice note, list tap, picker tap, button, submitted form | parser, lists, repository, WhatsApp |
| List logic (`app/services/lists.py`) | none | one answer and follow-up per intent | repository |
| Repository (`app/db/repository.py`), models, session | families, users, lists, items | the queries and writes; commit or rollback | Postgres or SQLite |
| Message builders (`whatsapp.py`, `flows.py`) | none | list, picker and form from items; form answer to texts | |
| Parser, transcription, media | none | network calls before the session opens | Claude, Whisper, Graph API |
| Start-up (`main.py`, `factory.py`, `config.py`) | settings | build the queue, create tables, start the in-process consumer | |

What makes each part correct, and what is hard to test about it:

* **Queue and worker.** A message is acted on at most once although Meta
  repeats webhook calls; nothing vanishes as long as nothing fails; the loop
  survives whatever fails; a signal ends it without dropping the job in hand;
  no message overtakes another in the queue. The hard part is what happens between
  the steps: two workers with two deliveries of one message, a Redis answer that
  is lost after the command took effect, a worker killed with a job in hand, a
  mark that expires.
* **Job processing.** A job changes the list completely or not at all; a name is
  on the list once; bought items are history that nothing deletes or rewrites;
  what the bot tells the user is what is stored; the picker offers nothing that
  is on the list; each turn ends with something to tap. The hard part is that
  all messages are sent inside the transaction, that reads see only what was
  flushed (autoflush is off), that taps come from messages of any age, and that
  several workers interleave between read and write.
* **In-memory queue.** The same promises as the Redis queue, without faults of
  a network but with threads around a condition variable. The hard part is that
  `dequeue` waits once and then looks once: a `notify()` may be spent on a thread
  whose wait has timed out, and the job it was for may be taken by a thread that
  never slept. No job may lie in the deque while a thread sleeps.
* **Start-up.** Nobody works before all tables exist, although several processes
  create them at once and may die in the middle of it; every process that is
  started again comes up; web process and consumers mean the same queue whatever
  `QUEUE_BACKEND` is.
* **Conversation (builders, form, parser, voice notes).** WhatsApp refuses a message
  whose rows, options, titles or callbacks break its limits, and a refusal rolls the job
  back: whatever is on the list and in the history, every message must be acceptable.
  Every action of the user is answered with something to tap; what is ticked in a form is
  on the list afterwards, in whichever shape the completion comes back, but for one case that
  the code loses: a single text like `7` that comes back bare (section 3); the picker never drops a name. The hard part is the meeting
  of limits, spellings, names that fit no callback, and taps and forms of any age under
  settings that have changed since.

The full list, each at its line, is under `hazards` in `PROJECT.json`.

## 2. Modules

| Module | What it is | Source |
|---|---|---|
| `MessageQueue` | abstract: the FIFO queue, refined by `ConsumeLoop` and by `InMemoryQueue` | `queue/base.py` |
| `AtMostOnce` | abstract: the delivery contract of `seen`, refined by `ConsumeLoop` | `queue/base.py` |
| `RedisQueue` | the effects of the Redis commands on list and keys | `queue/redis_queue.py` |
| `ConsumeLoop` | webhook deliveries, any number of worker processes in `consume_loop`, faults, signals, restarts; extends `RedisQueue` | `worker.py`, `handlers/` |
| `InMemoryQueue` | webhook deliveries and any number of threads in `consume_loop` around the condition variable | `queue/memory.py`, `worker.py` |
| `StartUp` | web process and workers from their start to their first job | `main.py`, `worker.py`, `factory.py`, `config.py`, `db/session.py` |
| `ListLogic` | what each intent, tap or button writes and answers, as the operator `Decision`; extends `ShoppingStore` | `services/lists.py`, `domain/schemas.py` |
| `Selection` | what a loop or a query with a condition leaves of a sequence; extended by `ShoppingStore` and `Messages` | `db/repository.py`, `services/flows.py`, `services/whatsapp.py` |
| `ShoppingStore` | the tables and the queries as operators on them | `domain/models.py`, `db/repository.py` |
| `JobProcessing` | the jobs, statement by statement, in sessions of concurrent workers; extends `ListLogic` | `processing.py`, `db/` |
| `FamilyList` | abstract: a list changed by one user action at a time, refined by `JobProcessing` with one worker | `services/lists.py` |
| `Messages` | the message builders and the form answer as operators | `services/whatsapp.py`, `services/flows.py` |
| `Conversation` | whole turns of one chat with every message they send; extends `ListLogic` and `Messages` | `processing.py`, `handlers/`, `services/` |
| `MC...` | the TLC instances of the five modules with an `Init` and a `Next` | |
| `SequenceLemmas` | lemmas on pushes, pops, reversal and order in sequences | |
| `ConsumeLoop_proofs`, `InMemoryQueue_proofs`, `StartUp_proofs` | theorems about the module they name | |
| `ListLogic_proofs` | lemmas about selections, tables, queries and decisions, cited by the next three | |
| `JobProcessing_proofs` | what holds with any number of workers: types, one list per family, interactive turns, and on Postgres the history of purchases and taps | |
| `JobList_proofs` | what holds with one worker: the properties of the list and the refinement of `FamilyList` | |
| `Conversation_proofs` | theorems about `Conversation` | |

How they fit together: `StartUp` says which queue a deployment uses and who reads it;
`ConsumeLoop` or `InMemoryQueue` carries a message from the webhook to the call of
`process_job`; `JobProcessing` is that call, statement by statement and with
others beside it; `Conversation` is the same call as one turn, with the limits and the
order of rows that `JobProcessing` leaves out. Both take what a job decides from
`ListLogic`, so that the decision is written once.

### ConsumeLoop

A job is its message id, since every delivery of a message carries the same
payload. `list` and `seenKeys` are what Redis holds. `pc[w]` says where worker
`w` is: `loop` (the test of `while`), `dequeue` (inside BRPOP), `seen` (job in
hand, SET under way), `process` (inside `process_job`), `backoff`, `stopped` (left the
loop), `down` (killed). Each line of the loop is an action. `Deliver` is a webhook
call; `DeliverFails` one whose enqueue raises (no handler catches that, Meta gets an
error and may repeat the call). Faults are bounded by `MaxFaults` and can hit every Redis command
before or after its effect: `DequeueFails`, `DequeueLosesJob` (also a job that
`from_json` cannot read), `SeenFails`, `SeenFindsOwnMark` (redis-py may repeat a command
by itself), `Kill`. `Stop` is the signal handler, `Launch` a restart, `Expire` the end of a
mark's time-to-live; a mark lives for a day, so it is assumed to outlive the
`process_job` call it was set for. `arrived`, `starts`, `expired`, `done`, `failed` and `skipped`
are history that only properties read.

### InMemoryQueue

Every method of the queue holds the lock of the condition variable except inside
`wait()`. `Enqueue` and `seen` (`BeginJob`, `SkipDuplicate`) are therefore one step, and `dequeue` is `Dequeue` when a job is
there, or else `Wait`, then an end of the wait (a `Notify` of some `Enqueue`, or `TimeOut`),
then `LookAgain`. `waiting` are the threads that `notify()` may still choose: as in
CPython, a thread whose wait has timed out remains among them until it has the
lock again, so that a notification may be wasted on it. `Restart` ends the process with
all that it kept. The web process starts one thread; the model has any number.

### StartUp

`phase[p]` is how far a process has come. The web process builds its queue when `main.py` is imported, then
creates the tables, then starts a thread if the backend is `memory`; a worker creates the tables
first. `create_all` is two actions, `CheckTables` and `CreateTables`, and more on
SQLite, where every table is visible by itself; `CreateCollides` is a start that
fails because somebody else created a table in between. `Kill` and `StartAgain`
are the platform. A queue is the number of its jobs, `Accept` a webhook call, `TakeLocal` and `TakeRemote` the consumers.

### ShoppingStore and JobProcessing

Tables are functions from ids to rows. The name of an item is `Lower[text]`, the
`strip().lower()` of the code; the instance has two spellings of one name and a
blank text. A worker goes through the statements of its job (`at[w]`): the user, the
family and the new user if the number is new, the active list, the decision of
`handle_intent` or of the tap, the flush, then the messages, then the commit. A
session reads the committed rows overlaid with what it has flushed (`View`). A
flush waits for row locks of other sessions (Postgres) or the one write lock
(SQLite); ids come from sequences that no rollback resets (Postgres) or follow
the largest id in the table (SQLite, which is what its rowids do without AUTOINCREMENT).
`Fail` ends the session of a job at any statement: a send that raises, a lost
connection, a failing commit, the death of the worker. `shown` and `offered` are the rows
on the users' phones; a tap may come from any of them at any time. `last`, `listed` and `picker`
are what the current job has sent, read by properties only.

Abstractions: display names, invite codes, categories, who added an item and all
times are left out, and with them the order of rows and of past items. A list or a
picker has a row for everything in it; the limits are in `Conversation`. The queries of one decision, and those of one list or picker, are one step.
The parser is any intent with any items. A submitted form is an add. The echo of a
voice note and the jobs that end before a session opens change nothing in the
database; they are in `Conversation`. An UPDATE that finds its row gone raises; a batch of UPDATEs
may pass over it, as drivers without row counts for batches do.

### Messages and Conversation

A text is a model value with a length (`Chars`), a name (`Lower`) and a name as the database
sees it (`DbLower`). A message is its kind, the names in its body and its taps; a builder
returns such a record, `Sendable` is what becomes of one without a list. The length of a title is what `truncate` leaves.

A turn is one step: the rows before it, `Decision`, the rows after it, the messages that
the code sends for that outcome. Items have a time of creation, purchases an order; items of one
transaction share their time, so their rows come in any order. `chat` and `forms` are what
was ever sent to the phone, and a user may tap any of it. A turn can fail after any of its
messages (`Fails`): the messages are out, the rows are rolled back. A name longer than the column fails the
flush, as on Postgres. `Reconfigure` is a restart with another `WA_PAST_ITEMS_FLOW_ID`. Voice
notes go through download and transcription, each of which may raise or come back empty;
`StrangeJob` is callback data that no message of the bot carries.

Left out: display names, a second person (the answers do not depend on who asks), the
reuse of ids on SQLite (`jobs_sqlite_rows` has it), the length of bodies, the wording.

## 3. Runs

| Run | Instance | Shows |
|---|---|---|
| `queue_workers` | 2 workers, 2 messages, 2 deliveries each, 2 faults, 1 signal, 1 expiry per message | type, at most once per mark, no concurrent duplicate, no loss and no overtaking without a fault, refinement of `AtMostOnce` and `MessageQueue`; a signal ends a worker, the queue drains |
| `queue_seen_docstring` | 1 worker, 1 message | violation: a skipped message need not have been processed |
| `memory_threads` | 3 threads, 2 messages, 2 deliveries each, 1 restart | type, no lost wakeup, at most once per life of the process, no loss and no overtaking while it lives, refinement of `MessageQueue`, no job needs a timeout |
| `start_deployment` | web process and 2 workers, 3 tables, 2 jobs, 2 deaths, 4 backend names, Postgres and SQLite | type, schema before work, everybody comes up, accepted jobs are taken |
| `start_memory_name` | `QUEUE_BACKEND=Memory` | violation: an in-memory queue that nobody reads |
| `jobs_one_worker` | Postgres, 1 worker, 2 people, 4 jobs, 4 item batches | the ten properties of the list with one worker, refinement of `FamilyList` |
| `jobs_two_workers` | Postgres, 2 workers, 4 jobs | what interleaving cannot break |
| `jobs_liveness` | Postgres, 2 workers, 3 jobs | no job waits for ever |
| `jobs_two_families` | 2 workers, 2 new people | violation: two default families |
| `jobs_lost_history` | 2 workers, 3 jobs | violation: a bought item is deleted |
| `jobs_sqlite_rows` | SQLite, 1 worker, 4 jobs | violation: an old row marks another item |
| `chat_turns` | 6 texts, a history of 4, 4 turns, 1 failure, with and without the form | type, messages are accepted, every action is answered, a form is honoured, the picker names once and comes back with the rest |

Why the bounds are enough:

* `ConsumeLoop`: two workers and two deliveries are what a duplicate
  race needs, the second fault lets a lost job meet a lost mark, one expiry gives a
  message two lifetimes, two messages can overtake each other.
* `InMemoryQueue`: a wakeup is lost between one thread that sleeps, one that has been notified or has timed out
  and one that comes along; hence three threads. Four deliveries can outnumber them.
* `StartUp`: three processes let a start collide with two others; three tables leave a
  schema half made in two ways on SQLite; two deaths let the web process and a worker die, or one of them twice.
* `JobProcessing`: four jobs are an item's whole life (added, bought, cleared or offered, re-added)
  and the shortest way to a reused id; two names, two spellings and a blank text are
  what the name comparison can tell apart; two batches overlap in one name.
* `Conversation`: 2 rows, 3 names in a picker and 2 options in a form stand for 10, 20 and 20, so that a history of four is
  above every limit. The limits in characters are those of the code, with texts on both sides of each: a short
  one, one longer than a title, one that fits no callback, one that fits no column, one that
  is JSON by itself, and a second spelling. Four turns are enough to fill the list above its
  limit, to buy it and to tap a picker that is one turn old.

The runs of `JobProcessing` and `StartUp` do not check deadlock: their last state has processed `MaxJobs` jobs.
The others do.

### Violations

* `SkippedWasProcessed`: `seen()` marks before the work is done, so its
  docstring ("ALREADY processed") is not what it tells; a message whose processing
  raised is never processed again.
* `SingleFamily` with two workers: select and insert of the default family are two statements
  without a constraint; two new numbers at once get two families.
* `BoughtItemsAreKept` with two workers: a removal deletes by id what it read as needed, also
  when another worker's purchase has been committed meanwhile.
* `RowBuysItsTitle` on SQLite: list rows carry ids, SQLite reuses the id of a
  removed last row, and the tap on the old message marks the new item.

* `InMemoryQueueIsRead` with `QUEUE_BACKEND=Memory`: `build_queue` compares the name in lower case, `lifespan()` as it is
  written; the web process accepts jobs for ever and no thread takes them.

With one worker on Postgres the second to fourth hold, as `jobs_one_worker` shows; for every name that both sides
compare alike, `start_deployment` shows that accepted jobs are taken.

### Deviations seen while modelling, without a run of their own

* `db/session.py:71`: "Create tables if they don't exist", but `create_all` checks first and creates then; of two
  processes that start on an empty database at once, one may raise and die. `AllComeUp` shows that a restart
  mends it.
* `services/whatsapp.py:94`: the note under the picker says that the first *n* can be tapped; over-long names
  are left out where they stand, so that the *n* rows need not be the first.
* `services/whatsapp.py:86`: the names are cut to ten before those that fit no callback are removed; with ten
  such names in front there is no list at all, although others would fit (docstring, lines 73-74).
* `services/flows.py:106`: `picked_items` decodes a completion that is one bare text, so that a single tick whose
  text is JSON by itself, like `7`, becomes a number and is dropped; the docstring (line 102) says "The item texts
  the user ticked". `FormIsHonoured` excepts exactly this case (`Dropped`); such a text in a list, or in a list
  in JSON, is honoured and must be on the list.
* `db/repository.py:228`: names are told apart by the database's `lower`, which on SQLite, and on Postgres with the C locale, knows
  ASCII letters only, while `add_items` uses Python's; two spellings of one such name are then both
  offered (docstring, lines 217-218). `PickerNamesOnce` is checked for a database that agrees with Python.

## 4. Fairness

`ConsumeLoop!FairSpec` has weak fairness of each worker's own steps: every call in the loop
returns or raises, as BRPOP and the HTTP clients have timeouts. Nothing is assumed of Meta, of
signals, of faults or of restarts; `QueueDrains` supposes that from some time on a worker is up.
`InMemoryQueue!FairSpec` has weak fairness of each thread's own steps, but none of timeouts, deliveries or restarts: `JobsNeedNoTimeout`
says that `notify()` alone drains the queue.
`StartUp!FairSpec` has weak fairness of each process's own steps. That a process which died is started again is no
assumption of the specification but a premise of `AllComeUp`, and that a worker stays up a premise of `AcceptedJobsAreTaken`.
`JobProcessing!FairSpec` has weak fairness of each worker's next statement; a statement that
waits for a lock is not enabled. That jobs fail or arrive is not assumed.

## 5. Proofs

`ConsumeLoop_proofs` proves, for any set of ids and workers and any bounds:

* `TypeCorrect`, `AtMostOnceHolds`, `NoConcurrentDuplicateHolds`, `NoLossHolds`, `OrderHolds`: the five invariants of
  `queue_workers`;
* `Refinement` and `QueueRefinement`: `ConsumeLoop` implements `AtMostOnce` and `MessageQueue`.

They rest on the assumptions that `None` is no id and that the bounds are naturals. The invariants are not
inductive by themselves. `IInv` adds that a worker has a job in hand exactly at `seen` and `process`, that
the id of a running job is marked, that two workers never run one id, the count of
runs against marks, and where an accepted message is. The lemmas group the actions by what they disturb: quiet steps,
deliveries, expiries, faults, the dequeue, the begin, the release of a hand. What LPUSH and
BRPOP do to a sequence is in `SequenceLemmas`.

`NoneIsOvertaken` needs more: `OrderInv` says that the list itself is in order (`Ordered` of `SequenceLemmas`): whatever
arrived before a waiting message has been taken or waits nearer to the end that is popped. A repeated delivery does not
disturb this, because its message has been taken or stands in front of its copy. The FIFO refinement maps the
Redis list to its reverse; `ReversePush` and `ReversePop` make a push an `Append` and a pop a `Tail`.

`InMemoryQueue_proofs` proves all five invariants of `memory_threads` (`TypeCorrect`, `NoLostWakeup`, `AtMostOnceHolds`, `NoLossHolds`, `OrderHolds`) and the
refinement of `MessageQueue` (`QueueRefinement`) for any finite set of threads, any ids and bounds; the set must be finite so that threads can be counted.
`SleepersAreNotNeeded` is not inductive: an awake thread may be one that has timed out on its own, and when
it is notified nobody new is on the way. `IInv` therefore counts only the threads that are awake and no longer eligible
(`Notified`): while anybody can still be chosen, there are at least as many of them as jobs (`EveryJobIsNotified`). A `notify()` adds one, whoever it
meets; a thread that takes a job takes itself out with it.

`StartUp_proofs` proves `TypeCorrect` and `SchemaHolds` for any number of processes, tables and backend names. `SchemaInv`
adds that what a process is still about to create is all that was missing (`CreatesTheRest`), and that a worker that
builds its queue is past the tables too. That tables are never dropped is what carries it through collisions and deaths.

`ListLogic_proofs` proves what the definitions return that `JobProcessing` and `Conversation` share: that a finite set
of numbers can be counted in ascending order and a selection keeps the order and nothing else; `NewTextsAreNew` (the rows
of `add_items` have names that are neither blank nor on the list nor twice in the batch, and every such name gets one);
what is kept of a sequence when one more element is left out (`KeepWithout`); that a decision writes rows of one kind, clears only what it has seen bought, and ends with something to tap.

`JobProcessing_proofs` is about any workers, phones, texts, batches and number of jobs.

* `TypeCorrect` (`TypeOK`, either database). `TInv` adds that every id in a table was drawn from its sequence (so that
  the largest id, which SQLite counts on from, exists), the shape of a session's pending rows, and that a worker that is
  not idle has a job.
* `OneListPerFamily` (`FamilyHasOneList`, either database). A new family is flushed and committed with its list
  (`FamilyWithList`), and every committed family has one (`OneListEach`); `FamInv` adds that the ids of pending families and lists are
  nobody else's (`PendingIsNew`, from the sequences on Postgres and from the write lock on SQLite, `OneWriter`), that users
  belong to families that exist (`UsersHaveFamilies`), and that a session has flushed nothing before it has its family
  and sees the family from then on (`FamilyInHand`).
* `TurnsEndInteractive` (`TurnEndsInteractive`, either database): `TurnInv` follows through the statements of a job whether
  the last message sent carries buttons or one that does is still to come.
* `ClearedWasBought` (`OnlyBoughtIsCleared`) and `PurchasesStay` (`NothingReturnsToTheList`), on Postgres: the two
  properties of `jobs_two_workers` that guard the history. Neither is inductive: a session decides what to clear in one
  step, flushes it in another and commits in a third, with any steps of others in between. `HistoryInv` says what each
  keeps meanwhile: two sessions never have a row of one item pending (`PendingApart`, from the row locks), a pending row
  that is needed has an id nobody knows (`NeededIsNew`, from the sequences), whoever is about to clear an item has seen it
  bought and it still is (`ClearsBought`), and a pending row has the flag of the committed one (`KeepsCleared`).
* `TapBuysItsTitle` (`RowBuysItsTitle`), on Postgres: a tap of any age buys an item with the title the user read, or nothing.
  `RowInv` adds to `HistoryInv` that a row on a phone has an id that was drawn and, while there is an item of that id, in the
  tables or pending, its title (`ShownTitles`), that a pending row has the text of the committed one (`TextsStay`), and that a tap
  job carries a row that was shown (`TapInHand`).

`HistoryInv` and `RowInv` fail on SQLite, where an id of a removed row comes back; `jobs_sqlite_rows` shows what follows.

`JobList_proofs` is about one worker (`OneWorker`), on either database.

* `ListHasNoDuplicates` (`NoDuplicateNeeded`): `ListInv` adds that what a session reads has no duplicates either, that
  nothing is pending before the flush, and that what is about to be flushed is what `Decision` makes of the rows as they
  still are. With two workers the last part is lost, and both may add one name.
* `FamilyIsSingle` (`SingleFamily`): a session that is about to insert a family has found none, and still would (`OneFamily`).
* `PurchasesAreKept` (`BoughtItemsAreKept`), `PurchasesAreFinal` (`PurchaseIsFinal`), `AnswersAreTrue` (`AnswerIsTrue`) and
  `PickersOfferNothingNeeded` (`PickerOffersNothingNeeded`) rest on `OneJobInv`: all of the above, every item is on a list that
  exists (`ItemsOnLists`), a job that writes has its list in hand (`ListFound`), from its flush on a session reads the
  committed rows changed by exactly one action of `FamilyList` (`Written`), and what it has sent is what it reads (`SentNow`).
* `ListIsFamilyList` (`RefinesFamilyList`): the abstract list is a function of the committed rows, so that a commit is
  the step that `Written` has prepared, and every other statement, and every failure, a stutter.

TLC checked each of these invariants on the instances of the runs before it was proved.

`Conversation_proofs` is about any texts, lengths, limits, history and batches, and conversations of any length. `ConvInv` has
four parts: `StoreInv` (every item is on the list 1 and its text can be seen, ids are drawn without gaps, purchases are bought
items), `PhoneInv` (a tap or form on the phone came from a message of the bot), `TurnInv` (every message of the last turn
is one WhatsApp takes and, if it is a picker, names nothing twice; the turn ends with something to tap; a form is honoured) and `CountInv`. It is
inductive because blank texts are stopped at every entrance, `add_items` as well as `picked_items`, which is also why no title is empty.
From it follow `TypeCorrect`, `MessagesFit` (`MessagesAreAccepted`), `ActionsAreAnswered` (`EveryActionIsAnswered`),
`FormsAreHonoured` (`FormIsHonoured`, for every completion but the one of `Dropped`) and `PickersNameOnce`
(`PickerNamesOnce`). The last supposes `NamesAgree`: two texts that Python
takes for one name are one name to the database, which is what section 3 says of `func.lower` and letters outside ASCII.

`PickerComesBack` (`PickerComesBackWithTheRest`) relates the pickers of two turns, and rests on a second invariant, `LastPicker`: a picker
that ended the last committed turn shows `PastTextsInOrder` of the rows and purchases as they are now. So a tap in it is on a text
that is not needed, `add_items` makes exactly one row of it (`ReaddDecision`, `ReaddStore`), and the next picker is made of the same
purchases without one name. That this is the old picker without one text, with what was behind the limit moved up, is
`RestIsPrefix`, from the lemmas on `Keep` in `ListLogic_proofs` (`KeepWithout`, `KeepOthers`); that an empty answer means that nothing
is left is `LatestCovers`. It supposes `SameNames`, `NamesAgree` both ways: if one name to Python were two to
the database, a tap would take two texts out of the picker; if one name to the database were two to Python, an
earlier spelling would never be offered although it is not on the list.

The assumptions are those the modules name: `Lower` is a function from texts to names, `NoOne` is no phone,
`Backend` is one of the two, batches are sequences of texts, the bounds are naturals; in `Conversation` also that every text
has a length, is blank exactly when nothing is left of it, that what was bought before can be seen, and that the limits are
positive.

Only model-checked: the liveness properties `SignalStopsWorker`, `QueueDrains`, `JobsNeedNoTimeout`, `AllComeUp`,
`AcceptedJobsAreTaken` and `JobsEnd` (fairness and ENABLED are outside the prover's reach).

## 6. Plan

1. Done: queue and worker loop with contracts and proofs; store and job processing with abstract list.
2. Done: the abstract FIFO queue and both implementations of it; the in-memory queue; the start of a deployment.
3. Done: builders, form answers, parser and voice notes as turns of a conversation.
4. Left: a composition of `ConsumeLoop` and `JobProcessing`. What it would say follows from the parts by hand: a message starts
   `process_job` at most once per mark (`AtMostOncePerMark`), and a call commits at most once, as `Commit` is the last
   statement of a job; so a message changes the list at most once per mark, and a lost commit is not repeated.
5. Done: the proofs of section 5.

## 7. Not modelled

Logging and the developer's scripts, which keep no state the bot depends on; `setup_flow.py`, which uploads the
form once; `close()` of the queues; the normalisation of database URLs; the refresh of display names, `get_family_members` and `get_item`,
which nothing depends on; the reserved parts of the schema. The limit of a message's body is
not in the repository, so that a list long enough to exceed it is listed as a hazard without a property.
