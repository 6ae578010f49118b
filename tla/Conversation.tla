---------------------------- MODULE Conversation ----------------------------
(***************************************************************************)
(* The bot as the user in one chat sees it: what goes out in answer to     *)
(* each text, voice note, tap or submitted form (app/handlers,             *)
(* app/processing.py with parser.py, media.py and transcription.py), and   *)
(* what can be tapped as a consequence.  Jobs are whole turns here, one    *)
(* after the other; JobProcessing has their statements and how they        *)
(* interleave.  A turn commits or, when anything raises, leaves the        *)
(* database as it was, with some of its messages sent.                     *)
(*                                                                         *)
(* There is one family with one list.  Unlike in JobProcessing items and   *)
(* purchases have an order, lists and pickers have limits.                 *)
(***************************************************************************)
EXTENDS ListLogic, Messages

CONSTANTS
    DbLower,        \* func.lower of the database, a function on Texts
    MaxName,        \* characters the column Item.text holds
    MaxPastListed,  \* past items in a picker
    MaxPastItems,   \* past items in a form
    History,        \* texts bought before the conversation begins, in this order
    Batches,        \* the item lists a parsed message carries
    MaxTurns,       \* bound: turns of the conversation
    MaxFailures     \* bound: turns that fail

ASSUME TextsAssumption ==
    /\ DOMAIN Chars = Texts
    /\ \A t \in Texts : Lower[t] = Blank <=> Chars[t] = 0
ASSUME BatchesAssumption == Batches \subseteq Seq(Texts)
ASSUME HistoryAssumption == History \in Seq(Visible)
ASSUME PastAssumption == {MaxPastListed, MaxPastItems} \subseteq Nat \ {0}
ASSUME BoundsAssumption == MaxTurns \in Nat /\ MaxFailures \in Nat

VARIABLES
    db,         \* committed rows, see ShoppingStore
    born,       \* created_at of every item there ever was: the turn that made it
    bought,     \* the bought items in the order of bought_at
    flow,       \* settings.wa_past_items_flow_id is set
    chat,       \* buttons and rows on the user's phone
    forms,      \* forms on the user's phone, each the texts it offers
    turns,      \* turns so far
    failures,   \* turns that failed
    turn        \* the last turn: its job, what was sent, whether it committed

vars == <<db, born, bought, flow, chat, forms, turns, failures, turn>>

Kinds == {"none", "message", "audio", "selection", "button", "flow_completion", "strange"}

\* action, texts and id are what Decision looks at; of a submitted form, ticked
\* is what the user chose and as the shape in which it came back.
Job(kind, action, texts, id) ==
    [kind |-> kind, action |-> action, texts |-> texts, id |-> id,
     as |-> "none", ticked |-> {}]

\* A new item; who added it, and who buys it, is left out.
Item(text, status) ==
    [list |-> 1, text |-> text, status |-> status, cleared |-> FALSE, boughtBy |-> NoOne]

\* The family has bought what is in History and needs nothing.
Init ==
    /\ db = [families |-> {1}, lists |-> Row(1, 1), users |-> <<>>,
             items |-> [i \in DOMAIN History |-> Item(History[i], "BOUGHT")]]
    /\ born = [i \in DOMAIN History |-> 0]
    /\ bought = [i \in DOMAIN History |-> i]
    /\ flow \in BOOLEAN
    /\ chat = {}
    /\ forms = {}
    /\ turns = 0
    /\ failures = 0
    /\ turn = [job |-> Job("none", "none", <<>>, 0), sent |-> <<>>, ok |-> TRUE]

-----------------------------------------------------------------------------
(* Queries.                                                                *)

TextOf(store) == [i \in DOMAIN store.items |-> store.items[i].text]

\* order_by(Item.created_at): items of one transaction have the same time and
\* may come in any order.
ByCreation(ids, created) ==
    {s \in SetToSeqs(ids) : \A m, n \in DOMAIN s : m < n => created[s[m]] <= created[s[n]]}

\* Bought items, the last purchase of every name as the database tells names
\* apart, the latest first.
LatestPurchases(store, purchases) ==
    LET texts     == [k \in DOMAIN purchases |-> store.items[purchases[k]].text]
        Latest(k) == \A n \in k + 1..Len(texts) : DbLower[texts[n]] # DbLower[texts[k]]
    IN  Reverse(Selected(texts, {k \in DOMAIN texts : Latest(k)}))

\* The texts whose names are not on the list.
NotNeeded(store) == {t \in Texts : Lower[t] \notin Names(store, NeededItems(store, 1))}

\* Mutants of PastTextsInOrder: the limit cuts before the needed names are
\* taken out; every purchase of a name is offered.
PastCutFirst(store, purchases, limit) ==
    Keep(UpTo(LatestPurchases(store, purchases), limit), NotNeeded(store))

PastRepeated(store, purchases, limit) ==
    LET all == [k \in DOMAIN purchases |-> store.items[purchases[k]].text]
    IN  UpTo(Keep(Reverse(all), NotNeeded(store)), limit)

\* get_past_bought_items, without the names that are needed.
PastTextsInOrder(store, purchases, limit) ==
    UpTo(Keep(LatestPurchases(store, purchases), NotNeeded(store)), limit)

-----------------------------------------------------------------------------
(* The messages of a turn.                                                 *)

\* _send_list
List(store, ids) ==
    LET m == ListMessage(ids, TextOf(store))
    IN  <<Sendable(m)>> \o (IF m.kind = "none" THEN <<>> ELSE <<PastItemsPrompt>>)

\* Mutant of PastItemsList: a body without a list goes out bare.
PastItemsListBare(texts) ==
    LET m == PastItemsMessage(texts)
    IN  <<IF m.kind = "none" THEN [m EXCEPT !.kind = "plain"] ELSE m>>

\* _send_past_items_list
PastItemsList(texts) == <<Sendable(PastItemsMessage(texts))>>

\* _send_past_items
PastItems(store, purchases) ==
    LET limit == IF flow THEN MaxPastItems ELSE MaxPastListed
        past  == PastTextsInOrder(store, purchases, limit)
    IN  IF flow /\ past # <<>> THEN <<FlowMessage(past)>> ELSE PastItemsList(past)

\* _process_readd once the item is added
Remaining(store, ids, purchases) ==
    LET past == PastTextsInOrder(store, purchases, MaxPastListed)
    IN  IF past = <<>> THEN List(store, ids) ELSE PastItemsList(past)

\* _deliver and the like: the answer in words, then what follows it.
Messages(todo, store, ids, purchases) ==
    (CASE todo.text = "none"  -> <<>>
       [] todo.text = "plain" -> <<Plain>>
       [] todo.text = "final" -> <<Final(<<>>)>>)
    \o
    (CASE todo.follow = "none"   -> <<>>
       [] todo.follow = "list"   -> List(store, ids)
       [] todo.follow = "picker" -> PastItems(store, purchases)
       [] todo.follow = "readd"  -> Remaining(store, ids, purchases))

-----------------------------------------------------------------------------
(* Turns.                                                                  *)

\* What is sent is there to be tapped, whether the turn commits or not.
Sends(job, sent, ok) ==
    /\ turns' = turns + 1
    /\ turn' = [job |-> job, sent |-> sent, ok |-> ok]
    /\ chat' = chat \cup UNION {ToSet(m.taps) : m \in {m \in ToSet(sent) : m.kind # "flow"}}
    /\ forms' = forms \cup
            {[k \in DOMAIN m.taps |-> m.taps[k].what] : m \in {m \in ToSet(sent) : m.kind = "flow"}}
    /\ UNCHANGED flow

\* A send, a statement or the commit raises: a beginning of the messages is
\* out, the rows are rolled back.
Fails(job, sent) ==
    /\ failures < MaxFailures
    /\ failures' = failures + 1
    /\ \E n \in 0..Len(sent) : Sends(job, SubSeq(sent, 1, n), FALSE)
    /\ UNCHANGED <<db, bought>>

\* A turn that opens no session.
Says(job, sent) ==
    \/ Sends(job, sent, TRUE) /\ UNCHANGED <<db, born, bought, failures>>
    \/ Fails(job, sent) /\ UNCHANGED born

\* The rows after the flush; ids count on also after a removal.
Flushed(todo) ==
    LET last == Cardinality(DOMAIN born)
        new  == last + 1 .. last + Len(todo.ins)
        Updated(i) == IF i \in todo.mark THEN [db.items[i] EXCEPT !.status = "BOUGHT"]
                      ELSE IF i \in todo.clr THEN [db.items[i] EXCEPT !.cleared = TRUE]
                      ELSE db.items[i]
    IN  [db EXCEPT !.items =
            [i \in (DOMAIN db.items \ todo.del) \cup new |->
                IF i \in new THEN Item(todo.ins[i - last], "NEEDED") ELSE Updated(i)]]

\* Item.text holds what is to be added; else the flush raises.
Storable(todo) == \A k \in DOMAIN todo.ins : Chars[todo.ins[k]] <= MaxName

\* A job with a session, after the messages sent before it.
Turn(job, before) ==
    LET todo  == Decision(db, 1, job)
        store == Flushed(todo)
    IN  /\ born' = [i \in DOMAIN born \cup DOMAIN store.items |->
                        IF i \in DOMAIN born THEN born[i] ELSE turns + 1]
        /\ \/ /\ Storable(todo)
              /\ \E marked \in ByCreation(todo.mark, born) :
                 \E ids \in ByCreation(NeededItems(store, 1), born') :
                    LET purchases == bought \o marked
                        sent      == before \o Messages(todo, store, ids, purchases)
                    IN  \/ /\ Sends(job, sent, TRUE)
                           /\ db' = store
                           /\ bought' = purchases
                           /\ UNCHANGED failures
                        \/ Fails(job, sent)
           \/ /\ ~ Storable(todo)
              /\ Fails(job, before)

-----------------------------------------------------------------------------
(* What a user can do, one action for each kind of job.                    *)

\* What the model may say a message means, items where none belong included.
Answers == [action : ItemActions \cup PlainActions, items : Batches]

\* parse_message: a failing call or an unreadable answer gives "unknown".
Parsed(kind, answer) ==
    Job(kind, answer.action, IF answer.action \in ItemActions THEN answer.items ELSE <<>>, 0)

Unreadable(kind) == Job(kind, "talk", <<>>, 0)

Understood(kind, before) ==
    \/ Turn(Unreadable(kind), before)
    \/ \E answer \in Answers : Turn(Parsed(kind, answer), before)

\* A text; a sticker or a picture comes without one.
TextMessage ==
    \/ Says(Unreadable("message"), <<Final(<<>>)>>)
    \/ Understood("message", <<>>)

\* What download_media and transcribe may come back with.
Downloads   == {"raises", "audio"}
Transcripts == {"raises", "", "text"}

\* A voice note.  It is answered in words when transcription is not enabled, one
\* of the two calls fails or nothing is heard; else it is echoed and taken as a
\* text.
VoiceNote ==
    \/ Says(Unreadable("audio"), <<Final(<<>>)>>)
    \/ \E audio \in Downloads, transcript \in Transcripts :
            IF audio = "audio" /\ transcript = "text"
            THEN Understood("audio", <<Plain>>)
            ELSE Says(Unreadable("audio"), <<Final(<<>>)>>)

\* A tap on a row, of whatever age.
TapRow ==
    \/ \E tap \in {tap \in chat : tap.do = "buy"} :
            Turn(Job("selection", "buy", <<>>, tap.what), <<>>)
    \/ \E tap \in {tap \in chat : tap.do = "readd"} :
            Turn(Job("selection", "readd", <<tap.what>>, 0), <<>>)

\* A tap on a button.  Messages from before the past-items button have one
\* that clears.
TapButton ==
    \/ \E tap \in {tap \in chat : tap.do \in ButtonActions} :
            Turn(Job("button", tap.do, <<>>, 0), <<>>)
    \/ Turn(Job("button", "clear", <<>>, 0), <<>>)

\* The completions of a form: any of its options ticked, in any of the shapes
\* that picked_items expects.
Completions(form) ==
    {[as |-> as, picked |-> Keep(form, ticked)] :
        as \in {"list", "json"}, ticked \in SUBSET ToSet(form)}
    \cup {[as |-> "bare", picked |-> <<t>>] : t \in ToSet(form)}
    \cup {[as |-> "none", picked |-> <<>>]}

SubmitForm ==
    \E form \in forms : \E response \in Completions(form) :
        LET picked == PickedItems(response)
            job    == [Job("flow_completion", "add", picked, 0) EXCEPT
                           !.as = response.as, !.ticked = ToSet(response.picked)]
        IN  IF picked = <<>> THEN Says(job, <<Final(<<>>)>>) ELSE Turn(job, <<>>)

\* Callback data that no message of the bot carries, or a recording without an
\* id: a warning in the log at most.
StrangeJob == Says(Job("strange", "cmd:none", <<>>, 0), <<>>)

\* The bot is started again with or without the id of a form.
Reconfigure ==
    /\ flow' \in BOOLEAN
    /\ UNCHANGED <<db, born, bought, chat, forms, turns, failures, turn>>

Next ==
    \/ /\ turns < MaxTurns
       /\ \/ TextMessage
          \/ VoiceNote
          \/ TapRow
          \/ TapButton
          \/ SubmitForm
          \/ StrangeJob
    \/ Reconfigure

Spec == Init /\ [][Next]_vars

-----------------------------------------------------------------------------
(* Properties.                                                             *)

TypeOK ==
    /\ IsTable(db.items, Nat, Rows)
    /\ IsTable(born, Nat, 0..MaxTurns)
    /\ bought \in Seq(DOMAIN db.items)
    /\ flow \in BOOLEAN
    /\ \A tap \in chat : IF tap.do = "readd" THEN tap.what \in Texts ELSE tap.what \in Nat
    /\ forms \subseteq Seq(Texts)
    /\ turns \in 0..MaxTurns
    /\ failures \in 0..MaxFailures
    /\ turn.job.kind \in Kinds
    /\ {m.kind : m \in ToSet(turn.sent)} \subseteq {"plain", "buttons", "list", "flow"}

\* "WhatsApp constraints baked in here" (whatsapp.py, flows.py).
Accepts(m) ==
    LET data == [k \in DOMAIN m.taps |-> <<m.taps[k].do, m.taps[k].what>>]
        n    == Len(m.taps)
    IN  CASE m.kind = "plain"   -> n = 0
          [] m.kind = "buttons" -> n \in 1..3 /\ \A k \in 1..n : m.taps[k].title \in 1..20
          [] m.kind = "list"    -> /\ n \in 1..MaxRows
                                   /\ \A k \in 1..n : m.taps[k].title \in 1..MaxRowTitle
                                   /\ \A k \in 1..n : m.taps[k].do = "readd" =>
                                            ReaddChars(m.taps[k].what) <= MaxCallback
                                   /\ IsInjective(data)
          [] m.kind = "flow"    -> /\ n \in 1..MaxPastItems
                                   /\ \A k \in 1..n : m.taps[k].title \in 1..MaxOptionTitle
                                   /\ IsInjective(data)

\* WhatsApp takes every message of every turn: whatever is on the list and in
\* the history, there are neither too many nor too few rows, buttons or
\* options, their texts are short enough and no two of them the same.
MessagesAreAccepted == \A m \in ToSet(turn.sent) : Accepts(m)

\* Whatever a user does with what the bot has sent, now or long ago, under
\* these settings or others, is answered, and the answer ends with something to
\* tap ("a reply that ends the turn", _send_final), unless something failed.
EveryActionIsAnswered ==
    turn.ok /\ turn.job.kind \notin {"none", "strange"} =>
        turn.sent # <<>> /\ Last(turn.sent).kind # "plain"

\* "tap an item to add it, and the list comes straight back minus that item, so
\* you tap through several in a row" (README.md): the rest comes back in the
\* same order, older purchases behind it, and when no picker comes back, then
\* everything ever bought is on the list.
PickerComesBackWithTheRest ==
    [][/\ turn.ok /\ turn'.ok /\ turns' # turns
       /\ turn'.job.action = "readd"
       /\ turn.sent # <<>>
       /\ \E k \in DOMAIN Last(turn.sent).taps :
            Last(turn.sent).taps[k].do = "readd" /\ <<Last(turn.sent).taps[k].what>> = turn'.job.texts
       => LET tapped == turn'.job.texts[1]
              rest   == Keep(Last(turn.sent).names, Texts \ {tapped})
              after  == Last(turn'.sent).names
          IN  /\ IsPrefix(rest, after)
              /\ after = <<>> =>
                    Names(db', ToSet(bought')) \subseteq Names(db', NeededItems(db', 1))]_vars

\* The one completion that picked_items loses: a single tick that comes back bare,
\* not in a list, and can be read as JSON.
Dropped(job) == job.as = "bare" /\ job.ticked \subseteq Scalars

\* What a user ticks in a form, however old, is on the list when the turn has
\* committed, whether it comes back as a list, as a list in JSON or as a single
\* bare text; texts like 7 included, unless such a text comes back bare.
FormIsHonoured ==
    turn.ok /\ ~ Dropped(turn.job) =>
        {Lower[t] : t \in turn.job.ticked} \subseteq Names(db, NeededItems(db, 1))

\* "De-duplicated case-insensitively (matching the dedup convention in
\* add_items)" (get_past_bought_items): no picker or form offers one name in
\* two spellings.
PickerNamesOnce ==
    \A m \in ToSet(turn.sent) : \A k, n \in DOMAIN m.taps :
        /\ {m.taps[k].do, m.taps[n].do} \subseteq {"readd", "tick"}
        /\ Lower[m.taps[k].what] = Lower[m.taps[n].what]
        => k = n

=============================================================================
