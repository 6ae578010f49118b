------------------------------ MODULE ListLogic ------------------------------
(***************************************************************************)
(* What a job decides: handle_intent of app/services/lists.py, and the     *)
(* taps and buttons that app/processing.py decides by itself.  A decision  *)
(* is the rows to write, an answer in words and a message to follow it.    *)
(***************************************************************************)
EXTENDS ShoppingStore

\* The intents that name items, those that do not, and the buttons.  "talk"
\* stands for the intents greeting, help and unknown, "cmd:none" for a button
\* with unknown data.  A submitted flow is an add; the clear button does what
\* the intent does.
ItemActions   == {"add", "bought", "remove"}
PlainActions  == {"bought_all", "view", "clear", "past_items", "talk"}
ButtonActions == {"cmd:list", "cmd:help", "cmd:past_items", "cmd:none"}

\* ins are texts of new items; mark, del and clr are items to buy, to remove and
\* to clear; text is "final" when the user may see nothing after it.
Todos == [ins    : Seq(Texts),
          mark   : SUBSET Nat,
          del    : SUBSET Nat,
          clr    : SUBSET Nat,
          text   : {"none", "plain", "final"},
          follow : {"none", "list", "picker", "readd"}]

\* Nothing to write, an answer in words and a message to follow it.
Answer(text, follow) == [ins |-> <<>>, mark |-> {}, del |-> {}, clr |-> {},
                         text |-> text, follow |-> follow]

NoTodo == Answer("none", "none")

-----------------------------------------------------------------------------
(* Read, then settle what to write, what to answer and what comes after.    *)

\* Mutant of FoundOr: a plain text ends the turn.
FoundOrPlain(found, todoIfFound) == IF found THEN todoIfFound ELSE Answer("plain", "none")

\* A text the user may see alone ends the turn and carries the quick buttons;
\* one that is followed by a list or a picker is plain.
FoundOr(found, todoIfFound) == IF found THEN todoIfFound ELSE Answer("final", "none")

Decision(store, l, j) ==
    LET new    == NewTexts(store, l, j.texts)
        match  == MatchingItems(store, l, j.texts)
        needed == NeededItems(store, l)
        plain  == Answer("plain", "list")
    IN  CASE j.action = "add" ->
                FoundOr(new # <<>>, [plain EXCEPT !.ins = new])
          [] j.action = "readd" ->
                [Answer("plain", "readd") EXCEPT !.ins = new]
          [] j.action = "bought" ->
                FoundOr(match # {}, [plain EXCEPT !.mark = match])
          [] j.action = "bought_all" ->
                FoundOr(needed # {}, [plain EXCEPT !.mark = needed])
          [] j.action = "remove" ->
                FoundOr(match # {}, [plain EXCEPT !.del = match])
          [] j.action = "clear" ->
                [plain EXCEPT !.clr = ClearableItems(store, l)]
          [] j.action = "view" ->
                FoundOr(needed # {}, Answer("none", "list"))
          [] j.action = "cmd:list" ->
                Answer("none", "list")
          [] j.action \in {"past_items", "cmd:past_items"} ->
                Answer("none", "picker")
          [] j.action \in {"talk", "cmd:help"} ->
                Answer("final", "none")
          [] j.action = "cmd:none" ->
                NoTodo
          [] j.action = "buy" ->
                FoundOr(j.id \in DOMAIN store.items,
                    [plain EXCEPT !.mark = TappedItems(store, j.id)])

Writes(t) == t.ins # <<>> \/ t.mark \cup t.del \cup t.clr # {}

=============================================================================
