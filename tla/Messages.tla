------------------------------ MODULE Messages ------------------------------
(***************************************************************************)
(* The builders of app/services/whatsapp.py and app/services/flows.py.     *)
(* A message is the component it carries, the names its body lists and     *)
(* what can be tapped.  Of a text only its length matters here.            *)
(***************************************************************************)
EXTENDS Selection

CONSTANTS
    Chars,          \* len(text.strip()), a function on texts
    Scalars,        \* texts that are JSON by themselves, like 7
    MaxRows,        \* rows of a list message
    MaxCallback,    \* characters of a row's callback data
    MaxRowTitle,    \* characters of a row's title
    MaxOptionTitle  \* characters of an option's title

ASSUME CharsAssumption == Chars \in [DOMAIN Chars -> Nat]
ASSUME LimitsAssumption ==
    {MaxRows, MaxCallback, MaxRowTitle, MaxOptionTitle} \subseteq Nat \ {0}

\* Something to tap: what it does, on what, and the length of its title.
Tap(do, what, chars) == [do |-> do, what |-> what, title |-> chars]

\* truncate(): the length of what is left of a text.
Truncate(text, limit) == IF Chars[text] <= limit THEN Chars[text] ELSE limit

Message(kind, names, taps) == [kind |-> kind, names |-> names, taps |-> taps]

Plain == Message("plain", <<>>, <<>>)

\* A body for which the builder returns no interactive list.
NoList(names) == Message("none", names, <<>>)

\* s[:n]
UpTo(s, n) == SubSeq(s, 1, IF Len(s) <= n THEN Len(s) ELSE n)

\* build_list_message
ListMessage(ids, text) ==
    LET tappable == UpTo(ids, MaxRows)
    IN  IF ids = <<>> THEN NoList(<<>>)
        ELSE Message("list", [k \in DOMAIN ids |-> text[ids[k]]],
                [k \in DOMAIN tappable |->
                    Tap("buy", tappable[k], Truncate(text[tappable[k]], MaxRowTitle))])

\* len("readd:" + text)
ReaddChars(text) == 6 + Chars[text]

\* Mutant of PastItemsMessage: the prefix of the callback data is forgotten.
PastItemsMessageByText(texts) ==
    LET rows == Keep(UpTo(texts, MaxRows), {t \in DOMAIN Chars : Chars[t] <= MaxCallback})
    IN  IF rows = <<>> THEN NoList(texts)
        ELSE Message("list", texts,
                [k \in DOMAIN rows |-> Tap("readd", rows[k], Truncate(rows[k], MaxRowTitle))])

\* build_past_items_message
PastItemsMessage(texts) ==
    LET rows == Keep(UpTo(texts, MaxRows), {t \in DOMAIN Chars : ReaddChars(t) <= MaxCallback})
    IN  IF rows = <<>> THEN NoList(texts)
        ELSE Message("list", texts,
                [k \in DOMAIN rows |-> Tap("readd", rows[k], Truncate(rows[k], MaxRowTitle))])

\* quick_command_buttons and past_items_button, with their titles' lengths
QuickCommandButtons ==
    <<Tap("cmd:list", 0, 5), Tap("cmd:past_items", 0, 13), Tap("cmd:help", 0, 4)>>

PastItemsPrompt == Message("buttons", <<>>, <<Tap("cmd:past_items", 0, 18)>>)

\* build_items_payload, in the message that opens the flow
FlowMessage(texts) ==
    Message("flow", <<>>,
        [k \in DOMAIN texts |-> Tap("tick", texts[k], Truncate(texts[k], MaxOptionTitle))])

\* Texts of which strip() leaves something.
Visible == {t \in DOMAIN Chars : Chars[t] > 0}

\* Mutant of PickedItems: the JSON in a string is not decoded.
PickedUndecoded(response) ==
    CASE response.as = "list"             -> Keep(response.picked, Visible)
      [] response.as \in {"json", "none"} -> <<>>
      [] response.as = "bare"             -> response.picked

\* picked_items: a list, a list as JSON, or a single text, which is taken as
\* it is unless it can be read as JSON.  A response without picks has none.
PickedItems(response) ==
    CASE response.as = "none"             -> <<>>
      [] response.as \in {"list", "json"} -> Keep(response.picked, Visible)
      [] response.as = "bare"             -> Keep(response.picked, Visible \ Scalars)

\* _send_final: a text with the quick buttons, also for a body without a list.
Final(names) == Message("buttons", names, QuickCommandButtons)

\* Mutant of Sendable: a message without a list is sent as it was built.
SendableAsBuilt(m) == m

\* A built message as it is sent.
Sendable(m) == IF m.kind = "none" THEN Final(m.names) ELSE m

=============================================================================
