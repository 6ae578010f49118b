----------------------------- MODULE FamilyList -----------------------------
(***************************************************************************)
(* What the bot promises a family about its shopping list, without         *)
(* sessions, messages or queues: the list changes by one user action at a  *)
(* time, and each action happens completely or not at all.  An item is     *)
(* needed, then bought, then cleared off the list; only an item that was   *)
(* never bought can disappear.                                             *)
(***************************************************************************)
EXTENDS Naturals

CONSTANTS Phones, Texts, Lower

VARIABLE items      \* the items ever put on the list and not taken off again

Needed == {i \in DOMAIN items : items[i].status = "NEEDED"}

NeededNames == {Lower[items[i].text] : i \in Needed}

Init == items = <<>>

\* New items, each of a name that is not on the list yet.
Add ==
    /\ DOMAIN items \subseteq DOMAIN items'
    /\ \A i \in DOMAIN items : items'[i] = items[i]
    /\ \A i \in DOMAIN items' \ DOMAIN items :
        /\ items'[i].status = "NEEDED"
        /\ Lower[items'[i].text] \notin NeededNames
        /\ \A j \in DOMAIN items' \ DOMAIN items :
            i # j => Lower[items'[i].text] # Lower[items'[j].text]

\* One person buys some of the needed items.
Buy == \E S \in SUBSET Needed, p \in Phones :
    items' = [i \in DOMAIN items |->
                IF i \in S THEN [items[i] EXCEPT !.status = "BOUGHT", !.boughtBy = p]
                           ELSE items[i]]

\* Some needed items are taken off the list.
Remove == \E S \in SUBSET Needed :
    items' = [i \in DOMAIN items \ S |-> items[i]]

\* Everything bought is cleared off the list and kept as history.
Clear ==
    items' = [i \in DOMAIN items |->
                IF i \in Needed THEN items[i] ELSE [items[i] EXCEPT !.cleared = TRUE]]

Next == Add \/ Buy \/ Remove \/ Clear

Spec == Init /\ [][Next]_items

=============================================================================
