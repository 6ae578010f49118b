---------------------------- MODULE ShoppingStore ----------------------------
(***************************************************************************)
(* The database of the bot as a record of tables (app/domain/models.py)    *)
(* and the queries of app/db/repository.py as operators on it.  A row of a *)
(* table is a pair of the table's function, its id (or phone number) the   *)
(* argument.  Names, invite codes, categories, added_by and the times are  *)
(* left out: nothing below depends on them.                                *)
(***************************************************************************)
EXTENDS Selection

CONSTANTS
    Phones,     \* WhatsApp numbers
    Texts,      \* item texts as people spell them
    Keys,       \* item names without case and surrounding blanks
    Lower,      \* text.strip().lower(), from Texts to Keys
    Blank,      \* the name of a text that consists of blanks
    NoOne       \* bought_by_id of an item nobody has bought

ASSUME LowerAssumption == Lower \in [Texts -> Keys]
ASSUME NoOneAssumption == NoOne \notin Phones

Statuses == {"NEEDED", "BOUGHT"}

\* An Item row.  Users are known by their unique phone number.
Rows == [list     : Nat,
         text     : Texts,
         status   : Statuses,
         cleared  : BOOLEAN,
         boughtBy : Phones \cup {NoOne}]

\* t is a table with keys from K and rows from R.
IsTable(t, K, R) == DOMAIN t \in SUBSET K /\ t \in [DOMAIN t -> R]

\* A table with one row, and table t with the rows of u written over it.
Row(id, row) == [x \in {id} |-> row]

Overwrite(t, u) ==
    [x \in DOMAIN t \cup DOMAIN u |-> IF x \in DOMAIN u THEN u[x] ELSE t[x]]

\* The tables: families, shopping lists with their family, users with their
\* family, items.  is_active of a list is True from its creation on.
EmptyStore == [families |-> {}, lists |-> <<>>, users |-> <<>>, items |-> <<>>]

-----------------------------------------------------------------------------
(* repository.py                                                           *)

\* get_active_list: the rows it selects from, with a limit of one.
ActiveLists(store, family) == {l \in DOMAIN store.lists : store.lists[l] = family}

\* get_needed_items
NeededItems(store, list) ==
    {i \in DOMAIN store.items :
        store.items[i].list = list /\ store.items[i].status = "NEEDED"}

Names(store, ids) == {Lower[store.items[i].text] : i \in ids}

\* Mutant of NewTexts: names are compared with the list only, so a batch can
\* name the same item twice.
NewTextsIgnoringBatch(store, list, texts) ==
    LET existing == Names(store, NeededItems(store, list))
    IN  SelectSeq(texts, LAMBDA t : Lower[t] \notin existing \cup {Blank})

\* add_items: the texts it makes rows of, those that are not blank, not on the
\* list and not named earlier in the same batch.
NewTexts(store, list, texts) ==
    LET existing  == Names(store, NeededItems(store, list))
        IsNew(k)  == /\ Lower[texts[k]] \notin existing \cup {Blank}
                     /\ \A j \in 1..k - 1 : Lower[texts[j]] # Lower[texts[k]]
    IN  Selected(texts, {k \in DOMAIN texts : IsNew(k)})

\* Mutant of MatchingItems: any item of the list, not only the needed ones.
MatchingAnyStatus(store, list, texts) ==
    LET wanted == {Lower[t] : t \in ToSet(texts)} \ {Blank}
    IN  {i \in DOMAIN store.items :
            store.items[i].list = list /\ Lower[store.items[i].text] \in wanted}

\* remove_items_by_text and mark_items_bought_by_text: the needed items whose
\* name is wanted.
MatchingItems(store, list, texts) ==
    LET wanted == {Lower[t] : t \in ToSet(texts)} \ {Blank}
    IN  {i \in NeededItems(store, list) : Lower[store.items[i].text] \in wanted}

\* Mutant of TappedItems: without the early return for a bought item.
TappedAnyStatus(store, id) == {id} \cap DOMAIN store.items

\* mark_item_bought: the item to mark.  One that is bought already is left
\* alone, in whatever list the id is found.
TappedItems(store, id) ==
    {i \in {id} \cap DOMAIN store.items : store.items[i].status = "NEEDED"}

\* Mutant of ClearableItems: everything that is not cleared yet.
ClearableAnyStatus(store, list) ==
    {i \in DOMAIN store.items :
        store.items[i].list = list /\ ~ store.items[i].cleared}

\* clear_bought: the items it clears.
ClearableItems(store, list) ==
    {i \in DOMAIN store.items :
        /\ store.items[i].list = list
        /\ store.items[i].status = "BOUGHT"
        /\ ~ store.items[i].cleared}

\* Mutant of PastTexts: without exclude_texts.
PastTextsUnfiltered(store, family, list) ==
    {store.items[i].text : i \in {i \in DOMAIN store.items :
        /\ store.items[i].list \in ActiveLists(store, family)
        /\ store.items[i].status = "BOUGHT"}}

\* get_past_bought_items as _past_item_texts calls it: what the family has
\* bought before, cleared or not, without the names that are needed now.
\* Which spelling of a name comes, and in what order, is left open.
PastTexts(store, family, list) ==
    LET needed == Names(store, NeededItems(store, list))
        bought == {store.items[i].text : i \in
                     {i \in DOMAIN store.items :
                         /\ store.items[i].list \in ActiveLists(store, family)
                         /\ store.items[i].status = "BOUGHT"}}
    IN  {t \in bought : Lower[t] \notin needed}

=============================================================================
