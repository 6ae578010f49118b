--------------------------- MODULE MCConversation ---------------------------
(* TLC instances of Conversation; the .cfg files give the sizes.           *)
EXTENDS Conversation, TLC

CONSTANTS milk, Milk, seven, toiletPaper, longName, endless,     \* texts
          milkName, sevenName, paperName, longKey, endlessKey   \* names

MCTexts == {milk, Milk, seven, toiletPaper, longName, endless}
MCKeys  == {milkName, sevenName, paperName, longKey, endlessKey, Blank}

MCLower == milk :> milkName @@ Milk :> milkName @@ seven :> sevenName
    @@ toiletPaper :> paperName @@ longName :> longKey @@ endless :> endlessKey

\* Shorter and longer than a title, too long for a callback, too long for the
\* column.
MCChars == milk :> 3 @@ Milk :> 3 @@ seven :> 1 @@ toiletPaper :> 36
    @@ longName :> 198 @@ endless :> 300

MCScalars == {seven}

MCBatches == {<<Milk, longName>>, <<endless>>}

\* What was bought before: a name that fits no row is the oldest.
MCHistory == <<longName, seven, toiletPaper, milk>>

=============================================================================
