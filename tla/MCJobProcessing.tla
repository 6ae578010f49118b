--------------------------- MODULE MCJobProcessing ---------------------------
(* TLC instances of JobProcessing; the .cfg files give the sizes.          *)
EXTENDS JobProcessing, TLC

CONSTANTS milk, Milk, bread, blanks,    \* spellings
          milkName, breadName,          \* names
          anna, ben                     \* phones

MCTexts  == {milk, Milk, bread, blanks}
MCKeys   == {milkName, breadName, Blank}
MCLower  == milk :> milkName @@ Milk :> milkName @@ bread :> breadName @@ blanks :> Blank

\* Two spellings of one name in a batch, a blank text, two names at once.
MCBatches == {<<milk>>, <<Milk>>, <<Milk, blanks, milk>>, <<milk, bread>>}

\* The smallest batches that still make items of two names.
MCSmallBatches == {<<milk>>, <<milk, bread>>}
MCOneBatch     == {<<milk, bread>>}

\* Safety runs with several workers only.
Symmetry == Permutations(Workers) \cup Permutations(Phones)

=============================================================================
