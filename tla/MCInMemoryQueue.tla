--------------------------- MODULE MCInMemoryQueue ---------------------------
(* TLC instances of InMemoryQueue; the .cfg files give the sizes.          *)
EXTENDS InMemoryQueue

=============================================================================
