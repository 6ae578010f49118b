---------------------------- MODULE MCConsumeLoop ----------------------------
(* TLC instances of ConsumeLoop; the .cfg files give the sizes.            *)
EXTENDS ConsumeLoop

=============================================================================
