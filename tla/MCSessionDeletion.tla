------------------------- MODULE MCSessionDeletion -------------------------
(* A small instance of SessionDeletion for TLC (deletion.cfg).  The two       *)
(* passes are interchangeable, and no symmetry is declared all the same:      *)
(* TLC's symmetry reduction is not sound for CleanupCompletes.                *)
EXTENDS SessionDeletion
=============================================================================
