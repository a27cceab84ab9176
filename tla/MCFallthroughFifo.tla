-------------------------- MODULE MCFallthroughFifo --------------------------
(* A ring of four slots and two different words: pointers wrap and the     *)
(* ring, with the three registers behind it, fills.                        *)
EXTENDS FallthroughFifo
=============================================================================
