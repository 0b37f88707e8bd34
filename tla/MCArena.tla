------------------------------ MODULE MCArena ------------------------------
(**************************************************************************)
(* Arena with regions of a few words: nothing, two words (one byte of the *)
(* second), and a request larger than the default capacity.               *)
(**************************************************************************)
EXTENDS Arena

SomeSizes == {0, 9, 40}
=============================================================================
