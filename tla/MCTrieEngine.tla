---------------------------- MODULE MCTrieEngine ----------------------------
(***************************************************************************)
(* A small instance of TrieEngine: keys of four bits, of which some share  *)
(* two or three leading bits, so that branches are split and merged.       *)
(***************************************************************************)
EXTENDS TrieEngine

MCKeys == {1, 2, 3, 6, 12}
MCBorders == {0, 2, 3, 5, 12, 15}
=============================================================================
