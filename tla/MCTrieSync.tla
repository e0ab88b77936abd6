---------------------------- MODULE MCTrieSync ----------------------------
(***************************************************************************)
(* Small instances of TrieSync: keys of three bits, six accounts of which  *)
(* four lie close together, and blocks that each move a coin.              *)
(***************************************************************************)
EXTENDS TrieSync

CONSTANTS p1, p2

MCCredit == (1 :> {1}) @@ (2 :> {6}) @@ (3 :> {0}) @@ (4 :> {6})
MCDebit == (1 :> {5}) @@ (2 :> {1}) @@ (3 :> {5}) @@ (4 :> {0})

Coins(seq) == [k \in Keys |-> seq[k + 1]]

\* Accounts at heights 0 to 4.
MCLedger ==
    (0 :> Coins(<<1, 0, 1, 1, 0, 2, 0, 0>>)) @@
    (1 :> Coins(<<1, 1, 1, 1, 0, 1, 0, 0>>)) @@
    (2 :> Coins(<<1, 0, 1, 1, 0, 1, 1, 0>>)) @@
    (3 :> Coins(<<2, 0, 1, 1, 0, 0, 1, 0>>)) @@
    (4 :> Coins(<<1, 0, 1, 1, 0, 0, 2, 0>>))
=============================================================================
