---------------------------- MODULE MCChainState ----------------------------
(***************************************************************************)
(* Small instances of ChainState: a chain a1 - a2 - a3, a branch b1 - b2   *)
(* and a block c2 beside b2.  A cfg takes the blocks it needs.             *)
(***************************************************************************)
EXTENDS ChainStateInv

CONSTANTS g, a1, a2, a3, b1, b2, c2, t

MCParent == [b \in Blocks |-> CASE b = g -> NoBlock [] b \in {a1, b1} -> g [] b = a2 -> a1
                                [] b = a3 -> a2 [] b \in {b2, c2} -> b1]
MCHeight == [b \in Blocks |-> CASE b = g -> 0 [] b \in {a1, b1} -> 1 [] b \in {a2, b2, c2} -> 2
                                [] b = a3 -> 3]
MCAncestors == [b \in Blocks |-> {b} \cup
    CASE b = g -> {} [] b \in {a1, b1} -> {g} [] b = a2 -> {g, a1} [] b = a3 -> {g, a1, a2}
      [] b \in {b2, c2} -> {g, b1}]

\* b2 has more work than a2, and a3 more than b2.
UnevenWork == [b \in Blocks |-> CASE b = b2 -> 3 [] b = a3 -> 4 [] OTHER -> MCHeight[b]]

\* The blocks of the two branches carry the same transaction, or none does.
SameTx == [b \in Blocks |-> IF b \in {a1, b1} THEN {t} ELSE {}]
NoTx == [b \in Blocks |-> {}]
=============================================================================
