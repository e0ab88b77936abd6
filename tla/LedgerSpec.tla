----------------------------- MODULE LedgerSpec -----------------------------
(***************************************************************************)
(* What the account ledger promises to the rest of the node, without undo  *)
(* records, calls and their steps: the accounts are always those of one    *)
(* block of the tree.  Chain activation and visits move it along the tree, *)
(* one block at a time and each block as a whole; only a trie that was     *)
(* downloaded takes it elsewhere, and is saved at once.  trie.dat is       *)
(* replaced as a whole by what the ledger holds, and a start takes up what *)
(* trie.dat says or begins without accounts.  The promise ends where the   *)
(* ledger is broken: where a call was not unwound.                         *)
(***************************************************************************)
CONSTANTS
    Blocks, Parent, NoBlock,
    AccountsOf,     \* the accounts after a block, and before the first (NoBlock)
    NoFile, Damaged

VARIABLES
    at,             \* the block the ledger is at
    accounts,       \* what the ledger holds
    saved,          \* trie.dat
    saving,         \* it is being written
    up,             \* the process runs
    broken

place == <<at, accounts>>
vars == <<at, accounts, saved, saving, up, broken>>

Init ==
    /\ at = NoBlock /\ accounts = AccountsOf[NoBlock]
    /\ saved = NoFile /\ saving = FALSE
    /\ up = TRUE /\ broken = FALSE

MoveTo(b) == at' = b /\ accounts' = AccountsOf[b]

Connect(b) ==
    /\ up /\ ~saving /\ Parent[b] = at
    /\ MoveTo(b)
    /\ UNCHANGED <<saved, saving, up>>

Disconnect ==
    /\ up /\ ~saving /\ at \in Blocks /\ Parent[at] \in Blocks
    /\ MoveTo(Parent[at])
    /\ UNCHANGED <<saved, saving, up>>

\* A downloaded trie, or the one of the genesis block at the first start.
Install(b) ==
    /\ up /\ ~saving
    /\ MoveTo(b)
    /\ saving' = TRUE
    /\ UNCHANGED <<saved, up>>

StartSave ==
    /\ up /\ ~saving
    /\ saving' = TRUE
    /\ UNCHANGED <<place, saved, up>>

\* Saving ends, with or without a new trie.dat.
EndSave ==
    /\ up /\ saving
    /\ saving' = FALSE
    /\ saved' \in {saved, [best |-> at, trie |-> accounts]}
    /\ UNCHANGED <<place, up>>

Die ==
    /\ up
    /\ up' = FALSE /\ saving' = FALSE
    /\ MoveTo(NoBlock)
    /\ UNCHANGED saved

Rot ==
    /\ ~up /\ saved # NoFile
    /\ saved' = Damaged
    /\ UNCHANGED <<place, saving, up>>

Start ==
    /\ ~up /\ up' = TRUE
    /\ \/ /\ saved \in {NoFile, Damaged}
          /\ MoveTo(NoBlock)
          /\ saved' \in {saved, NoFile}
       \/ /\ saved \notin {NoFile, Damaged}
          /\ at' = saved.best /\ accounts' = saved.trie
          /\ UNCHANGED saved
    /\ UNCHANGED saving

Moves ==
    \/ \E b \in Blocks : Connect(b) \/ Install(b)
    \/ Disconnect \/ StartSave \/ EndSave
    \/ Die \/ Rot \/ Start

Next == (broken => broken') /\ (broken' \/ Moves)

Spec == Init /\ [][Next]_vars
=============================================================================
