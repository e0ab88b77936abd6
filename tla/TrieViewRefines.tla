-------------------------- MODULE TrieViewRefines --------------------------
(***************************************************************************)
(* TrieView implements LedgerSpec: seen from outside, every call moves the *)
(* ledger as a whole from block to block.                                  *)
(***************************************************************************)
EXTENDS TrieViewInv

\* The block the ledger is at: the walk of a call stays at a block until the
\* next one is undone or applied completely.
Place ==
    IF pc \in {"down", "aborted"} THEN NoBlock
    ELSE IF pc \in Busy /\ caller \in Walkers THEN LedgerAt ELSE bestBlock

\* Between the first and the last operation of a block, what the ledger holds
\* is nobody's business.
Seen == IF pc \in Quiet \cup {"undo"} THEN root ELSE LedgerOf(Place)

Promise == INSTANCE LedgerSpec WITH
    AccountsOf <- [b \in Blocks \cup {NoBlock} |-> LedgerOf(b)],
    at <- Place,
    accounts <- Seen,
    saved <- trieDat,
    saving <- pc \in {"flush", "rename", "cleanup"},
    up <- pc \notin {"down", "aborted"},
    broken <- stray

\* Every behaviour of the ledger is one of the abstract ledger: Activate, Apply,
\* Unapply, HashForBlock, BalancesAt, GetSlice, Force, Flush and the constructor
\* keep its promise up to the unwinding faults.
ImplementsLedger == Promise!Spec

\* BalancesAt and GetSlice leave the best block where they found it, whatever
\* block was asked for and whichever part of the tree lies in between.
VisitsReturn ==
    [][(caller \in {"visit", "restore"} /\ pc' = "idle" /\ ~stray') => bestBlock' = oldHash]_vars
=============================================================================
