----------------------------- MODULE ChainState -----------------------------
(***************************************************************************)
(* The chain state of a node (main.cpp): the block index with the status   *)
(* of each block, the candidates for the best chain (setBlockIndexValid),  *)
(* the best header chain (chainHeaders), the connected chain (chainActive),*)
(* the transaction index and the ledger that has to follow the chain.      *)
(* Headers and blocks arrive in any order; a block is refused when it is   *)
(* connected or when the ledger applies it; the process may die between    *)
(* any two steps and is then started again from what is on disk.           *)
(*                                                                         *)
(* The ledger is the one of TrieView, reduced to the block whose accounts  *)
(* it holds.  Everything runs under cs_main, so that one handler runs at a *)
(* time; a handler is split where it writes to disk and where its loops    *)
(* turn.  A chain is represented by its tip.                               *)
(***************************************************************************)
EXTENDS Integers, Sequences, SequencesExt, FiniteSets

CONSTANTS
    Blocks,         \* hashes of all blocks
    NoBlock,        \* null pointer, zero hash
    Genesis,
    Parent,         \* hashPrevBlock
    Height,         \* nHeight
    Work,           \* nChainWork
    Ancestors,      \* a block with all the blocks below it
    Tx,             \* transactions other than coinbases
    Txs,            \* vtx
    BadScripts,     \* blocks with a signature CheckInputs refuses
    BadLedger,      \* blocks TrieView::Apply refuses
    Tangled,        \* those it refuses after it used an account twice
    Torn,           \* accounts of no block
    Fragile,        \* blocks the disk may lose
    MIN_HISTORY,    \* blocks a sync point stays behind
    START_BACK,     \* 144: how far below the best header a start goes on
    Unknown         \* no entry in mapBlockIndex

VARIABLES
    index,          \* mapBlockIndex with nStatus
    candidates,     \* setBlockIndexValid
    received,       \* the order of nSequenceId
    headers,        \* tip of chainHeaders
    active,         \* tip of chainActive
    syncPoint,      \* pindexSyncPoint
    unindexed,      \* mapUnindexed: blocks that wait for their parent
    trieBest,       \* m_bestBlock of the ledger
    ledger,         \* the block whose accounts the ledger holds, or Torn
    diskIndex,      \* the block index on disk
    diskTrie,       \* trie.dat
    diskSync,       \* the sync point on disk
    txIndex,        \* the transaction index on disk
    lost,           \* blocks ReadBlockFromDisk no longer returns
    damaged,        \* history: blocks that were lost at some time
    pc,             \* where the running handler is
    after,          \* who called ActivateBestHeader
    accepting,      \* the block of AcceptBlock or AcceptBlockHeader
    loading,        \* fLoading
    oldSet,         \* Activate: blocks still to be undone
    newSet          \* Activate: blocks still to be applied

tree == <<index, candidates, received>>
sync == <<syncPoint, diskSync>>
trie == <<trieBest, ledger>>
files == <<diskTrie, lost, damaged>>
control == <<pc, after, accepting, loading>>
walk == <<oldSet, newSet>>
vars == <<tree, headers, active, sync, unindexed, trie, diskIndex, txIndex, files, control, walk>>

\* nStatus: a block with BLOCK_HAVE_DATA has BLOCK_VALID_TRANSACTIONS, failed is
\* BLOCK_FAILED_MASK, applied is BLOCK_VALID_SCRIPTS with undo data.
Status == [data : BOOLEAN, failed : BOOLEAN, applied : BOOLEAN]
HeaderStatus == [data |-> FALSE, failed |-> FALSE, applied |-> FALSE]

ASSUME ChainAssumption ==
    /\ IsFiniteSet(Blocks)
    /\ NoBlock \notin Blocks /\ Unknown \notin Status
    /\ Torn \notin Blocks /\ Tangled \subseteq BadLedger
    /\ Genesis \in Blocks \ (BadScripts \cup BadLedger \cup Fragile)
    /\ Parent \in [Blocks -> Blocks \cup {NoBlock}]
    /\ Height \in [Blocks -> Nat] /\ Height[Genesis] = 0
    /\ Work \in [Blocks -> Nat]
    /\ Txs \in [Blocks -> SUBSET Tx]
    /\ Ancestors \in [Blocks -> SUBSET Blocks]
    /\ \A b \in Blocks :
         /\ b = Genesis <=> Parent[b] = NoBlock
         /\ Ancestors[b] = {b} \cup IF b = Genesis THEN {} ELSE Ancestors[Parent[b]]
         /\ b # Genesis => Height[b] = Height[Parent[b]] + 1 /\ Work[b] > Work[Parent[b]]
    /\ MIN_HISTORY \in Nat \ {0}
    /\ START_BACK \in 0..(MIN_HISTORY - 1)

Known == {b \in Blocks : index[b] # Unknown}
Failed(b) == index[b].failed
FailedBlocks == {b \in Known : Failed(b)}
HasData(b) == index[b].data
Readable(b) == HasData(b) /\ b \notin lost

\* chain[n], and chain.Contains(b)
At(tip, n) == CHOOSE b \in Ancestors[tip] : Height[b] = n
InChain(tip, b) == b \in Ancestors[tip]

Highest(S) == CHOOSE b \in S : \A c \in S : Height[c] <= Height[b]
Lowest(S) == CHOOSE b \in S : \A c \in S : Height[b] <= Height[c]

\* CBlockIndexWorkComparator: more work, then received earlier.
Position(b) == IF b \in Range(received) THEN CHOOSE i \in DOMAIN received : received[i] = b ELSE 0
\* Variant: the work is not looked at.
HigherFirst(b, c) == \/ Height[b] > Height[c]
                     \/ Height[b] = Height[c] /\ Position(b) < Position(c)

Better(b, c) == \/ Work[b] > Work[c]
                \/ Work[b] = Work[c] /\ Position(b) < Position(c)
Best == CHOOSE b \in candidates : \A c \in candidates \ {b} : Better(b, c)

WriteBlockIndex(b, status) == diskIndex' = [diskIndex EXCEPT ![b] = status]

Mark(marked) == [b \in Blocks |-> IF b \in marked THEN [index[b] EXCEPT !.failed = TRUE]
                                  ELSE index[b]]

-----------------------------------------------------------------------------
(* ActivateBestHeader *)

\* A tip that failed is dropped first; the genesis block never fails.
WithoutFailed(tip, failed) == Highest(Ancestors[tip] \ failed)

\* caller says where the handler goes on afterwards.
ActivateBestHeader(caller, failed) ==
    /\ pc' = "header"
    /\ after' = caller
    /\ headers' = WithoutFailed(headers, failed)

\* The end of AcceptBlock or of a start.  The blocks that waited for a parent
\* are looked at after every block.
Finish == /\ pc' = IF accepting = NoBlock THEN "idle" ELSE "orphans"
          /\ accepting' = NoBlock
          /\ after' = "none"
          /\ loading' = FALSE

GoOn(place) == /\ pc' = place
               /\ after' = "none"
               /\ UNCHANGED <<accepting, loading>>

\* ActivateBestHeader hands its result to its caller.
HeaderReturn(ok) ==
    \/ /\ after = "accept"
       /\ pc' = "idle" /\ after' = "none" /\ accepting' = NoBlock
       /\ UNCHANGED loading
       /\ IF ok THEN WriteBlockIndex(accepting, index[accepting]) ELSE UNCHANGED diskIndex
    \/ /\ after = "store"
       /\ IF ok THEN GoOn("store") /\ WriteBlockIndex(accepting, index[accepting])
                ELSE Finish /\ UNCHANGED diskIndex
    \/ /\ after = "chain"
       /\ IF ok THEN GoOn("unwind") ELSE Finish
       /\ UNCHANGED diskIndex
    \/ /\ after = "connect"
       /\ GoOn("trie") /\ UNCHANGED diskIndex
    \/ /\ after = "again"
       /\ GoOn("restep") /\ UNCHANGED diskIndex
    \/ /\ after = "load"
       /\ GoOn("loaded") /\ UNCHANGED diskIndex

NoCandidates ==
    /\ pc = "header"
    /\ candidates = {}
    /\ HeaderReturn(TRUE)
    /\ UNCHANGED <<tree, headers, active, sync, unindexed, trie, txIndex, files, walk>>

\* The failed blocks between the best candidate and the header chain.  They are
\* looked for only when the candidate is not better than the current tip.
FailedBelow == {b \in Ancestors[Best] : ~InChain(headers, b) /\ Failed(b)}
Improves == Better(Best, headers)
AboveFailed == {b \in Ancestors[Best] : Height[b] > Height[Highest(FailedBelow)]}

\* The search would turn for ever on a candidate that leaves the header chain at
\* a failed block.
ForkFailed == Failed(Highest(Ancestors[Best] \cap Ancestors[headers]))

Drop(bad) == candidates' = candidates \ bad /\ UNCHANGED pc

\* One turn of the search: a failed candidate is dropped, a candidate above a
\* failed block is marked as failed, any other candidate is taken.
FindBest ==
    /\ pc = "header"
    /\ candidates # {}
    /\ IF Failed(Best) THEN Drop({Best}) /\ UNCHANGED index
       ELSE IF ~Improves /\ FailedBelow # {} THEN Drop(AboveFailed) /\ index' = Mark(AboveFailed)
       ELSE /\ pc' = IF ~Improves /\ ForkFailed THEN "hung" ELSE "reorg"
            /\ UNCHANGED <<index, candidates>>
    /\ UNCHANGED <<received, headers, active, sync, unindexed, trie, diskIndex, txIndex, files, after,
                   accepting, loading, walk>>

\* DisconnectTip fails if the block cannot be read.
CanDisconnect == Readable(active)
EraseTxIndex(b) == txIndex \ Txs[b]
DisconnectTip == /\ active' = Parent[active]
                 /\ txIndex' = EraseTxIndex(active)

\* The connected chain is taken down to the header chain before the header
\* chain loses its tip, until the header chain leads to the candidate.
ReorgDisconnect ==
    /\ pc = "reorg"
    /\ ~InChain(Best, headers)
    /\ ~InChain(headers, active)
    /\ IF CanDisconnect
       THEN DisconnectTip /\ UNCHANGED <<diskIndex, control>>
       ELSE HeaderReturn(FALSE) /\ UNCHANGED <<active, txIndex>>
    /\ UNCHANGED <<tree, headers, sync, unindexed, trie, files, walk>>

ReorgPop ==
    /\ pc = "reorg"
    /\ ~InChain(Best, headers)
    /\ InChain(headers, active)
    /\ headers' = Parent[headers]
    /\ UNCHANGED <<tree, active, sync, unindexed, trie, diskIndex, txIndex, files, control, walk>>

ReorgDone ==
    /\ pc = "reorg"
    /\ InChain(Best, headers)
    /\ headers' = Best
    /\ HeaderReturn(TRUE)
    /\ UNCHANGED <<tree, active, sync, unindexed, trie, txIndex, files, walk>>

\* Variant: no descendants.
NoDescendants(bad) == {}

-----------------------------------------------------------------------------
(* InvalidBlockFound *)

Descendants(bad) ==
    {b \in Ancestors[headers] : InChain(headers, bad) /\ Height[b] > Height[bad]}

\* The block and its descendants on the header chain are marked; only the
\* block itself is written.
InvalidBlockFound(bad, caller) ==
    LET marked == {bad} \cup Descendants(bad)
    IN /\ index' = Mark(marked)
       /\ WriteBlockIndex(bad, [index[bad] EXCEPT !.failed = TRUE])
       /\ candidates' = candidates \ marked
       /\ ActivateBestHeader(caller, FailedBlocks \cup marked)

-----------------------------------------------------------------------------
(* ActivateBestChainStep *)

\* Variant: the step is not taken again.
RestepNever ==
    /\ pc = "restep"
    /\ Finish
    /\ UNCHANGED <<tree, headers, active, sync, unindexed, trie, diskIndex, txIndex, files, walk>>

\* "Loop until the pain stops": the step is taken again after a block failed.
Restep ==
    /\ pc = "restep"
    /\ ActivateBestHeader("chain", FailedBlocks)
    /\ UNCHANGED <<tree, active, sync, unindexed, trie, diskIndex, txIndex, files, accepting, loading,
                   walk>>

\* The result of DisconnectTip is not looked at: the loop goes on for ever if
\* the tip cannot be disconnected.
UnwindTip ==
    /\ pc = "unwind"
    /\ ~InChain(headers, active)
    /\ IF CanDisconnect
       THEN DisconnectTip /\ UNCHANGED pc
       ELSE pc' = "hung" /\ UNCHANGED <<active, txIndex>>
    /\ UNCHANGED <<tree, headers, sync, unindexed, trie, diskIndex, files, after, accepting, loading,
                   walk>>

UnwindDone ==
    /\ pc = "unwind"
    /\ InChain(headers, active)
    /\ pc' = "connect"
    /\ UNCHANGED <<tree, headers, active, sync, unindexed, trie, diskIndex, txIndex, files, after,
                   accepting, loading, walk>>

\* The loop goes on to the best header, a missing block or a block that cannot
\* be read.
NextBlock == At(headers, Height[active] + 1)
CanConnect == active # headers /\ Readable(NextBlock)

\* ConnectBlock checks neither signatures nor for duplicates during a start.
ConnectRefuses(b) == ~loading /\ (b \in BadScripts \/ Txs[b] \cap txIndex # {})

\* The sync point follows MIN_HISTORY blocks behind.
SyncPointAfter(b) ==
    IF /\ syncPoint # NoBlock
       /\ Height[syncPoint] + MIN_HISTORY < Height[b]
       /\ Height[b] > MIN_HISTORY
    THEN At(b, Height[b] - MIN_HISTORY) ELSE syncPoint

ConnectTip ==
    /\ pc = "connect"
    /\ CanConnect
    /\ IF ConnectRefuses(NextBlock)
       THEN /\ InvalidBlockFound(NextBlock, "connect")
            /\ UNCHANGED <<active, sync, txIndex>>
       ELSE /\ active' = NextBlock
            /\ txIndex' = txIndex \cup Txs[NextBlock]
            /\ syncPoint' = SyncPointAfter(NextBlock)
            /\ diskSync' = IF syncPoint' # syncPoint THEN syncPoint' ELSE diskSync
            /\ UNCHANGED <<index, candidates, headers, diskIndex, pc, after>>
    /\ UNCHANGED <<received, unindexed, trie, files, accepting, loading, walk>>

ConnectDone ==
    /\ pc = "connect"
    /\ ~CanConnect
    /\ pc' = "trie"
    /\ UNCHANGED <<tree, headers, active, sync, unindexed, trie, diskIndex, txIndex, files, after,
                   accepting, loading, walk>>

-----------------------------------------------------------------------------
(* TrieView::Activate(chainActive.Tip()) *)

NoWalk == oldSet' = {} /\ newSet' = {}

ActivateLedger ==
    /\ pc = "trie"
    /\ IF trieBest \in Known
       THEN /\ GoOn("walk")
            /\ oldSet' = Ancestors[trieBest] \ Ancestors[active]
            /\ newSet' = Ancestors[active] \ Ancestors[trieBest]
       ELSE Finish /\ NoWalk
    /\ UNCHANGED <<tree, headers, active, sync, unindexed, trie, diskIndex, txIndex, files>>

\* Variant: the undo data is not used.
UnapplyNothing(b) == {ledger}

\* The accounts after a block is undone.  Its undo records put the earlier accounts
\* back, so that to undo it twice is to undo it once; they repair a torn ledger if
\* they cover every account that is wrong.  (Where a record meets an account it does
\* not expect, an assertion or a null pointer ends the process: that is Restart.)
Unapply(b) == IF ledger \in {b, Parent[b]} THEN {Parent[b]} ELSE {Torn, Parent[b]}

\* Without undo data Activate gives up and blames no block.
UndoBlock ==
    /\ pc = "walk"
    /\ oldSet # {}
    /\ LET b == Highest(oldSet)
       IN IF index[b].applied
          THEN /\ ledger' \in Unapply(b)
               /\ trieBest' = b
               /\ oldSet' = oldSet \ {b}
               /\ UNCHANGED <<newSet, control>>
          ELSE Finish /\ NoWalk /\ UNCHANGED trie
    /\ UNCHANGED <<tree, headers, active, sync, unindexed, diskIndex, txIndex, files>>

\* Apply: the accounts after the block are the ones its header commits to if they
\* were the ones of its parent before, or if the block puts right what was torn.
Applies(b) == Readable(b) /\ ledger = Parent[b] /\ b \notin BadLedger
Mends(b) == Readable(b) /\ ledger = Torn /\ b \notin BadLedger

Take(b) ==
    /\ ledger' = b
    /\ trieBest' = b
    /\ newSet' = newSet \ {b}
    /\ index' = [index EXCEPT ![b].applied = TRUE]
    /\ WriteBlockIndex(b, index'[b])
    /\ UNCHANGED <<candidates, headers, oldSet, pc, after>>

\* Variant: a refusal is not unwound.
LeftTorn(b) == {Torn}

\* The accounts after a refusal.  The undo records of a block whose operations were
\* all done (the root hash is wrong) are in reverse order and take the ledger back;
\* when TempApply refuses in the middle of the block they are not, and an account
\* used twice keeps a value in between.
AfterRefusal(b) ==
    IF Readable(b) /\ (b \in Tangled \/ ledger # Parent[b]) THEN {ledger, Torn} ELSE {ledger}

Refuse(b) ==
    /\ InvalidBlockFound(b, "again")
    /\ NoWalk
    /\ ledger' \in AfterRefusal(b)
    /\ UNCHANGED trieBest

ApplyBlock ==
    /\ pc = "walk"
    /\ oldSet = {}
    /\ newSet # {}
    /\ LET b == Lowest(newSet)
       IN \/ (Applies(b) \/ Mends(b)) /\ Take(b)
          \/ ~Applies(b) /\ Refuse(b)
    /\ UNCHANGED <<received, active, sync, unindexed, txIndex, files, accepting, loading>>

\* The ledger is where it should be; Flush writes it, or fails unnoticed.
WalkDone ==
    /\ pc = "walk"
    /\ oldSet = {}
    /\ newSet = {}
    /\ trieBest' = active
    /\ diskTrie' \in {diskTrie, [best |-> active, ledger |-> ledger]}
    /\ Finish
    /\ UNCHANGED <<tree, headers, active, sync, unindexed, ledger, diskIndex, txIndex, lost, damaged,
                   walk>>

-----------------------------------------------------------------------------
(* Headers and blocks from the network *)

\* AcceptBlockHeader's checks on a header it does not know.
HeaderAccepted(b) == /\ Parent[b] \in Known
                     /\ ~Failed(Parent[b])
                     /\ syncPoint # NoBlock => Height[b] > Height[syncPoint]

\* Variant: the block is a candidate before it is in the index.
InsertCandidate(b) == /\ received' = Append(received, b)
                      /\ candidates' = candidates \cup {b}
                      /\ UNCHANGED index

\* InsertBlockIndex and LinkOrphans
Insert(b) == /\ index' = [index EXCEPT ![b] = HeaderStatus]
             /\ received' = Append(received, b)
             /\ candidates' = candidates \cup {b}

ProcessBlockHeader(b) ==
    /\ pc = "idle"
    /\ b \notin Known
    /\ HeaderAccepted(b)
    /\ Insert(b)
    /\ accepting' = b
    /\ ActivateBestHeader("accept", FailedBlocks)
    /\ UNCHANGED <<active, sync, unindexed, trie, diskIndex, txIndex, files, loading, walk>>

\* The header of a known block is not checked again, even if the block failed.
AcceptBlock(b) ==
    \/ /\ b \in Known
       /\ pc' = "store"
       /\ accepting' = b
       /\ UNCHANGED <<tree, headers, after>>
    \/ /\ b \notin Known
       /\ HeaderAccepted(b)
       /\ Insert(b)
       /\ accepting' = b
       /\ ActivateBestHeader("store", FailedBlocks)
    \/ /\ b \notin Known
       /\ ~HeaderAccepted(b)
       /\ pc' = "orphans"
       /\ UNCHANGED <<tree, headers, after, accepting>>

\* A block without parent is kept until the parent is there.
ProcessBlock(b) ==
    /\ pc = "idle"
    /\ IF Parent[b] \in Known
       THEN AcceptBlock(b) /\ UNCHANGED unindexed
       ELSE /\ b \notin unindexed
            /\ unindexed' = unindexed \cup {b}
            /\ UNCHANGED <<tree, headers, pc, after, accepting>>
    /\ UNCHANGED <<active, sync, trie, diskIndex, txIndex, files, loading, walk>>

\* Variant: every block is stored.
StoreAlways(b) == FALSE

\* A block that was applied before is not stored again.
AlreadyApplied(b) == HasData(b) /\ index[b].applied

\* WriteBlockPosition forgets the undo data of a block it stores.
StoreBlock ==
    /\ pc = "store"
    /\ IF AlreadyApplied(accepting)
       THEN Finish /\ UNCHANGED <<index, headers, diskIndex, lost>>
       ELSE /\ index' = [index EXCEPT ![accepting].data = TRUE, ![accepting].applied = FALSE]
            /\ WriteBlockIndex(accepting, index'[accepting])
            /\ lost' = lost \ {accepting}
            /\ ActivateBestHeader("chain", FailedBlocks)
            /\ UNCHANGED <<accepting, loading>>
    /\ UNCHANGED <<candidates, received, active, sync, unindexed, trie, diskTrie, txIndex, damaged,
                   walk>>

\* Variant: the block is not taken out.
ProcessOrphanKept ==
    /\ pc = "orphans"
    /\ \E b \in unindexed : Parent[b] \in Known /\ AcceptBlock(b)
    /\ UNCHANGED <<active, sync, unindexed, trie, diskIndex, txIndex, files, loading, walk>>

\* Blocks whose parent is there now are accepted.
ProcessOrphan ==
    /\ pc = "orphans"
    /\ \E b \in unindexed : /\ Parent[b] \in Known
                            /\ AcceptBlock(b)
                            /\ unindexed' = unindexed \ {b}
    /\ UNCHANGED <<active, sync, trie, diskIndex, txIndex, files, loading, walk>>

OrphansDone ==
    /\ pc = "orphans"
    /\ \A b \in unindexed : Parent[b] \notin Known
    /\ pc' = "idle"
    /\ UNCHANGED <<tree, headers, active, sync, unindexed, trie, diskIndex, txIndex, files, after,
                   accepting, loading, walk>>

-----------------------------------------------------------------------------
(* The disk and restarts *)

\* A block file is damaged.
LoseBlock(b) ==
    /\ b \notin lost
    /\ index[b] # Unknown
    /\ HasData(b)
    /\ lost' = lost \cup {b}
    /\ damaged' = damaged \cup {b}
    /\ UNCHANGED <<tree, headers, active, sync, unindexed, trie, diskIndex, txIndex, diskTrie, control,
                   walk>>

\* The orders in which LinkOrphans meets the blocks of the index: level by level.
LoadOrders(S) ==
    LET some == SetToSeq(S)
        orders == {[i \in 1 .. Cardinality(S) |-> p[some[i]]] : p \in Permutations(S)}
    IN  {r \in orders : /\ Range(r) = S
                        /\ \A i, j \in DOMAIN r : i < j => Height[r[i]] <= Height[r[j]]}

OnDisk == {b \in Blocks : \A a \in Ancestors[b] : diskIndex[a] # Unknown}

\* Variant: only the marks on disk.
MarkedOnDisk == {b \in OnDisk : diskIndex[b].failed}

\* What LinkOrphans marks at a start: all that stands on a block with a mark on disk.
FailedAtStart == {b \in OnDisk : \E a \in Ancestors[b] : diskIndex[a].failed}

\* The process dies at any point and is started again: LoadBlockIndexDB links
\* the blocks of the index, marks what descends from a failed block, and begins
\* at the genesis block.
Restart ==
    /\ index' = [b \in Blocks |-> IF b \in FailedAtStart THEN [diskIndex[b] EXCEPT !.failed = TRUE]
                                  ELSE IF b \in OnDisk THEN diskIndex[b] ELSE Unknown]
    /\ candidates' = OnDisk \ FailedAtStart
    /\ received' \in LoadOrders(candidates')
    /\ trieBest' = diskTrie.best
    /\ ledger' = diskTrie.ledger
    /\ diskSync' = IF diskSync = NoBlock /\ diskTrie.best # Genesis THEN Genesis ELSE diskSync
    /\ syncPoint' = NoBlock
    /\ headers' = Genesis
    /\ active' = Genesis
    /\ unindexed' = {}
    /\ pc' = "header"
    /\ after' = "load"
    /\ accepting' = NoBlock
    /\ loading' = TRUE
    /\ NoWalk
    /\ UNCHANGED <<diskIndex, txIndex, files>>

\* Variant: the start goes on above blocks that are not stored.
StartPointUnchecked ==
    IF Height[headers] > MIN_HISTORY THEN At(headers, Height[headers] - START_BACK)
    ELSE IF diskSync \in Known THEN diskSync ELSE active

\* Where the start takes up the connected chain: START_BACK blocks below the best
\* header if there are enough headers, or at the sync point.
StartPoint ==
    LET pindex == At(headers, Height[headers] - START_BACK)
    IN IF Height[headers] > MIN_HISTORY /\ HasData(pindex) /\ ~Failed(pindex) THEN pindex
       ELSE IF diskSync \in Known THEN diskSync ELSE active

\* The rest of LoadBlockIndexDB, and the ActivateBestChain that ends the start.
Loaded ==
    /\ pc = "loaded"
    /\ syncPoint' = IF diskSync \in Known THEN diskSync ELSE NoBlock
    /\ active' = StartPoint
    /\ ActivateBestHeader("chain", FailedBlocks)
    /\ UNCHANGED <<tree, diskSync, unindexed, trie, diskIndex, txIndex, files, accepting, loading,
                   walk>>

-----------------------------------------------------------------------------
\* After the first start: the genesis block is stored and applied, but it is not
\* a candidate.
Init ==
    /\ index = [b \in Blocks |-> IF b = Genesis
                                 THEN [data |-> TRUE, failed |-> FALSE, applied |-> TRUE]
                                 ELSE Unknown]
    /\ candidates = {}
    /\ received = <<>>
    /\ headers = Genesis
    /\ active = Genesis
    /\ syncPoint = NoBlock
    /\ unindexed = {}
    /\ trieBest = Genesis
    /\ ledger = Genesis
    /\ diskIndex = index
    /\ diskTrie = [best |-> Genesis, ledger |-> Genesis]
    /\ diskSync = NoBlock
    /\ txIndex = {}
    /\ lost = {}
    /\ damaged = {}
    /\ pc = "idle"
    /\ after = "none"
    /\ accepting = NoBlock
    /\ loading = FALSE
    /\ oldSet = {}
    /\ newSet = {}

Step ==
    \/ NoCandidates \/ FindBest
    \/ ReorgDisconnect \/ ReorgPop \/ ReorgDone
    \/ Restep \/ UnwindTip \/ UnwindDone \/ ConnectTip \/ ConnectDone
    \/ ActivateLedger \/ UndoBlock \/ ApplyBlock \/ WalkDone
    \/ StoreBlock \/ ProcessOrphan \/ OrphansDone \/ Loaded

Next ==
    \/ \E b \in Blocks \ {Genesis} : ProcessBlockHeader(b) \/ ProcessBlock(b)
    \/ Step
    \/ \E b \in Fragile : LoseBlock(b)
    \/ Restart

Spec == Init /\ [][Next]_vars

\* A handler that can go on does.
FairSpec == Spec /\ WF_vars(Step)

-----------------------------------------------------------------------------
(* Properties *)

TypeOK ==
    /\ index \in [Blocks -> Status \cup {Unknown}]
    /\ candidates \subseteq Known
    /\ received \in Seq(Blocks)
    /\ {headers, active, trieBest} \subseteq Known
    /\ ledger \in Known \cup {Torn}
    /\ {syncPoint, diskSync, accepting} \subseteq Blocks \cup {NoBlock}
    /\ unindexed \subseteq Blocks
    /\ diskIndex \in [Blocks -> Status \cup {Unknown}]
    /\ diskTrie \in [best : Blocks, ledger : Blocks \cup {Torn}]
    /\ txIndex \subseteq Tx
    /\ lost \subseteq damaged /\ damaged \subseteq Fragile
    /\ pc \in {"idle", "header", "reorg", "unwind", "connect", "trie", "walk", "restep", "store",
               "orphans", "loaded", "hung"}
    /\ after \in {"none", "accept", "store", "chain", "connect", "again", "load"}
    /\ loading \in BOOLEAN
    /\ oldSet \subseteq Blocks
    /\ newSet \subseteq Blocks

\* The blocks that break a rule themselves, and the blocks without such a block
\* below them.
Repeats(b) == \E a \in Ancestors[b] \ {b} : Txs[a] \cap Txs[b] # {}
Faulty == BadScripts \cup BadLedger \cup {b \in Blocks : Repeats(b)}
Valid == {b \in Blocks : Ancestors[b] \cap Faulty = {}}

\* A block is marked as failed, which is for good, only if it or a block below it
\* breaks a rule ("descends from failed block", main.h) or could not be read: never
\* because blocks came in an unlucky order, were not yet written when the process
\* died or met the ledger of another block.
NeverFailsValid ==
    \A b \in Known : Failed(b) => b \notin Valid \/ Ancestors[b] \cap damaged # {}

\* When a handler has ended and every known block is stored and readable (again),
\* the node is on a chain of most work among the valid ones it has not given up,
\* and its ledger is there too.
BestAtRest ==
    pc = "idle" /\ lost = {} /\ (\A b \in Known : HasData(b)) =>
       /\ active \in Valid
       /\ \A b \in Known \cap Valid : ~Failed(b) => Work[b] <= Work[active]
       /\ trieBest = active
       /\ ledger = active

\* The block of trie.dat can be left again after a restart: it and the blocks
\* below it are in the index on disk, with undo data.
SnapshotIndexed ==
    \A b \in Ancestors[diskTrie.best] : diskIndex[b] # Unknown /\ diskIndex[b].applied

\* When Apply is called the ledger is the one of the parent ("This assume the
\* current state of the trie is pindex->pprev", trieview.cpp).
AppliesToParent ==
    pc = "walk" /\ oldSet = {} /\ newSet # {} => ledger = Parent[Lowest(newSet)]

\* No loop of ActivateBestHeader or ActivateBestChainStep turns for ever: DisconnectTip
\* reports a failure "so the loop in ActivateBestChainStep can back off".
NeverHangs == pc # "hung"

\* Once ActivateBestHeader has chosen, the header chain has no failed block: it
\* looks for them "between the candidate new best and the currently-accepted best".
HeadersNotFailed == pc \in {"idle", "unwind"} => \A b \in Ancestors[headers] : ~Failed(b)

\* A block that has failed stays failed as long as the index has it: when it arrives
\* again, in reorganisations, and over restarts, although InvalidBlockFound writes
\* only one of the blocks it marks and LinkOrphans has to find the others at a start.
FailedForGood ==
    [][\A b \in Known : Failed(b) /\ index'[b] # Unknown => index'[b].failed]_vars

\* Every handler ends: the node takes headers and blocks again and again, unless it
\* is restarted for ever ("Loop until the pain stops" in ActivateBestChainStep).
Settles == []<>(pc = "idle") \/ []<><<Restart>>_vars
=============================================================================
