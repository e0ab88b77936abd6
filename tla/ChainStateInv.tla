--------------------------- MODULE ChainStateInv ---------------------------
(***************************************************************************)
(* The invariants behind the theorems about ChainState.                    *)
(***************************************************************************)
EXTENDS ChainState

\* The blocks whose undo data is on disk.
AppliedOnDisk == {b \in Blocks : diskIndex[b] # Unknown /\ diskIndex[b].applied}

\* The index and its copy on disk agree on which blocks were applied, and these
\* blocks are stored and have only such blocks below them.
AppliedAgree ==
    \A b \in Blocks : b \in AppliedOnDisk <=> b \in Known /\ index[b].applied
AppliedStored == \A b \in AppliedOnDisk : index[b].data /\ diskIndex[b].data
AppliedClosed == \A b \in AppliedOnDisk : Ancestors[b] \subseteq AppliedOnDisk

\* The index holds a block only with the blocks below it, and every candidate has
\* its place in the order of arrival.
KnownClosed == \A b \in Known : Ancestors[b] \subseteq Known
CandidatesReceived == candidates \subseteq Range(received)

GenesisStays ==
    /\ Genesis \in AppliedOnDisk
    /\ ~diskIndex[Genesis].failed /\ ~index[Genesis].failed

\* The ledger, in memory and in trie.dat, only ever stands at an applied block,
\* unless its accounts are torn.
LedgerApplied ==
    /\ {trieBest, diskTrie.best} \subseteq AppliedOnDisk
    /\ {ledger, diskTrie.ledger} \subseteq AppliedOnDisk \cup {Torn}

\* A walk undoes applied blocks off the connected chain, and what it does not
\* apply of the connected chain was applied before.
WalkShape ==
    IF pc = "walk"
    THEN /\ oldSet \subseteq AppliedOnDisk \ Ancestors[active]
         /\ newSet \subseteq Ancestors[active] \ {Genesis}
         /\ Ancestors[active] \subseteq newSet \cup AppliedOnDisk
    ELSE oldSet = {} /\ newSet = {}

\* Where a handler is.
HandlerShape ==
    /\ pc = "store" \/ after \in {"accept", "store"} => accepting # NoBlock
    /\ accepting # NoBlock => accepting \in Known
    /\ pc = "connect" => InChain(headers, active)
    /\ pc = "reorg" => candidates # {}

IndexInv ==
    /\ TypeOK
    /\ AppliedAgree /\ AppliedStored /\ AppliedClosed
    /\ KnownClosed /\ CandidatesReceived /\ GenesisStays
    /\ LedgerApplied /\ WalkShape /\ HandlerShape
-----------------------------------------------------------------------------
(* What a reorganisation must not meet *)

\* The first block above the fork is not refused.
ForkHolds ==
    pc = "walk" /\ oldSet = {} /\ newSet # {} /\ trieBest # ledger =>
        Readable(Lowest(newSet)) /\ Lowest(newSet) \notin BadLedger

\* No block is refused half-way that used an account twice.
CleanRefusal ==
    pc = "walk" /\ oldSet = {} /\ newSet # {} => Lowest(newSet) \notin Tangled

\* Every block of the connected chain that has to be applied was stored.
WalkStored == pc = "walk" => \A b \in newSet : HasData(b)

\* Outside a start the transaction index has no transaction of another branch.
TxIndexFresh ==
    pc = "connect" /\ ~loading => txIndex \subseteq UNION {Txs[a] : a \in Ancestors[active]}

\* The ledger is the one of m_bestBlock, and the walk leads from it to the
\* connected chain.
WalkPath ==
    /\ ledger # Torn
    /\ diskTrie.best = diskTrie.ledger
    /\ IF pc = "walk"
       THEN /\ oldSet = Ancestors[ledger] \ Ancestors[active]
            /\ newSet = Ancestors[active] \ Ancestors[ledger]
       ELSE trieBest = ledger

\* A failed block stands on a block that breaks a rule or was lost.
Blamed(b) == Ancestors[b] \cap (Faulty \cup damaged) # {}
FailedBlamed ==
    /\ \A b \in Known : index[b].failed => Blamed(b)
    /\ \A b \in Blocks : diskIndex[b] # Unknown /\ diskIndex[b].failed => Blamed(b)

-----------------------------------------------------------------------------
(* The search for the best header *)

\* Every block that has not failed is a candidate, but for the genesis block before
\* the first restart.
CandidatesComplete == Known \ (FailedBlocks \cup {Genesis}) \subseteq candidates

\* ActivateBestHeader begins with a tip that has not failed and takes a candidate
\* that has not.
SearchInv ==
    /\ CandidatesComplete
    /\ pc = "header" => ~Failed(headers)
    /\ pc = "reorg" => ~Failed(Best)

\* A candidate that is no improvement is the tip of the header chain itself, so that
\* the search for failed blocks below it has nothing to look at.
OnlyTipIsTested ==
    pc = "header" /\ candidates # {} /\ ~Failed(Best) =>
        Improves \/ (Best = headers /\ FailedBelow = {} /\ ~ForkFailed)

-----------------------------------------------------------------------------
(* What is stored *)

\* Blocks are stored after their parents, and the disk keeps what it has.
StoredInOrder == \A b \in Known \ {Genesis} : HasData(b) => HasData(Parent[b])
NothingLost == lost = {}

Stored == {b \in Known : HasData(b)}
StoredOnDisk == {b \in Blocks : diskIndex[b] # Unknown /\ diskIndex[b].data}

\* What the index says is stored is stored, also in its copy on disk; the connected
\* chain and the chain below the sync point are.
StoredInv ==
    /\ Stored \subseteq StoredOnDisk
    /\ Ancestors[active] \subseteq Stored
    /\ diskSync # NoBlock => Ancestors[diskSync] \subseteq Stored

-----------------------------------------------------------------------------
(* Failed blocks *)

\* The known blocks above bad are on the header chain, where InvalidBlockFound finds
\* them, or have failed before.
OneBranch(bad) ==
    {b \in Known : bad \in Ancestors[b]} \subseteq Ancestors[headers] \cup FailedBlocks \cup {bad}

\* No block that is refused has a fork above it.
NoForkAboveRefused ==
    /\ pc = "connect" /\ CanConnect /\ ConnectRefuses(NextBlock) => OneBranch(NextBlock)
    /\ pc = "walk" /\ oldSet = {} /\ newSet # {} /\ ~Applies(Lowest(newSet)) =>
         OneBranch(Lowest(newSet))

\* What stands on a failed block has failed, and the tip of the header chain has not.
FailedClosed ==
    /\ \A b \in Known : (\E a \in Ancestors[b] : Failed(a)) => Failed(b)
    /\ ~Failed(headers)

\* The index on disk has a block only with the blocks below it.
DiskClosed == \A b \in Blocks : diskIndex[b] # Unknown => b \in OnDisk

\* A failed block stands on one that is written as failed, and what is written so has
\* failed in memory too.
FailedOnDisk == {b \in Blocks : diskIndex[b] # Unknown /\ diskIndex[b].failed}
FailedRooted ==
    /\ \A b \in FailedBlocks : Ancestors[b] \cap FailedOnDisk # {}
    /\ FailedOnDisk \subseteq FailedBlocks

-----------------------------------------------------------------------------
(* The chain of most work *)

AllStored == \A b \in Known : HasData(b)
HeadersBest == \A b \in Known : ~Failed(b) => Work[b] <= Work[headers]
Settled == HeadersBest /\ headers = active /\ trieBest = active /\ ledger = active

\* How a handler gets there: ActivateBestHeader chooses, the chain is connected up to
\* the best header or a missing block, the ledger follows.  A new header, which may
\* leave the connected chain short, is a block that is not stored.
RestInv ==
    /\ pc \in {"header", "reorg"} /\ after \in {"accept", "store"} => ~HasData(accepting)
    /\ after # "connect"
    /\ pc \in {"unwind", "connect"} => HeadersBest
    /\ AllStored => /\ pc \in {"trie", "walk"} => HeadersBest /\ headers = active
                    /\ pc \in {"store", "orphans", "idle"} => Settled

\* The case without bad signatures and repeated transactions: no block is refused when
\* it is connected.
NothingRefused == BadScripts = {} /\ \A b \in Blocks : ~Repeats(b)

\* The ledger refuses what it must.
AppliedSound == AppliedOnDisk \cap BadLedger = {}
=============================================================================
