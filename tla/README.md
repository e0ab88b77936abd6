# Cryptonite: TLA+ verification of the node

Cryptonite is a cryptocurrency node whose state is a ledger of *accounts*
instead of a set of unspent outputs.  Every block header commits to the root
hash of the ledger after the block, so that a node may throw away old blocks
and download the ledger itself.  This directory holds the TLA+ model of that
node, the TLC runs that check it on small instances, and theorems proved with
TLAPS.

Paths below are relative to the repository; the C++ sources are in `src/`.

## 1. Inventory

| Component | State it keeps | Operations | Interacts with | What makes it hard | What makes it correct |
|---|---|---|---|---|---|
| Account ledger, `trieview.cpp` | the trie `m_root`, the block it belongs to `m_bestBlock`, `trie.dat` | Activate, Apply, Unapply, TempApply, HashForBlock, BalancesAt, GetSlice, Force, Flush, constructor | block index (`pprev`, undo positions), block files, chain state, miner, slice sync | moves back and forth on the block tree, failures half way, crash while writing, undo order, limits that change over time | the ledger is always the one of `m_bestBlock`; undo data takes a block back exactly; a snapshot on disk is never torn; a valid block is never blamed |
| Radix trie, `trie.cpp`, `trieengine.cpp` | nodes with compressed prefixes, cached hashes and child counts | Find, Insert, Remove, SubTrie, Prove | ledger, slice sync | splitting and merging prefixes, stale cached hashes | represents a finite map; the hash depends on the map only; a slice proves exactly its interval |
| Chain state, `main.cpp` | `mapBlockIndex`, `setBlockIndexValid`, `chainHeaders`, `chainActive`, `pindexBestInvalid`, `pindexSyncPoint`, `setHeightMissing` | AcceptBlockHeader, AcceptBlock, ProcessBlock, ActivateBestHeader, ActivateBestChainStep, Connect/DisconnectTip, InvalidBlockFound, LoadBlockIndexDB | ledger (Activate), block files, mempool, wallet | headers and blocks in any order, invalid blocks deep in a chain, restart with index and `trie.dat` out of step | the header chain is a best chain without failed blocks; the active chain is a prefix of it; ledger at the active tip |
| Slice synchronisation, `triesync.cpp` | intervals of the key space received, per-peer requests, the sync point | getslice/slice messages, AcceptSlice, Build | peers, ledger (Force), chain state | late, repeated and overlapping slices, peers that stall, the sync point moving | the trie that is forced has the hash of the sync point's header; synchronisation ends |
| Memory pool, `txmempool.cpp` | transactions, pending totals per account `mapLimits` | AcceptToMemoryPool, remove, validate | ledger (balances, limits), chain state | totals must follow every way in and out | totals equal the sum over the pool; every transaction affordable |
| Block files and cache, `blockcache.cpp`, `txdb.cpp` | block and undo files, last-file info, in-memory blocks | ReadBlockFromDisk, WriteBlock, FindBlockPos, FindUndoPos, index writes | all of the above | file limits, writes that are not synced | what was written is read back; positions never overlap |
| Start and shutdown, `init.cpp` | — | load, InitBlockIndex, Shutdown | all | interrupted first start | a second start continues from what is on disk |
| Pruning, `purge.cpp` | oldest block kept | purge | block files, chain state | removing what a reorganisation still needs | undo data of the last MIN_HISTORY blocks stays |
| Scheduler, check queue | task queue, thread counts | schedule, serviceQueue, stop; Add, Loop, Wait | threads | lost wake-ups, stop while waiting | every task runs once; every thread ends (tasks are never called, see section 6) |
| Peers and downloads, `net.cpp`, `main.cpp` | nodes, blocks and slices in flight | message handlers, SendMessages | chain state, sync | reordered and lost messages, timeouts | a missing block is requested again |
| Address manager, wallet, miner, RPC, GUI | — | — | — | — | — |

All ledger operations run under the lock `cs_main`, so the ledger itself sees
one call at a time.  What interleaves is the *sequence* of calls (chain
activation, RPC visits of old blocks, candidate blocks of the miner, flushes)
and the death of the process between any two steps of a call.

The full list of components with their status, and of the hazards with the
line where each bites, is in `PROJECT.json`.

## 2. Plan

1. **TrieView** (modelled, checked, proved): the ledger, its files, its
   restarts.  **LedgerSpec** (done): the abstract ledger; TrieView is proved to
   implement it.
2. **ChainState** (modelled, checked, its safety proved, in part under named
   hypotheses): block index, candidates, header chain, connected chain,
   transaction index, invalid blocks, starts and crashes.
3. **TrieSync** (modelled, checked, its safety proved): the download of the accounts in slices
   over peers that stall, refuse, answer wrongly and leave.
4. **Mempool** (modelled, checked, its safety proved): the pool between acceptance, blocks,
   reorganisations and the miner, with the limits of the ledger.
5. **TrieEngine** (modelled and checked): the nodes of the trie with recursive
   operators, against a definition by sets of keys.
6. Theorems: section 5 says what is proved; liveness, `TrieEngine` and the
   property that compares with ledgers worked out by hand stay with TLC.

## 3. Modules

| Module | Content |
|---|---|
| `TrieView` | the ledger: state, actions, specification, properties, and the variants of definitions that stand for plausible mistakes ("Variant: ...") |
| `TrieViewInv` | the inductive invariants `CallShape`, `LedgerInv`, `UnwindInv`, `VisitInv`, `LimitsKept` and their parts; `PaymentsWithinLimit` |
| `LedgerSpec` | what the ledger promises: a pair of a block and its accounts that moves as a whole, and a saved copy |
| `TrieViewRefines` | the refinement mapping from `TrieView` to `LedgerSpec` |
| `TrieViewProofs` | types, the shape of calls, the ledger and its files: theorems and proofs |
| `TrieViewRefinesProofs` | that `TrieView` implements `LedgerSpec` |
| `TrieViewUnwindProofs` | that unwinding finds what it expects, that visits return, and that payments stay within the limits |
| `MCTrieView` | a concrete block tree, its transactions and ledgers, candidate blocks, and the properties that need them |
| `ChainState`, `MCChainState` | the chain state of `main.cpp`, and a concrete block tree for it |
| `ChainStateInv` | its inductive invariants (`IndexInv`, `SearchInv`, `StoredInv`, `WalkPath`, `FailedClosed`, `FailedRooted`, `RestInv` and others), and the situations under which the conditional theorems hold |
| `ChainStateProofs`, `ChainBlameProofs` | what holds always, and what holds outside those situations |
| `TrieSync`, `MCTrieSync` | the download of the accounts, and concrete accounts and blocks for it |
| `TrieSyncProofs` | its safety theorems |
| `Mempool`, `MCMempool` | the memory pool with its users, and concrete transactions |
| `MempoolProofs` | the theorems about the pool's indexes, what it can pay and what the miner makes of it |
| `Induction` | induction over an interval, which the proofs about loops and sums use |
| `TrieEngine`, `MCTrieEngine` | the radix trie, and concrete keys |

How they fit together.  `ChainState` uses the ledger of `TrieView` through
`Activate` and `Flush`, with the trie reduced to one value, the block whose
accounts it holds; that this value exists is what `LedgerSpec` states and
`TrieView` is proved to implement.  `TrieSync` ends in the `Force` that
`TrieView` has as the action `ForceTrie`; it takes a slice to hold the accounts
of its keys at its block, which is what `SliceCarriesAll` of `TrieEngine` says.
`TrieView` takes the trie as a function from keys to accounts and its hash as
that function, which is what `FindsExactly` and `HashOfAccounts` say.
`Mempool` has the rules of TempApply in its own, smaller form.

### State of `TrieView`

| Variable | Code |
|---|---|
| `root`, `bestBlock` | `TrieView::m_root`, `m_bestBlock` |
| `indexed` | the genesis block is in the block index on disk |
| `undoData` | the undo data in the rev files, reachable through the index entry of a block (`NoUndo`: none) |
| `trieDat`, `trieTmp` | `trie.dat`, `trie.dat.tmp` |
| `pc`, `caller` | where the running call is, and who made it: `chain` (ActivateBestChainStep), `visit`/`restore` (the two Activate calls of BalancesAt and GetSlice), `hash` (HashForBlock), `init` (InitBlockIndex) |
| `target`, `oldSet`, `newSet`, `oldHash`, `badBlock` | locals and the out parameter of Activate, `oldHash` of BalancesAt |
| `cur`, `undos`, `next`, `limits`, `setLimit`, `setTxIn` | locals of TempApply and the loop of Unapply |
| `stray` | history variable, see "Unwinding faults" |

Abstractions: the trie is the function from keys to account records it
represents, and its hash is that function (no collisions).  The sequence
`Operations[b]` of a block is what TempApply's nested loops do in their order:
the coinbase check, each input, each output.  Fees of a coinbase operation are
the fees TempApply has summed up when it meets it.  Balances are naturals, sums
and differences the code does not guard wrap at `UINT64_MAX`.  `Ancestors` is
the walk along `pprev`; `SetPath` is what getSet2 and the loops that erase the
common part leave.

### Actions of `TrieView`

A call is split into steps because the process may die between them.

| Action | Code |
|---|---|
| `Activate`, `UndoBlock`, `Unapply`, `BlockUndone`, `ApplyBlock`, `ActivateDone` | `TrieView::Activate` and `Unapply` |
| `ApplyOperation`, `Complete`, `Accept`, `AcceptFails`, `RejectDone` | `TrieView::Apply`, `TempApply` |
| `HashForBlock` | `TrieView::HashForBlock` |
| `Visit` | `BalancesAt`, `GetSlice` |
| `ApplyGenesis` | `InitBlockIndex` |
| `ForceTrie` | `TrieView::Force`, called by ActivateTrie, with the Flush it ends in |
| `StartFlush`, `FlushWrite`, `FlushRename`, `FlushCleanup`, `FlushFails` | `TrieView::Flush` |
| `Restart` | the constructor |
| `Crash`, `Rot` | external: death of the process, decay of `trie.dat` |

`Activate`, `Visit` and `ForceTrie` take any block of the index as their target.
That is more than their present callers ask for, so what holds here holds for
any caller.

### Unwinding faults of `TrieView`

Three paths of the code return with a ledger that is not the one of
`m_bestBlock`.  They set the history variable `stray`, which no action reads:

* an operation is refused after an account was used twice: `undos` is reversed
  only when TempApply succeeds (line 516), so HashForBlock and Apply unwind in
  the order of collection;
* Activate fails after it has undone or applied something: it does not go
  back, and after undoing a block `m_bestBlock` is that block, not its parent
  (line 384);
* Apply fails to write undo data or the index: the ledger has the block, and
  `m_bestBlock` does not.

The first two contradict comments of the source: the first is the finding of
`trieview_invalid_set`, and `ChainHalfWay.cfg` shows what the chain state makes
of the second.  The invariants are stated for behaviours without such a
fault (`~stray => ...`); they say that **these three are the only ways** in
which the ledger and its block come apart.

### `ChainState`

| Variable | Code |
|---|---|
| `index` | `mapBlockIndex` and `nStatus`: data stored, failed, applied (`BLOCK_VALID_SCRIPTS` with undo data) |
| `candidates`, `received` | `setBlockIndexValid`, the order of `nSequenceId` |
| `headers`, `active` | the tips of `chainHeaders` and `chainActive` |
| `syncPoint`, `diskSync` | `pindexSyncPoint` and its copy on disk |
| `unindexed` | `mapUnindexed` |
| `trieBest`, `ledger`, `diskTrie` | `m_bestBlock`, the accounts, `trie.dat` |
| `diskIndex`, `txIndex` | LevelDB: block index and transaction index |
| `lost`, `damaged` | blocks whose data cannot be read now; history variable: at some time |
| `pc`, `after`, `accepting`, `loading`, `oldSet`, `newSet` | the running handler, the caller of ActivateBestHeader, its block, `fLoading`, Activate's path |

| Action | Code |
|---|---|
| `ProcessBlockHeader`, `ProcessBlock`, `StoreBlock`, `ProcessOrphan`, `OrphansDone` | ProcessBlockHeader, ProcessBlock, AcceptBlockHeader, AcceptBlock, WriteBlockPosition |
| `NoCandidates`, `FindBest`, `ReorgDisconnect`, `ReorgPop`, `ReorgDone` | ActivateBestHeader |
| `UnwindTip`, `UnwindDone`, `ConnectTip`, `ConnectDone`, `Restep` | ActivateBestChainStep, ConnectTip, ConnectBlock, DisconnectTip, DisconnectBlock; InvalidBlockFound is part of the step that calls it |
| `ActivateLedger`, `UndoBlock`, `ApplyBlock`, `WalkDone` | TrieView::Activate and Flush as ActivateBestChainStep uses them |
| `Restart`, `Loaded` | death of the process at any step, then LoadBlockIndexGuts, LoadBlockIndexDB and the ActivateBestChain of `init.cpp` |
| `LoseBlock` | external: a block file is damaged |

The handlers call each other and come back; `after` is the return address of
ActivateBestHeader.  `hung` is the value of `pc` in a loop whose body can no
longer change its condition.  Two branches of `FindBest` (a failed candidate, a
candidate above a failed block) translate code that no run reaches: because of
the comparison at line 1798 the search for failed blocks below a candidate has
nothing to look at, which `SearchNeverTestsBetween` proves for every chain.
What blocks are is constant: their work, their transactions, whether
ConnectBlock (`BadScripts`) or the ledger (`BadLedger`) refuses them.  The
checks on a block by itself are taken to have passed.

The accounts are one value, the block they belong to, or `Torn`: none.  A block
the ledger refuses because of its account root is taken back in the right order
(`trieview.cpp:601`), one that cannot be read changes nothing.  A block in
`Tangled` is refused by TempApply in the middle, after it used an account twice;
the list of undo records is not reversed then, and what `Apply` (line 597) unwinds
with it may be torn (the first unwinding fault above).  The same may happen to any
block that meets accounts other than those of its parent.  From torn accounts a
block is refused (`Refuse`) or, if it overwrites what was wrong, accepted (`Mends`),
and undoing a block leads to torn accounts or to those of the parent (`Unapply`).

### `LedgerSpec`

`at`, `accounts`: the block the node's ledger is at and the accounts it shows;
`saved`, `saving`: the copy on disk; `up`; `broken`.  The ledger moves by
`Connect` to a child and `Disconnect` to the parent, always as a whole,
`Install` replaces it by the one of a sync point, `StartSave` and `EndSave` put
exactly the ledger of `at` on disk, `Die`, `Rot` and `Start` are the failures
and the way back.  After an unwinding fault (`broken`) it promises nothing but
the failures.  In the mapping `at` is `Place`: inside a call the block the walk
has reached (`LedgerAt`), which is not `m_bestBlock`; `accounts` is `root` at
the ends of the blocks and the ledger of `Place` while the operations of a block
are carried out, since nobody can look at the trie then (`cs_main`).

### `TrieSync`

| Variable | Code |
|---|---|
| `tip`, `have` | the height of `chainHeaders`, the heights with `BLOCK_HAVE_DATA` |
| `online`, `halted` | `fTrieOnline`; the process ended by AbortNode or by freed memory |
| `nodes`, `leaving` | `mapNodeState`, `fDisconnect` |
| `sliced`, `asked`, `sliceTime`, `now` | `fSliced`, `slice`, `sliceTime` of a peer, `GetTime()` |
| `slices`, `slicesRequested`, `log2size`, `bans`, `nodesTooBig` | the members of `TrieSync` |

| Action | Code |
|---|---|
| `Request`, `NothingToAsk`, `Stalled` | the slice part of SendMessages, with GetSlice and ActivateTrie |
| `SliceAccepted`, `SliceRefused`, `SliceMismatch`, `SliceInvalid` | the handler of `slice` with AcceptSlice, AbortSlice and ActivateTrie |
| `Connect`, `Disconnect` | InitializeNode, FinalizeNode |
| `NewHeader`, `NewBlock`, `NewBranch` | the chain moves on meanwhile |
| `SetClock`, `Restart` | external: the clock, the process |

`Build` sorts the slices by `CSlice::nHeight`, which nothing sets: the model
takes every order.  `Update` erases from the multimap it walks over: the model
lets the process die or go on.  `Faulty` peers answer anything or nothing.

A peer that runs this program answers by its handler of `getslice`
(`main.cpp:3810-3874`).  It serves a slice only if its chain is higher than
`MIN_HISTORY` (line 3837), the block is not too old (3842) and the accounts fit
(`Served`); its chain is taken to be as high as this node's.  It refuses everything
else, and may also refuse for reasons this node does not see: it does not know the
block (3826), has no accounts itself (3832), or cannot read its blocks
(3848-3853).  The model therefore lets it refuse any request (`Answers`).

### `Mempool`

`chain` (the connected blocks), `due` (the accounts after the last of them),
`view` (the accounts the ledger holds), `pool` (`mapTx`, `mapAccount`,
`mapLimits`), and `phase` and `offer`, where ActivateBestChainStep is.  `Submit`
is AcceptToMemoryPool with ComplexBalances and Limit.  The loops of
ActivateBestChainStep are actions: `DisconnectTip`, `Resurrect` for each
transaction of the block (against the ledger of the old tip and while the block
still is the tip, as in the code), `UpdateTip`, then `ConnectTip` for each new
block, then `Settle`: the ledger follows and `validate` goes over the pool.  A
reorganisation takes back and connects any number of blocks.  `Restart` forgets
the pool.  `Templates` are the blocks
CreateNewBlock can build, for every order the priorities may give.

### `TrieEngine`

`root` is the trie as nested records, with the cached hash and the count of each
node; `accounts` is what its users put in.  `Deposit` and `Withdraw` are what
TempApply does to the trie (Find, Insert, SetBalance, Remove), `AskHash` and
`GetSlice` fill caches, `FlushAndLoad` is SubTrie over all keys with
Deserialize, `Build` the insertion in the order of the keys.  A hash is the
tuple of what is hashed (no collisions).  Parent pointers are the nesting: a walk
up to the root is `Reattach` on the way out of the recursion.

## 4. Runs

### `TrieView`

Account keys `k0` (coinbase), `k1`, `k2`; blocks `g - b1 - b2` and
`b1 - c2 - c3` are valid, `x2` (wrong account root), `z2` (overdraft) are not,
`s` is a sync point whose ledger was downloaded.  The ledgers of `MCAccountRoot`
were worked out by hand from the rules, independently of `Spent` and `Output`;
a mistake in either makes a valid block refused and breaks `NeverBlamesValid`.

| Run | Instance | Checks |
|---|---|---|
| `trieview_reorg` | `{g, b1, b2, c2, c3}`, no disk errors | `LedgerMatchesBest`, `SnapshotCoherent`, `UndoTakesBack`, `NeverAborts`, `NeverBlamesValid`, the inductive `CallShape`, `LedgerInv`, the refinement `ImplementsLedger`, the action property `VisitsReturn` |
| `trieview_faults` | `{g, b1, b2, x2}`, disk errors, also after an unwinding fault, with fairness | `ImplementsLedger`, which contains that the ledger and `trie.dat` belong to their blocks, and `AlwaysServes`: the node is idle, able to take a call, again and again |
| `trieview_templates` | `{g, s}`, every candidate of up to three of eight operations | `TypeOK`, `PaymentsWithinLimit` |
| `trieview_invalid_set` | as `templates` | violation of `InvalidSetUnwound`: two uses of `k1`, then a refused operation |

What the main properties say:

* `LedgerMatchesBest`: between calls `root` is the ledger that the header of
  `bestBlock` commits to, in every order of activations, visits, candidates,
  flushes, crashes and restarts.
* `SnapshotCoherent`: a readable `trie.dat` pairs a block with its own ledger.
* `UndoTakesBack`: the undo data on disk turns the ledger of its block into
  the ledger of its parent, also if the block uses an account several times.
* `NeverAborts`: Unapply never dereferences the null of a missing account and
  never inserts one that is there.
* `NeverBlamesValid`: no valid, readable block is reported as the bad block,
  which ActivateBestChainStep would mark as failed for good.
* `ImplementsLedger`: every behaviour is one of `LedgerSpec`.
* `VisitsReturn`: BalancesAt and GetSlice end at the block they started from.
* `PaymentsWithinLimit`: within a block an account never pays more than the
  limit it had before, whatever limit changes, deposits and payments precede.
  It is stated for every caller of TempApply; the run asks it of candidates.

Bounds, and why they are enough: five valid blocks give a reorganisation with
two blocks to undo, two to apply, and a common part; `b2` uses accounts twice,
destroys one and creates another; `c2` lowers a limit and raises it twice, and
`c3` pays when the last raise has matured.  With `MIN_LIMIT_TIME = 0` a limit
matures after one block, so that a comparison (`trieview.cpp:463`) that is off
by one in either direction gives other ledgers than those worked out and breaks
`NeverBlamesValid`; three operations are the shortest block with a payment,
a limit change and a payment.  `UpToFault` (a state constraint) does not
explore what follows an unwinding fault; every property checked under it is
vacuous there.  Model values of blocks and keys are not symmetric, since each
has its own transactions, so no symmetry is used.

### `ChainState`

Blocks `a1 - a2 - a3` and `b1 - b2`, `c2` above the genesis block `g`, of which
each run takes what it needs; `UnevenWork` gives `b2` more work than `a2`, so
that two blocks are disconnected.  Headers and blocks arrive in every order, any
number of times, before or after their parents, and the process dies at every step.

| Run | Instance | Checks |
|---|---|---|
| `chain_reorg` | two branches of two blocks, all valid, `a2` may become unreadable | `TypeOK`, `NeverFailsValid`, `BestAtRest`, `SnapshotIndexed`, `AppliesToParent` |
| `chain_refused` | `a2` has a bad signature, the ledger refuses `b1` and may be torn by it, `a1` and `b1` have the same transaction; with fairness | `HeadersNotFailed`, `FailedForGood`, `Settles` |
| `chain_sync` | sync points and accelerated starts, blocks stored in order; the ledger refuses `b2` by its account root | `NeverFailsValid`, `BestAtRest`, `NeverHangs` |

* `NeverFailsValid`: the failed mark, which is for good, is only on blocks that
  break a rule or could not be read, or stand on one of these.
* `BestAtRest`: when a handler has ended and every known block is stored and readable, the
  node is connected to a valid chain of most work, and so is its ledger.
* `SnapshotIndexed`: the block of `trie.dat` and all below it have undo data in
  the index on disk, so that a restarted node can leave them.
* `AppliesToParent`: Apply always meets the accounts of the parent.
* `HeadersNotFailed`, `NeverHangs`: what the comments of `main.cpp` promise about
  failed headers and loops that back off.
* `FailedForGood`: a block never loses its failed mark, although InvalidBlockFound
  writes only one of the marks it sets and a start has to find the others
  (LinkOrphans): a block that could come back would be connected again.
* `Settles`: every handler ends, unless the node is restarted for ever.

Places where a property fails outside its runs; the configuration, or a cfg with
the instance given here, shows each:

| Property | Fails when | Code |
|---|---|---|
| `NeverFailsValid`, `BestAtRest`, `AppliesToParent` | TempApply refuses `b1` in the middle, after it used an account twice (`Tangled = {b1}`, `ChainTorn.cfg`): the accounts stay torn under the old `m_bestBlock`, and the valid `a1`, which meets them next, is failed for good | `trieview.cpp:516`, `597` |
| `AppliesToParent` | the ledger refuses `b1`, the first block of a branch (`ChainHalfWay.cfg`): `m_bestBlock` is the block undone last, and when the chain goes back to it the next block meets the accounts of its grandparent.  Comment at `trieview.cpp:581`: "This assume the current state of the trie is pindex->pprev." | `trieview.cpp:384` |
| `NeverFailsValid` | `a1` and `b1` have the same transaction and a restart prefers the other branch (`ChainTxIndex.cfg`): the transaction index still has the old branch, and a valid block is failed as "tx duplicate" | `main.cpp:1394` |
| `BestAtRest` | ConnectBlock refuses `b2` while `c2` beside it is stored (`Blocks = {g, b1, b2, c2}`, `BadScripts = {b2}`): only the headers are reorganised | `main.cpp:1203` |
| `HeadersNotFailed` | a failed block has two children (`BadScripts = {b1}`) | `main.cpp:1798` |
| `NeverHangs` | the connected tip cannot be read when it is to be disconnected (`Fragile = {a1}`) | `main.cpp:1639` |
| `NeverHangs`, `NeverFailsValid` | an accelerated start finds blocks stored out of order (`Blocks = {g, a1, a2, a3}`, `MIN_HISTORY = 2`, `START_BACK = 0`) | `main.cpp:2903` |

The passing runs leave out exactly these ingredients: a refused block with two
children in `chain_refused`; blocks stored out of order (the constraint
`StoredInOrder` of `ChainStateInv`) and unreadable blocks in `chain_sync`; and, where
`NeverFailsValid`, `BestAtRest` and `AppliesToParent` are checked, common
transactions of two branches, a bad signature, a refused block that is the first of
its branch, and a refused block that tears the ledger (`Tangled = {}`: refusals are
by the account root, or before an account is used twice).  `chain_refused` has all
of the latter, and what it checks holds with a torn ledger.

A start connects stored blocks without looking at their signatures
(`main.cpp:1389`); the model does the same (`ConnectRefuses`), so that in
`chain_refused` a start may connect `a2`.  There is no property that says more about
it: without starts it would restate the test, and with them it fails.

Bounds: two branches with one block more than the reorganisation needs to turn
twice around each loop; `MIN_HISTORY` is 1 or 2 where sync points matter, so
that two or three blocks reach them, and 5, which no chain of the instance
reaches, elsewhere.  A handler is not interrupted by another one (`cs_main`).

### `TrieSync`

Keys of three bits (eight keys), two peers, slices of at most two accounts, so
that slices are refused as too big and cut again; `MIN_HISTORY = 1` and the chain is
at least two blocks high, since below that no peer would serve a slice.

| Run | Instance | Checks |
|---|---|---|
| `triesync_download` | one of two peers faulty, the tip moves once, blocks are stored late | `TypeOK`, `RequestsOwned`, `NoGapLeft`, `ReadyMeansCovered`, `AbortsOnlyMixed` |
| `triesync_ends` | both peers run this program, come and go, and refuse at will; blocks are replaced, the clock may be set back; with fairness | `Syncs` |
| `triesync_stall` | one faulty peer, the clock only advances; with fairness | violation of `SilentDropped` |

* `RequestsOwned`: every request under way is owed by a connected peer, so that
  its keys can be asked again.
* `NoGapLeft`: as long as a key is missing, GetSlice asks for one that is.
* `ReadyMeansCovered`: ReadyToBuild is never content with a gap.
* `AbortsOnlyMixed`: the fatal error of ActivateTrie needs slices of different
  blocks.  With them it happens with honest peers only: `TrieSyncMixed.cfg`
  violates `NeverAborts` (Build's uninitialised order and the replay of one block
  for all the blocks since the last slice, `triesync.cpp:417` and `431`, against
  "this should be impossible", `main.cpp:2429`).
* `Syncs`: if from some time on the peers that run this program are connected, none
  of them about to be dropped and not all banned, every block is stored and the
  chain is longer than `MIN_HISTORY` (`Calm`), and these peers refuse only what the
  handler of `getslice` makes them refuse for its size or age (`InCondition`), then
  the node comes online or ends: bans and sizes do not go round in circles, whatever
  earlier refusals left behind.  A peer that refuses for ever for reasons of its
  own can keep the node from its accounts, as can a chain that is too short.
* `SilentDropped`: a peer that owes a slice for too long is disconnected.  It is
  not: the comparison at `main.cpp:4728` is the wrong way round.

Bounds: three bits are the least with slices that are cut twice and overlap;
the second tip of `triesync_download` makes slices of two blocks meet.  In
`triesync_ends` the tip stays, since `Syncs` is about a chain that has come to rest;
two readings of the clock are enough for `Stalled`, which only a clock that goes
back can reach.

### `Mempool`

Accounts `ka` (7 coins, limit 4) and `kb` (created by a payment), four payments
and two limit changes, chains of up to four blocks of two transactions, so that
a limit change matures (`MIN_LIMIT_TIME = 1`) and a transaction becomes too old.

| Run | Checks |
|---|---|
| `mempool_pool` | `IndexExact`, `LimitsNotOvercounted`, `PoolAffordable`, `NothingTwice`, `TemplateAccepted` |

* `PoolAffordable`: what waits in the pool can be paid from the tip, also after
  transactions came back against the ledger of the old tip.
* `TemplateAccepted`: the ledger accepts what the miner builds from payments of
  accounts whose limit does not change.

Two further configurations show why the last one is restricted.
`MempoolMatured.cfg` violates `PoolMinable`: `Limit()` (`trieview.cpp:689`), the
pool and the miner use a raised limit that has matured, and TempApply
(`trieview.cpp:433`) the old one, so that CreateNewBlock fails as long as such a
payment waits, although the pool is said to hold transactions "that may be
included in the next block" (`txmempool.h:48`).  `MempoolBoth.cfg` violates
`NeverBoth`: the `continue` at `miner.cpp:256` leaves the inner loop only, so
that a payment joins a limit change of its account, against the comment of line
249.

### `TrieEngine`

Keys of four bits, five accounts of which some share two or three leading bits,
balances up to 2, intervals with six borders that are keys, neighbours of keys
and the ends of the key space.

| Run | Checks |
|---|---|
| `trieengine_shape` | `HashOfAccounts`, `FindsExactly`, `CountCoversLeaves`, `SliceCarriesAll`, `HonestSliceProves` |

* `HashOfAccounts`: the hash, from whatever caches, is the one `HashOf` computes
  from the set of accounts: the consensus of nodes depends on it.
* `CountCoversLeaves`: the count that sizes Flush's buffer is never too small.
  It may be too large: `TrieEngineCount.cfg` violates `AccountsCounted` (three
  accounts are counted as four after a load, since FindChildren counts branches,
  `trie.cpp:407`), while `trie_persistence_tests.cpp:123` expects the count of
  two accounts to be two; the RPC field `accounts` shows it.
* `SliceCarriesAll`, `HonestSliceProves`: a slice that SubTrie has made holds all
  accounts of its interval, has the hash of the trie, and passes Prove.  The
  converse is not claimed: Prove passes slices that lack accounts of their
  interval, and the account root of the complete trie decides.

Bounds: four bits give branches of none, one and two bits, and five keys all
cases of Split and Merge.

### Further configurations

Not part of the runs, each the smallest instance that shows what is said of it
above: `ChainTorn.cfg`, `ChainHalfWay.cfg`, `ChainTxIndex.cfg` (module `MCChainState`),
`TrieSyncMixed.cfg` (`MCTrieSync`), `MempoolMatured.cfg`, `MempoolBoth.cfg`
(`MCMempool`), `TrieEngineCount.cfg` (`MCTrieEngine`) violate their property;
`TrieViewRefused.cfg` (`MCTrieView`) passes, and checks
`LedgerMatchesBest`, `SnapshotCoherent` and `NeverBlamesValid` on more refused and
unreadable blocks, up to the first unwinding fault.

### Fairness and variants

For `ChainState`, `FairSpec` assumes only that a handler under way takes its
next step (`WF_vars(Step)`: the thread that holds `cs_main` keeps running).
For `TrieView`, `FairSpec` assumes that a call under way takes its next step
(`WF_vars(Step)`) and that a node
that is down is started again (`WF_vars(Restart)`: by its operator).  Nothing
is assumed about calls being made or writes succeeding.
For `TrieSync`, `FairSpec` assumes that the message thread comes to every peer
again and again, as ThreadMessageHandler does (`Stalled`, `Request`,
`NothingToAsk`), and that a peer that runs this program answers a request, be it by
a refusal.  Nothing is assumed about faulty peers or about connections being closed;
`Syncs` presupposes that no other peers keep coming and going and that none of the
connected ones is about to be dropped.

Each property has a variant of a definition (list "mutants" in
`PROJECT.json`) that a plausible mistake in the code would produce and that
makes TLC report the property violated.

## 5. Proofs

`TrieViewProofs` proves for every set of accounts, every finite or infinite
block tree, every content of the blocks and every claimed account root:

| Theorem | Establishes |
|---|---|
| `TypeCorrect` | `Spec => []TypeOK`; in particular no balance and no remaining limit becomes negative |
| `CallsKeepTheirShape` | `Spec => []CallShape` |
| `LedgerAlways` | `Spec => []LedgerInv` |
| `LedgerCorrect` | `Spec => []LedgerMatchesBest` |
| `SnapshotsCorrect` | `Spec => []SnapshotCoherent` |
| `UndoDataCorrect` | `Spec => []UndoTakesBack` |

Assumptions, stated in `TrieView` and evaluated by TLC on each instance:
`ConstantsAssumption` (the special values differ from the ordinary ones),
`BlocksAssumption` (types) and `TreeAssumption` (`Parent` is a tree with
heights that grow, `Ancestors` its order).  No assumption relates a block's
transactions to its account root: a block may claim any root.

The argument.  `LedgerMatchesBest` only speaks about the moments between
calls, so it is not inductive.  `CallShape` first says where a walking call is:
the sets `oldSet` and `newSet` are the difference of two ancestor sets, so that
the highest block to undo, or the parent of the lowest block to apply, is the
block whose ledger the trie holds (`LedgerAt`).  `LedgerInv` then says what the
trie holds *inside* a call:

* while undoing, the remaining undo records take the trie to the ledger of the
  parent (`TakesBack`);
* while applying, the records collected know the state before the block: the
  *first* record of an account has it (`Recorded`);
* reversing the list turns "first" into "last", i.e. `Recorded` into
  `TakesBack` (lemma on `Reverse`); this is the step that fails for a refused
  operation with a repeated account, and only then;
* a block is accepted only if the trie equals its account root, so the undo
  data written then fits its block for ever;
* a rename moves a file that was written from the ledger of `bestBlock`.

### The refinement (`TrieViewRefinesProofs`)

`LedgerImplemented`: `Spec => ImplementsLedger`.  The invariants above say what
the trie holds at each step; the proof shows action by action which move of
`LedgerSpec` it is.  Only a few steps are visible: the end of the undoing of a
block is `Disconnect`, `Accept` is `Connect`, `ForceTrie` `Install`, the steps of
Flush `StartSave` and `EndSave`; every other step of a call leaves `Place` and
the accounts seen there alone.  An unwinding fault is the step to `broken`.

### Unwinding and visits (`TrieViewUnwindProofs`)

| Theorem | Hypotheses | Establishes |
|---|---|---|
| `UnwindAlways` | | `[]UnwindInv` |
| `NoAborts` | `AccountsLeft` | `[]NeverAborts` |
| `VisitsAlwaysReturn` | `DiskMayFail = FALSE`, `AccountsLeft`, `WayIsSound` | `VisitsReturn` |
| `LimitsAlwaysKept` | | `[]LimitsKept` |
| `PaymentsAlwaysWithinLimit` | | `[]PaymentsWithinLimit` |

`LedgerInv` says to which ledger the records lead, not that Unapply finds an
account where it asserts one.  `Collects` says it for the list as TempApply
builds it, `Fits` for the list as Unapply walks it, and reversing turns one into
the other, as above.  `AccountsLeft` excludes a block after which no account is
left: `Hash()` of an empty trie is a null pointer, and nothing in TempApply
excludes it.  For visits, `VisitInv` keeps that what has been applied on the way
out has undo data for the way back.  `WayIsSound` excludes blocks on the way that
cannot be read or break a rule, because Activate then stops half way (the second
unwinding fault).  TLC finds `AccountsLeft` and `WayIsSound` to be invariants of the
instance of `trieview_reorg`, in which visits cross the fork.

`PaymentsWithinLimit` adds up the payments of an account, and TempApply does not:
it keeps what is left of the limit.  `LimitsKept` relates the two: for an account
that has paid, the payments so far and what is left make up the limit before the
block; an account that has neither paid nor changed its limit still has that
limit and is still there.  Why a limit change, the maturing of a pending limit, or
the removal of an account and its return without a limit cannot open a second
budget is the case analysis over `LimitSwitched` and `Room`.  When an account
matures (`Matured`) plays no part: the theorem holds for any `MIN_LIMIT_TIME`.

### `ChainStateProofs`

For every finite tree of blocks, whatever they contain and whichever of them are
refused or lost, from `ChainAssumption`:

| Theorem | Establishes |
|---|---|
| `IndexInvAlways` | `[]IndexInv` |
| `TypeCorrect` | `[]TypeOK`: both tips, the candidates and the blocks of the ledger stay in the index |
| `SnapshotAlwaysIndexed` | `[]SnapshotIndexed` |
| `UndoDataAlwaysThere` | Activate's early return for missing undo data is never taken |
| `SearchNeverTestsBetween` | `[]OnlyTipIsTested`: when ActivateBestHeader tests a candidate, the candidate is the tip itself |
| `LoopsAlwaysEnd` | `[]NeverHangs`, if always `StoredInOrder` and `NothingLost` |

`SnapshotIndexed` is about the disk only and not inductive: the index in memory
decides what is written.  `IndexInv` adds that both agree on which blocks were
applied (`AppliedAgree`), that these are closed under parents and stored, that
the ledger, wherever a walk is, stands at one of them (`LedgerApplied`), and that
a walk never undoes a block of the connected chain (`WalkShape`).  The delicate
actions are `Restart`, which rebuilds the index in any order and may choose
another header chain, and `StoreBlock`, which resets the undo position of a block
unless it was applied.

`SearchNeverTestsBetween` rests on `SearchInv`: every block that has not failed is a
candidate, so the best candidate has at least the place of the tip in the order,
and the comparison at `main.cpp:1798` leaves the loop with it unless it is the tip.
The loop at line 1803, which the comment there says searches "between the candidate
new best and the currently-accepted best", therefore never has a block to look at.

`LoopsAlwaysEnd` needs that the connected chain is stored.  `StoredInv` says so, and
that the index on disk and the sync point agree, so that a start finds it stored
again.  Without `StoredInOrder` an accelerated start moves the connected chain above
missing blocks (`main.cpp:2903`); without `NothingLost` the tip cannot be read when
it is to be disconnected (`main.cpp:1639`).  Section 4 has the instance for each.

### `ChainBlameProofs`

These properties fail in situations section 4 lists.  The theorems have the
absence of those situations as hypotheses, stated for every reachable state, in
`ChainStateInv`.

| Theorem | Hypotheses | Establishes |
|---|---|---|
| `AppliesAlwaysToParent` | `ForkHolds`, `CleanRefusal` | `[]AppliesToParent` |
| `SoundBlocksApply` | `BadLedger = {}`, `Fragile = {}`, `WalkStored` | `[]AppliesToParent` |
| `ValidNeverFails` | `ForkHolds`, `CleanRefusal`, `WalkStored`, `TxIndexFresh` | `[]NeverFailsValid` |
| `FailedStaysFailed` | `DiskClosed` | `FailedForGood` |
| `HeadersNeverFailed` | `NoForkAboveRefused` | `[]HeadersNotFailed` |
| `RestsOnBest` | `NothingRefused`, `StoredInOrder`, `NothingLost`, `ForkHolds`, `CleanRefusal`, `TxIndexFresh` | `[]BestAtRest` |
| `SoundBlocksRest` | `NothingRefused`, `BadLedger = {}`, `Fragile = {}`, `StoredInOrder`, `TxIndexFresh` | `[](NeverFailsValid /\ NeverHangs /\ BestAtRest)` |

* `ForkHolds`: when blocks have been undone, the first block to apply is not
  refused (otherwise `m_bestBlock` is wrong, `trieview.cpp:384`).
* `CleanRefusal`: no block is refused in the middle after it used an account twice
  (otherwise the ledger is torn, `trieview.cpp:516` and `597`).  The ledger may still
  refuse blocks: by their account root, which is the usual case, by an operation before
  any repeated account, and because they cannot be read.
* `WalkStored`: the connected chain was stored where it has to be applied (an
  accelerated start may skip this, `main.cpp:2903`).
* `TxIndexFresh`: no transaction of another branch in the index when a block is
  connected (a start may leave some, `main.cpp:1394`).
* `DiskClosed`: the index on disk has a block only with the blocks below it (when
  DisconnectTip fails in ActivateBestHeader, the header that called for it stays in
  memory unwritten, and a block above it may be written).
* `NoForkAboveRefused`: a block that is refused has no known blocks above it off the
  header chain (InvalidBlockFound marks only those on it, `main.cpp:1183`).
* `NothingRefused`, on the constants: no bad signature and no repeated transaction,
  so that ConnectBlock refuses nothing (after a refusal only the headers are
  reorganised, `main.cpp:1203`).  The ledger may still refuse blocks.
* `StoredInOrder`, `NothingLost`: as for `LoopsAlwaysEnd`.

They are real restrictions and can be met.  TLC finds `ForkHolds`, `CleanRefusal`,
`WalkStored`, `TxIndexFresh` and `DiskClosed` to be invariants of the instances of
`chain_reorg` and of `chain_sync`.  `ForkHolds` is violated in the instances of
`ChainHalfWay.cfg` and `chain_refused`, `CleanRefusal` in those of `ChainTorn.cfg` and
`chain_refused`, `TxIndexFresh` in the one of `ChainTxIndex.cfg`, and `DiskClosed` where
a chain of two blocks with an unreadable tip is to be left for a branch whose
best block gets a child.  The instance of `chain_sync`, with
restarts, sync points and a block the ledger refuses, meets every hypothesis of
`RestsOnBest` and `NoForkAboveRefused`; the one of `chain_refused`, in which blocks
fail in the middle of chains, meets `NoForkAboveRefused` and `DiskClosed`.  The
invariants are `WalkPath`
(the sets of the walk lead from the block whose accounts the ledger holds to the
tip), `FailedBlamed` (in memory and on disk every failed block has a faulty or
lost one below it) and `FailedRooted`.

`FailedForGood` is about a single step, and the step that matters is `Restart`: it
replaces the marks in memory by those it derives from the disk.  `FailedRooted` says
that this loses none: every failed block stands on one whose mark is written, and a
written mark is in memory too.  InvalidBlockFound writes the lowest block it marks,
and the marks of a start stand on a written one by definition.

`HeadersNotFailed` becomes inductive as `FailedClosed`: what stands on a failed block
has failed.  InvalidBlockFound keeps it for the branch it marks, AcceptBlockHeader by
refusing new blocks above it, and a start by marking again what stands on the one
failed block that was written.

`BestAtRest` speaks about the end of a handler.  `RestInv` follows the handler there:
after ActivateBestHeader the header chain has most work, the connected chain then
reaches it or stops at a missing block, and the ledger follows the connected chain
or a refusal starts another round.  A header that arrives without its block leaves
the connected chain behind, and is itself the missing block.  That the chain reached
is valid is `AppliedSound`: what was applied, the ledger has not refused.

### `TrieSyncProofs`

For any number of keys and peers and any slice sizes, from `SizesAssumption`:
`TypeCorrect`, `RequestsAlwaysOwned` (`RequestsOwned`), `GapsAlwaysAsked`
(`NoGapLeft`) and `ReadyAlwaysCovered` (`ReadyMeansCovered`).  The last two need
`WellCut`: ReadyToBuild starts at key 0 without testing that a slice has it, and
GetSlice cannot ask for a single key, so they would be wrong if a
slice began at key 1, ended at the last key but one, or had a single key.  `WellCut`
says that none does; it holds because of the way GetSlice halves the gap it
finds, which is the arithmetic part of the proof.

`AbortsOnlyOverMixed` (`AbortsOnlyMixed`) is about `Build`, a loop over the slices in an
unknown order.  By induction over its rounds, slices of one block leave the accounts
of that block for the keys seen so far, whatever was there before; ReadyToBuild has
made sure that all keys are seen, so the hash is the one of the block's header.

### `MempoolProofs`

For any transactions, from `TxAssumption`: `IndexAlwaysExact` (`IndexExact`),
`LimitsNeverOvercounted` (`LimitsNotOvercounted`) and `NeverTwice`
(`NothingTwice`), from `PoolInv`, their conjunction with the types.  The lemmas
say what addUnchecked and remove do to the indexes, remove also for transactions
that are not in the pool; the counting is by the cardinality theorems.

`TypeCorrect` says that no balance, limit or count goes below zero at the tip, in
the blocks below it and in the pool.  `PoolAlwaysAffordable` (`PoolAffordable`) is about the sum
of what waits: it is what `validate` leaves and what AcceptToMemoryPool adds one
transaction to, and while a reorganisation is under way the sum is compared with
accounts that are no longer those of the tip, so that `Settle` has to restore it.
`TemplateAlwaysAccepted` (`TemplateAccepted`): the miner weighs only transactions that an
account can pay together (`PayableBounded`), and by induction over the rounds of
TempApply what it has left of a balance and a limit covers the payments of the block
still to come (`Kept`), in any order and whatever deposits fall in between.

### `Induction`

`Climb`: what holds at 0 and goes from each number to the next holds up to `n`, for a
*set* of numbers.  The library's induction theorems are about a predicate, which
cannot be instantiated here; the set form follows from the least element of a
nonempty set of naturals.  Sums and loops are therefore recursive functions over the
number of rounds, and the set is that of the rounds after which the loop's
invariant holds.

### Only model-checked

* Liveness under fairness: `AlwaysServes`, `Settles`, `Syncs`, `SilentDropped`.
* `TrieEngine`: its operators are recursive.
* `NeverBlamesValid`: it compares the ledger with accounts worked out by hand for
  the blocks of an instance; there is no such statement for every block tree.

`AppliesToParent`, `NeverFailsValid`, `NeverHangs`, `HeadersNotFailed` and `BestAtRest`
are proved under the hypotheses named above only, since they fail without them;
`FailedForGood` under `DiskClosed`, without which no violation is known.

## 6. Not modelled

* Loss of power, as opposed to death of the process: undo data and index
  entries are treated as written when the call returns, although the code syncs
  them later.
* The bytes of serialised nodes, and the rejection of malformed ones.
* The archive name a rejected `trie.dat` gets.
* `Balance()` and the other read-only queries; `Limit()` is in `Mempool`.
* A sync point such as `s` is many blocks above the genesis block in reality;
  the headers in between are left out.
* In `ChainState`: CheckBlock, proof of work, timestamps and checkpoints (a
  block of the model has passed them), the genesis block sent by a peer,
  ActivateTrie (it is in `TrieSync`), `setHeightMissing` and the downloads it drives, fork warnings,
  wallet notifications, failing writes of LevelDB, and what torn accounts contain
  (`Torn` is one value; which blocks it fits is left open).  A start keeps index
  entries whose parent is not on disk unlinked in `mapBlockIndex` (LinkOrphans); the
  model drops them.  This happens only where `DiskClosed` fails.
* In `TrieSync`: the misbehaviour points a peer gets for `getslice`, bytes that
  do not decode, the test of Update that the block of a slice is on the header chain
  (`triesync.cpp:70`; branches of the model fork off above it), unreadable blocks, a GetIntervals over an empty list, a slice that arrives when
  the node is online already; the chain below is a line of heights.
* In `Mempool`: transactions with several inputs or outputs, priorities and
  fees beyond the order they give, a
  block refused by the ledger in the middle of one, and `clear` and
  `removeConflicts`, which only tests call.
* The scheduler: `serviceQueue` takes a task out of the queue and never calls it
  (`scheduler.cpp:68`; `scheduler.h:43` says "Call func at/after time t"), so that
  the periodic saving of addresses (`net.cpp:1785`) does not happen.  There is
  nothing a model would add.
* Pruning, the check queue, the block cache, the download of headers and blocks,
  wallet, address manager, RPC and front end: listed in `PROJECT.json` with the
  reason.
* Hazards outside the models: a crash between the index entry of the genesis
  block and the first flush (`main.cpp:3081`), after which no start seeds the
  ledger; a `trie.dat` kept with a deleted index (`main.cpp:2858`); a branch known
  before that grows past the sync point (`main.cpp:2186`); the null pointer of the
  fork warning's log line (`main.cpp:1114`).
