------------------------------ MODULE TrieView ------------------------------
(***************************************************************************)
(* The account ledger of a node (class TrieView).  The ledger holds, for   *)
(* the block m_bestBlock, one record per account; Activate moves it along  *)
(* the block tree by undoing and applying blocks, HashForBlock tries a     *)
(* candidate block, BalancesAt and GetSlice visit another block and come   *)
(* back, Flush writes the ledger to trie.dat and the constructor reads it  *)
(* back after a restart.                                                   *)
(*                                                                         *)
(* The trie is the function from keys to account records it represents and *)
(* its Merkle hash is that function itself (no collisions).  Every public  *)
(* operation runs under cs_main, so there is one call at a time; a call is *)
(* split into its steps (one input or output of a transaction, one undo    *)
(* record, one write to disk) because the process may die between them.    *)
(***************************************************************************)
EXTENDS Integers, Sequences, SequencesExt

CONSTANTS
    Keys,           \* account identifiers (uint160)
    CoinBaseKey,    \* key 0, the account that pays the block rewards
    Blocks,         \* hashes of the blocks in mapBlockIndex
    NoBlock,        \* the zero hash
    Genesis,        \* the genesis block
    Parent,         \* pprev
    Height,         \* nHeight
    Ancestors,      \* a block with all the blocks below it
    Operations,     \* vtx: the checks, inputs and outputs in TempApply's order
    AccountRoot,    \* hashAccountRoot: the ledger the header commits to
    Templates,      \* candidate blocks handed to HashForBlock
    Unreadable,     \* blocks ReadBlockFromDisk cannot return
    DiskMayFail,    \* may reading or writing undo data or the block index fail?
    NoNode,         \* Find's answer for an absent key
    NoUndo,         \* a block without undo position
    NoFile,         \* no such file
    Damaged,        \* a file the constructor rejects
    MIN_BALANCE, MIN_LIMIT_TIME, MAX_MONEY, SUBSIDY, UINT64_MAX

VARIABLES
    root,       \* m_root: Keys -> account record or NoNode
    bestBlock,  \* m_bestBlock
    indexed,    \* is the genesis block in the block index on disk?
    undoData,   \* per block, the undo records on disk or NoUndo
    trieDat,    \* trie.dat
    trieTmp,    \* trie.dat.tmp
    pc,         \* where the running call is
    caller,     \* on whose behalf it runs
    target,     \* Activate's pindex
    oldHash,    \* the block BalancesAt and GetSlice come back to
    oldSet,     \* blocks still to be undone
    newSet,     \* blocks still to be applied
    badBlock,   \* Activate's out parameter
    cur,        \* the block TempApply works on
    undos,      \* undo records of cur, or the list Unapply walks
    next,       \* position of the running loop in cur.vtx or in undos
    limits,     \* TempApply: what is left of an account's limit
    setLimit,   \* TempApply: accounts whose limit a transaction set
    setTxIn,    \* TempApply: accounts a transaction spent from
    stray       \* history: an unwinding fault happened (see Return and
                \* ApplyOperation); no action of the code depends on it

disk == <<indexed, undoData, trieDat, trieTmp>>
temp == <<cur, limits, setLimit, setTxIn>>
loop == <<undos, next>>
path == <<target, oldHash, oldSet, newSet>>
vars == <<root, bestBlock, disk, pc, caller, path, badBlock, temp, loop, stray>>

-----------------------------------------------------------------------------
(* Values *)

Account == [balance : Nat, age : Nat, limit : Nat, futurelimit : Nat]
Trie == [Keys -> Account \cup {NoNode}]
EmptyTrie == [k \in Keys |-> NoNode]

Operation == [op : {"coinbase", "in", "out"}, key : Keys, value : Nat,
              fees : Nat, fSetLimit : BOOLEAN, nLimitValue : Nat]
CTxUndo == [key : Keys, create : BOOLEAN, destroy : BOOLEAN, acct : Account]
NoAccount == [balance |-> 0, age |-> 0, limit |-> 0, futurelimit |-> 0]

CBlock == [hash : Blocks \cup {NoBlock}, nHeight : Nat, vtx : Seq(Operation)]
Template == [hashPrevBlock : Blocks, vtx : Seq(Operation)]
IdleBlock == [hash |-> NoBlock, nHeight |-> 0, vtx |-> <<>>]
BlockOf(b) == [hash |-> b, nHeight |-> Height[b], vtx |-> Operations[b]]

Snapshot == [best : Blocks \cup {NoBlock}, trie : Trie]

ASSUME ConstantsAssumption ==
    /\ CoinBaseKey \in Keys
    /\ NoBlock \notin Blocks
    /\ Genesis \in Blocks
    /\ Unreadable \subseteq Blocks \ {Genesis}
    /\ DiskMayFail \in BOOLEAN
    /\ NoNode \notin Account
    /\ NoUndo \notin Seq(CTxUndo)
    /\ {NoFile, Damaged} \cap Snapshot = {}
    /\ MIN_BALANCE \in Nat /\ MIN_LIMIT_TIME \in Nat /\ SUBSIDY \in Nat
    /\ MAX_MONEY \in Nat \ {0} /\ UINT64_MAX \in Nat \ {0}

ASSUME BlocksAssumption ==
    /\ Parent \in [Blocks -> Blocks \cup {NoBlock}]
    /\ Height \in [Blocks -> Nat]
    /\ Operations \in [Blocks -> Seq(Operation)]
    /\ AccountRoot \in [Blocks -> Trie]
    /\ Templates \subseteq Template

\* The blocks form a tree below Genesis, and Ancestors is its reflexive order.
ASSUME TreeAssumption ==
    /\ Ancestors \in [Blocks -> SUBSET Blocks]
    /\ \A b \in Blocks :
         /\ b = Genesis <=> Parent[b] = NoBlock
         /\ Ancestors[b] = {b} \cup IF b = Genesis THEN {} ELSE Ancestors[Parent[b]]
         /\ b # Genesis => Height[Parent[b]] < Height[b]
         /\ \A a \in Ancestors[b] \ {b} : Height[a] < Height[b]
         /\ Genesis \in Ancestors[b]
         /\ \A a \in Ancestors[b] : Ancestors[a] \subseteq Ancestors[b]
         /\ \A a, c \in Ancestors[b] : a \in Ancestors[c] \/ c \in Ancestors[a]

\* The ledger a block commits to; the zero hash stands for the empty trie.
LedgerOf(b) == IF b = NoBlock THEN EmptyTrie ELSE AccountRoot[b]

\* A 64 bit unsigned sum or difference of two 64 bit values.
Wrap(x) == IF x > UINT64_MAX THEN x - (UINT64_MAX + 1)
           ELSE IF x < 0 THEN x + (UINT64_MAX + 1) ELSE x

GetBlockValue(coinbase, nFees) == (coinbase * SUBSIDY) \div MAX_MONEY + nFees

-----------------------------------------------------------------------------
(* TempApply: one operation of a block against the ledger *)

\* The pending limit of an account takes effect MIN_LIMIT_TIME blocks after
\* the account last moved.
Matured(a) == Wrap(cur.nHeight - a.age) > MIN_LIMIT_TIME

CoinBasePaysTooMuch(o) ==
    LET coinb == IF root[CoinBaseKey] = NoNode THEN 0
                 ELSE root[CoinBaseKey].balance
    IN o.value > GetBlockValue(coinb, o.fees)

\* What an account may still pay in this block.
Room(k) == IF k \in setTxIn THEN limits[k] ELSE root[k].limit

\* Variant: the limit is not checked.
PastLimitNever(o) == FALSE

\* The fee of a limit change may surpass the limit, "to prevent stuck accounts".
PastLimit(o) == ~o.fSetLimit /\ o.value > Room(o.key)

\* Variant: a payment may follow a limit change in the same block.
LimitSwitchedEarlier(o) ==
    LET a == root[o.key]
    IN \/ o.fSetLimit /\ o.nLimitValue < a.limit /\ o.key \in setTxIn
       \/ Matured(a) /\ a.futurelimit # a.limit /\ o.key \in setTxIn

\* "Limit switch and transaction in same block"
LimitSwitched(o) ==
    LET a == root[o.key]
    IN \/ ~o.fSetLimit /\ o.key \in setLimit
       \/ o.fSetLimit /\ o.nLimitValue < a.limit /\ o.key \in setTxIn
       \/ Matured(a) /\ a.futurelimit # a.limit /\ o.key \in setTxIn

InputRejected(o) ==
    \/ root[o.key] = NoNode
    \/ PastLimit(o)
    \/ o.value > root[o.key].balance
    \/ LimitSwitched(o)

Rejected(o) == \/ o.op = "coinbase" /\ CoinBasePaysTooMuch(o)
               \/ o.op = "in" /\ InputRejected(o)

\* Variant: a lower limit has to mature too.
SpentLimitLater(a, o) ==
    [balance |-> a.balance - o.value,
     age |-> cur.nHeight,
     limit |-> IF Matured(a) THEN a.futurelimit ELSE a.limit,
     futurelimit |-> IF o.fSetLimit THEN o.nLimitValue ELSE a.futurelimit]

\* The account after the input; a lower limit counts at once, a higher one
\* only once it has matured.
Spent(a, o) ==
    LET reached == IF Matured(a) THEN a.futurelimit ELSE a.limit
        future == IF o.fSetLimit THEN o.nLimitValue ELSE a.futurelimit
    IN [balance |-> a.balance - o.value,
        age |-> cur.nHeight,
        limit |-> IF o.fSetLimit /\ future < reached THEN future ELSE reached,
        futurelimit |-> future]

Input(o) ==
    LET a == root[o.key]
        destroy == a.balance - o.value < MIN_BALANCE
    IN /\ root' = [root EXCEPT ![o.key] = IF destroy THEN NoNode ELSE Spent(a, o)]
       /\ undos' = Append(undos, [key |-> o.key, create |-> FALSE,
                                  destroy |-> destroy, acct |-> a])
       /\ IF o.fSetLimit
          THEN /\ setLimit' = setLimit \cup {o.key}
               /\ UNCHANGED <<limits, setTxIn>>
          ELSE /\ setTxIn' = setTxIn \cup {o.key}
               /\ limits' = [limits EXCEPT ![o.key] = Room(o.key) - o.value]
               /\ UNCHANGED setLimit

\* A deposit does not touch the age of an account; a new account has no limit.
Output(o) ==
    LET a == root[o.key]
        create == a = NoNode
        created == [balance |-> o.value, age |-> cur.nHeight,
                    limit |-> UINT64_MAX, futurelimit |-> UINT64_MAX]
        raised == [balance |-> Wrap(a.balance + o.value), age |-> a.age,
                   limit |-> a.limit, futurelimit |-> a.futurelimit]
    IN /\ root' = [root EXCEPT ![o.key] = IF create THEN created ELSE raised]
       /\ undos' = Append(undos, [key |-> o.key, create |-> create, destroy |-> FALSE,
                                  acct |-> IF create THEN NoAccount ELSE a])
       /\ UNCHANGED <<limits, setLimit, setTxIn>>

-----------------------------------------------------------------------------
(* Paths in the block tree *)

Highest(S) == CHOOSE b \in S : \A c \in S : Height[c] <= Height[b]
Lowest(S) == CHOOSE b \in S : \A c \in S : Height[b] <= Height[c]

\* The block whose ledger the trie holds while Activate is under way.
Position(old, new, to) == IF old # {} THEN Highest(old)
                          ELSE IF new # {} THEN Parent[Lowest(new)] ELSE to
LedgerAt == Position(oldSet, newSet, target)

\* Variant: the common part stays among the blocks to apply.
SetPathWhole(from, to) ==
    /\ target' = to
    /\ oldSet' = Ancestors[from] \ Ancestors[to]
    /\ newSet' = Ancestors[to]
    /\ pc' = "undo"

\* getSet2 and the two loops that erase the common part: what is to be undone
\* and what is to be applied.
SetPath(from, to) ==
    /\ target' = to
    /\ oldSet' = Ancestors[from] \ Ancestors[to]
    /\ newSet' = Ancestors[to] \ Ancestors[from]
    /\ pc' = "undo"

NoPath == /\ target' = NoBlock
          /\ oldSet' = {}
          /\ newSet' = {}

-----------------------------------------------------------------------------
(* Starting a call *)

\* TempApply's locals at the start of a block.
StartTempApply(block) ==
    /\ pc' = "temp"
    /\ cur' = block
    /\ next' = 1
    /\ undos' = <<>>
    /\ limits' = [k \in Keys |-> 0]
    /\ setLimit' = {}
    /\ setTxIn' = {}

\* TempApply's locals and the undo list go out of scope.
ForgetTemp == /\ cur' = IdleBlock
              /\ next' = 1
              /\ undos' = <<>>
              /\ limits' = [k \in Keys |-> 0]
              /\ setLimit' = {}
              /\ setTxIn' = {}

\* Activate from ActivateBestChainStep.  A best block that is not in
\* mapBlockIndex is refused and reported as the bad block.
Activate(b) ==
    /\ pc = "idle"
    /\ IF bestBlock \in Blocks
       THEN /\ SetPath(bestBlock, b)
            /\ caller' = "chain"
            /\ badBlock' = NoBlock
       ELSE /\ badBlock' = bestBlock
            /\ UNCHANGED <<pc, caller, target, oldSet, newSet>>
    /\ UNCHANGED <<root, bestBlock, disk, oldHash, temp, loop, stray>>

\* BalancesAt and GetSlice: activate b, read, activate the old best block.
Visit(b) ==
    /\ pc = "idle"
    /\ bestBlock \in Blocks
    /\ SetPath(bestBlock, b)
    /\ caller' = "visit"
    /\ oldHash' = bestBlock
    /\ UNCHANGED <<root, bestBlock, disk, badBlock, temp, loop, stray>>

\* HashForBlock refuses a block that does not extend the best block.
HashForBlock(t) ==
    /\ pc = "idle"
    /\ bestBlock = t.hashPrevBlock
    /\ StartTempApply([hash |-> NoBlock, nHeight |-> Height[bestBlock] + 1,
                       vtx |-> t.vtx])
    /\ caller' = "hash"
    /\ UNCHANGED <<root, bestBlock, disk, path, badBlock, stray>>

\* InitBlockIndex, in a data directory without genesis block: the block is
\* entered into the index, then applied to a ledger without best block.
ApplyGenesis ==
    /\ pc = "idle"
    /\ ~indexed
    /\ bestBlock = NoBlock
    /\ indexed' = TRUE
    /\ StartTempApply(BlockOf(Genesis))
    /\ caller' = "init"
    /\ UNCHANGED <<root, bestBlock, undoData, trieDat, trieTmp, path, badBlock, stray>>

\* ActivateTrie forces the trie it downloaded, whose hash is the block's.
ForceTrie(b) ==
    /\ pc = "idle"
    /\ root' = AccountRoot[b]
    /\ bestBlock' = b
    /\ pc' = "flush"
    /\ UNCHANGED <<disk, caller, path, badBlock, temp, loop, stray>>

\* Flush from Shutdown or from a caller that found the trie at the tip.
StartFlush ==
    /\ pc = "idle"
    /\ root # EmptyTrie
    /\ pc' = "flush"
    /\ UNCHANGED <<root, bestBlock, disk, caller, path, badBlock, temp, loop, stray>>

-----------------------------------------------------------------------------
(* Returning from a call *)

\* Variant: BalancesAt and GetSlice do not come back.
ReturnThere(ok, best, strayed) ==
    /\ bestBlock' = best
    /\ stray' = (stray \/ strayed)
    /\ pc' = IF ok /\ caller \in {"chain", "init"} THEN "flush"
             ELSE IF ~ok /\ caller = "init" THEN "down" ELSE "idle"
    /\ caller' = IF ok /\ caller = "init" THEN "init" ELSE "none"
    /\ oldHash' = NoBlock
    /\ NoPath

\* Return(ok): Activate, Apply or HashForBlock hands its result to its caller.
\* ActivateBestChainStep and InitBlockIndex flush after a success; BalancesAt
\* and GetSlice come back to the old block after a success; a genesis block
\* that does not apply ends the start of the node.  strayed says that
\* the ledger is no longer the one of best.
Return(ok, best, strayed) ==
    /\ bestBlock' = best
    /\ stray' = (stray \/ strayed)
    /\ IF ok /\ caller = "visit"
       THEN /\ SetPath(best, oldHash)
            /\ caller' = "restore"
            /\ UNCHANGED oldHash
       ELSE /\ pc' = IF ok /\ caller \in {"chain", "init"} THEN "flush"
                     ELSE IF ~ok /\ caller = "init" THEN "down" ELSE "idle"
            /\ caller' = IF ok /\ caller = "init" THEN "init" ELSE "none"
            /\ oldHash' = NoBlock
            /\ NoPath

\* Only ActivateBestChainStep looks at the block Activate blames.
Blame(b) == badBlock' = IF caller = "chain" THEN b ELSE badBlock

-----------------------------------------------------------------------------
(* Activate: undo the old blocks from the top down *)

\* Undo data is read for the highest block left; without it the call gives up
\* where it is.
UndoBlock ==
    /\ pc = "undo"
    /\ oldSet # {}
    /\ LET b == Highest(oldSet)
       IN \/ /\ undoData[b] = NoUndo \/ DiskMayFail
             /\ Return(FALSE, bestBlock, b # bestBlock)
             /\ UNCHANGED loop
          \/ /\ undoData[b] # NoUndo
             /\ undos' = undoData[b]
             /\ next' = 1
             /\ pc' = "disconnect"
             /\ UNCHANGED <<bestBlock, caller, path, stray>>
    /\ UNCHANGED <<root, disk, badBlock, temp>>

\* m_bestBlock becomes the block that was just undone.
BlockUndone ==
    /\ pc = "disconnect"
    /\ next > Len(undos)
    /\ bestBlock' = Highest(oldSet)
    /\ oldSet' = oldSet \ {Highest(oldSet)}
    /\ pc' = "undo"
    /\ undos' = <<>>
    /\ next' = 1
    /\ UNCHANGED <<root, disk, caller, target, oldHash, newSet, badBlock, temp, stray>>

\* Then the new blocks are applied from the bottom up.
ApplyBlock ==
    /\ pc = "undo"
    /\ oldSet = {}
    /\ newSet # {}
    /\ LET b == Lowest(newSet)
       IN IF b \in Unreadable
          THEN /\ Return(FALSE, bestBlock, LedgerAt # bestBlock)
               /\ Blame(b)
               /\ UNCHANGED <<temp, loop>>
          ELSE /\ StartTempApply(BlockOf(b))
               /\ UNCHANGED <<bestBlock, caller, path, badBlock, stray>>
    /\ UNCHANGED <<root, disk>>

ActivateDone ==
    /\ pc = "undo"
    /\ oldSet = {}
    /\ newSet = {}
    /\ Return(TRUE, target, FALSE)
    /\ UNCHANGED <<root, disk, badBlock, temp, loop>>

-----------------------------------------------------------------------------
(* Apply and HashForBlock: run the operations, then judge the result *)

\* Two undo records of one account, so that their order matters.
Repeats(u) == \E i, j \in 1..Len(u) : i # j /\ u[i].key = u[j].key

\* An operation that is refused ends TempApply; its caller unwinds the records
\* collected so far in the order they were collected.
ApplyOperation ==
    /\ pc = "temp"
    /\ next <= Len(cur.vtx)
    /\ LET o == cur.vtx[next]
       IN IF Rejected(o)
          THEN /\ pc' = "reject"
               /\ next' = 1
               /\ stray' = (stray \/ Repeats(undos))
               /\ UNCHANGED <<root, undos, limits, setLimit, setTxIn>>
          ELSE /\ next' = next + 1
               /\ CASE o.op = "coinbase" -> UNCHANGED <<root, undos, limits, setLimit, setTxIn>>
                    [] o.op = "in" -> Input(o)
                    [] o.op = "out" -> Output(o)
               /\ UNCHANGED <<pc, stray>>
    /\ UNCHANGED <<bestBlock, disk, caller, path, badBlock, cur>>

\* Variant: undo records are kept in the order of the operations.
UndosInOrder(u) == u

\* The undo records of a block that went through, latest first.
UndosLatestFirst(u) == Reverse(u)

\* Variant: the account root of a block is not compared.
HashIgnored == TRUE

HashMatches == root = AccountRoot[cur.hash]

\* All operations went through: the list is reversed and the hash compared.
\* Hash is called through m_root, which is null when no account is left.
Complete ==
    /\ pc = "temp"
    /\ next > Len(cur.vtx)
    /\ undos' = UndosLatestFirst(undos)
    /\ next' = 1
    /\ pc' = IF root = EmptyTrie THEN "aborted"
             ELSE IF caller # "hash" /\ HashMatches THEN "accept"
             ELSE "reject"
    /\ UNCHANGED <<root, bestBlock, disk, caller, path, badBlock, temp, stray>>

\* Undo data is kept from the first time the block was applied.
Accept ==
    /\ pc = "accept"
    /\ LET b == cur.hash
       IN /\ undoData' = IF undoData[b] = NoUndo
                         THEN [undoData EXCEPT ![b] = undos] ELSE undoData
          /\ IF caller = "init"
             THEN Return(TRUE, b, FALSE)
             ELSE /\ bestBlock' = b
                  /\ newSet' = newSet \ {b}
                  /\ pc' = "undo"
                  /\ UNCHANGED <<caller, target, oldHash, oldSet, stray>>
    /\ ForgetTemp
    /\ UNCHANGED <<root, indexed, trieDat, trieTmp, badBlock>>

\* FindUndoPos, WriteToDisk or WriteBlockIndex fails for a block not applied
\* before: Apply returns without unwinding and without moving m_bestBlock.
AcceptFails ==
    /\ DiskMayFail
    /\ pc = "accept"
    /\ undoData[cur.hash] = NoUndo
    /\ undoData' \in {undoData, [undoData EXCEPT ![cur.hash] = undos]}
    /\ Blame(cur.hash)
    /\ Return(FALSE, bestBlock, TRUE)
    /\ ForgetTemp
    /\ UNCHANGED <<root, indexed, trieDat, trieTmp>>

\* Unapply is through with a block that was refused, or only tried.
RejectDone ==
    /\ pc = "reject"
    /\ next > Len(undos)
    /\ Return(FALSE, bestBlock, caller \in {"chain", "visit", "restore"}
                                /\ LedgerAt # bestBlock)
    /\ Blame(cur.hash)
    /\ ForgetTemp
    /\ UNCHANGED <<root, disk>>

\* Variant: only the balance of an account that is still there is set back.
PutBackBalance(u) ==
    IF u.create THEN NoNode
    ELSE IF root[u.key] = NoNode THEN u.acct ELSE [root[u.key] EXCEPT !.balance = u.acct.balance]

\* What Unapply leaves in the place of an account.
PutBack(u) == IF u.create THEN NoNode ELSE u.acct

\* Unapply, one record: the account is removed, inserted or set back.  Find
\* returns null for an account that is not there, which is skipped for a
\* created account and dereferenced for a changed one; Insert asserts that a
\* destroyed account is not there.
Unapply ==
    /\ pc \in {"disconnect", "reject"}
    /\ next <= Len(undos)
    /\ LET u == undos[next]
           present == root[u.key] # NoNode
       IN IF u.create \/ (u.destroy # present)
          THEN /\ root' = [root EXCEPT ![u.key] = PutBack(u)]
               /\ next' = next + 1
               /\ UNCHANGED pc
          ELSE /\ pc' = "aborted"
               /\ UNCHANGED <<root, next>>
    /\ UNCHANGED <<bestBlock, disk, caller, path, badBlock, temp, undos, stray>>

-----------------------------------------------------------------------------
(* Flush: write trie.dat.tmp, sync it, rename it over trie.dat *)

\* Only InitBlockIndex looks at the result: the node does not start without
\* a first trie.dat.
FlushOver(ok) == /\ pc' = IF ~ok /\ caller = "init" THEN "down" ELSE "idle"
                 /\ caller' = "none"

\* Serialising, allocating or opening the file may fail: nothing is written.
FlushFails ==
    /\ pc = "flush"
    /\ FlushOver(FALSE)
    /\ UNCHANGED <<root, bestBlock, disk, path, badBlock, temp, loop, stray>>

\* fopen truncates an old tmp file; the write may be cut short.
FlushWrite ==
    /\ pc = "flush"
    /\ \/ /\ trieTmp' = [best |-> bestBlock, trie |-> root]
          /\ pc' = "rename"
       \/ /\ trieTmp' = Damaged
          /\ pc' = "cleanup"
    /\ UNCHANGED <<root, bestBlock, indexed, undoData, trieDat, caller, path, badBlock, temp, loop,
                   stray>>

FlushRename ==
    /\ pc = "rename"
    /\ trieDat' = trieTmp
    /\ trieTmp' = NoFile
    /\ FlushOver(TRUE)
    /\ UNCHANGED <<root, bestBlock, indexed, undoData, path, badBlock, temp, loop, stray>>

\* The rename failed, or the write did; the tmp file is removed if possible.
FlushCleanup ==
    /\ pc \in {"rename", "cleanup"}
    /\ trieTmp' \in {trieTmp, NoFile}
    /\ FlushOver(FALSE)
    /\ UNCHANGED <<root, bestBlock, indexed, undoData, trieDat, path, badBlock, temp, loop, stray>>

-----------------------------------------------------------------------------
(* Death and restart *)

\* What the process held in memory is gone.
LoseMemory ==
    /\ caller' = "none"
    /\ oldHash' = NoBlock
    /\ NoPath
    /\ badBlock' = NoBlock
    /\ ForgetTemp

\* The process dies between any two steps.
Crash ==
    /\ pc \notin {"down", "aborted"}
    /\ pc' = "down"
    /\ root' = EmptyTrie
    /\ bestBlock' = NoBlock
    /\ LoseMemory
    /\ UNCHANGED <<disk, stray>>

\* The medium loses bytes of trie.dat while the node is down.
Rot ==
    /\ pc \in {"down", "aborted"}
    /\ trieDat # NoFile
    /\ trieDat' = Damaged
    /\ UNCHANGED <<root, bestBlock, indexed, undoData, trieTmp, pc, caller, path, badBlock, temp, loop,
                   stray>>

\* Variant: a file the constructor rejects keeps the node from starting.
RestartIfIntact ==
    /\ pc \in {"down", "aborted"}
    /\ trieDat # Damaged
    /\ trieTmp' \in {trieTmp, NoFile}
    /\ root' = IF trieDat = NoFile THEN EmptyTrie ELSE trieDat.trie
    /\ bestBlock' = IF trieDat = NoFile THEN NoBlock ELSE trieDat.best
    /\ pc' = "idle"
    /\ LoseMemory
    /\ UNCHANGED <<indexed, undoData, trieDat, stray>>

\* The constructor: drop a stale tmp file, read trie.dat; a file it rejects is
\* archived (if that is possible) and the ledger starts empty.
Restart ==
    /\ pc \in {"down", "aborted"}
    /\ trieTmp' \in {trieTmp, NoFile}
    /\ IF trieDat \in {NoFile, Damaged}
       THEN /\ trieDat' \in {trieDat, NoFile}
            /\ root' = EmptyTrie
            /\ bestBlock' = NoBlock
       ELSE /\ root' = trieDat.trie
            /\ bestBlock' = trieDat.best
            /\ UNCHANGED trieDat
    /\ pc' = "idle"
    /\ LoseMemory
    /\ UNCHANGED <<indexed, undoData, stray>>

-----------------------------------------------------------------------------
Init ==
    /\ root = EmptyTrie
    /\ bestBlock = NoBlock
    /\ indexed = FALSE
    /\ undoData = [b \in Blocks |-> NoUndo]
    /\ trieDat = NoFile
    /\ trieTmp = NoFile
    /\ pc = "idle"
    /\ caller = "none"
    /\ target = NoBlock
    /\ oldHash = NoBlock
    /\ oldSet = {}
    /\ newSet = {}
    /\ badBlock = NoBlock
    /\ cur = IdleBlock
    /\ undos = <<>>
    /\ next = 1
    /\ limits = [k \in Keys |-> 0]
    /\ setLimit = {}
    /\ setTxIn = {}
    /\ stray = FALSE

\* The steps of a call that is under way.
Step ==
    \/ UndoBlock \/ BlockUndone \/ ApplyBlock \/ ActivateDone
    \/ ApplyOperation \/ Complete \/ Accept \/ AcceptFails \/ RejectDone \/ Unapply
    \/ FlushFails \/ FlushWrite \/ FlushRename \/ FlushCleanup

Next ==
    \/ \E b \in Blocks : Activate(b) \/ Visit(b) \/ ForceTrie(b)
    \/ \E t \in Templates : HashForBlock(t)
    \/ ApplyGenesis
    \/ StartFlush
    \/ Step
    \/ Crash \/ Rot \/ Restart

Spec == Init /\ [][Next]_vars

\* A call runs to its end unless the process dies; the node is started again.
FairSpec == Spec /\ WF_vars(Step) /\ WF_vars(Restart)

-----------------------------------------------------------------------------
(* Properties *)

Busy == {"undo", "disconnect", "temp", "accept", "reject"}
Quiet == {"idle", "flush", "rename", "cleanup"}

TypeOK ==
    /\ root \in Trie
    /\ bestBlock \in Blocks \cup {NoBlock}
    /\ indexed \in BOOLEAN
    /\ undoData \in [Blocks -> Seq(CTxUndo) \cup {NoUndo}]
    /\ trieDat \in Snapshot \cup {NoFile, Damaged}
    /\ trieTmp \in Snapshot \cup {NoFile, Damaged}
    /\ pc \in Busy \cup Quiet \cup {"down", "aborted"}
    /\ caller \in {"none", "chain", "visit", "restore", "hash", "init"}
    /\ target \in Blocks \cup {NoBlock}
    /\ oldHash \in Blocks \cup {NoBlock}
    /\ oldSet \subseteq Blocks
    /\ newSet \subseteq Blocks
    /\ badBlock \in Blocks \cup {NoBlock}
    /\ cur \in CBlock
    /\ undos \in Seq(CTxUndo)
    /\ next \in Nat \ {0}
    /\ limits \in [Keys -> Nat]
    /\ setLimit \subseteq Keys
    /\ setTxIn \subseteq Keys
    /\ stray \in BOOLEAN

\* Between calls the ledger is the one the header of m_bestBlock commits to,
\* whatever was activated, visited, tried, refused or lost in a crash before,
\* as long as none of the three unwinding faults marked by stray happened.
LedgerMatchesBest == pc \in Quiet /\ ~stray => root = LedgerOf(bestBlock)

\* HashForBlock and Apply put the ledger back before they return false (the
\* comment of Apply: "This code will detect and unwind an invalid tx set").
InvalidSetUnwound ==
    [][pc = "reject" /\ caller = "hash" /\ pc' = "idle"
         => root' = LedgerOf(bestBlock)]_vars

\* trie.dat never pairs a best block with the ledger of another block,
\* wherever the process died while Flush was writing.
SnapshotCoherent ==
    trieDat \in Snapshot /\ ~stray => trieDat.trie = LedgerOf(trieDat.best)

\* TakesBack(u, n, after, before): the records of u from position n on turn the
\* ledger after into the ledger before.
Restored(r) == IF r.create THEN NoNode ELSE r.acct
TakesBack(u, n, after, before) ==
    /\ \A k \in Keys : (\A i \in n..Len(u) : u[i].key # k) => after[k] = before[k]
    /\ \A i \in n..Len(u) : (\A j \in n..Len(u) : j > i => u[j].key # u[i].key)
                            => Restored(u[i]) = before[u[i].key]

\* Undo data on disk takes the ledger of its block back to the ledger of the
\* parent: the last record of an account restores what the parent had, and an
\* account without record is the same in both.
UndoTakesBack ==
    ~stray => \A b \in Blocks : undoData[b] # NoUndo =>
                 TakesBack(undoData[b], 1, AccountRoot[b], LedgerOf(Parent[b]))

\* Unapply never runs into a missing or a present account it did not expect,
\* and Hash is never asked of a trie without accounts.
NeverAborts == ~stray => pc # "aborted"

\* Every call ends (or the node dies and is started again), so the node is
\* able to serve the next call again and again.
AlwaysServes == []<>(pc = "idle")
=============================================================================
