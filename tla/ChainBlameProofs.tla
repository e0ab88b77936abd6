-------------------------- MODULE ChainBlameProofs --------------------------
(***************************************************************************)
(* What ChainState keeps as long as a reorganisation or a start does not   *)
(* meet the situations that ChainStateInv names: the ledger follows the    *)
(* connected chain block by block, only blocks that break a rule or were   *)
(* lost are marked as failed, what stands on a failed block has failed,    *)
(* what has failed stays failed, and a handler that ends leaves the node   *)
(* on the chain of most work.                                              *)
(***************************************************************************)
EXTENDS ChainStateProofs

-----------------------------------------------------------------------------
(* The ledger follows the chain *)

\* The state of WalkPath.
pathVars == <<pc, oldSet, newSet, trieBest, ledger, active, diskTrie>>

LEMMA PathInit == Init => WalkPath
  BY ChainAssumption DEF Init, WalkPath

LEMMA PathSame == WalkPath /\ UNCHANGED pathVars => WalkPath'
  BY DEF WalkPath, pathVars

\* Outside the walk only a start changes the ledger.
LEMMA PathIdle ==
    ASSUME WalkPath, pc # "walk", pc' # "walk", UNCHANGED <<trieBest, ledger, diskTrie>>
    PROVE  WalkPath'
  BY DEF WalkPath

LEMMA WalkTips ==
    ASSUME IndexInv, WalkPath
    PROVE  /\ active \in Blocks /\ ledger \in Blocks
           /\ Ancestors[active] \subseteq Blocks /\ Ancestors[ledger] \subseteq Blocks
           /\ active \in Ancestors[active] /\ ledger \in Ancestors[ledger]
<1>1. active \in Blocks /\ ledger \in Blocks
  BY DEF IndexInv, TypeOK, Known, WalkPath
<1> QED
  BY <1>1, AncestorFacts

\* The lowest block of the path above the fork is the child of the block the ledger
\* stands at.
LEMMA PathApplies == IndexInv /\ WalkPath => AppliesToParent
<1> SUFFICES ASSUME IndexInv, WalkPath, pc = "walk", oldSet = {}, newSet # {}
             PROVE  ledger = Parent[Lowest(newSet)]
  BY DEF AppliesToParent
<1>1. /\ active \in Blocks /\ ledger \in Blocks
      /\ Ancestors[active] \subseteq Blocks /\ ledger \in Ancestors[ledger]
  BY WalkTips
<1>2. Ancestors[ledger] \subseteq Ancestors[active] /\ newSet = Ancestors[active] \ Ancestors[ledger]
  BY DEF WalkPath
<1>3. ledger \in Ancestors[active] /\ newSet \in SUBSET Blocks
  BY <1>1, <1>2
<1> DEFINE b == Lowest(newSet)
<1>4. b \in newSet /\ \A c \in newSet : Height[b] <= Height[c]
  BY <1>3, LowestExists
<1> HIDE DEF b
<1>5. b \in Ancestors[active] /\ b \notin Ancestors[ledger] /\ b \in Blocks /\ b # Genesis
  BY <1>1, <1>2, <1>4, AncestorFacts
<1>6. /\ Parent[b] \in Blocks /\ Height[b] = Height[Parent[b]] + 1
      /\ Height[b] \in Nat /\ Height[Parent[b]] \in Nat
      /\ Parent[b] \in Ancestors[b]
  BY <1>5, ParentBelow, AncestorFacts
<1>7. Parent[b] \in Ancestors[active]
  BY <1>1, <1>5, <1>6, AncestorFacts
<1>8. Parent[b] \notin newSet
  BY <1>4, <1>6
<1>9. Parent[b] \in Ancestors[ledger]
  BY <1>2, <1>7, <1>8
<1>10. Height[ledger] \in Nat
  BY <1>1, ChainAssumption
<1>11. ~(Height[b] <= Height[ledger])
  BY <1>1, <1>3, <1>5, ChainLinear
<1>12. CASE Parent[b] # ledger
  <2>1. Height[Parent[b]] < Height[ledger]
    BY <1>1, <1>9, <1>12, AncestorFacts
  <2> QED
    BY <1>6, <1>10, <1>11, <2>1
<1> QED
  BY <1>12 DEF b

LEMMA PathActivate == IndexInv /\ WalkPath /\ ActivateLedger => WalkPath'
<1> SUFFICES ASSUME IndexInv, WalkPath, ActivateLedger PROVE WalkPath'
  OBVIOUS
<1>1. trieBest \in Known
  BY DEF IndexInv, TypeOK
<1> QED
  BY <1>1 DEF ActivateLedger, GoOn, WalkPath, trie, files

\* The highest block to be undone is the one the ledger stands at.
LEMMA PathUndo == IndexInv /\ WalkPath /\ UndoBlock => WalkPath'
<1> SUFFICES ASSUME IndexInv, WalkPath, UndoBlock PROVE WalkPath'
  OBVIOUS
<1>1. /\ active \in Blocks /\ ledger \in Blocks
      /\ Ancestors[active] \subseteq Blocks /\ Ancestors[ledger] \subseteq Blocks
      /\ ledger \in Ancestors[ledger]
  BY WalkTips
<1>2. /\ pc = "walk" /\ oldSet = Ancestors[ledger] \ Ancestors[active] /\ oldSet # {}
      /\ newSet = Ancestors[active] \ Ancestors[ledger] /\ oldSet \in SUBSET Blocks
  BY <1>1 DEF UndoBlock, WalkPath
<1>3. ledger \in oldSet
  BY <1>1, <1>2, AncestorFacts
<1> DEFINE b == Highest(oldSet)
<1>4. b \in oldSet /\ Height[ledger] <= Height[b]
  BY <1>2, <1>3, HighestExists
<1>5. index[b].applied
  <2>1. IndexPart /\ WalkPart
    BY Parts
  <2>2. b \in AppliedOnDisk
    BY <1>2, <1>4, <2>1 DEF WalkPart, WalkShape
  <2> QED
    BY <2>1, <2>2 DEF IndexPart, AppliedAgree, AppliedOnDisk
<1>6. /\ ledger' \in Unapply(b) /\ oldSet' = oldSet \ {b}
      /\ UNCHANGED <<newSet, pc, active, diskTrie>>
  BY <1>5 DEF UndoBlock, control, files
<1> HIDE DEF b
<1>7. b = ledger
  <2> SUFFICES ASSUME b # ledger PROVE FALSE
    OBVIOUS
  <2>1. Height[b] < Height[ledger] /\ Height[b] \in Nat /\ Height[ledger] \in Nat
    BY <1>1, <1>2, <1>4, AncestorFacts, ChainAssumption
  <2> QED
    BY <1>4, <2>1
<1>8. ledger # Genesis /\ ledger' = Parent[ledger]
  BY <1>1, <1>2, <1>3, <1>6, <1>7, AncestorFacts DEF Unapply
<1>9. /\ Ancestors[ledger] = {ledger} \cup Ancestors[ledger']
      /\ Parent[ledger] \in Blocks /\ Height[ledger] = Height[Parent[ledger]] + 1
      /\ Height[Parent[ledger]] \in Nat
  BY <1>1, <1>8, ParentBelow
<1>10. ledger \notin Ancestors[ledger']
  <2> SUFFICES ASSUME ledger \in Ancestors[Parent[ledger]] PROVE FALSE
    BY <1>8
  <2>1. ledger = Parent[ledger] \/ Height[ledger] < Height[Parent[ledger]]
    BY <1>9, AncestorFacts
  <2> QED
    BY <1>9, <2>1
<1>11. ledger \notin Ancestors[active]
  BY <1>2, <1>3
<1>12. /\ oldSet' = Ancestors[ledger'] \ Ancestors[active']
       /\ newSet' = Ancestors[active'] \ Ancestors[ledger']
  BY <1>2, <1>6, <1>7, <1>9, <1>10, <1>11
<1>13. ledger' # Torn
  BY <1>8, <1>9, ChainAssumption
<1> QED
  BY <1>2, <1>6, <1>12, <1>13 DEF WalkPath

\* Apply fails only where the ledger was not moved in this walk, so that
\* m_bestBlock still names its block, and its records undo what it did.
LEMMA PathApply == IndexInv /\ ForkHolds /\ CleanRefusal /\ WalkPath /\ ApplyBlock => WalkPath'
<1> SUFFICES ASSUME IndexInv, ForkHolds, CleanRefusal, WalkPath, ApplyBlock PROVE WalkPath'
  OBVIOUS
<1> DEFINE b == Lowest(newSet)
<1>1. /\ active \in Blocks /\ ledger \in Blocks
      /\ Ancestors[active] \subseteq Blocks /\ Ancestors[ledger] \subseteq Blocks
  BY WalkTips
<1>2. pc = "walk" /\ oldSet = {} /\ newSet # {} /\ UNCHANGED <<active, diskTrie>>
  BY DEF ApplyBlock, files
<1>3. /\ {} = Ancestors[ledger] \ Ancestors[active] /\ newSet = Ancestors[active] \ Ancestors[ledger]
      /\ diskTrie.best = diskTrie.ledger /\ ledger # Torn
  BY <1>2 DEF WalkPath
<1>4. ledger = Parent[b]
  BY <1>2, PathApplies DEF AppliesToParent
<1>5. CASE Take(b)
  <2>1. ledger' = b /\ newSet' = newSet \ {b} /\ UNCHANGED <<oldSet, pc>>
    BY <1>5 DEF Take
  <2>2. b \in newSet
    BY <1>1, <1>2, <1>3, LowestExists
  <2> HIDE DEF b
  <2>3. b \in Blocks /\ b # Genesis /\ b \in Ancestors[active]
    BY <1>1, <1>3, <2>2, AncestorFacts
  <2>4. Ancestors[b] = {b} \cup Ancestors[ledger]
    BY <1>4, <2>3, ParentBelow
  <2>5. b # Torn
    BY <2>3, ChainAssumption
  <2> QED
    BY <1>2, <1>3, <2>1, <2>3, <2>4, <2>5 DEF WalkPath
<1>6. CASE ~Applies(b) /\ Refuse(b)
  <2>1. trieBest = ledger
    BY <1>2, <1>4, <1>6 DEF ForkHolds, Applies
  <2>2. b \notin Tangled
    BY <1>2 DEF CleanRefusal
  <2>3. pc' = "header" /\ UNCHANGED <<trieBest, ledger>>
    BY <1>4, <1>6, <2>2 DEF Refuse, AfterRefusal, InvalidBlockFound, ActivateBestHeader
  <2> QED
    BY <1>2, <1>3, <2>1, <2>3 DEF WalkPath
<1> QED
  BY <1>5, <1>6 DEF ApplyBlock

LEMMA PathDone == IndexInv /\ WalkPath /\ WalkDone => WalkPath'
<1> SUFFICES ASSUME IndexInv, WalkPath, WalkDone PROVE WalkPath'
  OBVIOUS
<1>1. active \in Blocks /\ ledger \in Blocks /\ active \in Ancestors[active] /\ ledger \in Ancestors[ledger]
  BY WalkTips
<1>2. /\ {} = Ancestors[ledger] \ Ancestors[active] /\ {} = Ancestors[active] \ Ancestors[ledger]
      /\ diskTrie.best = diskTrie.ledger /\ ledger # Torn
  BY DEF WalkPath, WalkDone
<1>3. active \in Ancestors[ledger] /\ ledger \in Ancestors[active]
  BY <1>1, <1>2
<1>4. active = ledger
  <2>1. Height[active] \in Nat /\ Height[ledger] \in Nat
    BY <1>1, ChainAssumption
  <2>2. active # ledger => Height[active] < Height[ledger] /\ Height[ledger] < Height[active]
    BY <1>1, <1>3, AncestorFacts
  <2> QED
    BY <2>1, <2>2
<1>5. /\ trieBest' = active /\ ledger' = ledger
      /\ diskTrie' = diskTrie \/ diskTrie' = [best |-> active, ledger |-> ledger]
  BY DEF WalkDone
<1>6. diskTrie'.best = diskTrie'.ledger
  BY <1>2, <1>4, <1>5
<1> QED
  BY <1>2, <1>4, <1>5, <1>6, Finished DEF WalkPath, WalkDone

LEMMA PathNext == IndexInv /\ ForkHolds /\ CleanRefusal /\ WalkPath /\ [Next]_vars => WalkPath'
<1> SUFFICES ASSUME IndexInv, ForkHolds, CleanRefusal, WalkPath, [Next]_vars PROVE WalkPath'
  OBVIOUS
<1>0. IndexPart /\ ControlPart
  BY Parts
<1>1. CASE NoCandidates \/ ReorgDone
  <2>1. pc' # "walk"
    BY <1>0, <1>1, HeaderReturned DEF NoCandidates, ReorgDone, tree
  <2> QED
    BY <1>1, <2>1, PathIdle DEF NoCandidates, ReorgDone, trie, files
<1>2. CASE ReorgDisconnect
  <2>1. pc' # "walk"
    <3>1. CASE CanDisconnect
      BY <1>2, <3>1 DEF ReorgDisconnect, control
    <3>2. CASE ~CanDisconnect
      BY <1>0, <1>2, <3>2, HeaderReturned DEF ReorgDisconnect, tree
    <3> QED
      BY <3>1, <3>2
  <2> QED
    BY <1>2, <2>1, PathIdle DEF ReorgDisconnect, trie, files
<1>3. CASE FindBest \/ ReorgPop
  BY <1>3, PathIdle DEF FindBest, Drop, ReorgPop, control, trie, files
<1>4. CASE Restep \/ UnwindTip \/ UnwindDone \/ ConnectDone
  BY <1>4, PathIdle DEF Restep, UnwindTip, UnwindDone, ConnectDone, ActivateBestHeader, trie, files
<1>5. CASE ConnectTip
  BY <1>5, PathIdle DEF ConnectTip, InvalidBlockFound, ActivateBestHeader, trie, files
<1>6. CASE ActivateLedger \/ UndoBlock \/ ApplyBlock \/ WalkDone
  BY <1>6, PathActivate, PathUndo, PathApply, PathDone
<1>7. CASE StoreBlock
  BY <1>7, PathIdle, Finished DEF StoreBlock, ActivateBestHeader, trie
<1>8. CASE ProcessOrphan \/ OrphansDone \/ Loaded
  BY <1>8, PathIdle
  DEF ProcessOrphan, AcceptBlock, OrphansDone, Loaded, ActivateBestHeader, trie, files
<1>9. CASE \E b \in Blocks \ {Genesis} : ProcessBlockHeader(b) \/ ProcessBlock(b)
  BY <1>9, PathIdle DEF ProcessBlockHeader, ProcessBlock, AcceptBlock, ActivateBestHeader, trie, files
<1>10. CASE \E b \in Fragile : LoseBlock(b)
  BY <1>10, PathSame DEF LoseBlock, pathVars, control, walk, trie
<1>11. CASE Restart
  <2>1. diskTrie.ledger = diskTrie.best /\ diskTrie.best \in Blocks
    BY DEF WalkPath, IndexInv, TypeOK
  <2> QED
    BY <1>11, <2>1, ChainAssumption DEF Restart, WalkPath, files
<1>12. CASE UNCHANGED vars
  BY <1>12, PathSame DEF vars, pathVars, control, walk, trie, files
<1> QED
  BY <1>1, <1>2, <1>3, <1>4, <1>5, <1>6, <1>7, <1>8, <1>9, <1>10, <1>11, <1>12 DEF Next, Step

LEMMA PathAlways == Spec /\ []ForkHolds /\ []CleanRefusal => []WalkPath
  BY IndexInvAlways, PathInit, PathNext, PTL DEF Spec

\* As long as the first block above a fork is not refused, and no block is refused
\* half-way after it used an account twice, TrieView::Apply is always called for the
\* child of the block whose accounts the ledger holds: in every reorganisation, after
\* every other refusal, after every crash and with every flush that fails.
THEOREM AppliesAlwaysToParent == Spec /\ []ForkHolds /\ []CleanRefusal => []AppliesToParent
  BY IndexInvAlways, PathAlways, PathApplies, PTL
-----------------------------------------------------------------------------
(* Only blocks that break a rule or were lost fail *)

LEMMA BlamedInit == Init => FailedBlamed
<1> SUFFICES ASSUME Init PROVE FailedBlamed
  OBVIOUS
<1>1. /\ \A b \in Blocks : index[b] # Unknown => ~index[b].failed
      /\ diskIndex = index
  BY DEF Init
<1> QED
  BY <1>1 DEF FailedBlamed, Known

\* What holds of a block holds of the blocks above it.
LEMMA BlamedAbove ==
    ASSUME NEW b \in Blocks, NEW a \in Ancestors[b], Blamed(a)
    PROVE  Blamed(b)
  BY AncestorFacts DEF Blamed

\* A lost block is never forgotten.
LEMMA BlamedKept ==
    ASSUME damaged \subseteq damaged',
           \A b \in Known' : index'[b].failed => Blamed(b),
           \A b \in Blocks : diskIndex'[b] # Unknown /\ diskIndex'[b].failed => Blamed(b)
    PROVE  FailedBlamed'
  BY DEF FailedBlamed, Blamed

LEMMA BlamedSame ==
    ASSUME FailedBlamed, UNCHANGED <<index, diskIndex>>, damaged \subseteq damaged'
    PROVE  FailedBlamed'
<1>1. Known' = Known
  BY DEF Known
<1> QED
  BY <1>1, BlamedKept DEF FailedBlamed

LEMMA BlamedReturn ==
    ASSUME IndexInv, FailedBlamed, NEW ok \in BOOLEAN, HeaderReturn(ok), UNCHANGED <<index, damaged>>
    PROVE  FailedBlamed'
<1>1. IndexPart /\ ControlPart
  BY Parts
<1>2. CASE UNCHANGED diskIndex
  BY <1>2, BlamedSame
<1>3. CASE after \in {"accept", "store"} /\ WriteBlockIndex(accepting, index[accepting])
  <2>1. accepting \in Known /\ accepting \in Blocks
    BY <1>1, <1>3 DEF ControlPart, HandlerShape, Known
  <2>2. \A b \in Blocks : diskIndex'[b] = IF b = accepting THEN index[b] ELSE diskIndex[b]
    BY <1>1, <1>3, <2>1 DEF WriteBlockIndex, IndexPart, Statuses
  <2>3. Known' = Known
    BY DEF Known
  <2> QED
    BY <2>1, <2>2, <2>3, BlamedKept DEF FailedBlamed
<1> QED
  BY <1>2, <1>3 DEF HeaderReturn

LEMMA BlamedFindBest == IndexInv /\ FailedBlamed /\ FindBest => FailedBlamed'
<1> SUFFICES ASSUME IndexInv, FailedBlamed, FindBest PROVE FailedBlamed'
  OBVIOUS
<1>0. IndexPart /\ CandidatePart
  BY Parts
<1>1. CASE UNCHANGED index
  BY <1>1, BlamedSame DEF FindBest, files
<1>2. CASE FailedBelow # {} /\ index' = Mark(AboveFailed)
  <2>1. Best \in Known /\ Best \in Blocks
    BY <1>0, BestExists DEF FindBest, IndexInv, CandidatePart, Known
  <2>2. Ancestors[Best] \subseteq Known /\ Ancestors[Best] \subseteq Blocks
    BY <1>0, <2>1, AncestorFacts DEF IndexPart, KnownClosed
  <2>3. FailedBelow \in SUBSET Blocks /\ AboveFailed \in SUBSET Known
    BY <2>2 DEF FailedBelow, AboveFailed
  <2> DEFINE h == Highest(FailedBelow)
  <2>4. h \in FailedBelow
    BY <1>2, <2>3, HighestExists
  <2> HIDE DEF h
  <2>5. h \in Ancestors[Best] /\ h \in Blocks /\ Blamed(h)
    BY <2>2, <2>4 DEF FailedBelow, Failed, FailedBlamed
  <2>6. ASSUME NEW c \in AboveFailed PROVE Blamed(c)
    <3>1. c \in Ancestors[Best] /\ c \in Blocks /\ Height[c] > Height[h]
      BY <2>2 DEF AboveFailed, h
    <3>2. Height[h] \in Nat /\ Height[c] \in Nat
      BY <2>5, <3>1, ChainAssumption
    <3>3. Height[h] <= Height[c]
      BY <3>1, <3>2
    <3>4. h \in Ancestors[c]
      BY <2>1, <2>5, <3>1, <3>3, ChainLinear
    <3> QED
      BY <2>5, <3>1, <3>4, BlamedAbove
  <2>7. Known' = Known /\ \A b \in Known : index'[b].failed <=> index[b].failed \/ b \in AboveFailed
    BY <1>0, <1>2, <2>3, MarkFacts
  <2> QED
    BY <2>6, <2>7, BlamedKept DEF FailedBlamed, FindBest, files
<1> QED
  BY <1>1, <1>2 DEF FindBest

LEMMA BlamedFailed ==
    ASSUME IndexInv, FailedBlamed, NEW bad \in Known, NEW caller, Blamed(bad),
           InvalidBlockFound(bad, caller), UNCHANGED damaged
    PROVE  FailedBlamed'
<1> DEFINE M == {bad} \cup Descendants(bad)
<1>1. IndexPart /\ TipPart
  BY Parts
<1>2. /\ headers \in Blocks /\ Ancestors[headers] \subseteq Known /\ Ancestors[headers] \subseteq Blocks
      /\ bad \in Blocks
  BY <1>1, AncestorFacts DEF TipPart, IndexPart, KnownClosed, Known
<1>3. M \in SUBSET Known
  BY <1>2 DEF Descendants
<1>4. ASSUME NEW c \in M PROVE Blamed(c)
  <2>1. CASE c = bad
    BY <2>1
  <2>2. CASE c \in Descendants(bad)
    <3>1. c \in Ancestors[headers] /\ c \in Blocks /\ bad \in Ancestors[headers] /\ Height[c] > Height[bad]
      BY <1>2, <2>2 DEF Descendants, InChain
    <3>2. Height[bad] \in Nat /\ Height[c] \in Nat
      BY <1>2, <3>1, ChainAssumption
    <3>3. Height[bad] <= Height[c]
      BY <3>1, <3>2
    <3>4. bad \in Ancestors[c]
      BY <1>2, <3>1, <3>3, ChainLinear
    <3> QED
      BY <3>1, <3>4, BlamedAbove
  <2> QED
    BY <2>1, <2>2
<1>5. index' = Mark(M) /\ WriteBlockIndex(bad, [index[bad] EXCEPT !.failed = TRUE])
  BY DEF InvalidBlockFound
<1> HIDE DEF M
<1>6. Known' = Known /\ \A b \in Known : index'[b].failed <=> index[b].failed \/ b \in M
  BY <1>1, <1>3, <1>5, MarkFacts
<1>7. \A b \in Blocks \ {bad} : diskIndex'[b] = diskIndex[b]
  BY <1>1, <1>5 DEF WriteBlockIndex, IndexPart, Statuses
<1>8. \A b \in Known' : index'[b].failed => Blamed(b)
  BY <1>4, <1>6 DEF FailedBlamed
<1>9. \A b \in Blocks : diskIndex'[b] # Unknown /\ diskIndex'[b].failed => Blamed(b)
  BY <1>7 DEF FailedBlamed
<1> QED
  BY <1>8, <1>9, BlamedKept

\* ConnectBlock refuses a block for a signature, or for a transaction that a block
\* below it has.
LEMMA BlamedConnect == IndexInv /\ TxIndexFresh /\ FailedBlamed /\ ConnectTip => FailedBlamed'
<1> SUFFICES ASSUME IndexInv, TxIndexFresh, FailedBlamed, ConnectTip PROVE FailedBlamed'
  OBVIOUS
<1>0. IndexPart /\ TipPart /\ ControlPart
  BY Parts
<1>1. CASE ConnectRefuses(NextBlock)
  <2> DEFINE bad == NextBlock
  <2>1. headers \in Known /\ headers \in Blocks /\ active \in Ancestors[headers] /\ active # headers
    BY <1>0 DEF ConnectTip, CanConnect, ControlPart, HandlerShape, InChain, TipPart, Known
  <2>2. bad \in Known /\ bad \in Blocks /\ bad # Genesis /\ Parent[bad] = active
    BY <1>0, <2>1, NextBlockFacts DEF IndexPart, KnownClosed
  <2>3. InvalidBlockFound(bad, "connect") /\ damaged' = damaged
    BY <1>1 DEF ConnectTip, files
  <2>4. ~loading /\ (bad \in BadScripts \/ Txs[bad] \cap txIndex # {}) /\ pc = "connect"
    BY <1>1 DEF ConnectRefuses, ConnectTip
  <2> HIDE DEF bad
  <2>5. bad \in Faulty
    <3>1. CASE bad \in BadScripts
      BY <3>1 DEF Faulty
    <3>2. CASE Txs[bad] \cap txIndex # {}
      <4>1. PICK x \in Txs[bad] : x \in txIndex
        BY <3>2
      <4>2. PICK a \in Ancestors[active] : x \in Txs[a]
        BY <2>4, <4>1 DEF TxIndexFresh
      <4>3. /\ active \in Blocks /\ Height[bad] = Height[active] + 1 /\ Height[active] \in Nat
            /\ Ancestors[bad] = {bad} \cup Ancestors[active]
        BY <2>2, ParentBelow
      <4>4. bad \notin Ancestors[active]
        <5> SUFFICES ASSUME bad \in Ancestors[active] PROVE FALSE
          OBVIOUS
        <5>1. bad = active \/ Height[bad] < Height[active]
          BY <4>3, AncestorFacts
        <5> QED
          BY <4>3, <5>1
      <4>5. a \in Ancestors[bad] \ {bad} /\ Txs[a] \cap Txs[bad] # {}
        BY <4>1, <4>2, <4>3, <4>4
      <4> QED
        BY <2>2, <4>5 DEF Faulty, Repeats
    <3> QED
      BY <2>4, <3>1, <3>2
  <2>6. Blamed(bad)
    BY <2>2, <2>5, AncestorFacts DEF Blamed
  <2> QED
    BY <2>2, <2>3, <2>6, BlamedFailed
<1>2. CASE ~ConnectRefuses(NextBlock)
  BY <1>2, BlamedSame DEF ConnectTip, files
<1> QED
  BY <1>1, <1>2

\* Apply refuses a block only if it breaks a rule of the ledger or cannot be read:
\* never because the ledger is the one of another block.
LEMMA BlamedApply ==
    IndexInv /\ WalkPath /\ WalkStored /\ FailedBlamed /\ ApplyBlock => FailedBlamed'
<1> SUFFICES ASSUME IndexInv, WalkPath, WalkStored, FailedBlamed, ApplyBlock PROVE FailedBlamed'
  OBVIOUS
<1>0. IndexPart /\ TipPart /\ WalkPart /\ RestPart
  BY Parts
<1> DEFINE b == Lowest(newSet)
<1>1. pc = "walk" /\ oldSet = {} /\ newSet # {} /\ damaged' = damaged
  BY DEF ApplyBlock, files
<1>2. b \in newSet /\ b \in Known /\ b \in Blocks /\ HasData(b)
  BY <1>0, <1>1, LowestNew DEF WalkStored, Known
<1>3. ledger = Parent[b]
  BY <1>1, PathApplies DEF AppliesToParent
<1>4. CASE Take(b)
  <2>1. index' = [index EXCEPT ![b].applied = TRUE] /\ WriteBlockIndex(b, index'[b])
    BY <1>4 DEF Take
  <2> HIDE DEF b
  <2> DEFINE st == [index[b] EXCEPT !.applied = TRUE]
  <2>2. index[b] \in Status
    BY <1>0, <1>2 DEF IndexPart, Statuses, Known
  <2>3. st.failed <=> index[b].failed
    BY <2>2 DEF Status
  <2>4. /\ index'[b] = st /\ diskIndex'[b] = st
        /\ \A c \in Blocks \ {b} : index'[c] = index[c] /\ diskIndex'[c] = diskIndex[c]
    BY <1>0, <1>2, <2>1 DEF WriteBlockIndex, IndexPart, Statuses
  <2> HIDE DEF st
  <2>5. index[b].failed => Blamed(b)
    BY <1>2 DEF FailedBlamed
  <2>6. \A c \in Known' : index'[c].failed => Blamed(c)
    BY <2>3, <2>4, <2>5 DEF FailedBlamed, Known
  <2>7. \A c \in Blocks : diskIndex'[c] # Unknown /\ diskIndex'[c].failed => Blamed(c)
    BY <2>3, <2>4, <2>5 DEF FailedBlamed
  <2> QED
    BY <1>1, <2>6, <2>7, BlamedKept
<1>5. CASE ~Applies(b) /\ Refuse(b)
  <2>1. InvalidBlockFound(b, "again")
    BY <1>5 DEF Refuse
  <2>2. b \in lost \/ b \in BadLedger
    BY <1>2, <1>3, <1>5 DEF Applies, Readable
  <2> HIDE DEF b
  <2>3. b \in Faulty \cup damaged
    BY <1>0, <2>2 DEF RestPart, Faulty
  <2>4. Blamed(b)
    BY <1>2, <2>3, AncestorFacts DEF Blamed
  <2> QED
    BY <1>1, <1>2, <2>1, <2>4, BlamedFailed
<1> QED
  BY <1>4, <1>5 DEF ApplyBlock

LEMMA BlamedInsert ==
    ASSUME IndexInv, FailedBlamed, NEW b \in Blocks, Insert(b), UNCHANGED <<diskIndex, damaged>>
    PROVE  FailedBlamed'
<1>1. IndexPart
  BY Parts
<1>2. index'[b] = HeaderStatus /\ \A c \in Blocks \ {b} : index'[c] = index[c]
  BY <1>1 DEF Insert, IndexPart, Statuses
<1>3. ~HeaderStatus.failed
  BY DEF HeaderStatus
<1>4. \A c \in Known' : index'[c].failed => Blamed(c)
  BY <1>2, <1>3 DEF FailedBlamed, Known
<1> QED
  BY <1>4, BlamedKept DEF FailedBlamed

LEMMA BlamedStore == IndexInv /\ FailedBlamed /\ StoreBlock => FailedBlamed'
<1> SUFFICES ASSUME IndexInv, FailedBlamed, StoreBlock PROVE FailedBlamed'
  OBVIOUS
<1>0. IndexPart /\ ControlPart
  BY Parts
<1>1. CASE AlreadyApplied(accepting)
  BY <1>1, BlamedSame DEF StoreBlock
<1>2. CASE ~AlreadyApplied(accepting)
  <2> DEFINE b == accepting
             st == [[index[b] EXCEPT !.data = TRUE] EXCEPT !.applied = FALSE]
  <2>1. b \in Known /\ b \in Blocks /\ index[b] \in Status
    BY <1>0 DEF StoreBlock, ControlPart, HandlerShape, Known, IndexPart, Statuses
  <2>2. st.failed <=> index[b].failed
    BY <2>1 DEF Status
  <2>3. /\ index' = [index EXCEPT ![b].data = TRUE, ![b].applied = FALSE]
        /\ WriteBlockIndex(b, index'[b]) /\ damaged' = damaged
    BY <1>2 DEF StoreBlock
  <2>4. /\ index'[b] = st /\ diskIndex'[b] = index'[b]
        /\ \A c \in Blocks \ {b} : index'[c] = index[c] /\ diskIndex'[c] = diskIndex[c]
    BY <1>0, <2>1, <2>3 DEF WriteBlockIndex, IndexPart, Statuses
  <2> HIDE DEF st, b
  <2>5. index[b].failed => Blamed(b)
    BY <2>1 DEF FailedBlamed
  <2>6. \A c \in Known' : index'[c].failed => Blamed(c)
    BY <2>2, <2>4, <2>5 DEF FailedBlamed, Known
  <2>7. \A c \in Blocks : diskIndex'[c] # Unknown /\ diskIndex'[c].failed => Blamed(c)
    BY <2>2, <2>4, <2>5 DEF FailedBlamed
  <2> QED
    BY <2>3, <2>6, <2>7, BlamedKept
<1> QED
  BY <1>1, <1>2

\* A start marks what stands on a failed block.
LEMMA BlamedRestart == IndexInv /\ FailedBlamed /\ Restart => FailedBlamed'
<1> SUFFICES ASSUME IndexInv, FailedBlamed, Restart PROVE FailedBlamed'
  OBVIOUS
<1>1. /\ Known' = OnDisk
      /\ \A b \in OnDisk : index'[b].failed <=> \E a \in Ancestors[b] : diskIndex[a].failed
  BY IndexLoaded, Parts
<1>2. ASSUME NEW b \in Known', index'[b].failed PROVE Blamed(b)
  <2>1. b \in Blocks /\ b \in OnDisk
    BY <1>1 DEF OnDisk
  <2>2. PICK a \in Ancestors[b] : diskIndex[a].failed
    BY <1>1, <1>2, <2>1
  <2>3. a \in Blocks /\ diskIndex[a] # Unknown
    BY <2>1, <2>2, AncestorFacts DEF OnDisk
  <2>4. Blamed(a)
    BY <2>2, <2>3 DEF FailedBlamed
  <2> QED
    BY <2>1, <2>4, BlamedAbove
<1> QED
  BY <1>2, BlamedKept DEF FailedBlamed, Restart, files

LEMMA BlamedNext ==
    /\ IndexInv /\ WalkPath /\ WalkStored /\ TxIndexFresh /\ FailedBlamed /\ [Next]_vars
    => FailedBlamed'
<1> SUFFICES ASSUME IndexInv, WalkPath, WalkStored, TxIndexFresh, FailedBlamed, [Next]_vars
             PROVE  FailedBlamed'
  OBVIOUS
<1>0. RestPart
  BY Parts
<1>1. CASE NoCandidates \/ ReorgDone
  BY <1>1, BlamedReturn DEF NoCandidates, ReorgDone, tree, files
<1>2. CASE ReorgDisconnect
  <2>1. CASE CanDisconnect
    BY <1>2, <2>1, BlamedSame DEF ReorgDisconnect, tree, files
  <2>2. CASE ~CanDisconnect
    BY <1>2, <2>2, BlamedReturn DEF ReorgDisconnect, tree, files
  <2> QED
    BY <2>1, <2>2
<1>3. CASE FindBest
  BY <1>3, BlamedFindBest
<1>4. CASE ReorgPop \/ Restep \/ UnwindTip \/ UnwindDone \/ ConnectDone
  BY <1>4, BlamedSame DEF ReorgPop, Restep, UnwindTip, UnwindDone, ConnectDone, tree, files
<1>5. CASE ConnectTip
  BY <1>5, BlamedConnect
<1>6. CASE ActivateLedger \/ UndoBlock \/ WalkDone
  BY <1>6, BlamedSame DEF ActivateLedger, UndoBlock, WalkDone, tree, files
<1>7. CASE ApplyBlock
  BY <1>7, BlamedApply
<1>8. CASE StoreBlock
  BY <1>8, BlamedStore
<1>9. CASE OrphansDone \/ Loaded
  BY <1>9, BlamedSame DEF OrphansDone, Loaded, tree, files
<1>10. ASSUME NEW b \in Blocks, AcceptBlock(b), UNCHANGED <<diskIndex, damaged>> PROVE FailedBlamed'
  BY <1>10, BlamedSame, BlamedInsert DEF AcceptBlock, tree
<1>11. CASE ProcessOrphan
  <2>1. PICK b \in unindexed : AcceptBlock(b)
    BY <1>11 DEF ProcessOrphan
  <2> QED
    BY <1>0, <1>10, <1>11, <2>1 DEF ProcessOrphan, RestPart, files
<1>12. ASSUME NEW b \in Blocks, ProcessBlockHeader(b) PROVE FailedBlamed'
  BY <1>12, BlamedInsert DEF ProcessBlockHeader, files
<1>13. ASSUME NEW b \in Blocks, ProcessBlock(b) PROVE FailedBlamed'
  BY <1>10, <1>13, BlamedSame DEF ProcessBlock, tree, files
<1>14. CASE \E b \in Fragile : LoseBlock(b)
  BY <1>14, BlamedSame DEF LoseBlock, tree
<1>15. CASE Restart
  BY <1>15, BlamedRestart
<1>16. CASE UNCHANGED vars
  BY <1>16, BlamedSame DEF vars, tree, files
<1> QED
  BY <1>1, <1>2, <1>3, <1>4, <1>5, <1>6, <1>7, <1>8, <1>9, <1>11, <1>12, <1>13, <1>14, <1>15, <1>16
  DEF Next, Step

\* As long as the first block above a fork is not refused, no block is refused half-way
\* after it used an account twice, the blocks to be applied are stored and the
\* transaction index has no transaction of another branch, InvalidBlockFound, the search
\* of ActivateBestHeader and LoadBlockIndexDB mark only blocks that break a rule, were
\* lost or stand on such a block.
THEOREM ValidNeverFails ==
    Spec /\ []ForkHolds /\ []CleanRefusal /\ []WalkStored /\ []TxIndexFresh => []NeverFailsValid
<1>1. FailedBlamed => NeverFailsValid
  BY DEF FailedBlamed, NeverFailsValid, Failed, Blamed, Valid
<1> QED
  BY <1>1, IndexInvAlways, PathAlways, BlamedInit, BlamedNext, PTL DEF Spec

\* On a disk that loses nothing and without a block that the ledger refuses, a
\* reorganisation needs nothing but stored blocks for the ledger to follow it.
COROLLARY SoundBlocksApply ==
    ASSUME BadLedger = {}, Fragile = {}
    PROVE  Spec /\ []WalkStored => []AppliesToParent
<1>1. IndexInv /\ WalkStored => ForkHolds
  <2> SUFFICES ASSUME IndexInv, WalkStored, pc = "walk", oldSet = {}, newSet # {}
               PROVE  Readable(Lowest(newSet)) /\ Lowest(newSet) \notin BadLedger
    BY DEF ForkHolds
  <2>1. IndexPart /\ TipPart /\ WalkPart /\ RestPart
    BY Parts
  <2>2. Lowest(newSet) \in newSet
    BY <2>1, LowestNew
  <2>3. lost = {}
    BY <2>1 DEF RestPart
  <2> QED
    BY <2>2, <2>3 DEF WalkStored, Readable
<1>2. CleanRefusal
  BY ChainAssumption DEF CleanRefusal
<1> QED
  BY <1>1, <1>2, IndexInvAlways, AppliesAlwaysToParent, PTL
-----------------------------------------------------------------------------
(* What stands on a failed block has failed *)

LEMMA ClosedSame ==
    ASSUME FailedClosed, UNCHANGED <<index, headers>>
    PROVE  FailedClosed'
  BY DEF FailedClosed, Known, Failed

\* The same blocks have failed, and the tip has not.
LEMMA ClosedKept ==
    ASSUME IndexInv, FailedClosed, Known' = Known, FailedBlocks' = FailedBlocks, ~Failed(headers)'
    PROVE  FailedClosed'
<1>1. \A b \in Known : Ancestors[b] \subseteq Known
  BY DEF IndexInv, KnownClosed
<1>2. \A b \in Known : Failed(b)' <=> Failed(b)
  BY DEF FailedBlocks
<1> QED
  BY <1>1, <1>2 DEF FailedClosed

\* A header is taken only on top of a block that has not failed.
LEMMA ClosedInsert ==
    ASSUME IndexInv, FailedClosed, NEW b \in Blocks, b \notin Known, HeaderAccepted(b), Insert(b),
           ~Failed(headers)'
    PROVE  FailedClosed'
<1>0. IndexPart
  BY Parts
<1>1. /\ Known' = Known \cup {b} /\ ~Failed(b)'
      /\ \A c \in Known : Failed(c)' <=> Failed(c)
  BY <1>0, EntryInserted DEF Insert, Failed
<1>2. \A c \in Known : Ancestors[c] \subseteq Known
  BY <1>0 DEF IndexPart, KnownClosed
<1>3. b # Genesis
  BY <1>0, AppliedKnown
<1>4. Ancestors[b] = {b} \cup Ancestors[Parent[b]] /\ Parent[b] \in Known /\ ~Failed(Parent[b])
  BY <1>3, ParentBelow DEF HeaderAccepted
<1>5. \A a \in Ancestors[b] : ~Failed(a)'
  BY <1>1, <1>2, <1>4 DEF FailedClosed
<1>6. ASSUME NEW c \in Known, NEW a \in Ancestors[c], Failed(a)' PROVE Failed(c)'
  BY <1>1, <1>2, <1>6 DEF FailedClosed
<1> QED
  BY <1>1, <1>5, <1>6 DEF FailedClosed

\* InvalidBlockFound marks the whole branch if there is only one.
LEMMA ClosedFailed ==
    ASSUME IndexInv, SearchInv, FailedClosed, NEW bad \in Known, bad # Genesis, OneBranch(bad),
           NEW caller, InvalidBlockFound(bad, caller)
    PROVE  FailedClosed'
<1>0. IndexPart /\ TipPart /\ CandidatesComplete
  BY Parts DEF SearchInv
<1>1. ~Failed(headers)' /\ FailedBlocks' = FailedBlocks \cup {bad} \cup Descendants(bad)
  BY <1>0, SearchFailed
<1>2. Known' = Known /\ headers \in Blocks /\ \A b \in Known : b \in Blocks /\ Ancestors[b] \subseteq Known
  BY <1>0, BlockFailed DEF TipPart, IndexPart, KnownClosed, Known
<1>3. ASSUME NEW b \in Known, bad \in Ancestors[b] PROVE b \in FailedBlocks'
  <2>1. CASE b \in FailedBlocks \cup {bad}
    BY <1>1, <2>1
  <2>2. CASE b \in Ancestors[headers] /\ b # bad
    <3>1. bad \in Ancestors[headers] /\ Height[bad] < Height[b]
      BY <1>2, <1>3, <2>2, AncestorFacts
    <3>2. Height[bad] \in Nat /\ Height[b] \in Nat
      BY <1>2, ChainAssumption
    <3>3. b \in Descendants(bad)
      BY <2>2, <3>1, <3>2 DEF Descendants, InChain
    <3> QED
      BY <1>1, <3>3
  <2> QED
    BY <1>3, <2>1, <2>2 DEF OneBranch
<1>4. ASSUME NEW b \in Known, NEW a \in Ancestors[b], a \in FailedBlocks' PROVE b \in FailedBlocks'
  <2>1. CASE a \in FailedBlocks
    <3>1. b \in FailedBlocks
      BY <1>4, <2>1 DEF FailedClosed, FailedBlocks
    <3> QED
      BY <1>1, <3>1
  <2>2. CASE a = bad
    BY <1>3, <1>4, <2>2
  <2>3. CASE a \in Descendants(bad)
    <3>1. a \in Ancestors[headers] /\ bad \in Ancestors[headers] /\ Height[bad] < Height[a]
      <4>1. a \in Ancestors[headers] /\ bad \in Ancestors[headers] /\ Height[a] > Height[bad]
        BY <2>3 DEF Descendants, InChain
      <4>2. Height[bad] \in Nat /\ Height[a] \in Nat
        BY <1>2, <4>1, AncestorFacts, ChainAssumption
      <4> QED
        BY <4>1, <4>2
    <3>2. Height[bad] \in Nat /\ Height[a] \in Nat
      BY <1>2, <3>1, AncestorFacts, ChainAssumption
    <3>3. bad \in Ancestors[a]
      BY <1>2, <3>1, <3>2, ChainLinear
    <3>4. bad \in Ancestors[b]
      BY <1>2, <1>4, <3>3, AncestorFacts
    <3> QED
      BY <1>3, <3>4
  <2> QED
    BY <1>1, <1>4, <2>1, <2>2, <2>3
<1>5. \A b \in Known : b \in FailedBlocks' <=> Failed(b)'
  BY <1>2 DEF FailedBlocks
<1>6. ASSUME NEW b \in Known, NEW a \in Ancestors[b], Failed(a)' PROVE Failed(b)'
  BY <1>2, <1>4, <1>5, <1>6
<1> QED
  BY <1>1, <1>2, <1>6 DEF FailedClosed

LEMMA ClosedAccepted ==
    ASSUME IndexInv, SearchInv, FailedClosed, NEW b \in Blocks, AcceptBlock(b)
    PROVE  FailedClosed'
<1>0. IndexPart /\ CandidatesComplete /\ headers \in Known
  BY Parts DEF SearchInv, TipPart
<1>1. CASE b \notin Known /\ HeaderAccepted(b)
  <2>1. Insert(b) /\ ActivateBestHeader("store", FailedBlocks)
    BY <1>1 DEF AcceptBlock
  <2>2. FailedBlocks' = FailedBlocks /\ CandidatesComplete' /\ Known' = Known \cup {b}
    BY <1>0, <1>1, <2>1, SearchInserted
  <2>3. ~Failed(headers)'
    BY <1>0, <2>1, <2>2, GenesisNotFailed, SearchCalled DEF ActivateBestHeader
  <2> QED
    BY <1>1, <2>1, <2>3, ClosedInsert
<1>2. CASE ~(b \notin Known /\ HeaderAccepted(b))
  BY <1>2, ClosedSame DEF AcceptBlock, tree
<1> QED
  BY <1>1, <1>2

\* A start marks everything above a failed block.
LEMMA ClosedRestart == IndexInv /\ Restart => FailedClosed'
<1> SUFFICES ASSUME IndexInv, Restart PROVE FailedClosed'
  OBVIOUS
<1>1. /\ IndexPart' /\ Known' = OnDisk
      /\ \A b \in OnDisk : index'[b].failed <=> \E a \in Ancestors[b] : diskIndex[a].failed
  BY IndexLoaded, Parts
<1>2. headers' = Genesis /\ ~index'[Genesis].failed
  BY <1>1 DEF Restart, IndexPart, GenesisStays
<1>3. ASSUME NEW b \in OnDisk, NEW a \in Ancestors[b], index'[a].failed PROVE index'[b].failed
  <2>1. b \in Blocks /\ a \in OnDisk
    BY <1>1, AncestorFacts DEF IndexPart, KnownClosed, OnDisk
  <2>2. PICK d \in Ancestors[a] : diskIndex[d].failed
    BY <1>1, <1>3, <2>1
  <2>3. d \in Ancestors[b]
    BY <2>1, <2>2, AncestorFacts
  <2> QED
    BY <1>1, <2>2, <2>3
<1> QED
  BY <1>1, <1>2, <1>3 DEF FailedClosed, Failed

LEMMA ClosedInit == Init => FailedClosed
<1> SUFFICES ASSUME Init PROVE FailedClosed
  OBVIOUS
<1>1. Known \subseteq {Genesis} /\ headers = Genesis /\ Ancestors[Genesis] = {Genesis}
  BY ChainAssumption DEF Init, Known
<1>2. ~Failed(Genesis)
  BY ChainAssumption DEF Init, Failed
<1> QED
  BY <1>1, <1>2 DEF FailedClosed

LEMMA ClosedNext ==
    IndexInv /\ SearchInv /\ NoForkAboveRefused /\ FailedClosed /\ [Next]_vars => FailedClosed'
<1> SUFFICES ASSUME IndexInv, SearchInv, NoForkAboveRefused, FailedClosed, [Next]_vars
             PROVE  FailedClosed'
  OBVIOUS
<1>0. /\ IndexPart /\ TipPart /\ WalkPart /\ ControlPart /\ CandidatesComplete
      /\ headers \in Known /\ headers \in Blocks
  BY Parts DEF SearchInv, TipPart, Known
<1>1. CASE NoCandidates \/ ReorgDisconnect
  BY <1>1, ClosedSame DEF NoCandidates, ReorgDisconnect, tree
<1>2. CASE FindBest
  BY <1>2, SearchFound, ClosedSame
<1>3. CASE ReorgPop
  <2>0. candidates # {}
    BY <1>0, <1>3 DEF ReorgPop, ControlPart, HandlerShape
  <2>1. Best \in Known
    BY <2>0, BestExists DEF IndexInv, TypeOK
  <2>2. headers # Genesis
    BY <1>0, <1>3, <2>1, TipParent DEF ReorgPop
  <2>3. headers' = Parent[headers] /\ index' = index /\ Parent[headers] \in Ancestors[headers]
    BY <1>0, <1>3, <2>2, ParentBelow, AncestorFacts DEF ReorgPop, tree
  <2>4. ~Failed(Parent[headers])
    BY <1>0, <2>3 DEF FailedClosed
  <2> QED
    BY <2>3, <2>4 DEF FailedClosed, Known, Failed
<1>4. CASE ReorgDone
  <2>1. headers' = Best /\ index' = index /\ ~Failed(Best)
    BY <1>4 DEF ReorgDone, tree, SearchInv
  <2> QED
    BY <2>1 DEF FailedClosed, Known, Failed
<1>5. CASE UnwindTip \/ UnwindDone \/ ConnectDone \/ OrphansDone
  BY <1>5, ClosedSame DEF UnwindTip, UnwindDone, ConnectDone, OrphansDone, tree
<1>6. CASE Restep \/ Loaded
  <2>1. /\ UNCHANGED <<index, candidates>> /\ ActivateBestHeader("chain", FailedBlocks)
    BY <1>6 DEF Restep, Loaded, tree
  <2>2. ~Failed(headers)' /\ Known' = Known /\ FailedBlocks' = FailedBlocks
    BY <2>1, SearchAgain, SearchSame
  <2> QED
    BY <2>2, ClosedKept
<1>7. CASE ConnectTip
  <2>1. active \in Ancestors[headers] /\ active # headers
    BY <1>0, <1>7 DEF ConnectTip, CanConnect, ControlPart, HandlerShape, InChain
  <2>2. NextBlock \in Known /\ NextBlock # Genesis
    BY <1>0, <2>1, NextBlockFacts DEF IndexPart, KnownClosed
  <2>3. CASE ConnectRefuses(NextBlock)
    <3>1. OneBranch(NextBlock) /\ InvalidBlockFound(NextBlock, "connect")
      BY <1>7, <2>3 DEF ConnectTip, NoForkAboveRefused
    <3> QED
      BY <2>2, <3>1, ClosedFailed
  <2>4. CASE ~ConnectRefuses(NextBlock)
    BY <1>7, <2>4, ClosedSame DEF ConnectTip
  <2> QED
    BY <2>3, <2>4
<1>8. CASE ActivateLedger \/ UndoBlock \/ WalkDone
  BY <1>8, ClosedSame DEF ActivateLedger, UndoBlock, WalkDone, tree
<1>9. CASE ApplyBlock
  <2> DEFINE b == Lowest(newSet)
  <2>1. b \in Known /\ b # Genesis
    BY <1>0, <1>9, LowestNew DEF ApplyBlock
  <2>2. CASE Take(b)
    <3>1. index' = [index EXCEPT ![b].applied = TRUE] /\ UNCHANGED <<candidates, headers>>
      BY <1>9, <2>2 DEF ApplyBlock, Take
    <3> HIDE DEF b
    <3>2. Known' = Known /\ \A c \in Known : index'[c].failed <=> index[c].failed
      BY <1>0, <2>1, <3>1, EntryApplied
    <3>3. FailedBlocks' = FailedBlocks /\ ~Failed(headers)'
      BY <1>0, <3>1, <3>2, SearchFailedSame DEF FailedClosed, Failed
    <3> QED
      BY <3>2, <3>3, ClosedKept
  <2>3. CASE ~Applies(b) /\ Refuse(b)
    <3>1. InvalidBlockFound(b, "again") /\ OneBranch(b)
      BY <1>9, <2>3 DEF ApplyBlock, Refuse, NoForkAboveRefused
    <3> HIDE DEF b
    <3> QED
      BY <2>1, <3>1, ClosedFailed
  <2> QED
    BY <1>9, <2>2, <2>3 DEF ApplyBlock
<1>10. CASE StoreBlock
  <2>1. CASE AlreadyApplied(accepting)
    BY <1>10, <2>1, ClosedSame DEF StoreBlock
  <2>2. CASE ~AlreadyApplied(accepting)
    <3>1. /\ index' = [index EXCEPT ![accepting].data = TRUE, ![accepting].applied = FALSE]
          /\ ActivateBestHeader("chain", FailedBlocks) /\ candidates' = candidates
      BY <1>10, <2>2 DEF StoreBlock
    <3>2. accepting \in Known
      BY <1>0, <1>10 DEF StoreBlock, ControlPart, HandlerShape
    <3>3. Known' = Known /\ \A c \in Known : index'[c].failed <=> index[c].failed
      BY <1>0, <3>1, <3>2, EntryStored
    <3>4. FailedBlocks' = FailedBlocks /\ CandidatesComplete'
      BY <1>0, <3>1, <3>3, SearchFailedSame
    <3>5. ~Failed(headers)'
      BY <1>0, <3>1, <3>3, <3>4, GenesisNotFailed, SearchCalled DEF ActivateBestHeader
    <3> QED
      BY <3>3, <3>4, <3>5, ClosedKept
  <2> QED
    BY <2>1, <2>2
<1>11. CASE ProcessOrphan
  <2>1. PICK b \in unindexed : AcceptBlock(b)
    BY <1>11 DEF ProcessOrphan
  <2>2. b \in Blocks
    BY DEF IndexInv, TypeOK
  <2> QED
    BY <2>1, <2>2, ClosedAccepted
<1>12. ASSUME NEW b \in Blocks, ProcessBlockHeader(b) PROVE FailedClosed'
  <2>1. b \notin Known /\ HeaderAccepted(b) /\ Insert(b) /\ ActivateBestHeader("accept", FailedBlocks)
    BY <1>12 DEF ProcessBlockHeader
  <2>2. FailedBlocks' = FailedBlocks /\ CandidatesComplete' /\ Known' = Known \cup {b}
    BY <1>0, <2>1, SearchInserted
  <2>3. ~Failed(headers)'
    BY <1>0, <2>1, <2>2, GenesisNotFailed, SearchCalled DEF ActivateBestHeader
  <2> QED
    BY <2>1, <2>3, ClosedInsert
<1>13. ASSUME NEW b \in Blocks, ProcessBlock(b) PROVE FailedClosed'
  BY <1>13, ClosedAccepted, ClosedSame DEF ProcessBlock, tree
<1>14. CASE (\E b \in Fragile : LoseBlock(b)) \/ UNCHANGED vars
  BY <1>14, ClosedSame DEF LoseBlock, vars, tree
<1>15. CASE Restart
  BY <1>15, ClosedRestart
<1> QED
  BY <1>1, <1>2, <1>3, <1>4, <1>5, <1>6, <1>7, <1>8, <1>9, <1>10, <1>11, <1>12, <1>13, <1>14, <1>15
  DEF Next, Step

\* As long as no block that is refused has a fork above it, the header chain never has a
\* failed block when ActivateBestHeader has chosen: InvalidBlockFound marks the branch
\* above the block, AcceptBlockHeader refuses what would stand on it, LoadBlockIndexDB
\* marks it again after a restart.  The search "between the candidate new best and the
\* currently-accepted best" has no part in it.
THEOREM HeadersNeverFailed == Spec /\ []NoForkAboveRefused => []HeadersNotFailed
<1>1. IndexInv /\ FailedClosed => HeadersNotFailed
  BY DEF IndexInv, TypeOK, FailedClosed, HeadersNotFailed
<1> QED
  BY <1>1, IndexInvAlways, SearchAlways, ClosedInit, ClosedNext, PTL DEF Spec
-----------------------------------------------------------------------------
(* What has failed stays failed *)

LEMMA RootedInit == Init => FailedRooted
<1> SUFFICES ASSUME Init PROVE FailedRooted
  OBVIOUS
<1>1. FailedBlocks = {} /\ FailedOnDisk = {}
  BY DEF Init, FailedBlocks, FailedOnDisk, Failed, Known
<1> QED
  BY <1>1 DEF FailedRooted

\* The marks are not touched, and no mark on disk is taken back.
LEMMA RootedKept ==
    ASSUME FailedRooted, FailedBlocks' = FailedBlocks,
           FailedOnDisk \subseteq FailedOnDisk', FailedOnDisk' \subseteq FailedBlocks
    PROVE  FailedRooted'
  BY DEF FailedRooted

LEMMA RootedSame ==
    ASSUME FailedRooted, UNCHANGED <<index, diskIndex>>
    PROVE  FailedRooted' /\ FailedBlocks' = FailedBlocks
<1>1. FailedBlocks' = FailedBlocks /\ FailedOnDisk' = FailedOnDisk
  BY DEF FailedBlocks, FailedOnDisk, Failed, Known
<1> QED
  BY <1>1 DEF FailedRooted

\* One block is written with the mark it has.
LEMMA RootedWritten ==
    ASSUME IndexPart, FailedRooted, FailedBlocks' = FailedBlocks, NEW b \in Blocks, NEW st \in Status,
           diskIndex' = [diskIndex EXCEPT ![b] = st], st.failed <=> b \in FailedBlocks
    PROVE  FailedRooted'
<1>1. st # Unknown
  BY ChainAssumption
<1>2. diskIndex'[b] = st /\ \A c \in Blocks \ {b} : diskIndex'[c] = diskIndex[c]
  BY DEF IndexPart, Statuses
<1>3. FailedOnDisk \subseteq FailedOnDisk' /\ FailedOnDisk' \subseteq FailedBlocks
  BY <1>1, <1>2 DEF FailedOnDisk, FailedRooted
<1> QED
  BY <1>3, RootedKept

LEMMA RootedReturn ==
    ASSUME IndexInv, FailedRooted, NEW ok \in BOOLEAN, HeaderReturn(ok), UNCHANGED index
    PROVE  FailedRooted' /\ FailedBlocks' = FailedBlocks
<1>1. IndexPart /\ ControlPart
  BY Parts
<1>2. FailedBlocks' = FailedBlocks
  BY DEF FailedBlocks, Failed, Known
<1>3. CASE UNCHANGED diskIndex
  BY <1>3, RootedSame
<1>4. CASE after \in {"accept", "store"} /\ WriteBlockIndex(accepting, index[accepting])
  <2>1. accepting \in Known /\ accepting \in Blocks /\ index[accepting] \in Status
    BY <1>1, <1>4 DEF ControlPart, HandlerShape, Known, IndexPart, Statuses
  <2>2. index[accepting].failed <=> accepting \in FailedBlocks
    BY <2>1 DEF FailedBlocks, Failed
  <2> QED
    BY <1>1, <1>2, <1>4, <2>1, <2>2, RootedWritten DEF WriteBlockIndex
<1> QED
  BY <1>3, <1>4 DEF HeaderReturn

\* More blocks are marked, each above one that is marked already or written now.
LEMMA RootedMarked ==
    ASSUME IndexPart, FailedRooted, NEW M \in SUBSET Known, index' = Mark(M),
           FailedOnDisk \subseteq FailedOnDisk', FailedOnDisk' \subseteq FailedOnDisk \cup M,
           \A c \in M : Ancestors[c] \cap (FailedBlocks \cup FailedOnDisk') # {}
    PROVE  FailedRooted' /\ FailedBlocks \subseteq FailedBlocks'
<1>1. Known' = Known /\ \A b \in Known : index'[b].failed <=> index[b].failed \/ b \in M
  BY MarkFacts
<1>2. FailedBlocks' = FailedBlocks \cup M
  BY <1>1 DEF FailedBlocks, Failed
<1>3. FailedOnDisk' \subseteq FailedBlocks'
  BY <1>2 DEF FailedRooted
<1>4. ASSUME NEW c \in M PROVE Ancestors[c] \cap FailedOnDisk' # {}
  <2>1. c \in Blocks
    BY DEF Known
  <2>2. PICK a \in Ancestors[c] : a \in FailedBlocks \cup FailedOnDisk'
    OBVIOUS
  <2>3. CASE a \in FailedBlocks
    <3>1. PICK d \in Ancestors[a] : d \in FailedOnDisk
      BY <2>3 DEF FailedRooted
    <3>2. d \in Ancestors[c]
      BY <2>1, <3>1, AncestorFacts
    <3> QED
      BY <3>1, <3>2
  <2> QED
    BY <2>2, <2>3
<1>5. \A b \in FailedBlocks' : Ancestors[b] \cap FailedOnDisk' # {}
  BY <1>2, <1>4 DEF FailedRooted
<1> QED
  BY <1>2, <1>3, <1>5 DEF FailedRooted

LEMMA RootedFindBest ==
    IndexInv /\ FailedRooted /\ FindBest => FailedRooted' /\ FailedBlocks \subseteq FailedBlocks'
<1> SUFFICES ASSUME IndexInv, FailedRooted, FindBest
             PROVE  FailedRooted' /\ FailedBlocks \subseteq FailedBlocks'
  OBVIOUS
<1>0. IndexPart /\ CandidatePart
  BY Parts
<1>1. CASE UNCHANGED index
  BY <1>1, RootedSame DEF FindBest
<1>2. CASE FailedBelow # {} /\ index' = Mark(AboveFailed)
  <2>1. Best \in Known /\ Best \in Blocks
    BY <1>0, BestExists DEF FindBest, IndexInv, CandidatePart, Known
  <2>2. Ancestors[Best] \subseteq Known /\ Ancestors[Best] \subseteq Blocks
    BY <1>0, <2>1, AncestorFacts DEF IndexPart, KnownClosed
  <2>3. FailedBelow \in SUBSET Blocks /\ AboveFailed \in SUBSET Known
    BY <2>2 DEF FailedBelow, AboveFailed
  <2> DEFINE h == Highest(FailedBelow)
  <2>4. h \in FailedBelow
    BY <1>2, <2>3, HighestExists
  <2> HIDE DEF h
  <2>5. h \in Ancestors[Best] /\ h \in Blocks /\ h \in FailedBlocks
    BY <2>2, <2>4 DEF FailedBelow, FailedBlocks
  <2>6. ASSUME NEW c \in AboveFailed PROVE h \in Ancestors[c]
    <3>1. c \in Ancestors[Best] /\ c \in Blocks /\ Height[c] > Height[h]
      BY <2>2 DEF AboveFailed, h
    <3>2. Height[h] \in Nat /\ Height[c] \in Nat
      BY <2>5, <3>1, ChainAssumption
    <3>3. Height[h] <= Height[c]
      BY <3>1, <3>2
    <3> QED
      BY <2>1, <2>5, <3>1, <3>3, ChainLinear
  <2>7. \A c \in AboveFailed : Ancestors[c] \cap (FailedBlocks \cup FailedOnDisk') # {}
    BY <2>5, <2>6
  <2>8. FailedOnDisk' = FailedOnDisk
    BY DEF FindBest, FailedOnDisk
  <2> QED
    BY <1>0, <1>2, <2>3, <2>7, <2>8, RootedMarked
<1> QED
  BY <1>1, <1>2 DEF FindBest

\* InvalidBlockFound writes the lowest of the blocks it marks.
LEMMA RootedFailed ==
    ASSUME IndexInv, FailedRooted, NEW bad \in Known, NEW caller, InvalidBlockFound(bad, caller)
    PROVE  FailedRooted' /\ FailedBlocks \subseteq FailedBlocks'
<1> DEFINE M == {bad} \cup Descendants(bad)
<1>1. IndexPart /\ TipPart
  BY Parts
<1>2. /\ headers \in Blocks /\ Ancestors[headers] \subseteq Known /\ Ancestors[headers] \subseteq Blocks
      /\ bad \in Blocks /\ index[bad] \in Status
  BY <1>1, AncestorFacts DEF TipPart, IndexPart, KnownClosed, Known, Statuses
<1>3. M \in SUBSET Known
  BY <1>2 DEF Descendants
<1>4. ASSUME NEW c \in M PROVE bad \in Ancestors[c]
  <2>1. CASE c = bad
    BY <1>2, <2>1, AncestorFacts
  <2>2. CASE c \in Descendants(bad)
    <3>1. c \in Ancestors[headers] /\ c \in Blocks /\ bad \in Ancestors[headers] /\ Height[c] > Height[bad]
      BY <1>2, <2>2 DEF Descendants, InChain
    <3>2. Height[bad] \in Nat /\ Height[c] \in Nat
      BY <1>2, <3>1, ChainAssumption
    <3>3. Height[bad] <= Height[c]
      BY <3>1, <3>2
    <3> QED
      BY <1>2, <3>1, <3>3, ChainLinear
  <2> QED
    BY <2>1, <2>2
<1>5. index' = Mark(M) /\ WriteBlockIndex(bad, [index[bad] EXCEPT !.failed = TRUE]) /\ bad \in M
  BY DEF InvalidBlockFound
<1> HIDE DEF M
<1> DEFINE st == [index[bad] EXCEPT !.failed = TRUE]
<1>6. st \in Status /\ st.failed
  BY <1>2 DEF Status
<1>7. st # Unknown
  BY <1>6, ChainAssumption
<1>8. diskIndex'[bad] = st /\ \A c \in Blocks \ {bad} : diskIndex'[c] = diskIndex[c]
  BY <1>1, <1>2, <1>5 DEF WriteBlockIndex, IndexPart, Statuses
<1> HIDE DEF st
<1>9. FailedOnDisk' = FailedOnDisk \cup {bad}
  BY <1>2, <1>6, <1>7, <1>8 DEF FailedOnDisk
<1>10. \A c \in M : Ancestors[c] \cap (FailedBlocks \cup FailedOnDisk') # {}
  BY <1>4, <1>9
<1> QED
  BY <1>1, <1>3, <1>5, <1>9, <1>10, RootedMarked

LEMMA RootedApply ==
    IndexInv /\ FailedRooted /\ ApplyBlock => FailedRooted' /\ FailedBlocks \subseteq FailedBlocks'
<1> SUFFICES ASSUME IndexInv, FailedRooted, ApplyBlock
             PROVE  FailedRooted' /\ FailedBlocks \subseteq FailedBlocks'
  OBVIOUS
<1>0. IndexPart /\ TipPart /\ WalkPart
  BY Parts
<1> DEFINE b == Lowest(newSet)
<1>1. b \in Known
  BY <1>0, LowestNew DEF ApplyBlock
<1>2. CASE Take(b)
  <2>1. index' = [index EXCEPT ![b].applied = TRUE] /\ WriteBlockIndex(b, index'[b])
    BY <1>2 DEF Take
  <2> HIDE DEF b
  <2> DEFINE st == [index[b] EXCEPT !.applied = TRUE]
  <2>2. b \in Blocks /\ index[b] \in Status
    BY <1>0, <1>1 DEF IndexPart, Statuses, Known
  <2>3. st \in Status /\ (st.failed <=> index[b].failed)
    BY <2>2 DEF Status
  <2>4. index'[b] = st
    BY <1>0, <2>1, <2>2 DEF IndexPart, Statuses
  <2> HIDE DEF st
  <2>5. Known' = Known /\ \A c \in Known : index'[c].failed <=> index[c].failed
    BY <1>0, <1>1, <2>1, EntryApplied
  <2>6. FailedBlocks' = FailedBlocks
    BY <2>5 DEF FailedBlocks, Failed
  <2>7. st.failed <=> b \in FailedBlocks
    BY <1>1, <2>3 DEF FailedBlocks, Failed
  <2> QED
    BY <1>0, <2>1, <2>2, <2>3, <2>4, <2>6, <2>7, RootedWritten DEF WriteBlockIndex
<1>3. CASE Refuse(b)
  BY <1>1, <1>3, RootedFailed DEF Refuse
<1> QED
  BY <1>2, <1>3 DEF ApplyBlock

LEMMA RootedStore ==
    IndexInv /\ FailedRooted /\ StoreBlock => FailedRooted' /\ FailedBlocks' = FailedBlocks
<1> SUFFICES ASSUME IndexInv, FailedRooted, StoreBlock
             PROVE  FailedRooted' /\ FailedBlocks' = FailedBlocks
  OBVIOUS
<1>0. IndexPart /\ ControlPart
  BY Parts
<1>1. CASE AlreadyApplied(accepting)
  BY <1>1, RootedSame DEF StoreBlock
<1>2. CASE ~AlreadyApplied(accepting)
  <2> DEFINE b == accepting
             st == [[index[b] EXCEPT !.data = TRUE] EXCEPT !.applied = FALSE]
  <2>1. b \in Known /\ b \in Blocks /\ index[b] \in Status
    BY <1>0 DEF StoreBlock, ControlPart, HandlerShape, Known, IndexPart, Statuses
  <2>2. st \in Status /\ (st.failed <=> index[b].failed)
    BY <2>1 DEF Status
  <2>3. /\ index' = [index EXCEPT ![b].data = TRUE, ![b].applied = FALSE]
        /\ WriteBlockIndex(b, index'[b])
    BY <1>2 DEF StoreBlock
  <2>4. index'[b] = st
    BY <1>0, <2>1, <2>3 DEF IndexPart, Statuses
  <2> HIDE DEF st, b
  <2>5. Known' = Known /\ \A c \in Known : index'[c].failed <=> index[c].failed
    BY <1>0, <2>1, <2>3, EntryStored
  <2>6. FailedBlocks' = FailedBlocks
    BY <2>5 DEF FailedBlocks, Failed
  <2>7. st.failed <=> b \in FailedBlocks
    BY <2>1, <2>2 DEF FailedBlocks, Failed
  <2> QED
    BY <1>0, <2>1, <2>2, <2>3, <2>4, <2>6, <2>7, RootedWritten DEF WriteBlockIndex
<1> QED
  BY <1>1, <1>2

\* A header that is not known has no mark on disk either.
LEMMA RootedInsert ==
    ASSUME IndexInv, FailedRooted, NEW b \in Blocks, b \notin Known, Insert(b), UNCHANGED diskIndex
    PROVE  FailedRooted' /\ FailedBlocks' = FailedBlocks
<1>1. IndexPart
  BY Parts
<1>2. index'[b] = HeaderStatus /\ \A c \in Blocks \ {b} : index'[c] = index[c]
  BY <1>1 DEF Insert, IndexPart, Statuses
<1>3. ~HeaderStatus.failed
  BY DEF HeaderStatus
<1>4. FailedBlocks' = FailedBlocks
  BY <1>2, <1>3 DEF FailedBlocks, Failed, Known
<1>5. FailedOnDisk' = FailedOnDisk
  BY DEF FailedOnDisk
<1> QED
  BY <1>4, <1>5 DEF FailedRooted

\* A start finds every mark again.
LEMMA RootedRestart ==
    /\ IndexInv /\ DiskClosed /\ FailedRooted /\ Restart
    => FailedRooted' /\ \A b \in FailedBlocks : index'[b] # Unknown => index'[b].failed
<1> SUFFICES ASSUME IndexInv, DiskClosed, FailedRooted, Restart
             PROVE  FailedRooted' /\ \A b \in FailedBlocks : index'[b] # Unknown => index'[b].failed
  OBVIOUS
<1>1. /\ Known' = OnDisk
      /\ \A b \in OnDisk : index'[b].failed <=> \E a \in Ancestors[b] : diskIndex[a].failed
  BY IndexLoaded, Parts
<1>2. \A b \in OnDisk : b \in Blocks /\ b \in Ancestors[b] /\ Ancestors[b] \subseteq Blocks
                        /\ \A a \in Ancestors[b] : diskIndex[a] # Unknown
  BY AncestorFacts DEF OnDisk
<1>3. FailedOnDisk' = FailedOnDisk
  BY DEF Restart, FailedOnDisk
<1>4. FailedBlocks' = {b \in OnDisk : Ancestors[b] \cap FailedOnDisk # {}}
  BY <1>1, <1>2 DEF FailedBlocks, Failed, FailedOnDisk
<1>5. FailedOnDisk \subseteq FailedBlocks'
  BY <1>2, <1>4 DEF DiskClosed, FailedOnDisk
<1>6. ASSUME NEW b \in FailedBlocks, index'[b] # Unknown PROVE index'[b].failed
  <2>1. b \in Known'
    BY <1>6 DEF FailedBlocks, Known
  <2>2. b \in FailedBlocks'
    BY <1>1, <1>4, <2>1 DEF FailedRooted
  <2> QED
    BY <2>2 DEF FailedBlocks, Failed
<1> QED
  BY <1>3, <1>4, <1>5, <1>6 DEF FailedRooted

LEMMA RootedNext ==
    /\ IndexInv /\ DiskClosed /\ FailedRooted /\ [Next]_vars
    => /\ FailedRooted'
       /\ \A b \in FailedBlocks : index'[b] # Unknown => index'[b].failed
<1> DEFINE Stays == \A b \in FailedBlocks : index'[b] # Unknown => index'[b].failed
<1> SUFFICES ASSUME IndexInv, DiskClosed, FailedRooted, [Next]_vars PROVE FailedRooted' /\ Stays
  OBVIOUS
<1>0. RestPart /\ IndexPart /\ TipPart /\ ControlPart
  BY Parts
<1>a. FailedBlocks \subseteq FailedBlocks' => Stays
  BY DEF FailedBlocks, Failed
<1> HIDE DEF Stays
<1>b. ASSUME UNCHANGED <<index, diskIndex>> PROVE FailedRooted' /\ Stays
  BY <1>a, <1>b, RootedSame
<1>1. CASE NoCandidates \/ ReorgDone
  BY <1>a, <1>1, RootedReturn DEF NoCandidates, ReorgDone, tree
<1>2. CASE ReorgDisconnect
  <2>1. CASE CanDisconnect
    BY <1>b, <1>2, <2>1 DEF ReorgDisconnect, tree
  <2>2. CASE ~CanDisconnect
    BY <1>a, <1>2, <2>2, RootedReturn DEF ReorgDisconnect, tree
  <2> QED
    BY <2>1, <2>2
<1>3. CASE FindBest
  BY <1>a, <1>3, RootedFindBest
<1>4. CASE ReorgPop \/ Restep \/ UnwindTip \/ UnwindDone \/ ConnectDone
  BY <1>b, <1>4 DEF ReorgPop, Restep, UnwindTip, UnwindDone, ConnectDone, tree
<1>5. CASE ConnectTip
  <2>1. CASE ConnectRefuses(NextBlock)
    <3>1. headers \in Known /\ headers \in Blocks /\ active \in Ancestors[headers] /\ active # headers
      BY <1>0, <1>5 DEF ConnectTip, CanConnect, ControlPart, HandlerShape, InChain, TipPart, Known
    <3>2. NextBlock \in Known
      BY <1>0, <3>1, NextBlockFacts DEF IndexPart, KnownClosed
    <3> QED
      BY <1>a, <1>5, <2>1, <3>2, RootedFailed DEF ConnectTip
  <2>2. CASE ~ConnectRefuses(NextBlock)
    BY <1>b, <1>5, <2>2 DEF ConnectTip
  <2> QED
    BY <2>1, <2>2
<1>6. CASE ActivateLedger \/ UndoBlock \/ WalkDone
  BY <1>b, <1>6 DEF ActivateLedger, UndoBlock, WalkDone, tree
<1>7. CASE ApplyBlock
  BY <1>a, <1>7, RootedApply
<1>8. CASE StoreBlock
  BY <1>a, <1>8, RootedStore
<1>9. CASE OrphansDone \/ Loaded
  BY <1>b, <1>9 DEF OrphansDone, Loaded, tree
<1>10. ASSUME NEW b \in Blocks, AcceptBlock(b), UNCHANGED diskIndex PROVE FailedRooted' /\ Stays
  BY <1>a, <1>b, <1>10, RootedInsert DEF AcceptBlock, tree
<1>11. CASE ProcessOrphan
  <2>1. PICK b \in unindexed : AcceptBlock(b)
    BY <1>11 DEF ProcessOrphan
  <2> QED
    BY <1>0, <1>10, <1>11, <2>1 DEF ProcessOrphan, RestPart
<1>12. ASSUME NEW b \in Blocks, ProcessBlockHeader(b) PROVE FailedRooted' /\ Stays
  BY <1>a, <1>12, RootedInsert DEF ProcessBlockHeader
<1>13. ASSUME NEW b \in Blocks, ProcessBlock(b) PROVE FailedRooted' /\ Stays
  BY <1>b, <1>10, <1>13 DEF ProcessBlock, tree
<1>14. CASE \E b \in Fragile : LoseBlock(b)
  BY <1>b, <1>14 DEF LoseBlock, tree
<1>15. CASE Restart
  BY <1>15, RootedRestart DEF Stays
<1>16. CASE UNCHANGED vars
  BY <1>b, <1>16 DEF vars, tree
<1> QED
  BY <1>1, <1>2, <1>3, <1>4, <1>5, <1>6, <1>7, <1>8, <1>9, <1>11, <1>12, <1>13, <1>14, <1>15, <1>16
  DEF Next, Step

\* As long as the index on disk has a block only with the blocks below it, no block
\* loses its mark while the index has it: not when it is stored again, written, applied
\* or left in a reorganisation, and not in a start that reads only one of the marks that
\* InvalidBlockFound and ActivateBestHeader set.
THEOREM FailedStaysFailed == Spec /\ []DiskClosed => FailedForGood
<1>1. /\ IndexInv /\ DiskClosed /\ FailedRooted /\ [Next]_vars
      => [\A b \in Known : Failed(b) /\ index'[b] # Unknown => index'[b].failed]_vars
  BY RootedNext DEF FailedBlocks
<1> QED
  BY <1>1, IndexInvAlways, RootedInit, RootedNext, PTL DEF Spec, FailedForGood
-----------------------------------------------------------------------------
(* The chain of most work *)

\* What was refused for its transactions was not applied.
LEMMA SoundSame ==
    ASSUME AppliedSound, AppliedOnDisk' \subseteq AppliedOnDisk
    PROVE  AppliedSound'
  BY DEF AppliedSound

LEMMA SoundReturn ==
    ASSUME IndexInv, AppliedSound, NEW ok \in BOOLEAN, HeaderReturn(ok), UNCHANGED index
    PROVE  AppliedSound'
<1>1. IndexPart /\ ControlPart
  BY Parts
<1>2. CASE UNCHANGED diskIndex
  BY <1>2 DEF AppliedSound, AppliedOnDisk
<1>3. CASE after \in {"accept", "store"} /\ WriteBlockIndex(accepting, index[accepting])
  <2>1. accepting \in Known
    BY <1>1, <1>3 DEF ControlPart, HandlerShape
  <2> QED
    BY <1>1, <1>3, <2>1, IndexWritten, SoundSame
<1> QED
  BY <1>2, <1>3 DEF HeaderReturn

LEMMA SoundConnect == IndexInv /\ AppliedSound /\ ConnectTip => AppliedSound'
<1> SUFFICES ASSUME IndexInv, AppliedSound, ConnectTip PROVE AppliedSound'
  OBVIOUS
<1>0. IndexPart /\ TipPart /\ ControlPart
  BY Parts
<1>1. headers \in Blocks /\ active \in Ancestors[headers] /\ active # headers
  BY <1>0 DEF ConnectTip, CanConnect, ControlPart, HandlerShape, InChain, TipPart, Known
<1>2. NextBlock \in Known /\ NextBlock # Genesis
  BY <1>0, <1>1, NextBlockFacts DEF IndexPart, KnownClosed, TipPart
<1>3. CASE ConnectRefuses(NextBlock)
  BY <1>0, <1>2, <1>3, BlockFailed, SoundSame DEF ConnectTip
<1>4. CASE ~ConnectRefuses(NextBlock)
  BY <1>4 DEF ConnectTip, AppliedSound, AppliedOnDisk
<1> QED
  BY <1>3, <1>4

LEMMA SoundApply == IndexInv /\ AppliedSound /\ ApplyBlock => AppliedSound'
<1> SUFFICES ASSUME IndexInv, AppliedSound, ApplyBlock PROVE AppliedSound'
  OBVIOUS
<1>0. IndexPart /\ TipPart /\ WalkPart
  BY Parts
<1> DEFINE b == Lowest(newSet)
<1>1. b \in Known /\ b # Genesis /\ Ancestors[b] \ {b} \subseteq AppliedOnDisk
  BY <1>0, LowestNew DEF ApplyBlock
<1>2. CASE (Applies(b) \/ Mends(b)) /\ Take(b)
  <2>1. /\ index' = [index EXCEPT ![b].applied = TRUE] /\ WriteBlockIndex(b, index'[b]) /\ HasData(b)
        /\ b \notin BadLedger
    BY <1>2 DEF Take, Applies, Mends, Readable
  <2> HIDE DEF b
  <2>2. AppliedOnDisk' = AppliedOnDisk \cup {b}
    BY <1>0, <1>1, <2>1, IndexApplied
  <2> QED
    BY <2>1, <2>2 DEF AppliedSound
<1>3. CASE Refuse(b)
  BY <1>0, <1>1, <1>3, BlockFailed, SoundSame DEF Refuse
<1> QED
  BY <1>2, <1>3 DEF ApplyBlock

LEMMA SoundStore == IndexInv /\ AppliedSound /\ StoreBlock => AppliedSound'
<1> SUFFICES ASSUME IndexInv, AppliedSound, StoreBlock PROVE AppliedSound'
  OBVIOUS
<1>0. IndexPart /\ ControlPart
  BY Parts
<1>1. CASE AlreadyApplied(accepting)
  BY <1>1 DEF StoreBlock, AppliedSound, AppliedOnDisk
<1>2. CASE ~AlreadyApplied(accepting)
  <2>1. accepting \in Known
    BY <1>0 DEF StoreBlock, ControlPart, HandlerShape
  <2> QED
    BY <1>0, <1>2, <2>1, IndexStored, SoundSame DEF StoreBlock
<1> QED
  BY <1>1, <1>2

LEMMA SoundInit == Init => AppliedSound
<1> SUFFICES ASSUME Init PROVE AppliedSound
  OBVIOUS
<1>1. AppliedOnDisk \subseteq {Genesis}
  BY DEF Init, AppliedOnDisk
<1> QED
  BY <1>1, ChainAssumption DEF AppliedSound

LEMMA SoundNext == IndexInv /\ AppliedSound /\ [Next]_vars => AppliedSound'
<1> SUFFICES ASSUME IndexInv, AppliedSound, [Next]_vars PROVE AppliedSound'
  OBVIOUS
<1>0. ASSUME UNCHANGED diskIndex PROVE AppliedSound'
  BY <1>0 DEF AppliedSound, AppliedOnDisk
<1>1. CASE NoCandidates \/ ReorgDone
  BY <1>1, SoundReturn DEF NoCandidates, ReorgDone, tree
<1>2. CASE ReorgDisconnect
  BY <1>0, <1>2, SoundReturn DEF ReorgDisconnect, tree
<1>3. CASE FindBest \/ ReorgPop \/ Restep \/ UnwindTip \/ UnwindDone \/ ConnectDone \/ OrphansDone \/ Loaded
  BY <1>0, <1>3 DEF FindBest, ReorgPop, Restep, UnwindTip, UnwindDone, ConnectDone, OrphansDone, Loaded
<1>4. CASE ConnectTip
  BY <1>4, SoundConnect
<1>5. CASE ActivateLedger \/ UndoBlock \/ WalkDone
  BY <1>0, <1>5 DEF ActivateLedger, UndoBlock, WalkDone
<1>6. CASE ApplyBlock
  BY <1>6, SoundApply
<1>7. CASE StoreBlock
  BY <1>7, SoundStore
<1>8. CASE ProcessOrphan \/ \E b \in Blocks \ {Genesis} : ProcessBlockHeader(b) \/ ProcessBlock(b)
  BY <1>0, <1>8 DEF ProcessOrphan, ProcessBlockHeader, ProcessBlock
<1>9. CASE (\E b \in Fragile : LoseBlock(b)) \/ Restart \/ UNCHANGED vars
  BY <1>0, <1>9 DEF LoseBlock, Restart, vars
<1> QED
  BY <1>1, <1>2, <1>3, <1>4, <1>5, <1>6, <1>7, <1>8, <1>9 DEF Next, Step

\* The candidate ActivateBestHeader takes has the most work of all blocks that have
\* not failed.
LEMMA BestHasMost ==
    ASSUME IndexInv, SearchInv, candidates # {}, NEW b \in Known, ~Failed(b)
    PROVE  Work[b] <= Work[Best]
<1>1. Best \in candidates /\ Best \in Blocks /\ \A c \in candidates \ {Best} : Better(Best, c)
  BY BestExists DEF IndexInv, TypeOK, Known
<1>2. b \in Blocks /\ Work[b] \in Nat /\ Work[Best] \in Nat
  BY <1>1, ChainAssumption DEF Known
<1>3. CASE b = Genesis \/ b = Best
  BY <1>1, <1>2, <1>3, GenesisLeast
<1>4. CASE b # Genesis /\ b # Best
  <2>1. b \in candidates
    BY <1>4 DEF SearchInv, CandidatesComplete, FailedBlocks
  <2> QED
    BY <1>1, <1>2, <1>4, <2>1 DEF Better
<1> QED
  BY <1>3, <1>4

LEMMA RestFixed ==
    ASSUME Known' = Known, headers' = headers,
           \A c \in Known : /\ index'[c].failed <=> index[c].failed
                            /\ index'[c].data <=> index[c].data
    PROVE  (HeadersBest' <=> HeadersBest) /\ (AllStored' <=> AllStored)
  BY DEF HeadersBest, AllStored, Failed, HasData

LEMMA RestUnchanged ==
    ASSUME UNCHANGED <<index, headers>>
    PROVE  (HeadersBest' <=> HeadersBest) /\ (AllStored' <=> AllStored)
  BY DEF HeadersBest, AllStored, Failed, HasData, Known

\* A call of ActivateBestHeader for a block that is stored already.
LEMMA RestCalled ==
    ASSUME pc' = "header", after' \in {"chain", "again", "load"}
    PROVE  RestInv'
  BY DEF RestInv

\* ActivateBestHeader has chosen.
LEMMA RestReturn ==
    ASSUME IndexInv, RestInv, pc \in {"header", "reorg"}, HeadersBest', HeaderReturn(TRUE), UNCHANGED index
    PROVE  RestInv'
<1>1. ControlPart
  BY Parts
<1>2. CASE after \in {"accept", "store"}
  <2>1. accepting \in Known /\ ~HasData(accepting)
    BY <1>1, <1>2 DEF ControlPart, HandlerShape, RestInv
  <2>2. ~AllStored'
    BY <2>1 DEF AllStored, Known, HasData
  <2>3. pc' \in {"idle", "store"} /\ after' = "none"
    BY <1>2 DEF HeaderReturn, GoOn
  <2> QED
    BY <2>2, <2>3 DEF RestInv
<1>3. CASE after \notin {"accept", "store"}
  <2>1. pc' \in {"unwind", "restep", "loaded"} /\ after' = "none"
    BY <1>3 DEF HeaderReturn, GoOn, RestInv
  <2> QED
    BY <2>1 DEF RestInv
<1> QED
  BY <1>2, <1>3

LEMMA RestChosen ==
    IndexInv /\ SearchInv /\ RestInv /\ (NoCandidates \/ ReorgDone) => RestInv'
<1> SUFFICES ASSUME IndexInv, SearchInv, RestInv, NoCandidates \/ ReorgDone PROVE RestInv'
  OBVIOUS
<1>1. CASE NoCandidates
  <2>1. UNCHANGED <<index, headers>> /\ HeaderReturn(TRUE) /\ pc = "header" /\ candidates = {}
    BY <1>1 DEF NoCandidates, tree
  <2>2. ASSUME NEW b \in Known, ~Failed(b) PROVE Work[b] <= Work[headers]
    <3>1. b = Genesis
      BY <2>1, <2>2 DEF SearchInv, CandidatesComplete, FailedBlocks
    <3>2. headers \in Blocks /\ Work[headers] \in Nat
      BY ChainAssumption DEF IndexInv, TypeOK, Known
    <3> QED
      BY <3>1, <3>2, GenesisLeast
  <2>3. HeadersBest'
    BY <2>1, <2>2, RestUnchanged DEF HeadersBest
  <2> QED
    BY <2>1, <2>3, RestReturn
<1>2. CASE ReorgDone
  <2>1. UNCHANGED index /\ headers' = Best /\ HeaderReturn(TRUE) /\ pc = "reorg"
    BY <1>2 DEF ReorgDone, tree
  <2>2. candidates # {}
    BY <2>1 DEF IndexInv, HandlerShape
  <2>3. \A b \in Known : ~Failed(b) => Work[b] <= Work[Best]
    BY <2>2, BestHasMost
  <2>4. HeadersBest'
    BY <2>1, <2>3 DEF HeadersBest, Known, Failed
  <2> QED
    BY <2>1, <2>4, RestReturn
<1> QED
  BY <1>1, <1>2

\* Every block that can be read is connected.
LEMMA RestConnect ==
    ASSUME NothingRefused, IndexInv, TxIndexFresh, NothingLost, RestInv, ConnectTip \/ ConnectDone
    PROVE  RestInv'
<1>0. IndexPart /\ TipPart /\ ControlPart
  BY Parts
<1>1. /\ pc = "connect" /\ headers \in Known /\ headers \in Blocks /\ active \in Ancestors[headers]
      /\ HeadersBest /\ after # "connect"
  BY <1>0 DEF ConnectTip, ConnectDone, ControlPart, HandlerShape, InChain, TipPart, Known, RestInv
<1>2. active # headers => /\ NextBlock \in Known /\ NextBlock \in Blocks /\ NextBlock # Genesis
                          /\ Parent[NextBlock] = active
  BY <1>0, <1>1, NextBlockFacts DEF IndexPart, KnownClosed
<1>3. CASE ConnectTip
  <2>1. active # headers
    BY <1>3 DEF ConnectTip, CanConnect
  <2>2. ~ConnectRefuses(NextBlock)
    <3> DEFINE b == NextBlock
    <3>1. b \in Blocks /\ Ancestors[b] = {b} \cup Ancestors[active] /\ b # Genesis
      BY <1>2, <2>1, ParentBelow
    <3>2. b \notin Ancestors[active]
      <4>1. active \in Blocks /\ Height[active] \in Nat /\ Height[b] = Height[active] + 1
        BY <1>2, <2>1, ParentBelow
      <4> QED
        BY <4>1, AncestorFacts
    <3> HIDE DEF b
    <3>3. ~loading => txIndex \subseteq UNION {Txs[a] : a \in Ancestors[active]}
      BY <1>1 DEF TxIndexFresh
    <3>4. \A a \in Ancestors[active] : Txs[a] \cap Txs[b] = {}
      BY <3>1, <3>2 DEF NothingRefused, Repeats
    <3>5. ~loading => Txs[b] \cap txIndex = {}
      BY <3>3, <3>4
    <3> QED
      BY <3>5 DEF b, ConnectRefuses, NothingRefused
  <2>3. UNCHANGED <<index, headers, pc, after>>
    BY <1>3, <2>2 DEF ConnectTip
  <2>4. HeadersBest'
    BY <1>1, <2>3, RestUnchanged
  <2> QED
    BY <1>1, <2>3, <2>4 DEF RestInv
<1>4. CASE ConnectDone
  <2>1. UNCHANGED <<index, headers, active, after>> /\ pc' = "trie" /\ ~CanConnect
    BY <1>4 DEF ConnectDone, tree
  <2>2. AllStored => active = headers
    BY <1>2, <2>1 DEF AllStored, CanConnect, Readable, NothingLost
  <2>3. HeadersBest' /\ (AllStored' => headers' = active')
    BY <1>1, <2>1, <2>2, RestUnchanged
  <2> QED
    BY <1>1, <2>1, <2>3 DEF RestInv
<1> QED
  BY <1>3, <1>4

\* The ledger follows: every block to be undone has undo data, and a block that is
\* refused starts the search again.
LEMMA RestWalk ==
    ASSUME IndexInv, WalkPath, RestInv, ActivateLedger \/ UndoBlock \/ ApplyBlock \/ WalkDone
    PROVE  RestInv'
<1>0. IndexPart /\ TipPart /\ WalkPart
  BY Parts
<1>1. /\ pc \in {"trie", "walk"} /\ after # "connect"
      /\ AllStored => HeadersBest /\ headers = active
  BY DEF ActivateLedger, UndoBlock, ApplyBlock, WalkDone, RestInv
<1>2. ASSUME UNCHANGED <<headers, active>>, HeadersBest' <=> HeadersBest, AllStored' <=> AllStored,
             pc' = "walk", after' \in {after, "none"}
      PROVE  RestInv'
  BY <1>1, <1>2 DEF RestInv
<1>3. CASE ActivateLedger
  <2>1. trieBest \in Known
    BY DEF IndexInv, TypeOK
  <2>2. UNCHANGED <<index, headers, active>> /\ pc' = "walk" /\ after' = "none"
    BY <1>3, <2>1 DEF ActivateLedger, GoOn, tree
  <2> QED
    BY <1>2, <2>2, RestUnchanged
<1>4. CASE UndoBlock
  <2> DEFINE b == Highest(oldSet)
  <2>1. oldSet \in SUBSET Blocks /\ oldSet # {} /\ oldSet \subseteq AppliedOnDisk
    BY <1>0, <1>4 DEF UndoBlock, WalkPart, WalkShape
  <2>2. b \in AppliedOnDisk
    BY <2>1, HighestExists
  <2>3. index[b].applied
    BY <1>0, <2>2 DEF IndexPart, AppliedAgree, AppliedOnDisk
  <2>4. UNCHANGED <<index, headers, active, pc, after>> /\ pc = "walk"
    BY <1>4, <2>3 DEF UndoBlock, tree, control
  <2> QED
    BY <1>2, <2>4, RestUnchanged
<1>5. CASE ApplyBlock
  <2> DEFINE b == Lowest(newSet)
  <2>1. b \in Known /\ b # Genesis
    BY <1>0, <1>5, LowestNew DEF ApplyBlock
  <2>2. CASE Take(b)
    <3>1. /\ index' = [index EXCEPT ![b].applied = TRUE]
          /\ UNCHANGED <<headers, active, pc, after>> /\ pc = "walk"
      BY <1>5, <2>2 DEF ApplyBlock, Take
    <3> HIDE DEF b
    <3>2. (HeadersBest' <=> HeadersBest) /\ (AllStored' <=> AllStored)
      BY <1>0, <2>1, <3>1, EntryApplied, RestFixed
    <3> QED
      BY <1>2, <3>1, <3>2
  <2>3. CASE Refuse(b)
    BY <2>3, RestCalled DEF Refuse, InvalidBlockFound, ActivateBestHeader
  <2> QED
    BY <1>5, <2>2, <2>3 DEF ApplyBlock
<1>6. CASE WalkDone
  <2>1. /\ UNCHANGED <<index, headers, active, ledger>> /\ trieBest' = active
        /\ pc' \in {"idle", "orphans"} /\ after' = "none"
    BY <1>6 DEF WalkDone, Finish, tree
  <2>2. ledger = active
    <3>1. Ancestors[ledger] \subseteq Ancestors[active] /\ Ancestors[active] \subseteq Ancestors[ledger]
      BY <1>6 DEF WalkDone, WalkPath
    <3>2. /\ active \in Blocks /\ ledger \in Blocks
          /\ active \in Ancestors[ledger] /\ ledger \in Ancestors[active]
      BY <3>1, WalkTips
    <3>3. Height[active] \in Nat /\ Height[ledger] \in Nat
      BY <3>2, ChainAssumption
    <3>4. ledger # active => Height[active] < Height[ledger] /\ Height[ledger] < Height[active]
      BY <3>2, AncestorFacts
    <3> QED
      BY <3>3, <3>4
  <2>3. (HeadersBest' <=> HeadersBest) /\ (AllStored' <=> AllStored)
    BY <2>1, RestUnchanged
  <2>4. AllStored' => Settled'
    BY <1>1, <2>1, <2>2, <2>3 DEF Settled
  <2> QED
    BY <2>1, <2>4 DEF RestInv
<1> QED
  BY <1>3, <1>4, <1>5, <1>6

\* Nothing happened to what is at rest.
LEMMA RestStays ==
    ASSUME RestInv, UNCHANGED <<index, headers, active, trieBest, ledger>>, after' \in {after, "none"},
           pc \in {"idle", "orphans", "store"}, pc' \in {"idle", "orphans", "store"}
    PROVE  RestInv'
<1>1. (HeadersBest' <=> HeadersBest) /\ (AllStored' <=> AllStored)
  BY RestUnchanged
<1> QED
  BY <1>1 DEF RestInv, Settled

\* A new header comes without its block.
LEMMA RestInsert ==
    ASSUME IndexInv, NEW b \in Blocks, b \notin Known, Insert(b), NEW caller \in {"accept", "store"},
           pc' = "header", after' = caller, accepting' = b
    PROVE  RestInv'
<1>1. ~HasData(b)'
  BY EntryInserted, Parts DEF Insert, HasData
<1>2. ~HasData(accepting)'
  BY <1>1 DEF HasData
<1> QED
  BY <1>2 DEF RestInv

LEMMA RestAccepted ==
    ASSUME IndexInv, RestInv, NEW b \in Blocks, AcceptBlock(b), pc \in {"idle", "orphans"},
           UNCHANGED <<active, trieBest, ledger>>
    PROVE  RestInv'
<1>1. CASE b \notin Known /\ HeaderAccepted(b)
  BY <1>1, RestInsert DEF AcceptBlock, ActivateBestHeader
<1>2. CASE ~(b \notin Known /\ HeaderAccepted(b))
  BY <1>2, RestStays DEF AcceptBlock, tree
<1> QED
  BY <1>1, <1>2

LEMMA RestInit == Init => RestInv
<1> SUFFICES ASSUME Init PROVE RestInv
  OBVIOUS
<1>1. Known \subseteq {Genesis} /\ headers = Genesis /\ Work[Genesis] \in Nat
  BY ChainAssumption DEF Init, Known
<1>2. HeadersBest
  BY <1>1 DEF HeadersBest
<1> QED
  BY <1>2 DEF Init, RestInv, Settled

LEMMA RestNext ==
    ASSUME NothingRefused
    PROVE  /\ IndexInv /\ SearchInv /\ StoredInv /\ WalkPath /\ TxIndexFresh /\ NothingLost /\ RestInv
           /\ [Next]_vars
           => RestInv'
<1> SUFFICES ASSUME IndexInv, SearchInv, StoredInv, WalkPath, TxIndexFresh, NothingLost, RestInv,
                    [Next]_vars
             PROVE  RestInv'
  OBVIOUS
<1>0. CanDisconnect
  BY TipReadable
<1>1. CASE NoCandidates \/ ReorgDone
  BY <1>1, RestChosen
<1>2. CASE FindBest
  <2>1. UNCHANGED <<index, after, accepting>> /\ pc = "header" /\ pc' \in {"header", "reorg"}
    BY <1>2, SearchFound DEF FindBest, Drop
  <2> QED
    BY <2>1 DEF RestInv, HasData
<1>3. CASE ReorgDisconnect \/ ReorgPop
  <2>1. UNCHANGED <<index, after, accepting, pc>> /\ pc = "reorg"
    BY <1>0, <1>3 DEF ReorgDisconnect, ReorgPop, tree, control
  <2> QED
    BY <2>1 DEF RestInv, HasData
<1>4. CASE Restep \/ Loaded
  BY <1>4, RestCalled DEF Restep, Loaded, ActivateBestHeader
<1>5. CASE UnwindTip \/ UnwindDone
  <2>1. UNCHANGED <<index, headers, after>> /\ pc = "unwind" /\ pc' \in {"unwind", "connect"}
    BY <1>0, <1>5 DEF UnwindTip, UnwindDone, tree
  <2>2. HeadersBest'
    BY <2>1, RestUnchanged DEF RestInv
  <2> QED
    BY <2>1, <2>2 DEF RestInv
<1>6. CASE ConnectTip \/ ConnectDone
  BY <1>6, RestConnect
<1>7. CASE ActivateLedger \/ UndoBlock \/ ApplyBlock \/ WalkDone
  BY <1>7, RestWalk
<1>8. CASE StoreBlock
  <2>1. CASE AlreadyApplied(accepting)
    BY <1>8, <2>1, RestStays DEF StoreBlock, Finish, trie
  <2>2. CASE ~AlreadyApplied(accepting)
    BY <1>8, <2>2, RestCalled DEF StoreBlock, ActivateBestHeader
  <2> QED
    BY <2>1, <2>2
<1>9. CASE ProcessOrphan
  <2>1. PICK b \in unindexed : AcceptBlock(b)
    BY <1>9 DEF ProcessOrphan
  <2>2. b \in Blocks /\ pc = "orphans" /\ UNCHANGED <<active, trieBest, ledger>>
    BY <1>9 DEF ProcessOrphan, trie, IndexInv, TypeOK
  <2> QED
    BY <2>1, <2>2, RestAccepted
<1>10. CASE OrphansDone
  BY <1>10, RestStays DEF OrphansDone, tree, trie
<1>11. ASSUME NEW b \in Blocks, ProcessBlockHeader(b) PROVE RestInv'
  BY <1>11, RestInsert DEF ProcessBlockHeader, ActivateBestHeader
<1>12. ASSUME NEW b \in Blocks, ProcessBlock(b) PROVE RestInv'
  <2>1. CASE Parent[b] \in Known
    BY <1>12, <2>1, RestAccepted DEF ProcessBlock, trie
  <2>2. CASE Parent[b] \notin Known
    BY <1>12, <2>2, RestStays DEF ProcessBlock, tree, trie
  <2> QED
    BY <2>1, <2>2
<1>13. CASE (\E b \in Fragile : LoseBlock(b)) \/ UNCHANGED vars
  <2>1. UNCHANGED <<index, headers, active, trieBest, ledger, pc, after, accepting>>
    BY <1>13 DEF LoseBlock, vars, tree, trie, control
  <2>2. (HeadersBest' <=> HeadersBest) /\ (AllStored' <=> AllStored)
    BY <2>1, RestUnchanged
  <2> QED
    BY <2>1, <2>2 DEF RestInv, Settled, HasData
<1>14. CASE Restart
  BY <1>14, RestCalled DEF Restart
<1> QED
  BY <1>1, <1>2, <1>3, <1>4, <1>5, <1>6, <1>7, <1>8, <1>9, <1>10, <1>11, <1>12, <1>13, <1>14
  DEF Next, Step

\* For chains without bad signatures and repeated transactions, but with blocks that
\* the ledger refuses: as long as blocks are stored after their parents, the disk keeps
\* them, the first block above a fork is not refused, no block is refused half-way after
\* it used an account twice and the transaction index has no transaction of another
\* branch, every handler that ends with all blocks stored leaves
\* the node on a valid chain of most work with its ledger there, in whatever order
\* headers and blocks came and wherever the process died and was started again.
THEOREM RestsOnBest ==
    ASSUME NothingRefused
    PROVE  /\ Spec /\ []StoredInOrder /\ []NothingLost
           /\ []ForkHolds /\ []CleanRefusal /\ []TxIndexFresh
           => []BestAtRest
<1>1. IndexInv /\ RestInv /\ AppliedSound => BestAtRest
  <2> SUFFICES ASSUME IndexInv, RestInv, AppliedSound, pc = "idle", \A b \in Known : HasData(b)
               PROVE  /\ active \in Valid
                      /\ \A b \in Known \cap Valid : ~Failed(b) => Work[b] <= Work[active]
                      /\ trieBest = active
                      /\ ledger = active
    BY DEF BestAtRest
  <2>1. HeadersBest /\ headers = active /\ trieBest = active /\ ledger = active
    BY DEF RestInv, AllStored, Settled
  <2>2. active \in AppliedOnDisk /\ Ancestors[active] \subseteq AppliedOnDisk /\ active \in Blocks
    BY <2>1 DEF IndexInv, LedgerApplied, AppliedClosed, AppliedOnDisk
  <2>3. Faulty \subseteq BadLedger
    BY DEF Faulty, NothingRefused
  <2>4. Ancestors[active] \cap Faulty = {}
    BY <2>2, <2>3 DEF AppliedSound
  <2>5. active \in Valid
    BY <2>2, <2>4 DEF Valid
  <2> QED
    BY <2>1, <2>5 DEF HeadersBest
<1>2. /\ IndexInv /\ SearchInv /\ StoredInv /\ WalkPath /\ TxIndexFresh /\ NothingLost /\ RestInv
      /\ [Next]_vars
      => RestInv'
  BY RestNext
<1> QED
  BY <1>1, <1>2, IndexInvAlways, SearchAlways, StoredAlways, PathAlways, RestInit, SoundInit, SoundNext,
     PTL DEF Spec
\* What is to be applied is a part of the connected chain, which is stored.
LEMMA WalkIsStored == IndexInv /\ StoredInv => WalkStored
<1> SUFFICES ASSUME IndexInv, StoredInv, pc = "walk", NEW b \in newSet PROVE HasData(b)
  BY DEF WalkStored
<1>1. b \in Ancestors[active]
  BY DEF IndexInv, WalkShape
<1> QED
  BY <1>1 DEF StoredInv, Stored

\* On a disk that loses nothing and for blocks that break no rule, two things are enough
\* for all three: blocks are stored after their parents, and outside a start the
\* transaction index has no transaction of another branch.  Then no block is ever
\* marked as failed, no loop turns for ever and every handler ends on the chain of
\* most work, through every order of arrival, reorganisation and restart.
COROLLARY SoundBlocksRest ==
    ASSUME NothingRefused, BadLedger = {}, Fragile = {}
    PROVE  Spec /\ []StoredInOrder /\ []TxIndexFresh => [](NeverFailsValid /\ NeverHangs /\ BestAtRest)
<1>1. IndexInv => NothingLost
  BY DEF IndexInv, TypeOK, NothingLost
<1>2. IndexInv /\ StoredInv => ForkHolds
  <2> SUFFICES ASSUME IndexInv, StoredInv, pc = "walk", oldSet = {}, newSet # {}
               PROVE  Readable(Lowest(newSet)) /\ Lowest(newSet) \notin BadLedger
    BY DEF ForkHolds
  <2>1. IndexPart /\ TipPart /\ WalkPart
    BY Parts
  <2>2. Lowest(newSet) \in newSet
    BY <2>1, LowestNew
  <2> QED
    BY <1>1, <2>2, WalkIsStored DEF WalkStored, Readable, NothingLost
<1>3. CleanRefusal
  BY ChainAssumption DEF CleanRefusal
<1>4. /\ Spec /\ []StoredInOrder /\ []NothingLost /\ []ForkHolds /\ []CleanRefusal /\ []TxIndexFresh
      => []BestAtRest
  BY RestsOnBest
<1> QED
  BY <1>1, <1>2, <1>3, <1>4, IndexInvAlways, StoredAlways, WalkIsStored, ValidNeverFails, LoopsAlwaysEnd, PTL
=============================================================================
