--------------------------- MODULE TrieViewProofs ---------------------------
(***************************************************************************)
(* Theorems about TrieView for every block tree, every content of the      *)
(* blocks and every set of accounts.                                       *)
(***************************************************************************)
EXTENDS TrieViewInv, TLAPS, WellFoundedInduction

-----------------------------------------------------------------------------
(* Walking the block tree *)

LEMMA AncestorsType == \A b \in Blocks : Ancestors[b] \subseteq Blocks
  BY TreeAssumption

LEMMA SelfIsAncestor == \A b \in Blocks : b \in Ancestors[b]
  BY TreeAssumption

\* A set of blocks has a lowest one.
LEMMA LowestExists ==
    ASSUME NEW S \in SUBSET Blocks, S # {}
    PROVE  /\ Lowest(S) \in S
           /\ \A c \in S : Height[Lowest(S)] <= Height[c]
<1> DEFINE T == {Height[c] : c \in S}
<1>1. T \subseteq Nat /\ T # {}
  BY BlocksAssumption
<1>2. PICK x \in T : \A y \in T : ~(<<y, x>> \in OpToRel(<, Nat))
  <2> HIDE DEF T
  <2> QED
    BY <1>1, NatLessThanWellFounded, WFMin
<1>3. \A y \in T : x <= y
  <2>1. \A y \in T : ~(y < x)
    BY <1>1, <1>2, Zenon DEF OpToRel
  <2>2. \A m, n \in Nat : ~(n < m) => m <= n
    OBVIOUS
  <2> HIDE DEF T
  <2> QED
    BY <1>1, <2>1, <2>2
<1>4. PICK b \in S : x = Height[b]
  OBVIOUS
<1>5. \A c \in S : Height[b] <= Height[c]
  BY <1>3, <1>4
<1> QED
  BY <1>4, <1>5 DEF Lowest

\* Above the fork point the highest block to undo is the one the ledger is at,
\* and below it the path continues at its parent.
LEMMA UndoPath ==
    ASSUME NEW x \in Blocks, NEW t \in Blocks, Ancestors[x] \ Ancestors[t] # {}
    PROVE  LET old == Ancestors[x] \ Ancestors[t]
           IN /\ Highest(old) = x
              /\ Parent[x] \in Blocks
              /\ old \ {x} = Ancestors[Parent[x]] \ Ancestors[t]
              /\ Ancestors[t] \ Ancestors[x] = Ancestors[t] \ Ancestors[Parent[x]]
<1> DEFINE old == Ancestors[x] \ Ancestors[t]
<1>1. x \notin Ancestors[t]
  BY TreeAssumption
<1>2. x \in old /\ old \subseteq Blocks
  BY <1>1, SelfIsAncestor, AncestorsType
<1>3. \A c \in old : c # x => Height[c] < Height[x]
  BY TreeAssumption
<1>4. \A c \in old : Height[c] \in Nat
  BY <1>2, BlocksAssumption
<1>5. Highest(old) = x
  <2>1. \A c \in old : Height[c] <= Height[x]
    BY <1>2, <1>3, <1>4
  <2>2. \A h \in old : (\A c \in old : Height[c] <= Height[h]) => h = x
    BY <1>2, <1>3, <1>4
  <2> HIDE DEF old
  <2> QED
    BY <1>2, <2>1, <2>2 DEF Highest
<1>6. x # Genesis
  BY <1>1, TreeAssumption
<1>7. Parent[x] \in Blocks
  BY <1>6, TreeAssumption, BlocksAssumption
<1>8. Ancestors[x] = {x} \cup Ancestors[Parent[x]]
  BY <1>6, TreeAssumption
<1>9. x \notin Ancestors[Parent[x]]
  <2>1. Height[Parent[x]] < Height[x]
    BY <1>6, TreeAssumption
  <2>2. x \in Ancestors[Parent[x]] /\ x # Parent[x] => Height[x] < Height[Parent[x]]
    BY <1>7, TreeAssumption
  <2> QED
    BY <2>1, <2>2, <1>7, BlocksAssumption
<1> QED
  BY <1>1, <1>5, <1>7, <1>8, <1>9

\* Two blocks below each other are the same block.
LEMMA AncestorsAntisymmetric ==
    ASSUME NEW x \in Blocks, NEW y \in Blocks, x \in Ancestors[y], y \in Ancestors[x]
    PROVE  x = y
<1>1. x # y => Height[x] < Height[y] /\ Height[y] < Height[x]
  BY TreeAssumption
<1> QED
  BY <1>1, BlocksAssumption

\* At the fork point the lowest block to apply is the child of the block the
\* ledger is at, and above it the path continues at that child.
LEMMA ApplyPath ==
    ASSUME NEW x \in Blocks, NEW t \in Blocks,
           Ancestors[x] \ Ancestors[t] = {}, Ancestors[t] \ Ancestors[x] # {},
           NEW l, l = Lowest(Ancestors[t] \ Ancestors[x])
    PROVE  /\ l \in Blocks
           /\ Parent[l] = x
           /\ Ancestors[l] \ Ancestors[t] = {}
           /\ (Ancestors[t] \ Ancestors[x]) \ {l} = Ancestors[t] \ Ancestors[l]
<1> DEFINE new == Ancestors[t] \ Ancestors[x]
<1>1. new \in SUBSET Blocks /\ new # {}
  BY AncestorsType
<1>2. l \in new /\ \A c \in new : Height[l] <= Height[c]
  <2> HIDE DEF new
  <2> QED
    BY <1>1, LowestExists DEF new
<1>3. l \in Blocks /\ l \in Ancestors[t] /\ l \notin Ancestors[x]
  BY <1>1, <1>2
<1>4. l # Genesis
  BY <1>3, TreeAssumption
<1> DEFINE p == Parent[l]
<1>5. p \in Blocks /\ Height[p] < Height[l]
  BY <1>3, <1>4, TreeAssumption, BlocksAssumption
<1>6. Ancestors[l] = {l} \cup Ancestors[p]
  BY <1>3, <1>4, TreeAssumption
<1>7. Ancestors[l] \subseteq Ancestors[t]
  BY <1>3, TreeAssumption
<1>8. p \in Ancestors[t]
  BY <1>5, <1>6, <1>7, SelfIsAncestor
<1>9. p \notin new
  <2>1. Height[p] \in Nat /\ Height[l] \in Nat
    BY <1>3, <1>5, BlocksAssumption
  <2>2. p \in new => Height[l] <= Height[p]
    BY <1>2
  <2> HIDE DEF p, new
  <2> QED
    BY <1>5, <2>1, <2>2
<1>10. p \in Ancestors[x]
  BY <1>8, <1>9
<1>11. x \in Ancestors[t] /\ x \in Ancestors[x]
  BY SelfIsAncestor
<1>12. x \in Ancestors[l]
  BY <1>3, <1>11, TreeAssumption
<1>13. x \in Ancestors[p]
  BY <1>3, <1>6, <1>11, <1>12
<1>14. p = x
  BY <1>5, <1>10, <1>13, AncestorsAntisymmetric
<1> QED
  BY <1>3, <1>6, <1>7, <1>14

\* Position finds the block the ledger is at.
LEMMA PositionIs ==
    ASSUME NEW x \in Blocks, NEW t \in Blocks
    PROVE  Position(Ancestors[x] \ Ancestors[t], Ancestors[t] \ Ancestors[x], t) = x
<1>1. CASE Ancestors[x] \ Ancestors[t] # {}
  BY <1>1, UndoPath DEF Position
<1>2. CASE Ancestors[x] \ Ancestors[t] = {} /\ Ancestors[t] \ Ancestors[x] # {}
  BY <1>2, ApplyPath DEF Position
<1>3. CASE Ancestors[x] \ Ancestors[t] = {} /\ Ancestors[t] \ Ancestors[x] = {}
  <2>1. x = t
    BY <1>3, SelfIsAncestor, AncestorsAntisymmetric
  <2> QED
    BY <1>3, <2>1 DEF Position
<1> QED
  BY <1>1, <1>2, <1>3

-----------------------------------------------------------------------------
(* Type correctness *)

\* What one operation of TempApply that is not refused does to the ledger and
\* to TempApply's locals stays within their types.
LEMMA InputType ==
    ASSUME TypeOK, NEW o \in Operation, ~InputRejected(o), Input(o)
    PROVE  /\ root' \in Trie
           /\ undos' \in Seq(CTxUndo)
           /\ limits' \in [Keys -> Nat]
           /\ setLimit' \subseteq Keys
           /\ setTxIn' \subseteq Keys
<1> DEFINE acct == root[o.key]
<1>1. o.key \in Keys /\ o.value \in Nat /\ o.nLimitValue \in Nat /\ o.fSetLimit \in BOOLEAN
  BY DEF Operation
<1>2. acct \in Account
  BY <1>1 DEF TypeOK, Trie, InputRejected
<1>3. acct.balance \in Nat /\ acct.limit \in Nat /\ acct.futurelimit \in Nat /\ o.value <= acct.balance
  BY <1>1, <1>2 DEF InputRejected, Account
<1>4. cur.nHeight \in Nat
  BY DEF TypeOK, CBlock
<1>5. Spent(acct, o) \in Account
  BY <1>1, <1>3, <1>4 DEF Spent, Account
<1>6. root' \in Trie
  BY <1>1, <1>5 DEF Input, TypeOK, Trie
<1>7. undos' \in Seq(CTxUndo)
  <2>1. (acct.balance - o.value < MIN_BALANCE) \in BOOLEAN
    OBVIOUS
  <2>2. [key |-> o.key, create |-> FALSE,
         destroy |-> acct.balance - o.value < MIN_BALANCE, acct |-> acct] \in CTxUndo
    BY <1>1, <1>2, <2>1 DEF CTxUndo
  <2> QED
    BY <2>2 DEF Input, TypeOK
<1>8. Room(o.key) \in Nat
  BY <1>1, <1>3 DEF Room, TypeOK
<1>9. ~o.fSetLimit => o.value <= Room(o.key)
  BY <1>1, <1>8 DEF InputRejected, PastLimit
<1>10. limits' \in [Keys -> Nat]
  BY <1>1, <1>8, <1>9 DEF Input, TypeOK
<1>11. setLimit' \subseteq Keys /\ setTxIn' \subseteq Keys
  BY <1>1 DEF Input, TypeOK
<1> QED
  BY <1>6, <1>7, <1>10, <1>11

LEMMA OutputType ==
    ASSUME TypeOK, NEW o \in Operation, Output(o)
    PROVE  /\ root' \in Trie
           /\ undos' \in Seq(CTxUndo)
           /\ UNCHANGED <<limits, setLimit, setTxIn>>
<1> DEFINE acct == root[o.key]
           create == acct = NoNode
           created == [balance |-> o.value, age |-> cur.nHeight,
                       limit |-> UINT64_MAX, futurelimit |-> UINT64_MAX]
           raised == [balance |-> Wrap(acct.balance + o.value), age |-> acct.age,
                      limit |-> acct.limit, futurelimit |-> acct.futurelimit]
<1>1. o.key \in Keys /\ o.value \in Nat
  BY DEF Operation
<1>2. acct \in Account \cup {NoNode}
  BY <1>1 DEF TypeOK, Trie
<1>3. cur.nHeight \in Nat
  BY DEF TypeOK, CBlock
<1>4. created \in Account
  BY <1>1, <1>3, ConstantsAssumption DEF Account
<1>5. ~create => raised \in Account
  <2>1. \A x \in Nat : Wrap(x) \in Nat
    BY ConstantsAssumption DEF Wrap
  <2>2. ~create => /\ acct.balance \in Nat /\ acct.age \in Nat
                   /\ acct.limit \in Nat /\ acct.futurelimit \in Nat
    BY <1>2 DEF Account
  <2>3. ~create => Wrap(acct.balance + o.value) \in Nat
    BY <1>1, <2>1, <2>2
  <2> QED
    BY <2>2, <2>3 DEF Account
<1>6. NoAccount \in Account
  BY DEF NoAccount, Account
<1>7. root' \in Trie
  BY <1>1, <1>4, <1>5 DEF Output, TypeOK, Trie
<1>8. [key |-> o.key, create |-> create, destroy |-> FALSE,
       acct |-> IF create THEN NoAccount ELSE acct] \in CTxUndo
  BY <1>1, <1>2, <1>6 DEF CTxUndo
<1>9. undos' \in Seq(CTxUndo)
  BY <1>8 DEF Output, TypeOK
<1> QED
  BY <1>7, <1>9 DEF Output

LEMMA BlockOfType == \A b \in Blocks : BlockOf(b) \in CBlock
  BY BlocksAssumption DEF BlockOf, CBlock

LEMMA IdleBlockType == IdleBlock \in CBlock
<1>1. <<>> \in Seq(Operation)
  OBVIOUS
<1> QED
  BY <1>1 DEF IdleBlock, CBlock

LEMMA StartType ==
    ASSUME NEW block \in CBlock, StartTempApply(block)
    PROVE  /\ pc' = "temp"
           /\ cur' \in CBlock
           /\ next' \in Nat \ {0}
           /\ undos' \in Seq(CTxUndo)
           /\ limits' \in [Keys -> Nat]
           /\ setLimit' \subseteq Keys
           /\ setTxIn' \subseteq Keys
  BY DEF StartTempApply

LEMMA ForgetType ==
    ASSUME ForgetTemp
    PROVE  /\ cur' \in CBlock
           /\ next' \in Nat \ {0}
           /\ undos' \in Seq(CTxUndo)
           /\ limits' \in [Keys -> Nat]
           /\ setLimit' \subseteq Keys
           /\ setTxIn' \subseteq Keys
  BY IdleBlockType DEF ForgetTemp

LEMMA SetPathType ==
    ASSUME NEW from \in Blocks, NEW to \in Blocks, SetPath(from, to)
    PROVE  /\ target' \in Blocks
           /\ oldSet' \subseteq Blocks
           /\ newSet' \subseteq Blocks
           /\ pc' = "undo"
  BY AncestorsType DEF SetPath

LEMMA ReturnType ==
    ASSUME TypeOK, NEW ok \in BOOLEAN, NEW best \in Blocks \cup {NoBlock},
           NEW strayed \in BOOLEAN, Return(ok, best, strayed),
           ok /\ caller = "visit" => best \in Blocks /\ oldHash \in Blocks
    PROVE  /\ bestBlock' \in Blocks \cup {NoBlock}
           /\ stray' \in BOOLEAN
           /\ pc' \in {"undo", "flush", "down", "idle"}
           /\ caller' \in {"none", "restore", "init"}
           /\ target' \in Blocks \cup {NoBlock}
           /\ oldHash' \in Blocks \cup {NoBlock}
           /\ oldSet' \subseteq Blocks
           /\ newSet' \subseteq Blocks
<1>1. CASE ok /\ caller = "visit"
  BY <1>1, SetPathType DEF Return, TypeOK
<1>2. CASE ~(ok /\ caller = "visit")
  BY <1>2 DEF Return, NoPath, TypeOK
<1> QED
  BY <1>1, <1>2

\* The block to undo is the one the ledger is at.
LEMMA AtHighest ==
    ASSUME CallShape, pc \in {"undo", "disconnect"}, oldSet # {}
    PROVE  Highest(oldSet) = LedgerAt /\ LedgerAt \in Blocks
  BY DEF CallShape, OnPath, LedgerAt, Position, Busy

\* The block under TempApply, unless it is a candidate.
LEMMA CurBlock ==
    ASSUME TypeOK, CallShape, pc \in {"temp", "accept", "reject"}, caller # "hash"
    PROVE  cur.hash \in Blocks
<1>1. CASE caller = "init"
  BY <1>1, ConstantsAssumption DEF CallShape, BlockOf, Busy
<1>2. CASE caller # "init"
  <2>1. newSet # {} /\ newSet \in SUBSET Blocks /\ cur = BlockOf(Lowest(newSet))
    BY <1>2 DEF CallShape, Walkers, TypeOK
  <2>2. Lowest(newSet) \in Blocks
    BY <2>1, LowestExists
  <2> QED
    BY <2>1, <2>2 DEF BlockOf
<1> QED
  BY <1>1, <1>2

LEMMA ReverseType ==
    ASSUME NEW u \in Seq(CTxUndo)
    PROVE  /\ UndosLatestFirst(u) \in Seq(CTxUndo)
           /\ Len(UndosLatestFirst(u)) = Len(u)
           /\ \A i \in 1..Len(u) : UndosLatestFirst(u)[i] = u[(Len(u) - i) + 1]
<1>1. \A i \in 1..Len(u) : u[(Len(u) - i) + 1] \in CTxUndo
  OBVIOUS
<1> QED
  BY <1>1 DEF UndosLatestFirst, Reverse

\* Every step keeps the types.
LEMMA TypeNext == TypeOK /\ CallShape /\ [Next]_vars => TypeOK'
<1> SUFFICES ASSUME TypeOK, CallShape, [Next]_vars PROVE TypeOK'
  OBVIOUS
<1> USE DEF Busy, Quiet
<1>1. ASSUME NEW b \in Blocks, Activate(b) PROVE TypeOK'
  <2>1. CASE bestBlock \in Blocks
    BY <1>1, <2>1, SetPathType DEF TypeOK, Activate, disk, temp, loop
  <2>2. CASE bestBlock \notin Blocks
    BY <1>1, <2>2 DEF TypeOK, Activate, disk, temp, loop
  <2> QED
    BY <2>1, <2>2
<1>2. ASSUME NEW b \in Blocks, Visit(b) PROVE TypeOK'
  BY <1>2, SetPathType DEF TypeOK, Visit, disk, temp, loop
<1>3. ASSUME NEW b \in Blocks, ForceTrie(b) PROVE TypeOK'
  BY <1>3, BlocksAssumption DEF TypeOK, ForceTrie, disk, temp, loop, path
<1>4. ASSUME NEW t \in Templates, HashForBlock(t) PROVE TypeOK'
  <2>1. [hash |-> NoBlock, nHeight |-> Height[bestBlock] + 1, vtx |-> t.vtx] \in CBlock
    BY <1>4, BlocksAssumption DEF HashForBlock, Template, CBlock
  <2> QED
    BY <1>4, <2>1, StartType DEF TypeOK, HashForBlock, disk, path
<1>5. CASE ApplyGenesis
  BY <1>5, StartType, BlockOfType, ConstantsAssumption DEF TypeOK, ApplyGenesis, disk, path
<1>6. CASE StartFlush
  BY <1>6 DEF TypeOK, StartFlush, disk, temp, loop, path
<1>7. CASE UndoBlock
  <2> DEFINE b == Highest(oldSet)
  <2>1. b \in Blocks
    BY <1>7, AtHighest DEF UndoBlock
  <2>2. CASE Return(FALSE, bestBlock, b # bestBlock) /\ UNCHANGED loop
    <3>1. Return(FALSE, bestBlock, b # bestBlock) /\ UNCHANGED <<loop, root, disk, badBlock, temp>>
      BY <1>7, <2>2 DEF UndoBlock
    <3>2. (b # bestBlock) \in BOOLEAN /\ bestBlock \in Blocks \cup {NoBlock}
      BY DEF TypeOK
    <3> HIDE DEF b
    <3> QED
      BY <3>1, <3>2, ReturnType DEF TypeOK, disk, temp, loop
  <2>3. CASE /\ undoData[b] # NoUndo
             /\ undos' = undoData[b]
             /\ next' = 1
             /\ pc' = "disconnect"
             /\ UNCHANGED <<bestBlock, caller, path, stray>>
    BY <1>7, <2>1, <2>3 DEF TypeOK, UndoBlock, disk, temp, path
  <2> QED
    BY <1>7, <2>2, <2>3 DEF UndoBlock
<1>8. CASE BlockUndone
  <2>1. Highest(oldSet) \in Blocks
    BY <1>8, AtHighest DEF BlockUndone, CallShape
  <2>2. undos' \in Seq(CTxUndo)
    BY <1>8 DEF BlockUndone
  <2> QED
    BY <1>8, <2>1, <2>2 DEF TypeOK, BlockUndone, disk, temp
<1>9. CASE ApplyBlock
  <2> DEFINE b == Lowest(newSet)
  <2>1. b \in Blocks
    BY <1>9, LowestExists DEF ApplyBlock, TypeOK
  <2>2. CASE b \in Unreadable
    <3>1. /\ Return(FALSE, bestBlock, LedgerAt # bestBlock)
          /\ Blame(b)
          /\ UNCHANGED <<temp, loop, root, disk>>
      BY <1>9, <2>2 DEF ApplyBlock
    <3>2. (LedgerAt # bestBlock) \in BOOLEAN /\ bestBlock \in Blocks \cup {NoBlock}
      BY DEF TypeOK
    <3> HIDE DEF b
    <3>3. badBlock' \in Blocks \cup {NoBlock}
      BY <2>1, <3>1 DEF Blame, TypeOK
    <3> QED
      BY <3>1, <3>2, <3>3, ReturnType DEF TypeOK, disk, temp, loop
  <2>3. CASE b \notin Unreadable
    BY <1>9, <2>1, <2>3, StartType, BlockOfType DEF TypeOK, ApplyBlock, disk, path
  <2> QED
    BY <2>2, <2>3
<1>10. CASE ActivateDone
  <2>1. Return(TRUE, target, FALSE) /\ UNCHANGED <<root, disk, badBlock, temp, loop>>
    BY <1>10 DEF ActivateDone
  <2>2. target \in Blocks /\ (caller = "visit" => oldHash \in Blocks)
    BY <1>10 DEF ActivateDone, CallShape, Walkers
  <2> QED
    BY <2>1, <2>2, ReturnType DEF TypeOK, disk, temp, loop
<1>11. CASE ApplyOperation
  <2> DEFINE o == cur.vtx[next]
  <2>1. o \in Operation
    BY <1>11 DEF ApplyOperation, TypeOK, CBlock
  <2>2. UNCHANGED <<bestBlock, disk, caller, path, badBlock, cur>>
    BY <1>11 DEF ApplyOperation
  <2>3. CASE Rejected(o)
    BY <1>11, <2>2, <2>3 DEF ApplyOperation, TypeOK, disk, path
  <2>4. CASE ~Rejected(o)
    <3>1. /\ next' = next + 1
          /\ UNCHANGED <<pc, stray>>
          /\ CASE o.op = "coinbase" -> UNCHANGED <<root, undos, limits, setLimit, setTxIn>>
               [] o.op = "in" -> Input(o)
               [] o.op = "out" -> Output(o)
      BY <1>11, <2>4 DEF ApplyOperation
    <3> HIDE DEF o
    <3>2. /\ root' \in Trie
          /\ undos' \in Seq(CTxUndo)
          /\ limits' \in [Keys -> Nat]
          /\ setLimit' \subseteq Keys
          /\ setTxIn' \subseteq Keys
      <4>1. CASE o.op = "coinbase"
        BY <3>1, <4>1 DEF TypeOK
      <4>2. CASE o.op = "in"
        BY <2>1, <2>4, <3>1, <4>2, InputType DEF Rejected
      <4>3. CASE o.op = "out"
        BY <2>1, <3>1, <4>3, OutputType DEF TypeOK
      <4> QED
        BY <2>1, <4>1, <4>2, <4>3 DEF Operation
    <3> QED
      BY <2>2, <3>1, <3>2 DEF TypeOK, disk, path
  <2> QED
    BY <2>3, <2>4
<1>12. CASE Complete
  <2>1. undos' \in Seq(CTxUndo)
    BY <1>12, ReverseType DEF Complete, TypeOK
  <2> QED
    BY <1>12, <2>1 DEF TypeOK, Complete, disk, path, temp
<1>13. CASE Accept
  <2>1. cur.hash \in Blocks
    BY <1>13, CurBlock DEF Accept, CallShape
  <2>2. undoData' \in [Blocks -> Seq(CTxUndo) \cup {NoUndo}]
    BY <1>13, <2>1 DEF Accept, TypeOK
  <2>3. ForgetTemp /\ UNCHANGED <<root, indexed, trieDat, trieTmp, badBlock>>
    BY <1>13 DEF Accept
  <2>4. CASE caller = "init"
    <3>1. Return(TRUE, cur.hash, FALSE)
      BY <1>13, <2>4 DEF Accept
    <3> QED
      BY <2>1, <2>2, <2>3, <2>4, <3>1, ReturnType, ForgetType DEF TypeOK
  <2>5. CASE caller # "init"
    <3>1. /\ bestBlock' = cur.hash
          /\ newSet' = newSet \ {cur.hash}
          /\ pc' = "undo"
          /\ UNCHANGED <<caller, target, oldHash, oldSet, stray>>
      BY <1>13, <2>5 DEF Accept
    <3> QED
      BY <2>1, <2>2, <2>3, <3>1, ForgetType DEF TypeOK
  <2> QED
    BY <2>4, <2>5
<1>14. CASE AcceptFails
  <2>1. cur.hash \in Blocks
    BY <1>14, CurBlock DEF AcceptFails, CallShape
  <2>2. undoData' \in [Blocks -> Seq(CTxUndo) \cup {NoUndo}]
    BY <1>14, <2>1 DEF AcceptFails, TypeOK
  <2>3. Return(FALSE, bestBlock, TRUE) /\ ForgetTemp /\ UNCHANGED <<root, indexed, trieDat, trieTmp>>
    BY <1>14 DEF AcceptFails
  <2>4. badBlock' \in Blocks \cup {NoBlock}
    BY <1>14, <2>1 DEF AcceptFails, Blame, TypeOK
  <2>5. bestBlock \in Blocks \cup {NoBlock}
    BY DEF TypeOK
  <2> QED
    BY <2>2, <2>3, <2>4, <2>5, ReturnType, ForgetType DEF TypeOK
<1>15. CASE RejectDone
  <2> DEFINE strayed == caller \in {"chain", "visit", "restore"} /\ LedgerAt # bestBlock
  <2>1. Return(FALSE, bestBlock, strayed) /\ ForgetTemp /\ UNCHANGED <<root, disk>>
    BY <1>15 DEF RejectDone
  <2>2. badBlock' \in Blocks \cup {NoBlock}
    BY <1>15 DEF RejectDone, Blame, TypeOK, CBlock
  <2>3. strayed \in BOOLEAN /\ bestBlock \in Blocks \cup {NoBlock}
    BY DEF TypeOK
  <2> HIDE DEF strayed
  <2>4. /\ bestBlock' \in Blocks \cup {NoBlock}
        /\ stray' \in BOOLEAN
        /\ pc' \in {"undo", "flush", "down", "idle"}
        /\ caller' \in {"none", "restore", "init"}
        /\ target' \in Blocks \cup {NoBlock}
        /\ oldHash' \in Blocks \cup {NoBlock}
        /\ oldSet' \subseteq Blocks
        /\ newSet' \subseteq Blocks
    BY <2>1, <2>3, ReturnType
  <2>5. /\ cur' \in CBlock
        /\ next' \in Nat \ {0}
        /\ undos' \in Seq(CTxUndo)
        /\ limits' \in [Keys -> Nat]
        /\ setLimit' \subseteq Keys
        /\ setTxIn' \subseteq Keys
    BY <2>1, ForgetType
  <2>6. UNCHANGED <<root, indexed, undoData, trieDat, trieTmp>>
    BY <2>1 DEF disk
  <2> QED
    BY <2>2, <2>4, <2>5, <2>6 DEF TypeOK, Busy, Quiet
<1>16. CASE Unapply
  <2>1. undos[next] \in CTxUndo
    BY <1>16 DEF Unapply, TypeOK
  <2>2. root' \in Trie
    BY <1>16, <2>1 DEF Unapply, PutBack, TypeOK, Trie, CTxUndo
  <2> QED
    BY <1>16, <2>2 DEF Unapply, TypeOK, disk, path, temp
<1>17. CASE FlushFails \/ FlushRename \/ FlushCleanup
  BY <1>17 DEF TypeOK, FlushFails, FlushRename, FlushCleanup, FlushOver, disk, temp, loop, path
<1>18. CASE FlushWrite
  <2>1. [best |-> bestBlock, trie |-> root] \in Snapshot
    BY DEF TypeOK, Snapshot
  <2> QED
    BY <1>18, <2>1 DEF TypeOK, FlushWrite, temp, loop, path
<1>19. EmptyTrie \in Trie
  BY DEF EmptyTrie, Trie
<1>20. CASE Crash
  BY <1>19, <1>20, ForgetType DEF TypeOK, Crash, LoseMemory, NoPath, disk
<1>21. CASE Rot
  BY <1>21 DEF TypeOK, Rot, temp, loop, path
<1>22. CASE Restart
  <2>1. trieDat \notin {NoFile, Damaged} => trieDat.trie \in Trie /\ trieDat.best \in Blocks \cup {NoBlock}
    BY DEF TypeOK, Snapshot
  <2> QED
    BY <1>19, <1>22, <2>1, ForgetType DEF TypeOK, Restart, LoseMemory, NoPath
<1>23. CASE UNCHANGED vars
  BY <1>23 DEF TypeOK, vars, disk, temp, loop, path
<1> QED
  BY <1>1, <1>2, <1>3, <1>4, <1>5, <1>6, <1>7, <1>8, <1>9, <1>10, <1>11, <1>12, <1>13,
     <1>14, <1>15, <1>16, <1>17, <1>18, <1>20, <1>21, <1>22, <1>23 DEF Next, Step

-----------------------------------------------------------------------------
(* The shape of a call *)

\* A call that has just computed its path stands at the start of it.
LEMMA SetPathShape ==
    ASSUME NEW from \in Blocks, NEW to \in Blocks, SetPath(from, to),
           bestBlock' \in Blocks, caller' \in Walkers,
           caller' = "visit" => oldHash' \in Blocks
    PROVE  CallShape' /\ LedgerAt' = from
<1>1. /\ target' = to
      /\ oldSet' = Ancestors[from] \ Ancestors[to]
      /\ newSet' = Ancestors[to] \ Ancestors[from]
      /\ pc' = "undo"
  BY DEF SetPath
<1>2. LedgerAt' = from
  BY <1>1, PositionIs DEF LedgerAt
<1> QED
  BY <1>1, <1>2 DEF CallShape, OnPath, Walkers

\* A call that is over has no shape, and a visit that turns back has one.
LEMMA ReturnShape ==
    ASSUME NEW ok, NEW best, NEW strayed, Return(ok, best, strayed),
           ok /\ caller = "visit" => best \in Blocks /\ oldHash \in Blocks
    PROVE  /\ CallShape'
           /\ pc' \in {"undo", "flush", "down", "idle"}
           /\ pc' = "undo" => LedgerAt' = best
<1>1. CASE ok /\ caller = "visit"
  <2>1. SetPath(best, oldHash) /\ caller' = "restore" /\ bestBlock' = best
    BY <1>1 DEF Return
  <2>2. pc' = "undo"
    BY <2>1 DEF SetPath
  <2> QED
    BY <1>1, <2>1, <2>2, SetPathShape DEF Walkers
<1>2. CASE ~(ok /\ caller = "visit")
  <2>1. pc' \in {"flush", "down", "idle"}
    BY <1>2 DEF Return
  <2> QED
    BY <2>1 DEF CallShape, Busy
<1> QED
  BY <1>1, <1>2

\* After BlockUndone the ledger is at the parent of the block undone.
LEMMA UndoneShape ==
    ASSUME TypeOK, CallShape, BlockUndone
    PROVE  CallShape' /\ LedgerAt' = Parent[LedgerAt]
<1> DEFINE x == LedgerAt
<1>1. /\ x \in Blocks
      /\ target \in Blocks
      /\ oldSet = Ancestors[x] \ Ancestors[target]
      /\ newSet = Ancestors[target] \ Ancestors[x]
      /\ oldSet # {}
      /\ caller \in Walkers
      /\ caller = "visit" => oldHash \in Blocks
  BY DEF BlockUndone, CallShape, OnPath, Busy
<1>2. /\ pc' = "undo"
      /\ bestBlock' = Highest(oldSet)
      /\ oldSet' = oldSet \ {Highest(oldSet)}
      /\ UNCHANGED <<caller, target, oldHash, newSet>>
  BY DEF BlockUndone
<1> HIDE DEF x
<1>3. /\ Highest(oldSet) = x
      /\ Parent[x] \in Blocks
      /\ oldSet' = Ancestors[Parent[x]] \ Ancestors[target']
      /\ newSet' = Ancestors[target'] \ Ancestors[Parent[x]]
  BY <1>1, <1>2, UndoPath
<1>4. LedgerAt' = Parent[x]
  BY <1>1, <1>2, <1>3, PositionIs DEF LedgerAt
<1>5. CallShape'
  BY <1>1, <1>2, <1>3, <1>4 DEF CallShape, OnPath, Walkers
<1> QED
  BY <1>4, <1>5 DEF x

\* The block under TempApply is the child of the block the ledger is at, and a
\* walking call that accepts it moves there.
LEMMA AcceptShape ==
    ASSUME TypeOK, CallShape, pc \in {"temp", "accept", "reject"}, caller \in Walkers
    PROVE  /\ cur.hash \in Blocks
           /\ Parent[cur.hash] = LedgerAt
           /\ Accept => CallShape' /\ LedgerAt' = cur.hash
<1> DEFINE x == LedgerAt
<1>1. /\ x \in Blocks
      /\ target \in Blocks
      /\ oldSet = Ancestors[x] \ Ancestors[target]
      /\ newSet = Ancestors[target] \ Ancestors[x]
      /\ oldSet = {}
      /\ newSet # {}
      /\ cur = BlockOf(Lowest(newSet))
      /\ caller = "visit" => oldHash \in Blocks
  BY DEF CallShape, OnPath, Busy
<1>2. cur.hash = Lowest(newSet)
  BY <1>1 DEF BlockOf
<1> HIDE DEF x
<1>3. /\ cur.hash \in Blocks
      /\ Parent[cur.hash] = x
      /\ Ancestors[cur.hash] \ Ancestors[target] = {}
      /\ newSet \ {cur.hash} = Ancestors[target] \ Ancestors[cur.hash]
  <2>1. Ancestors[x] \ Ancestors[target] = {} /\ Ancestors[target] \ Ancestors[x] # {}
    BY <1>1
  <2>2. cur.hash = Lowest(Ancestors[target] \ Ancestors[x])
    BY <1>1, <1>2
  <2>3. newSet = Ancestors[target] \ Ancestors[x] /\ x \in Blocks /\ target \in Blocks
    BY <1>1
  <2> QED
    BY ONLY <2>1, <2>2, <2>3, ApplyPath
<1>4. ASSUME Accept PROVE CallShape' /\ LedgerAt' = cur.hash
  <2>1. /\ bestBlock' = cur.hash
        /\ newSet' = newSet \ {cur.hash}
        /\ pc' = "undo"
        /\ UNCHANGED <<caller, target, oldHash, oldSet>>
    BY <1>4 DEF Accept, Walkers
  <2>2. /\ oldSet' = Ancestors[cur.hash] \ Ancestors[target]
        /\ newSet' = Ancestors[target] \ Ancestors[cur.hash]
        /\ target' = target
    BY <1>1, <1>3, <2>1
  <2>3. LedgerAt' = cur.hash
    BY <1>1, <1>3, <2>2, PositionIs DEF LedgerAt
  <2> QED
    BY <1>1, <1>3, <2>1, <2>2, <2>3 DEF CallShape, OnPath, Walkers
<1> QED
  BY <1>3, <1>4 DEF x

\* Every step keeps the shape of the call under way.
LEMMA ShapeNext == TypeOK /\ CallShape /\ [Next]_vars => CallShape'
<1> SUFFICES ASSUME TypeOK, CallShape, [Next]_vars PROVE CallShape'
  OBVIOUS
<1>1. ASSUME NEW b \in Blocks, Activate(b) PROVE CallShape'
  <2>1. CASE bestBlock \in Blocks
    BY <1>1, <2>1, SetPathShape DEF Activate, Walkers
  <2>2. CASE bestBlock \notin Blocks
    BY <1>1, <2>2 DEF Activate, CallShape, Busy
  <2> QED
    BY <2>1, <2>2
<1>2. ASSUME NEW b \in Blocks, Visit(b) PROVE CallShape'
  BY <1>2, SetPathShape DEF Visit, Walkers
<1>3. ASSUME NEW b \in Blocks, ForceTrie(b) PROVE CallShape'
  BY <1>3 DEF ForceTrie, CallShape, Busy
<1>4. ASSUME NEW t \in Templates, HashForBlock(t) PROVE CallShape'
  BY <1>4, BlocksAssumption DEF HashForBlock, StartTempApply, Template, CallShape, Walkers
<1>5. CASE ApplyGenesis
  BY <1>5 DEF ApplyGenesis, StartTempApply, CallShape, Walkers
<1>6. CASE StartFlush
  BY <1>6 DEF StartFlush, CallShape, Busy
<1>7. CASE UndoBlock
  <2>1. CASE Return(FALSE, bestBlock, Highest(oldSet) # bestBlock)
    BY <2>1, ReturnShape
  <2>2. CASE pc' = "disconnect" /\ UNCHANGED <<bestBlock, caller, path>>
    BY <1>7, <2>2 DEF UndoBlock, CallShape, OnPath, LedgerAt, path, Busy, Walkers
  <2> QED
    BY <1>7, <2>1, <2>2 DEF UndoBlock
<1>8. CASE BlockUndone
  BY <1>8, UndoneShape
<1>9. CASE ApplyBlock
  <2>1. CASE Lowest(newSet) \in Unreadable
    <3>1. Return(FALSE, bestBlock, LedgerAt # bestBlock)
      BY <1>9, <2>1 DEF ApplyBlock
    <3> QED
      BY <3>1, ReturnShape
  <2>2. CASE Lowest(newSet) \notin Unreadable
    BY <1>9, <2>2 DEF ApplyBlock, StartTempApply, CallShape, OnPath, LedgerAt, path, Busy, Walkers
  <2> QED
    BY <2>1, <2>2
<1>10. CASE ActivateDone
  <2>1. Return(TRUE, target, FALSE)
    BY <1>10 DEF ActivateDone
  <2>2. target \in Blocks /\ (caller = "visit" => oldHash \in Blocks)
    BY <1>10 DEF ActivateDone, CallShape, Walkers, Busy
  <2> QED
    BY <2>1, <2>2, ReturnShape
<1>11. CASE ApplyOperation
  BY <1>11 DEF ApplyOperation, CallShape, OnPath, LedgerAt, path, Busy, Walkers
<1>12. CASE Complete
  BY <1>12 DEF Complete, CallShape, OnPath, LedgerAt, path, temp, Busy, Walkers
<1>13. CASE Accept
  <2>1. CASE caller = "init"
    <3>1. Return(TRUE, cur.hash, FALSE)
      BY <1>13, <2>1 DEF Accept
    <3> QED
      BY <2>1, <3>1, ReturnShape
  <2>2. CASE caller # "init"
    BY <1>13, <2>2, AcceptShape DEF Accept, CallShape, Busy
  <2> QED
    BY <2>1, <2>2
<1>14. CASE AcceptFails
  BY <1>14, ReturnShape DEF AcceptFails
<1>15. CASE RejectDone
  BY <1>15, ReturnShape DEF RejectDone
<1>16. CASE Unapply
  BY <1>16 DEF Unapply, CallShape, OnPath, LedgerAt, path, temp, Busy, Walkers
<1>17. CASE FlushFails \/ FlushWrite \/ FlushRename \/ FlushCleanup
  BY <1>17 DEF FlushFails, FlushWrite, FlushRename, FlushCleanup, FlushOver, CallShape, Busy
<1>18. CASE Crash \/ Rot \/ Restart
  BY <1>18 DEF Crash, Rot, Restart, CallShape, Busy
<1>19. CASE UNCHANGED vars
  BY <1>19 DEF vars, path, temp, CallShape, OnPath, LedgerAt
<1> QED
  BY <1>1, <1>2, <1>3, <1>4, <1>5, <1>6, <1>7, <1>8, <1>9, <1>10, <1>11, <1>12, <1>13,
     <1>14, <1>15, <1>16, <1>17, <1>18, <1>19 DEF Next, Step

LEMMA ShapeInit == Init => TypeOK /\ CallShape
<1> SUFFICES ASSUME Init PROVE TypeOK /\ CallShape
  OBVIOUS
<1>1. EmptyTrie \in Trie
  BY DEF EmptyTrie, Trie
<1>2. undos \in Seq(CTxUndo)
  BY DEF Init
<1>3. TypeOK
  <2>1. /\ root \in Trie
        /\ undoData \in [Blocks -> Seq(CTxUndo) \cup {NoUndo}]
        /\ cur \in CBlock
        /\ limits \in [Keys -> Nat]
        /\ next \in Nat \ {0}
    BY <1>1, IdleBlockType DEF Init
  <2>2. stray \in BOOLEAN /\ indexed \in BOOLEAN
    BY DEF Init
  <2>3. oldSet \subseteq Blocks /\ newSet \subseteq Blocks /\ setLimit \subseteq Keys /\ setTxIn \subseteq Keys
    BY DEF Init
  <2>4. /\ bestBlock \in Blocks \cup {NoBlock}
        /\ target \in Blocks \cup {NoBlock}
        /\ oldHash \in Blocks \cup {NoBlock}
        /\ badBlock \in Blocks \cup {NoBlock}
        /\ trieDat \in Snapshot \cup {NoFile, Damaged}
        /\ trieTmp \in Snapshot \cup {NoFile, Damaged}
        /\ pc \in Busy \cup Quiet \cup {"down", "aborted"}
        /\ caller \in {"none", "chain", "visit", "restore", "hash", "init"}
    BY DEF Init, Quiet
  <2> QED
    BY <1>2, <2>1, <2>2, <2>3, <2>4 DEF TypeOK
<1>4. CallShape
  BY DEF Init, CallShape, Busy
<1> QED
  BY <1>3, <1>4

\* Whatever is activated, visited, tried, refused or lost in a crash: every
\* variable keeps its type, balances never become negative, and a call that
\* walks the block tree always stands on the path it computed at its start.
THEOREM TypeCorrect == Spec => []TypeOK
<1>1. Init => TypeOK /\ CallShape
  BY ShapeInit
<1>2. TypeOK /\ CallShape /\ [Next]_vars => (TypeOK /\ CallShape)'
  BY TypeNext, ShapeNext
<1> QED
  BY <1>1, <1>2, PTL DEF Spec

THEOREM CallsKeepTheirShape == Spec => []CallShape
<1>1. Init => TypeOK /\ CallShape
  BY ShapeInit
<1>2. TypeOK /\ CallShape /\ [Next]_vars => (TypeOK /\ CallShape)'
  BY TypeNext, ShapeNext
<1> QED
  BY <1>1, <1>2, PTL DEF Spec

-----------------------------------------------------------------------------
(* Undo records *)

LEMMA LedgerOfType == \A b \in Blocks \cup {NoBlock} : LedgerOf(b) \in Trie
  BY BlocksAssumption DEF LedgerOf, EmptyTrie, Trie

\* Unapply's step: the record at n puts its account back.
LEMMA TakesBackStep ==
    ASSUME NEW u \in Seq(CTxUndo), NEW n \in 1..Len(u), NEW now \in Trie, NEW before \in Trie,
           TakesBack(u, n, now, before)
    PROVE  TakesBack(u, n + 1, [now EXCEPT ![u[n].key] = Restored(u[n])], before)
<1> DEFINE key == u[n].key
           then == [now EXCEPT ![key] = Restored(u[n])]
<1>1. key \in Keys
  <2>1. u[n] \in CTxUndo
    OBVIOUS
  <2> QED
    BY <2>1 DEF CTxUndo
<1>2. \A i \in (n + 1)..Len(u) : i \in n..Len(u) /\ i > n
  OBVIOUS
<1>3. \A i \in n..Len(u) : i = n \/ i \in (n + 1)..Len(u)
  OBVIOUS
<1>4. ASSUME NEW k \in Keys, \A i \in (n + 1)..Len(u) : u[i].key # k
      PROVE  then[k] = before[k]
  <2>1. CASE k = key
    <3>1. \A j \in n..Len(u) : j > n => u[j].key # key
      BY <1>3, <1>4, <2>1
    <3>2. Restored(u[n]) = before[key]
      BY <3>1 DEF TakesBack
    <3> QED
      BY <1>1, <2>1, <3>2 DEF Trie
  <2>2. CASE k # key
    <3>1. \A i \in n..Len(u) : u[i].key # k
      BY <1>3, <1>4, <2>2
    <3> QED
      BY <1>1, <2>2, <3>1 DEF TakesBack, Trie
  <2> QED
    BY <2>1, <2>2
<1>5. ASSUME NEW i \in (n + 1)..Len(u), \A j \in (n + 1)..Len(u) : j > i => u[j].key # u[i].key
      PROVE  Restored(u[i]) = before[u[i].key]
  <2>1. i \in n..Len(u)
    BY <1>2
  <2>2. \A j \in n..Len(u) : j > i => u[j].key # u[i].key
    BY <1>2, <1>3, <1>5
  <2> QED
    BY <2>1, <2>2 DEF TakesBack
<1> QED
  BY <1>4, <1>5 DEF TakesBack

\* Without records left the ledger is back.
LEMMA TakesBackDone ==
    ASSUME NEW u \in Seq(CTxUndo), NEW n \in Nat, n > Len(u), NEW now \in Trie, NEW before \in Trie,
           TakesBack(u, n, now, before)
    PROVE  now = before
<1>1. n..Len(u) = {}
  OBVIOUS
<1>2. \A k \in Keys : now[k] = before[k]
  BY <1>1 DEF TakesBack
<1> QED
  BY <1>2 DEF Trie

\* The records latest first take the ledger back to where TempApply started.
LEMMA RecordedReversed ==
    ASSUME NEW u \in Seq(CTxUndo), NEW now, NEW before, Recorded(u, now, before)
    PROVE  TakesBack(UndosLatestFirst(u), 1, now, before)
<1> DEFINE v == UndosLatestFirst(u)
           m(i) == (Len(u) - i) + 1
<1>1. Len(v) = Len(u) /\ \A i \in 1..Len(u) : v[i] = u[m(i)]
  BY ReverseType
<1>2. \A i \in 1..Len(u) : m(i) \in 1..Len(u) /\ m(m(i)) = i
  OBVIOUS
<1>3. ASSUME NEW k \in Keys, \A i \in 1..Len(v) : v[i].key # k PROVE now[k] = before[k]
  <2>1. ASSUME NEW i \in 1..Len(u) PROVE u[i].key # k
    <3>1. m(i) \in 1..Len(v) /\ v[m(i)] = u[i]
      BY <1>1, <1>2
    <3> HIDE DEF m, v
    <3> QED
      BY <1>3, <3>1
  <2> QED
    BY <2>1 DEF Recorded
<1>4. ASSUME NEW i \in 1..Len(v), \A j \in 1..Len(v) : j > i => v[j].key # v[i].key
      PROVE  Restored(v[i]) = before[v[i].key]
  <2>1. m(i) \in 1..Len(u) /\ v[i] = u[m(i)]
    BY <1>1, <1>2
  <2>2. ASSUME NEW j \in 1..(m(i) - 1) PROVE u[j].key # u[m(i)].key
    <3>1. j \in 1..Len(u) /\ m(j) \in 1..Len(u) /\ m(j) > i /\ m(m(j)) = j
      BY <2>1, <1>1
    <3>2. v[m(j)] = u[j]
      BY <1>1, <3>1
    <3> HIDE DEF m, v
    <3> QED
      BY <1>1, <1>4, <2>1, <3>1, <3>2
  <2> HIDE DEF m, v
  <2> QED
    BY <2>1, <2>2 DEF Recorded
<1> HIDE DEF m, v
<1> QED
  BY <1>3, <1>4 DEF TakesBack, v

\* In the order they were collected they do so when no account occurs twice.
LEMMA RecordedOnce ==
    ASSUME NEW u \in Seq(CTxUndo), NEW now, NEW before, Recorded(u, now, before), ~Repeats(u)
    PROVE  TakesBack(u, 1, now, before)
<1>1. \A i \in 1..Len(u) : Restored(u[i]) = before[u[i].key]
  <2> SUFFICES ASSUME NEW i \in 1..Len(u) PROVE Restored(u[i]) = before[u[i].key]
    OBVIOUS
  <2>1. \A j \in 1..(i - 1) : j \in 1..Len(u) /\ j # i
    OBVIOUS
  <2>2. \A j \in 1..(i - 1) : u[j].key # u[i].key
    BY <2>1 DEF Repeats
  <2> QED
    BY <2>2 DEF Recorded
<1> QED
  BY <1>1 DEF TakesBack, Recorded

\* One more record of what an account was before it is changed.
LEMMA RecordedAppend ==
    ASSUME NEW u \in Seq(CTxUndo), NEW now \in Trie, NEW before, Recorded(u, now, before),
           NEW r \in CTxUndo, Restored(r) = now[r.key], NEW value
    PROVE  Recorded(Append(u, r), [now EXCEPT ![r.key] = value], before)
<1> DEFINE v == Append(u, r)
           then == [now EXCEPT ![r.key] = value]
<1>1. Len(v) = Len(u) + 1 /\ v[Len(u) + 1] = r /\ \A i \in 1..Len(u) : v[i] = u[i]
  OBVIOUS
<1>2. Len(u) \in Nat /\ r.key \in Keys
  BY DEF CTxUndo
<1> HIDE DEF v
<1>3. ASSUME NEW k \in Keys, \A i \in 1..Len(v) : v[i].key # k PROVE then[k] = before[k]
  <2>1. \A i \in 1..Len(u) : u[i].key # k
    BY <1>1, <1>2, <1>3
  <2>2. r.key # k
    BY <1>1, <1>2, <1>3
  <2> QED
    BY <2>1, <2>2, <1>2 DEF Recorded, Trie
<1>4. ASSUME NEW i \in 1..Len(v), \A j \in 1..(i - 1) : v[j].key # v[i].key
      PROVE  Restored(v[i]) = before[v[i].key]
  <2>1. CASE i \in 1..Len(u)
    <3>1. \A j \in 1..(i - 1) : v[j] = u[j]
      BY <1>1, <1>2, <2>1
    <3> QED
      BY <1>1, <1>4, <2>1, <3>1 DEF Recorded
  <2>2. CASE i = Len(u) + 1
    <3>1. \A j \in 1..Len(u) : u[j].key # r.key
      BY <1>1, <1>2, <1>4, <2>2
    <3> QED
      BY <1>1, <1>2, <2>2, <3>1 DEF Recorded
  <2> QED
    BY <1>1, <1>2, <2>1, <2>2
<1> QED
  BY <1>3, <1>4 DEF Recorded, v

LEMMA RecordedNothing ==
    ASSUME NEW now PROVE Recorded(<<>>, now, now)
  BY DEF Recorded

-----------------------------------------------------------------------------
(* The ledger *)

LEMMA StrayStays == TypeOK /\ stray /\ [Next]_vars => stray'
<1> SUFFICES ASSUME TypeOK, stray, [Next]_vars PROVE stray'
  OBVIOUS
<1>1. ASSUME NEW b \in Blocks, Activate(b) \/ Visit(b) \/ ForceTrie(b) PROVE stray'
  BY <1>1, Zenon DEF Activate, Visit, ForceTrie
<1>2. ASSUME NEW t \in Templates, HashForBlock(t) PROVE stray'
  BY <1>2, Zenon DEF HashForBlock
<1>3. CASE ApplyGenesis \/ StartFlush
  BY <1>3, Zenon DEF ApplyGenesis, StartFlush
<1>4. CASE UndoBlock \/ BlockUndone \/ ApplyBlock \/ ActivateDone
  BY <1>4, Zenon DEF UndoBlock, BlockUndone, ApplyBlock, ActivateDone, Return
<1>5. CASE ApplyOperation \/ Complete \/ Unapply
  BY <1>5, Zenon DEF ApplyOperation, Complete, Unapply
<1>6. CASE Accept \/ AcceptFails \/ RejectDone
  BY <1>6, Zenon DEF Accept, AcceptFails, RejectDone, Return
<1>7. CASE FlushFails \/ FlushWrite \/ FlushRename \/ FlushCleanup
  BY <1>7, Zenon DEF FlushFails, FlushWrite, FlushRename, FlushCleanup
<1>8. CASE Crash \/ Rot \/ Restart
  BY <1>8, Zenon DEF Crash, Rot, Restart
<1>9. CASE UNCHANGED vars
  BY <1>9, Zenon DEF vars
<1> QED
  BY <1>1, <1>2, <1>3, <1>4, <1>5, <1>6, <1>7, <1>8, <1>9, Zenon DEF Next, Step

LEMMA DiskUntouched ==
    ASSUME OnDisk, UNCHANGED <<undoData, trieDat>> PROVE OnDisk'
  BY DEF OnDisk

\* A call that returns with the ledger of the block it returns with.
LEMMA ReturnLedger ==
    ASSUME NEW ok, NEW best, NEW strayed, Return(ok, best, strayed),
           ok /\ caller = "visit" => best \in Blocks /\ oldHash \in Blocks,
           UNCHANGED root, root = LedgerOf(best)
    PROVE  Between' /\ MidCall'
<1>1. bestBlock' = best
  BY DEF Return
<1>2. /\ pc' \in {"undo", "flush", "down", "idle"}
      /\ pc' = "undo" => LedgerAt' = best
  BY ReturnShape
<1> QED
  BY <1>1, <1>2 DEF Between, MidCall, Quiet

\* TempApply starts from the ledger it will be compared with.
LEMMA StartLedger ==
    ASSUME NEW block, StartTempApply(block), UNCHANGED root, root = LedgerOf(Base')
    PROVE  Between' /\ MidCall'
<1>1. pc' = "temp" /\ undos' = <<>>
  BY DEF StartTempApply
<1>2. Recorded(undos, root, LedgerOf(Base))'
  BY <1>1, RecordedNothing
<1> QED
  BY <1>1, <1>2 DEF Between, MidCall, Quiet

\* An operation that goes through records what it changes.
LEMMA InputLedger ==
    ASSUME TypeOK, NEW o \in Operation, ~InputRejected(o), Input(o), NEW before,
           Recorded(undos, root, before)
    PROVE  Recorded(undos', root', before)
<1> DEFINE r == [key |-> o.key, create |-> FALSE,
                 destroy |-> root[o.key].balance - o.value < MIN_BALANCE, acct |-> root[o.key]]
<1>1. o.key \in Keys
  BY DEF Operation
<1>2. root[o.key] \in Account
  BY <1>1 DEF TypeOK, Trie, InputRejected
<1>3. r.key = o.key /\ Restored(r) = root[o.key]
  BY DEF Restored
<1>4. r \in CTxUndo
  <2>1. r.destroy \in BOOLEAN
    OBVIOUS
  <2> QED
    BY <1>1, <1>2, <2>1 DEF CTxUndo
<1>5. undos' = Append(undos, r)
  BY DEF Input
<1>6. PICK v : root' = [root EXCEPT ![o.key] = v]
  BY DEF Input
<1> HIDE DEF r
<1>7. undos \in Seq(CTxUndo) /\ root \in Trie /\ Restored(r) = root[r.key]
  BY <1>3 DEF TypeOK
<1>8. Recorded(Append(undos, r), [root EXCEPT ![r.key] = v], before)
  BY <1>4, <1>7, RecordedAppend
<1> QED
  BY <1>3, <1>5, <1>6, <1>8

LEMMA OutputLedger ==
    ASSUME TypeOK, NEW o \in Operation, Output(o), NEW before, Recorded(undos, root, before)
    PROVE  Recorded(undos', root', before)
<1> DEFINE create == root[o.key] = NoNode
           r == [key |-> o.key, create |-> create, destroy |-> FALSE,
                 acct |-> IF create THEN NoAccount ELSE root[o.key]]
<1>1. o.key \in Keys
  BY DEF Operation
<1>2. root[o.key] \in Account \cup {NoNode}
  BY <1>1 DEF TypeOK, Trie
<1>3. r.key = o.key /\ Restored(r) = root[o.key]
  BY DEF Restored
<1>4. r \in CTxUndo
  <2>1. NoAccount \in Account
    BY DEF NoAccount, Account
  <2> QED
    BY <1>1, <1>2, <2>1 DEF CTxUndo
<1>5. undos' = Append(undos, r)
  BY DEF Output
<1>6. PICK v : root' = [root EXCEPT ![o.key] = v]
  BY DEF Output
<1> HIDE DEF r
<1>7. undos \in Seq(CTxUndo) /\ root \in Trie /\ Restored(r) = root[r.key]
  BY <1>3 DEF TypeOK
<1>8. Recorded(Append(undos, r), [root EXCEPT ![r.key] = v], before)
  BY <1>4, <1>7, RecordedAppend
<1> QED
  BY <1>3, <1>5, <1>6, <1>8

\* The block a call started from, and the block it compares with.
LEMMA BaseType ==
    ASSUME TypeOK, CallShape, pc \in {"temp", "accept", "reject"}
    PROVE  /\ Base \in Blocks \cup {NoBlock}
           /\ caller # "hash" => cur.hash \in Blocks /\ Parent[cur.hash] = Base
<1>1. CASE caller \in Walkers
  <2>1. Base = LedgerAt /\ LedgerAt \in Blocks
    BY <1>1 DEF Base, CallShape, OnPath, Busy
  <2> QED
    BY <1>1, <2>1, AcceptShape
<1>2. CASE caller = "hash"
  BY <1>2 DEF Base, TypeOK, Walkers
<1>3. CASE caller = "init"
  <2>1. Base = NoBlock /\ cur.hash = Genesis
    BY <1>3 DEF Base, CallShape, Walkers, Busy, BlockOf
  <2> QED
    BY <2>1, ConstantsAssumption, TreeAssumption
<1> QED
  BY <1>1, <1>2, <1>3 DEF CallShape

\* Every step that is not an unwinding fault keeps the ledger recoverable.
LEMMA LedgerNext == TypeOK /\ CallShape /\ LedgerInv /\ [Next]_vars => LedgerInv'
<1> DEFINE Good == Between /\ MidCall /\ OnDisk
<1> SUFFICES ASSUME TypeOK, CallShape, LedgerInv, [Next]_vars, ~stray'
             PROVE  Good'
  BY DEF LedgerInv
<1>0. Between /\ MidCall /\ OnDisk
  BY StrayStays, Zenon DEF LedgerInv
<1>1. ASSUME NEW b \in Blocks, Activate(b) PROVE Good'
  <2>1. OnDisk'
    BY <1>0, <1>1, DiskUntouched DEF Activate, disk
  <2>2. CASE bestBlock \in Blocks
    <3>1. SetPath(bestBlock, b) /\ caller' = "chain" /\ UNCHANGED <<root, bestBlock>>
      BY <1>1, <2>2 DEF Activate
    <3>2. pc' = "undo" /\ LedgerAt' = bestBlock
      BY <2>2, <3>1, SetPathShape DEF SetPath, Walkers
    <3>3. root = LedgerOf(bestBlock)
      BY <1>0, <1>1 DEF Activate, Between, Quiet
    <3> QED
      BY <2>1, <3>1, <3>2, <3>3 DEF Between, MidCall, Quiet
  <2>3. CASE bestBlock \notin Blocks
    BY <1>0, <1>1, <2>1, <2>3 DEF Activate, Between, MidCall, Quiet
  <2> QED
    BY <2>2, <2>3
<1>2. ASSUME NEW b \in Blocks, Visit(b) PROVE Good'
  <2>1. OnDisk'
    BY <1>0, <1>2, DiskUntouched DEF Visit, disk
  <2>2. bestBlock \in Blocks /\ SetPath(bestBlock, b) /\ caller' = "visit"
        /\ oldHash' = bestBlock /\ UNCHANGED <<root, bestBlock>>
    BY <1>2 DEF Visit
  <2>3. pc' = "undo" /\ LedgerAt' = bestBlock
    BY <2>2, SetPathShape DEF SetPath, Walkers
  <2>4. root = LedgerOf(bestBlock)
    BY <1>0, <1>2 DEF Visit, Between, Quiet
  <2> QED
    BY <2>1, <2>2, <2>3, <2>4 DEF Between, MidCall, Quiet
<1>3. ASSUME NEW b \in Blocks, ForceTrie(b) PROVE Good'
  <2>1. OnDisk'
    BY <1>0, <1>3, DiskUntouched DEF ForceTrie, disk
  <2>2. LedgerOf(b) = AccountRoot[b]
    BY ConstantsAssumption DEF LedgerOf
  <2> QED
    BY <1>3, <2>1, <2>2 DEF ForceTrie, Between, MidCall
<1>4. ASSUME NEW t \in Templates, HashForBlock(t) PROVE Good'
  <2>1. OnDisk'
    BY <1>0, <1>4, DiskUntouched DEF HashForBlock, disk
  <2>2. Base' = bestBlock
    BY <1>4 DEF HashForBlock, Base, Walkers
  <2>3. root = LedgerOf(bestBlock)
    BY <1>0, <1>4 DEF HashForBlock, Between, Quiet
  <2> QED
    BY <1>4, <2>1, <2>2, <2>3, StartLedger DEF HashForBlock
<1>5. CASE ApplyGenesis
  <2>1. OnDisk'
    BY <1>0, <1>5, DiskUntouched DEF ApplyGenesis, disk
  <2>2. Base' = bestBlock
    BY <1>5 DEF ApplyGenesis, Base, Walkers
  <2>3. root = LedgerOf(bestBlock)
    BY <1>0, <1>5 DEF ApplyGenesis, Between, Quiet
  <2> QED
    BY <1>5, <2>1, <2>2, <2>3, StartLedger DEF ApplyGenesis
<1>6. CASE StartFlush
  <2>1. OnDisk'
    BY <1>0, <1>6, DiskUntouched DEF StartFlush, disk
  <2> QED
    BY <1>0, <1>6, <2>1 DEF StartFlush, Between, MidCall, Quiet
<1>7. CASE UndoBlock
  <2> DEFINE b == Highest(oldSet)
  <2>1. OnDisk'
    BY <1>0, <1>7, DiskUntouched DEF UndoBlock, disk
  <2>2. b = LedgerAt /\ b \in Blocks
    BY <1>7, AtHighest DEF UndoBlock
  <2>3. root = LedgerOf(b)
    BY <1>0, <1>7, <2>2 DEF UndoBlock, MidCall
  <2>4. CASE Return(FALSE, bestBlock, b # bestBlock)
    <3>1. Return(FALSE, bestBlock, b # bestBlock) /\ UNCHANGED root
      BY <1>7, <2>4 DEF UndoBlock
    <3>2. b = bestBlock
      BY <3>1, Zenon DEF Return
    <3> QED
      BY <2>1, <2>3, <3>1, <3>2, ReturnLedger
  <2>5. CASE /\ undoData[b] # NoUndo
             /\ undos' = undoData[b]
             /\ next' = 1
             /\ pc' = "disconnect"
             /\ UNCHANGED path
    <3>1. /\ undos' = undoData[b]
          /\ next' = 1
          /\ pc' = "disconnect"
          /\ UNCHANGED <<root, path>>
      BY <1>7, <2>5 DEF UndoBlock
    <3>2. LedgerAt' = b
      BY <2>2, <3>1 DEF LedgerAt, path
    <3>3. TakesBack(undoData[b], 1, AccountRoot[b], LedgerOf(Parent[b]))
      BY <1>0, <2>2, <2>5 DEF OnDisk
    <3>4. root = AccountRoot[b]
      BY <2>2, <2>3, ConstantsAssumption DEF LedgerOf
    <3> HIDE DEF b
    <3>5. TakesBack(undos, next, root, LedgerOf(Parent[LedgerAt]))'
      BY <3>1, <3>2, <3>3, <3>4
    <3> QED
      BY <2>1, <3>1, <3>5 DEF Between, MidCall, Quiet
  <2> QED
    BY <1>7, <2>4, <2>5 DEF UndoBlock
<1>8. CASE BlockUndone
  <2>1. OnDisk'
    BY <1>0, <1>8, DiskUntouched DEF BlockUndone, disk
  <2>2. LedgerAt \in Blocks /\ LedgerAt' = Parent[LedgerAt] /\ pc' = "undo" /\ UNCHANGED root
    BY <1>8, UndoneShape, AtHighest DEF BlockUndone, CallShape
  <2>3. Parent[LedgerAt] \in Blocks \cup {NoBlock}
    BY <2>2, BlocksAssumption
  <2>4. root \in Trie /\ undos \in Seq(CTxUndo) /\ next \in Nat /\ next > Len(undos)
    BY <1>8 DEF BlockUndone, TypeOK
  <2>5. TakesBack(undos, next, root, LedgerOf(Parent[LedgerAt]))
    BY <1>0, <1>8 DEF BlockUndone, MidCall
  <2>6. root = LedgerOf(Parent[LedgerAt])
    BY <2>3, <2>4, <2>5, LedgerOfType, TakesBackDone
  <2> QED
    BY <2>1, <2>2, <2>6 DEF Between, MidCall, Quiet
<1>9. CASE ApplyBlock
  <2>1. OnDisk'
    BY <1>0, <1>9, DiskUntouched DEF ApplyBlock, disk
  <2>2. root = LedgerOf(LedgerAt) /\ UNCHANGED root /\ caller \in Walkers
    BY <1>0, <1>9 DEF ApplyBlock, MidCall, CallShape
  <2>3. CASE Lowest(newSet) \in Unreadable
    <3>1. Return(FALSE, bestBlock, LedgerAt # bestBlock)
      BY <1>9, <2>3 DEF ApplyBlock
    <3>2. LedgerAt = bestBlock
      BY <3>1, Zenon DEF Return
    <3> QED
      BY <2>1, <2>2, <3>1, <3>2, ReturnLedger
  <2>4. CASE Lowest(newSet) \notin Unreadable
    <3>1. StartTempApply(BlockOf(Lowest(newSet))) /\ UNCHANGED <<bestBlock, caller, path>>
      BY <1>9, <2>4 DEF ApplyBlock
    <3>2. Base' = LedgerAt
      BY <2>2, <3>1 DEF Base, LedgerAt, path
    <3> QED
      BY <2>1, <2>2, <3>1, <3>2, StartLedger
  <2> QED
    BY <2>3, <2>4
<1>10. CASE ActivateDone
  <2>1. OnDisk'
    BY <1>0, <1>10, DiskUntouched DEF ActivateDone, disk
  <2>2. Return(TRUE, target, FALSE) /\ UNCHANGED root
    BY <1>10 DEF ActivateDone
  <2>3. target \in Blocks /\ (caller = "visit" => oldHash \in Blocks)
    BY <1>10 DEF ActivateDone, CallShape, Walkers, Busy
  <2>4. root = LedgerOf(target)
    BY <1>0, <1>10 DEF ActivateDone, MidCall, LedgerAt, Position
  <2> QED
    BY <2>1, <2>2, <2>3, <2>4, ReturnLedger
<1>11. CASE ApplyOperation
  <2> DEFINE o == cur.vtx[next]
  <2>1. OnDisk'
    BY <1>0, <1>11, DiskUntouched DEF ApplyOperation, disk
  <2>2. o \in Operation
    BY <1>11 DEF ApplyOperation, TypeOK, CBlock
  <2>3. Base' = Base
    BY <1>11 DEF ApplyOperation, Base, LedgerAt, path
  <2>4. Recorded(undos, root, LedgerOf(Base)) /\ undos \in Seq(CTxUndo)
    BY <1>0, <1>11 DEF ApplyOperation, MidCall, TypeOK
  <2>5. CASE Rejected(o)
    <3>1. pc' = "reject" /\ next' = 1 /\ UNCHANGED <<root, undos>>
      BY <1>11, <2>5 DEF ApplyOperation
    <3>2. stray' = (stray \/ Repeats(undos))
      BY <1>11, <2>5 DEF ApplyOperation
    <3>3. ~Repeats(undos)
      BY <3>2, Zenon
    <3>4. TakesBack(undos, 1, root, LedgerOf(Base))
      BY <2>4, <3>3, RecordedOnce
    <3>5. TakesBack(undos, next, root, LedgerOf(Base))'
      BY <2>3, <3>1, <3>4
    <3> QED
      BY <2>1, <3>1, <3>5 DEF Between, MidCall, Quiet
  <2>6. CASE ~Rejected(o)
    <3>1. /\ pc' = "temp"
          /\ CASE o.op = "coinbase" -> UNCHANGED <<root, undos, limits, setLimit, setTxIn>>
               [] o.op = "in" -> Input(o)
               [] o.op = "out" -> Output(o)
      BY <1>11, <2>6 DEF ApplyOperation
    <3> HIDE DEF o
    <3>2. Recorded(undos', root', LedgerOf(Base))
      <4>1. CASE o.op = "coinbase"
        BY <2>4, <3>1, <4>1
      <4>2. CASE o.op = "in"
        BY <2>2, <2>4, <2>6, <3>1, <4>2, InputLedger DEF Rejected
      <4>3. CASE o.op = "out"
        BY <2>2, <2>4, <3>1, <4>3, OutputLedger
      <4> QED
        BY <2>2, <4>1, <4>2, <4>3 DEF Operation
    <3>3. Recorded(undos, root, LedgerOf(Base))'
      BY <2>3, <3>2
    <3> QED
      BY <2>1, <3>1, <3>3 DEF Between, MidCall, Quiet
  <2> QED
    BY <2>5, <2>6
<1>12. CASE Complete
  <2>1. OnDisk'
    BY <1>0, <1>12, DiskUntouched DEF Complete, disk
  <2>2. Recorded(undos, root, LedgerOf(Base)) /\ undos \in Seq(CTxUndo)
    BY <1>0, <1>12 DEF Complete, MidCall, TypeOK
  <2>3. Base' = Base /\ UNCHANGED <<root, cur>>
    BY <1>12 DEF Complete, Base, LedgerAt, path, temp
  <2>4. undos' = UndosLatestFirst(undos) /\ next' = 1
    BY <1>12 DEF Complete
  <2>5. TakesBack(undos', 1, root, LedgerOf(Base))
    BY <2>2, <2>4, RecordedReversed
  <2>6. TakesBack(undos, next, root, LedgerOf(Base))' /\ TakesBack(undos, 1, root, LedgerOf(Base))'
    BY <2>3, <2>4, <2>5
  <2>7. pc' \in {"aborted", "accept", "reject"} /\ (pc' = "accept" => root' = AccountRoot[cur'.hash])
    BY <1>12, <2>3 DEF Complete, HashMatches
  <2> QED
    BY <2>1, <2>6, <2>7 DEF Between, MidCall, Quiet
<1>13. CASE Accept
  <2>1. caller # "hash" /\ pc = "accept"
    BY <1>13 DEF Accept, CallShape, Busy
  <2>2. cur.hash \in Blocks /\ Parent[cur.hash] = Base
    BY <2>1, BaseType
  <2>3. root = AccountRoot[cur.hash] /\ TakesBack(undos, 1, root, LedgerOf(Base)) /\ UNCHANGED root
    BY <1>0, <1>13, <2>1 DEF Accept, MidCall
  <2>4. OnDisk'
    <3>1. trieDat' = trieDat /\ undoData' \in {undoData, [undoData EXCEPT ![cur.hash] = undos]}
      BY <1>13 DEF Accept
    <3>2. ASSUME NEW b \in Blocks, undoData'[b] # NoUndo
          PROVE  TakesBack(undoData'[b], 1, AccountRoot[b], LedgerOf(Parent[b]))
      <4>1. undoData'[b] = undoData[b] \/ (b = cur.hash /\ undoData'[b] = undos)
        BY <2>2, <3>1 DEF TypeOK
      <4> QED
        BY <1>0, <2>2, <2>3, <3>2, <4>1 DEF OnDisk
    <3> QED
      BY <1>0, <3>1, <3>2 DEF OnDisk
  <2>5. root = LedgerOf(cur.hash)
    BY <2>2, <2>3, ConstantsAssumption DEF LedgerOf
  <2>6. CASE caller = "init"
    <3>1. Return(TRUE, cur.hash, FALSE)
      BY <1>13, <2>6 DEF Accept
    <3> QED
      BY <2>3, <2>4, <2>5, <2>6, <3>1, ReturnLedger
  <2>7. CASE caller # "init"
    <3>1. caller \in Walkers
      BY <2>1, <2>7 DEF CallShape
    <3>2. pc' = "undo" /\ LedgerAt' = cur.hash
      BY <1>13, <2>1, <2>7, <3>1, AcceptShape DEF Accept
    <3> QED
      BY <2>3, <2>4, <2>5, <3>2 DEF Between, MidCall, Quiet
  <2> QED
    BY <2>6, <2>7
<1>14. CASE AcceptFails
  <2>1. stray' = (stray \/ TRUE)
    BY <1>14 DEF AcceptFails, Return
  <2> QED
    BY <2>1, Zenon
<1>15. CASE RejectDone
  <2> DEFINE strayed == caller \in {"chain", "visit", "restore"} /\ LedgerAt # bestBlock
  <2>1. OnDisk'
    BY <1>0, <1>15, DiskUntouched DEF RejectDone, disk
  <2>2. Return(FALSE, bestBlock, strayed) /\ UNCHANGED root
    BY <1>15 DEF RejectDone
  <2>3. ~strayed
    <3> HIDE DEF strayed
    <3> QED
      BY <2>2, Zenon DEF Return
  <2>4. Base = bestBlock
    BY <2>3 DEF Base, Walkers
  <2> HIDE DEF strayed
  <2>5. root \in Trie /\ undos \in Seq(CTxUndo) /\ next \in Nat /\ next > Len(undos)
    BY <1>15 DEF RejectDone, TypeOK
  <2>6. TakesBack(undos, next, root, LedgerOf(Base)) /\ Base \in Blocks \cup {NoBlock}
    BY <1>0, <1>15, BaseType DEF RejectDone, MidCall
  <2>7. root = LedgerOf(bestBlock)
    BY <2>4, <2>5, <2>6, LedgerOfType, TakesBackDone
  <2> QED
    BY <2>1, <2>2, <2>7, ReturnLedger
<1>16. CASE Unapply
  <2>1. OnDisk'
    BY <1>0, <1>16, DiskUntouched DEF Unapply, disk
  <2>2. CASE pc' = "aborted"
    BY <2>1, <2>2 DEF Between, MidCall, Quiet
  <2>3. CASE pc' # "aborted"
    <3>1. /\ root' = [root EXCEPT ![undos[next].key] = Restored(undos[next])]
          /\ next' = next + 1
          /\ UNCHANGED <<pc, undos, caller, bestBlock, path>>
      BY <1>16, <2>3 DEF Unapply, PutBack, Restored
    <3>2. Base' = Base /\ LedgerAt' = LedgerAt
      BY <3>1 DEF Base, LedgerAt, path
    <3>3. root \in Trie /\ undos \in Seq(CTxUndo) /\ next \in 1..Len(undos)
      BY <1>16 DEF Unapply, TypeOK
    <3>4. CASE pc = "disconnect"
      <4>1. LedgerAt \in Blocks
        BY <3>4, AtHighest DEF CallShape
      <4>2. LedgerOf(Parent[LedgerAt]) \in Trie
        BY <4>1, LedgerOfType, BlocksAssumption
      <4>3. TakesBack(undos, next, root, LedgerOf(Parent[LedgerAt]))
        BY <1>0, <3>4 DEF MidCall
      <4>4. TakesBack(undos, next + 1, [root EXCEPT ![undos[next].key] = Restored(undos[next])],
                      LedgerOf(Parent[LedgerAt]))
        BY <3>3, <4>2, <4>3, TakesBackStep
      <4>5. TakesBack(undos, next, root, LedgerOf(Parent[LedgerAt]))'
        BY <3>1, <3>2, <4>4
      <4> QED
        BY <2>1, <3>1, <3>4, <4>5 DEF Between, MidCall, Quiet
    <3>5. CASE pc = "reject"
      <4>1. LedgerOf(Base) \in Trie
        BY <3>5, BaseType, LedgerOfType
      <4>2. TakesBack(undos, next, root, LedgerOf(Base))
        BY <1>0, <3>5 DEF MidCall
      <4>3. TakesBack(undos, next + 1, [root EXCEPT ![undos[next].key] = Restored(undos[next])],
                      LedgerOf(Base))
        BY <3>3, <4>1, <4>2, TakesBackStep
      <4>4. TakesBack(undos, next, root, LedgerOf(Base))'
        BY <3>1, <3>2, <4>3
      <4> QED
        BY <2>1, <3>1, <3>5, <4>4 DEF Between, MidCall, Quiet
    <3> QED
      BY <1>16, <3>4, <3>5 DEF Unapply
  <2> QED
    BY <2>2, <2>3
<1>17. CASE FlushFails \/ FlushWrite \/ FlushCleanup
  <2>1. OnDisk'
    BY <1>0, <1>17, DiskUntouched DEF FlushFails, FlushWrite, FlushCleanup, disk
  <2> QED
    BY <1>0, <1>17, <2>1 DEF FlushFails, FlushWrite, FlushCleanup, FlushOver, Between, MidCall, Quiet
<1>18. CASE FlushRename
  <2>1. trieDat' = [best |-> bestBlock, trie |-> root] /\ root = LedgerOf(bestBlock)
    BY <1>0, <1>18 DEF FlushRename, MidCall, Between, Quiet
  <2>2. OnDisk'
    BY <1>0, <1>18, <2>1 DEF FlushRename, OnDisk
  <2> QED
    BY <1>18, <2>1, <2>2 DEF FlushRename, FlushOver, Between, MidCall, Quiet
<1>19. CASE Crash
  <2>1. OnDisk'
    BY <1>0, <1>19, DiskUntouched DEF Crash, disk
  <2> QED
    BY <1>19, <2>1 DEF Crash, Between, MidCall, Quiet
<1>20. CASE Rot
  <2>1. OnDisk'
    BY <1>0, <1>20, ConstantsAssumption DEF Rot, OnDisk
  <2> QED
    BY <1>20, <2>1 DEF Rot, Between, MidCall, Quiet
<1>21. CASE Restart
  <2>1. OnDisk'
    BY <1>0, <1>21, ConstantsAssumption DEF Restart, OnDisk
  <2>2. root' = LedgerOf(bestBlock')
    <3>1. CASE trieDat \in {NoFile, Damaged}
      BY <1>21, <3>1 DEF Restart, LedgerOf
    <3>2. CASE trieDat \notin {NoFile, Damaged}
      BY <1>0, <1>21, <3>2 DEF Restart, OnDisk, TypeOK
    <3> QED
      BY <3>1, <3>2
  <2> QED
    BY <1>21, <2>1, <2>2 DEF Restart, Between, MidCall
<1>22. CASE UNCHANGED vars
  <2>1. OnDisk'
    BY <1>0, <1>22, DiskUntouched DEF vars, disk
  <2>2. Base' = Base /\ LedgerAt' = LedgerAt
    BY <1>22 DEF vars, path, Base, LedgerAt
  <2>3. UNCHANGED <<root, bestBlock, trieTmp, pc, undos, next, cur>>
    BY <1>22 DEF vars, disk, loop, temp
  <2>4. Between' /\ MidCall'
    BY <1>0, <2>2, <2>3 DEF Between, MidCall
  <2> QED
    BY <2>1, <2>4
<1> QED
  BY <1>1, <1>2, <1>3, <1>4, <1>5, <1>6, <1>7, <1>8, <1>9, <1>10, <1>11, <1>12, <1>13,
     <1>14, <1>15, <1>16, <1>17, <1>18, <1>19, <1>20, <1>21, <1>22 DEF Next, Step

LEMMA LedgerInit == Init => LedgerInv
<1> SUFFICES ASSUME Init PROVE LedgerInv
  OBVIOUS
<1>1. Between /\ MidCall
  BY DEF Init, Between, MidCall, LedgerOf
<1>2. OnDisk
  BY ConstantsAssumption DEF Init, OnDisk
<1> QED
  BY <1>1, <1>2 DEF LedgerInv

\* The ledger invariant holds in every reachable state.
THEOREM LedgerAlways == Spec => []LedgerInv
<1>1. Init => TypeOK /\ CallShape /\ LedgerInv
  BY ShapeInit, LedgerInit
<1>2. TypeOK /\ CallShape /\ LedgerInv /\ [Next]_vars => (TypeOK /\ CallShape /\ LedgerInv)'
  BY TypeNext, ShapeNext, LedgerNext
<1> QED
  BY <1>1, <1>2, PTL DEF Spec

\* Between calls the ledger is the one the header of m_bestBlock commits to, for
\* every block tree, every content of the blocks (valid or not), every sequence
\* of calls and every point at which the process dies, unless one of the three
\* unwinding faults happened.
THEOREM LedgerCorrect == Spec => []LedgerMatchesBest
<1>1. LedgerInv => LedgerMatchesBest
  BY DEF LedgerInv, Between, LedgerMatchesBest
<1> QED
  BY <1>1, LedgerAlways, PTL

\* trie.dat, whenever it can be read, holds the ledger of the block it names.
THEOREM SnapshotsCorrect == Spec => []SnapshotCoherent
<1>1. LedgerInv => SnapshotCoherent
  BY DEF LedgerInv, OnDisk, SnapshotCoherent
<1> QED
  BY <1>1, LedgerAlways, PTL

\* The undo data of a block takes its ledger back to the ledger of its parent.
THEOREM UndoDataCorrect == Spec => []UndoTakesBack
<1>1. LedgerInv => UndoTakesBack
  BY DEF LedgerInv, OnDisk, UndoTakesBack
<1> QED
  BY <1>1, LedgerAlways, PTL
=============================================================================
