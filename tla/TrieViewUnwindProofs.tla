------------------------ MODULE TrieViewUnwindProofs ------------------------
(***************************************************************************)
(* Unapply finds every account as its record expects it, and a visit to    *)
(* another block comes back, for every block tree, every content of the    *)
(* blocks and every set of accounts.                                       *)
(***************************************************************************)
EXTENDS TrieViewRefines, TrieViewProofs, Induction

-----------------------------------------------------------------------------
(* Undo records and the accounts they meet *)

\* Unapply's step: the record at n meets what it expects, and so will the rest.
LEMMA FitsStep ==
    ASSUME NEW u \in Seq(CTxUndo), NEW n \in 1..Len(u), NEW now \in Trie, Fits(u, n, now)
    PROVE  /\ Expects(u[n], now[u[n].key])
           /\ Fits(u, n + 1, [now EXCEPT ![u[n].key] = Restored(u[n])])
<1> DEFINE key == u[n].key
           then == [now EXCEPT ![key] = Restored(u[n])]
<1>1. key \in Keys /\ \A i \in 1..Len(u) : u[i].key \in Keys
  <2>1. \A i \in 1..Len(u) : u[i] \in CTxUndo
    OBVIOUS
  <2> QED
    BY <2>1 DEF CTxUndo
<1>2. Expects(u[n], now[key])
  <2>1. n \in n..Len(u) /\ n..(n - 1) = {}
    OBVIOUS
  <2> QED
    BY <2>1 DEF Fits
<1>3. ASSUME NEW i \in (n + 1)..Len(u)
      PROVE  /\ (\A j \in (n + 1)..(i - 1) : u[j].key # u[i].key) => Expects(u[i], then[u[i].key])
             /\ \A j \in (n + 1)..(i - 1) :
                  u[j].key = u[i].key /\ (\A m \in (j + 1)..(i - 1) : u[m].key # u[i].key)
                    => Expects(u[i], Restored(u[j]))
  <2>1. /\ i \in n..Len(u) /\ n \in n..(i - 1) /\ i \in 1..Len(u)
        /\ \A j \in (n + 1)..(i - 1) : j \in n..(i - 1)
        /\ \A j \in n..(i - 1) : j = n \/ j \in (n + 1)..(i - 1)
    OBVIOUS
  <2>2. /\ (\A j \in n..(i - 1) : u[j].key # u[i].key) => Expects(u[i], now[u[i].key])
        /\ \A j \in n..(i - 1) :
             u[j].key = u[i].key /\ (\A m \in (j + 1)..(i - 1) : u[m].key # u[i].key)
               => Expects(u[i], Restored(u[j]))
    BY <2>1 DEF Fits
  <2>3. ASSUME \A j \in (n + 1)..(i - 1) : u[j].key # u[i].key
        PROVE  Expects(u[i], then[u[i].key])
    <3>1. CASE u[i].key = key
      <4>1. then[u[i].key] = Restored(u[n])
        BY <1>1, <3>1 DEF Trie
      <4>2. Expects(u[i], Restored(u[n]))
        BY <2>1, <2>2, <2>3, <3>1
      <4> QED
        BY <4>1, <4>2
    <3>2. CASE u[i].key # key
      <4>1. then[u[i].key] = now[u[i].key]
        BY <1>1, <2>1, <3>2 DEF Trie
      <4>2. Expects(u[i], now[u[i].key])
        BY <2>1, <2>2, <2>3, <3>2
      <4> QED
        BY <4>1, <4>2
    <3> QED
      BY <3>1, <3>2
  <2> QED
    BY <2>1, <2>2, <2>3
<1> QED
  BY <1>2, <1>3 DEF Fits

\* Latest first, every record meets what followed it.
LEMMA CollectsReversed ==
    ASSUME NEW u \in Seq(CTxUndo), NEW now, Collects(u, now)
    PROVE  Fits(UndosLatestFirst(u), 1, now)
<1> DEFINE v == UndosLatestFirst(u)
           r(i) == (Len(u) - i) + 1
<1>1. Len(v) = Len(u) /\ \A i \in 1..Len(u) : v[i] = u[r(i)]
  BY ReverseType
<1>2. Len(u) \in Nat
  OBVIOUS
<1>3. ASSUME NEW i \in 1..Len(u)
      PROVE  /\ (\A j \in 1..(i - 1) : v[j].key # v[i].key) => Expects(v[i], now[v[i].key])
             /\ \A j \in 1..(i - 1) :
                  v[j].key = v[i].key /\ (\A m \in (j + 1)..(i - 1) : v[m].key # v[i].key)
                    => Expects(v[i], Restored(v[j]))
  <2>1. r(i) \in 1..Len(u) /\ v[i] = u[r(i)]
    BY <1>1, <1>2
  <2>2. /\ (\A j \in (r(i) + 1)..Len(u) : u[j].key # v[i].key) => Expects(v[i], now[v[i].key])
        /\ \A j \in (r(i) + 1)..Len(u) :
             u[j].key = v[i].key /\ (\A m \in (r(i) + 1)..(j - 1) : u[m].key # v[i].key)
               => Expects(v[i], Restored(u[j]))
    <3> HIDE DEF r, v
    <3> QED
      BY <2>1 DEF Collects
  <2>3. ASSUME \A j \in 1..(i - 1) : v[j].key # v[i].key
        PROVE  Expects(v[i], now[v[i].key])
    <3>1. ASSUME NEW j \in (r(i) + 1)..Len(u) PROVE u[j].key # v[i].key
      <4>1. r(j) \in 1..(i - 1) /\ r(j) \in 1..Len(u) /\ r(r(j)) = j
        BY <1>2
      <4>2. v[r(j)] = u[j]
        BY <1>1, <4>1
      <4> HIDE DEF r, v
      <4> QED
        BY <2>3, <4>1, <4>2
    <3> HIDE DEF r, v
    <3> QED
      BY <2>2, <3>1
  <2>4. ASSUME NEW j \in 1..(i - 1), v[j].key = v[i].key,
               \A m \in (j + 1)..(i - 1) : v[m].key # v[i].key
        PROVE  Expects(v[i], Restored(v[j]))
    <3>1. j \in 1..Len(u) /\ r(j) \in (r(i) + 1)..Len(u) /\ v[j] = u[r(j)]
      BY <1>1, <1>2
    <3>2. ASSUME NEW m \in (r(i) + 1)..(r(j) - 1) PROVE u[m].key # v[i].key
      <4>1. r(m) \in (j + 1)..(i - 1) /\ r(m) \in 1..Len(u) /\ r(r(m)) = m
        BY <1>2
      <4>2. v[r(m)] = u[m]
        BY <1>1, <4>1
      <4> HIDE DEF r, v
      <4> QED
        BY <2>4, <4>1, <4>2
    <3> HIDE DEF r, v
    <3> QED
      BY <2>2, <2>4, <3>1, <3>2
  <2> QED
    BY <2>3, <2>4
<1> HIDE DEF r, v
<1> QED
  BY <1>1, <1>3 DEF Fits, v

\* Without a repeated account the order does not matter.
LEMMA CollectsOnce ==
    ASSUME NEW u \in Seq(CTxUndo), NEW now, Collects(u, now), ~Repeats(u)
    PROVE  Fits(u, 1, now)
<1> SUFFICES ASSUME NEW i \in 1..Len(u)
             PROVE  /\ Expects(u[i], now[u[i].key])
                    /\ \A j \in 1..(i - 1) : u[j].key # u[i].key
  BY DEF Fits
<1>1. /\ \A j \in (i + 1)..Len(u) : j \in 1..Len(u) /\ j # i
      /\ \A j \in 1..(i - 1) : j \in 1..Len(u) /\ j # i
  OBVIOUS
<1>2. /\ \A j \in (i + 1)..Len(u) : u[j].key # u[i].key
      /\ \A j \in 1..(i - 1) : u[j].key # u[i].key
  BY <1>1 DEF Repeats
<1> QED
  BY <1>2 DEF Collects

\* One more record, of an account that then becomes what the record expects.
LEMMA CollectsAppend ==
    ASSUME NEW u \in Seq(CTxUndo), NEW now \in Trie, Collects(u, now),
           NEW r \in CTxUndo, Restored(r) = now[r.key], NEW value, Expects(r, value)
    PROVE  Collects(Append(u, r), [now EXCEPT ![r.key] = value])
<1> DEFINE v == Append(u, r)
           then == [now EXCEPT ![r.key] = value]
<1>1. Len(v) = Len(u) + 1 /\ v[Len(u) + 1] = r /\ \A i \in 1..Len(u) : v[i] = u[i]
  OBVIOUS
<1>2. Len(u) \in Nat /\ r.key \in Keys /\ \A i \in 1..Len(u) : u[i].key \in Keys
  <2>1. \A i \in 1..Len(u) : u[i] \in CTxUndo
    OBVIOUS
  <2> QED
    BY <2>1 DEF CTxUndo
<1>3. then[r.key] = value /\ \A k \in Keys : k # r.key => then[k] = now[k]
  BY <1>2 DEF Trie
<1> HIDE DEF v, then
<1>4. ASSUME NEW i \in 1..Len(v), \A j \in (i + 1)..Len(v) : v[j].key # v[i].key
      PROVE  Expects(v[i], then[v[i].key])
  <2>1. CASE i = Len(u) + 1
    BY <1>1, <1>3, <2>1
  <2>2. CASE i \in 1..Len(u)
    <3>1. v[i] = u[i] /\ Len(u) + 1 \in (i + 1)..Len(v)
      BY <1>1, <1>2, <2>2
    <3>2. r.key # u[i].key
      BY <1>1, <1>4, <3>1
    <3>3. \A j \in (i + 1)..Len(u) : u[j].key # u[i].key
      BY <1>1, <1>2, <1>4, <2>2, <3>1
    <3> QED
      BY <1>2, <1>3, <2>2, <3>1, <3>2, <3>3 DEF Collects
  <2> QED
    BY <1>1, <1>2, <2>1, <2>2
<1>5. ASSUME NEW i \in 1..Len(v), NEW j \in (i + 1)..Len(v), v[j].key = v[i].key,
             \A m \in (i + 1)..(j - 1) : v[m].key # v[i].key
      PROVE  Expects(v[i], Restored(v[j]))
  <2>1. i \in 1..Len(u) /\ v[i] = u[i]
    BY <1>1, <1>2
  <2>2. \A m \in (i + 1)..(j - 1) : u[m].key # u[i].key
    <3>1. \A m \in (i + 1)..(j - 1) : m \in 1..Len(u)
      BY <1>1, <1>2
    <3> QED
      BY <1>1, <1>5, <2>1, <3>1
  <2>3. CASE j \in (i + 1)..Len(u)
    <3>1. v[j] = u[j]
      BY <1>1, <1>2, <2>1, <2>3
    <3> QED
      BY <1>5, <2>1, <2>2, <2>3, <3>1 DEF Collects
  <2>4. CASE j = Len(u) + 1
    <3>1. v[j] = r /\ u[i].key = r.key
      BY <1>1, <1>5, <2>1, <2>4
    <3>2. \A m \in (i + 1)..Len(u) : u[m].key # u[i].key
      BY <1>2, <2>2, <2>4
    <3>3. Expects(u[i], now[r.key])
      BY <2>1, <3>1, <3>2 DEF Collects
    <3> QED
      BY <2>1, <3>1, <3>3
  <2> QED
    BY <1>1, <1>2, <2>1, <2>3, <2>4
<1> QED
  BY <1>4, <1>5 DEF Collects, v, then

-----------------------------------------------------------------------------
(* Every step keeps the records fitting *)

LEMMA InputUnwind ==
    ASSUME TypeOK, NEW o \in Operation, ~InputRejected(o), Input(o), Collects(undos, root)
    PROVE  Collects(undos', root')
<1> DEFINE gone == root[o.key].balance - o.value < MIN_BALANCE
           r == [key |-> o.key, create |-> FALSE, destroy |-> gone, acct |-> root[o.key]]
           value == IF gone THEN NoNode ELSE Spent(root[o.key], o)
<1>1. o.key \in Keys /\ o.value \in Nat /\ o.nLimitValue \in Nat /\ o.fSetLimit \in BOOLEAN
  BY DEF Operation
<1>2. root[o.key] \in Account
  BY <1>1 DEF TypeOK, Trie, InputRejected
<1>3. Spent(root[o.key], o) \in Account
  <2>1. /\ root[o.key].balance \in Nat /\ root[o.key].limit \in Nat
        /\ root[o.key].futurelimit \in Nat /\ o.value <= root[o.key].balance
    BY <1>1, <1>2 DEF InputRejected, Account
  <2>2. cur.nHeight \in Nat
    BY DEF TypeOK, CBlock
  <2> QED
    BY <1>1, <2>1, <2>2 DEF Spent, Account
<1>4. r.key = o.key /\ Restored(r) = root[o.key]
  BY DEF Restored
<1>5. r \in CTxUndo
  <2>1. r.destroy \in BOOLEAN
    OBVIOUS
  <2> QED
    BY <1>1, <1>2, <2>1 DEF CTxUndo
<1>6. Expects(r, value)
  <2>1. Spent(root[o.key], o) # NoNode
    BY <1>3, ConstantsAssumption
  <2>2. gone <=> value = NoNode
    BY <2>1
  <2> QED
    BY <2>2 DEF Expects
<1>7. undos' = Append(undos, r) /\ root' = [root EXCEPT ![o.key] = value]
  BY DEF Input
<1> HIDE DEF r, value
<1>8. undos \in Seq(CTxUndo) /\ root \in Trie /\ Restored(r) = root[r.key]
  BY <1>4 DEF TypeOK
<1>9. Collects(Append(undos, r), [root EXCEPT ![r.key] = value])
  BY <1>5, <1>6, <1>8, CollectsAppend
<1> QED
  BY <1>4, <1>7, <1>9

LEMMA OutputUnwind ==
    ASSUME TypeOK, NEW o \in Operation, Output(o), Collects(undos, root)
    PROVE  Collects(undos', root')
<1> DEFINE create == root[o.key] = NoNode
           r == [key |-> o.key, create |-> create, destroy |-> FALSE,
                 acct |-> IF create THEN NoAccount ELSE root[o.key]]
<1>1. o.key \in Keys
  BY DEF Operation
<1>2. root[o.key] \in Account \cup {NoNode}
  BY <1>1 DEF TypeOK, Trie
<1>3. r.key = o.key /\ Restored(r) = root[o.key]
  BY DEF Restored
<1>4. r \in CTxUndo
  <2>1. NoAccount \in Account
    BY DEF NoAccount, Account
  <2> QED
    BY <1>1, <1>2, <2>1 DEF CTxUndo
<1>5. undos' = Append(undos, r) /\ root' \in Trie
  BY OutputType DEF Output
<1>6. PICK v : root' = [root EXCEPT ![o.key] = v] /\ (create \/ v # NoNode)
  <2> DEFINE acct == root[o.key]
             raised == [balance |-> Wrap(acct.balance + o.value), age |-> acct.age,
                        limit |-> acct.limit, futurelimit |-> acct.futurelimit]
  <2>1. create => \E v : root' = [root EXCEPT ![o.key] = v]
    BY DEF Output
  <2>2. ~create => root' = [root EXCEPT ![o.key] = raised]
    BY DEF Output
  <2>3. ~create => raised \in Account
    <3>1. o.value \in Nat /\ \A x \in Nat : Wrap(x) \in Nat
      BY ConstantsAssumption DEF Wrap, Operation
    <3>2. ~create => /\ acct.balance \in Nat /\ acct.age \in Nat
                     /\ acct.limit \in Nat /\ acct.futurelimit \in Nat
      BY <1>2 DEF Account
    <3>3. ~create => Wrap(acct.balance + o.value) \in Nat
      BY <3>1, <3>2
    <3> QED
      BY <3>2, <3>3 DEF Account
  <2>4. ~create => raised # NoNode
    <3> HIDE DEF raised, create
    <3> QED
      BY <2>3, ConstantsAssumption
  <2> HIDE DEF raised, create
  <2> QED
    BY <2>1, <2>2, <2>4, Zenon
<1>7. Expects(r, v)
  BY <1>6 DEF Expects
<1> HIDE DEF r
<1>8. undos \in Seq(CTxUndo) /\ root \in Trie /\ Restored(r) = root[r.key]
  BY <1>3 DEF TypeOK
<1>9. Collects(Append(undos, r), [root EXCEPT ![r.key] = v])
  BY <1>4, <1>7, <1>8, CollectsAppend
<1> QED
  BY <1>3, <1>5, <1>6, <1>9

\* A step that is not an unwinding fault keeps every list fitting.
LEMMA UnwindNext ==
    TypeOK /\ CallShape /\ LedgerInv /\ UnwindInv /\ [Next]_vars => UnwindInv'
<1> DEFINE Lists == /\ pc \in {"disconnect", "reject"} => Fits(undos, next, root)
                    /\ pc = "temp" => Collects(undos, root)
                    /\ pc = "accept" => Fits(undos, 1, root)
           Kept == \A b \in Blocks : undoData[b] # NoUndo => Fits(undoData[b], 1, AccountRoot[b])
<1> SUFFICES ASSUME TypeOK, CallShape, LedgerInv, UnwindInv, [Next]_vars, ~stray'
             PROVE  Lists' /\ Kept'
  BY DEF UnwindInv
<1>0. Lists /\ Kept /\ Between /\ MidCall
  BY StrayStays, Zenon DEF LedgerInv, UnwindInv
<1>k. UNCHANGED undoData => Kept'
  BY <1>0
<1>i. pc' \notin {"disconnect", "reject", "temp", "accept"} => Lists'
  OBVIOUS
<1>t. pc' = "temp" /\ undos' = <<>> => Lists'
  BY DEF Collects
<1> HIDE DEF Lists, Kept
<1>1. ASSUME NEW b \in Blocks, Activate(b) \/ Visit(b) \/ ForceTrie(b) PROVE Lists' /\ Kept'
  BY <1>1, <1>k, <1>i DEF Activate, Visit, ForceTrie, SetPath, disk
<1>2. ASSUME NEW t \in Templates, HashForBlock(t) PROVE Lists' /\ Kept'
  BY <1>2, <1>k, <1>t DEF HashForBlock, StartTempApply, disk
<1>3. CASE ApplyGenesis
  BY <1>3, <1>k, <1>t DEF ApplyGenesis, StartTempApply
<1>4. CASE StartFlush
  BY <1>4, <1>k, <1>i DEF StartFlush, disk
<1>5. CASE UndoBlock
  <2> DEFINE b == Highest(oldSet)
  <2>1. UNCHANGED <<root, undoData>> /\ pc = "undo" /\ caller \in Walkers /\ oldSet # {}
    BY <1>5 DEF UndoBlock, disk, CallShape
  <2>2. CASE Return(FALSE, bestBlock, b # bestBlock)
    <3>1. pc' = "idle"
      BY <2>1, <2>2 DEF Return, Walkers
    <3> QED
      BY <1>k, <1>i, <2>1, <3>1
  <2>3. CASE undoData[b] # NoUndo /\ undos' = undoData[b] /\ next' = 1 /\ pc' = "disconnect"
    <3>1. b = LedgerAt /\ b \in Blocks
      BY <2>1, AtHighest
    <3>2. root = AccountRoot[b]
      <4>1. root = LedgerOf(b)
        BY <1>0, <2>1, <3>1 DEF MidCall
      <4> QED
        BY <3>1, <4>1, ConstantsAssumption DEF LedgerOf
    <3> HIDE DEF b
    <3>3. Fits(undoData[b], 1, AccountRoot[b])
      BY <1>0, <2>3, <3>1 DEF Kept
    <3>4. Fits(undos, next, root)'
      BY <2>1, <2>3, <3>2, <3>3
    <3> QED
      BY <1>k, <2>1, <2>3, <3>4 DEF Lists
  <2> QED
    BY <1>5, <2>2, <2>3 DEF UndoBlock
<1>6. CASE BlockUndone
  BY <1>6, <1>k, <1>i DEF BlockUndone, disk
<1>7. CASE ApplyBlock
  <2>1. caller \in Walkers /\ UNCHANGED undoData
    BY <1>7 DEF ApplyBlock, CallShape, disk
  <2>2. CASE Lowest(newSet) \in Unreadable
    BY <1>7, <1>k, <1>i, <2>1, <2>2 DEF ApplyBlock, Return, Walkers
  <2>3. CASE Lowest(newSet) \notin Unreadable
    BY <1>7, <1>k, <1>t, <2>1, <2>3 DEF ApplyBlock, StartTempApply
  <2> QED
    BY <2>2, <2>3
<1>8. CASE ActivateDone
  BY <1>8, <1>k, <1>i DEF ActivateDone, Return, SetPath, disk
<1>9. CASE ApplyOperation
  <2> DEFINE o == cur.vtx[next]
  <2>1. UNCHANGED undoData /\ pc = "temp"
    BY <1>9 DEF ApplyOperation, disk
  <2>2. Collects(undos, root) /\ undos \in Seq(CTxUndo)
    BY <1>0, <2>1 DEF Lists, TypeOK
  <2>3. o \in Operation
    BY <1>9 DEF ApplyOperation, TypeOK, CBlock
  <2>4. CASE Rejected(o)
    <3>1. pc' = "reject" /\ next' = 1 /\ UNCHANGED <<root, undos>>
      BY <1>9, <2>4 DEF ApplyOperation
    <3>2. stray' = (stray \/ Repeats(undos))
      BY <1>9, <2>4 DEF ApplyOperation
    <3>3. ~Repeats(undos)
      BY <3>2, Zenon
    <3>4. Fits(undos, 1, root)
      BY <2>2, <3>3, CollectsOnce
    <3>5. Fits(undos, next, root)'
      BY <3>1, <3>4
    <3> QED
      BY <1>k, <2>1, <3>1, <3>5 DEF Lists
  <2>5. CASE ~Rejected(o)
    <3>1. /\ pc' = "temp"
          /\ CASE o.op = "coinbase" -> UNCHANGED <<root, undos, limits, setLimit, setTxIn>>
               [] o.op = "in" -> Input(o)
               [] o.op = "out" -> Output(o)
      BY <1>9, <2>1, <2>5 DEF ApplyOperation
    <3> HIDE DEF o
    <3>2. Collects(undos', root')
      <4>1. CASE o.op = "coinbase"
        BY <2>2, <3>1, <4>1
      <4>2. CASE o.op = "in"
        BY <2>2, <2>3, <2>5, <3>1, <4>2, InputUnwind DEF Rejected
      <4>3. CASE o.op = "out"
        BY <2>2, <2>3, <3>1, <4>3, OutputUnwind
      <4> QED
        BY <2>3, <4>1, <4>2, <4>3 DEF Operation
    <3> QED
      BY <1>k, <2>1, <3>1, <3>2 DEF Lists
  <2> QED
    BY <2>4, <2>5
<1>10. CASE Complete
  <2>1. /\ UNCHANGED <<undoData, root>> /\ pc = "temp" /\ next' = 1
        /\ undos' = UndosLatestFirst(undos)
        /\ pc' \in {"aborted", "accept", "reject"}
    BY <1>10 DEF Complete, disk
  <2>2. Collects(undos, root) /\ undos \in Seq(CTxUndo)
    BY <1>0, <2>1 DEF Lists, TypeOK
  <2>3. Fits(undos', 1, root)
    BY <2>1, <2>2, CollectsReversed
  <2>4. Fits(undos, 1, root)' /\ Fits(undos, next, root)'
    BY <2>1, <2>3
  <2> QED
    BY <1>k, <2>1, <2>4 DEF Lists
<1>11. CASE Accept
  <2>1. pc = "accept" /\ caller # "hash"
    BY <1>11 DEF Accept, CallShape, Busy
  <2>2. cur.hash \in Blocks
    BY <2>1, BaseType
  <2>3. Fits(undos, 1, root) /\ root = AccountRoot[cur.hash]
    BY <1>0, <2>1 DEF Lists, MidCall
  <2>4. undoData' \in {undoData, [undoData EXCEPT ![cur.hash] = undos]}
    BY <1>11 DEF Accept
  <2>5. ASSUME NEW b \in Blocks, undoData'[b] # NoUndo PROVE Fits(undoData'[b], 1, AccountRoot[b])
    <3>1. undoData'[b] = undoData[b] \/ (b = cur.hash /\ undoData'[b] = undos)
      BY <2>2, <2>4 DEF TypeOK
    <3> QED
      BY <1>0, <2>3, <2>5, <3>1 DEF Kept
  <2>6. pc' \in {"undo", "flush"}
    BY <1>11, <2>1 DEF Accept, Return
  <2> QED
    BY <1>i, <2>5, <2>6 DEF Kept
<1>12. CASE AcceptFails
  <2>1. stray' = (stray \/ TRUE)
    BY <1>12 DEF AcceptFails, Return
  <2> QED
    BY <2>1, Zenon
<1>13. CASE RejectDone
  BY <1>13, <1>k, <1>i DEF RejectDone, Return, disk
<1>14. CASE Unapply
  <2>1. UNCHANGED <<undoData, undos>> /\ pc \in {"disconnect", "reject"}
        /\ next \in 1..Len(undos) /\ undos \in Seq(CTxUndo) /\ root \in Trie
    BY <1>14 DEF Unapply, disk, TypeOK
  <2>2. CASE pc' = "aborted"
    BY <1>k, <1>i, <2>1, <2>2
  <2>3. CASE pc' # "aborted"
    <3>1. /\ root' = [root EXCEPT ![undos[next].key] = Restored(undos[next])]
          /\ next' = next + 1 /\ UNCHANGED pc
      BY <1>14, <2>3 DEF Unapply, PutBack, Restored
    <3>2. Fits(undos, next, root)
      BY <1>0, <2>1 DEF Lists
    <3>3. Fits(undos, next + 1, [root EXCEPT ![undos[next].key] = Restored(undos[next])])
      BY <2>1, <3>2, FitsStep
    <3>4. Fits(undos, next, root)'
      BY <2>1, <3>1, <3>3
    <3> QED
      BY <1>k, <2>1, <3>1, <3>4 DEF Lists
  <2> QED
    BY <2>2, <2>3
<1>15. CASE FlushFails \/ FlushWrite \/ FlushRename \/ FlushCleanup
  BY <1>15, <1>k, <1>i DEF FlushFails, FlushWrite, FlushRename, FlushCleanup, FlushOver, disk
<1>16. CASE Crash \/ Rot \/ Restart
  BY <1>16, <1>k, <1>i DEF Crash, Rot, Restart, disk
<1>17. CASE UNCHANGED vars
  <2>1. UNCHANGED <<pc, undos, next, root, undoData>>
    BY <1>17 DEF vars, disk, loop
  <2> QED
    BY <1>0, <1>k, <2>1 DEF Lists
<1> QED
  BY <1>1, <1>2, <1>3, <1>4, <1>5, <1>6, <1>7, <1>8, <1>9, <1>10, <1>11, <1>12, <1>13,
     <1>14, <1>15, <1>16, <1>17 DEF Next, Step

\* Unapply, whether it takes a block back, unwinds a refused one or takes back a
\* candidate, aborts at no record.
LEMMA UnapplyGoesOn ==
    ASSUME TypeOK, UnwindInv, ~stray, Unapply
    PROVE  pc' # "aborted"
<1> DEFINE u == undos[next]
<1>1. next \in 1..Len(undos) /\ undos \in Seq(CTxUndo) /\ root \in Trie /\ pc # "aborted"
  BY DEF Unapply, TypeOK
<1>2. Fits(undos, next, root)
  BY Zenon DEF UnwindInv, Unapply
<1>3. u \in CTxUndo
  BY <1>1
<1>4. Expects(undos[next], root[undos[next].key])
  BY ONLY <1>1, <1>2, FitsStep
<1>5. u.create \/ (u.destroy # (root[u.key] # NoNode))
  BY <1>3, <1>4 DEF Expects, CTxUndo
<1> QED
  BY <1>1, <1>5 DEF Unapply

LEMMA UnwindInit == Init => UnwindInv
  BY DEF Init, UnwindInv

\* The undo records at hand and on disk fit the ledger they will meet.
THEOREM UnwindAlways == Spec => []UnwindInv
<1>1. Init => UnwindInv
  BY UnwindInit
<1>2. TypeOK /\ CallShape /\ LedgerInv /\ UnwindInv /\ [Next]_vars => UnwindInv'
  BY UnwindNext
<1> QED
  BY <1>1, <1>2, TypeCorrect, CallsKeepTheirShape, LedgerAlways, PTL DEF Spec

\* As long as a block that went through leaves an account (the account root of
\* an empty trie is taken through a null pointer), the ledger never runs into
\* one of the assertions or null pointers of Unapply and Hash: whatever blocks
\* are undone, refused or tried, up to the first unwinding fault.
THEOREM NoAborts == Spec /\ []AccountsLeft => []NeverAborts
<1>1. Init => NeverAborts
  BY DEF Init, NeverAborts
<1>2. TypeOK /\ UnwindInv /\ AccountsLeft /\ NeverAborts /\ [Next]_vars => NeverAborts'
  <2> SUFFICES ASSUME TypeOK, UnwindInv, AccountsLeft, NeverAborts, [Next]_vars, ~stray'
               PROVE  pc' # "aborted"
    BY DEF NeverAborts
  <2>0. ~stray /\ pc # "aborted"
    BY StrayStays, Zenon DEF NeverAborts
  <2>1. CASE Unapply
    BY <2>0, <2>1, UnapplyGoesOn
  <2>2. CASE Complete
    BY <2>2 DEF Complete, AccountsLeft
  <2>3. ASSUME NEW b \in Blocks, Activate(b) \/ Visit(b) \/ ForceTrie(b) PROVE pc' # "aborted"
    BY <2>3 DEF Activate, Visit, ForceTrie, SetPath
  <2>4. ASSUME NEW t \in Templates, HashForBlock(t) PROVE pc' # "aborted"
    BY <2>4 DEF HashForBlock, StartTempApply
  <2>5. CASE ApplyGenesis \/ StartFlush
    BY <2>5 DEF ApplyGenesis, StartFlush, StartTempApply
  <2>6. CASE UndoBlock \/ BlockUndone \/ ApplyBlock \/ ActivateDone
    BY <2>6 DEF UndoBlock, BlockUndone, ApplyBlock, ActivateDone, Return, SetPath, StartTempApply
  <2>7. CASE ApplyOperation
    BY <2>7 DEF ApplyOperation
  <2>8. CASE Accept \/ AcceptFails \/ RejectDone
    BY <2>8 DEF Accept, AcceptFails, RejectDone, Return, SetPath
  <2>9. CASE FlushFails \/ FlushWrite \/ FlushRename \/ FlushCleanup
    BY <2>9 DEF FlushFails, FlushWrite, FlushRename, FlushCleanup, FlushOver
  <2>10. CASE Crash \/ Rot \/ Restart
    BY <2>0, <2>10 DEF Crash, Rot, Restart
  <2>11. CASE UNCHANGED vars
    BY <2>0, <2>11 DEF vars
  <2> QED
    BY <2>1, <2>2, <2>3, <2>4, <2>5, <2>6, <2>7, <2>8, <2>9, <2>10, <2>11 DEF Next, Step
<1> QED
  BY <1>1, <1>2, TypeCorrect, UnwindAlways, PTL DEF Spec
-----------------------------------------------------------------------------
(* BalancesAt and GetSlice come back *)

\* A call that returns with an error, or that is not a visit, leaves nothing to
\* come back from.
LEMMA ReturnEnds ==
    ASSUME NEW ok \in BOOLEAN, NEW best, NEW strayed, Return(ok, best, strayed),
           ~ok \/ caller # "visit", caller \in Visits \cup {"chain", "init", "hash"}
    PROVE  VisitInv'
<1>1. caller' \in {"none", "init"}
  BY DEF Return
<1> QED
  BY <1>1 DEF VisitInv, Visits

\* What a step that is not part of a visit does not touch.
LEMMA VisitSame ==
    ASSUME VisitInv, UNCHANGED <<caller, bestBlock, undoData, path>>,
           pc' \in Busy \cup {"aborted"}, pc \in Busy
    PROVE  VisitInv'
  BY DEF VisitInv, path, Undoable, Busy

LEMMA NoVisit ==
    ASSUME caller' \notin Visits
    PROVE  VisitInv'
  BY DEF VisitInv, Visits

LEMMA VisitInit == Init => VisitInv
  BY DEF Init, VisitInv, Visits, Busy

LEMMA VisitCalled ==
    ASSUME NEW b \in Blocks, Visit(b)
    PROVE  VisitInv'
<1>1. /\ caller' = "visit" /\ pc' = "undo" /\ oldHash' = bestBlock /\ bestBlock' = bestBlock
      /\ target' = b /\ newSet' = Ancestors[b] \ Ancestors[bestBlock]
  BY DEF Visit, SetPath
<1> QED
  BY <1>1 DEF VisitInv, Busy, Visits

LEMMA VisitUndo == TypeOK /\ CallShape /\ VisitInv /\ UndoBlock => VisitInv'
<1> SUFFICES ASSUME TypeOK, CallShape, VisitInv, UndoBlock PROVE VisitInv'
  OBVIOUS
<1>1. pc = "undo" /\ caller \in Walkers
  BY DEF UndoBlock, CallShape
<1>2. CASE Return(FALSE, bestBlock, Highest(oldSet) # bestBlock)
  BY <1>1, <1>2, ReturnEnds DEF Walkers, Visits
<1>3. CASE pc' = "disconnect" /\ UNCHANGED <<bestBlock, caller, path, stray>>
  BY <1>1, <1>3, VisitSame DEF UndoBlock, disk, Busy
<1> QED
  BY <1>2, <1>3 DEF UndoBlock

LEMMA VisitUndone == CallShape /\ VisitInv /\ BlockUndone => VisitInv'
<1> SUFFICES ASSUME CallShape, VisitInv, BlockUndone PROVE VisitInv'
  OBVIOUS
<1>1. /\ pc = "disconnect" /\ pc' = "undo" /\ bestBlock' = Highest(oldSet)
      /\ oldSet' = oldSet \ {Highest(oldSet)}
      /\ UNCHANGED <<caller, target, oldHash, newSet, undoData>>
  BY DEF BlockUndone, disk
<1> QED
  BY <1>1 DEF VisitInv, Busy, Visits, Undoable

LEMMA VisitApply == CallShape /\ VisitInv /\ ApplyBlock => VisitInv'
<1> SUFFICES ASSUME CallShape, VisitInv, ApplyBlock PROVE VisitInv'
  OBVIOUS
<1>1. pc = "undo" /\ caller \in Walkers
  BY DEF ApplyBlock, CallShape
<1>2. CASE Return(FALSE, bestBlock, LedgerAt # bestBlock)
  BY <1>1, <1>2, ReturnEnds DEF Walkers, Visits
<1>3. CASE pc' = "temp" /\ UNCHANGED <<bestBlock, caller, path, badBlock, stray>>
  BY <1>1, <1>3, VisitSame DEF ApplyBlock, disk, Busy
<1> QED
  BY <1>2, <1>3 DEF ApplyBlock, StartTempApply

\* The way back leads over the blocks that were applied on the way out.
LEMMA VisitDone == CallShape /\ VisitInv /\ ActivateDone => VisitInv'
<1> SUFFICES ASSUME CallShape, VisitInv, ActivateDone PROVE VisitInv'
  OBVIOUS
<1>1. /\ pc = "undo" /\ caller \in Walkers /\ newSet = {} /\ Return(TRUE, target, FALSE)
      /\ undoData' = undoData
  BY DEF ActivateDone, CallShape, disk
<1>2. CASE caller = "visit"
  <2>1. /\ caller' = "restore" /\ oldHash' = oldHash /\ target' = oldHash /\ pc' = "undo"
        /\ oldSet' = Ancestors[target] \ Ancestors[oldHash]
    BY <1>1, <1>2 DEF Return, SetPath
  <2>2. Ancestors[target] \ Ancestors[oldHash] \subseteq Undoable
    BY <1>1, <1>2 DEF VisitInv, Busy
  <2> QED
    BY <1>1, <2>1, <2>2 DEF VisitInv, Busy, Visits, Undoable
<1>3. CASE caller # "visit"
  BY <1>1, <1>3, ReturnEnds DEF Walkers, Visits
<1> QED
  BY <1>2, <1>3

LEMMA VisitAccept == TypeOK /\ CallShape /\ VisitInv /\ Accept => VisitInv'
<1> SUFFICES ASSUME TypeOK, CallShape, VisitInv, Accept PROVE VisitInv'
  OBVIOUS
<1>1. CASE caller = "init"
  BY <1>1, ReturnEnds DEF Accept
<1>2. CASE caller # "init"
  <2> DEFINE b == cur.hash
  <2>1. /\ pc = "accept" /\ pc' = "undo" /\ bestBlock' = b /\ newSet' = newSet \ {b}
        /\ UNCHANGED <<caller, target, oldHash, oldSet>>
        /\ undoData' = IF undoData[b] = NoUndo THEN [undoData EXCEPT ![b] = undos] ELSE undoData
    BY <1>2 DEF Accept
  <2>2. /\ undoData \in [Blocks -> Seq(CTxUndo) \cup {NoUndo}] /\ undos \in Seq(CTxUndo)
        /\ undos # NoUndo
    BY ConstantsAssumption DEF TypeOK
  <2>3. caller # "hash" /\ caller \in Walkers
    BY <1>2, <2>1 DEF CallShape, Busy
  <2>4. b \in Blocks
    BY <2>1, <2>3, CurBlock
  <2>5. oldSet = {}
    BY <2>1, <2>3 DEF CallShape
  <2> HIDE DEF b
  <2>6. Undoable \cup {b} \subseteq Undoable'
    BY <2>1, <2>2, <2>4 DEF Undoable
  <2> QED
    BY <2>1, <2>5, <2>6 DEF VisitInv, Busy, Visits
<1> QED
  BY <1>1, <1>2

LEMMA VisitNext == TypeOK /\ CallShape /\ VisitInv /\ [Next]_vars => VisitInv'
<1> SUFFICES ASSUME TypeOK, CallShape, VisitInv, [Next]_vars PROVE VisitInv'
  OBVIOUS
<1>0. pc \notin Busy \cup {"aborted"} => caller \notin Visits
  BY DEF VisitInv
<1>1. ASSUME NEW b \in Blocks, Activate(b) \/ ForceTrie(b) PROVE VisitInv'
  <2>1. caller' \notin Visits
    BY <1>0, <1>1 DEF Activate, ForceTrie, SetPath, Busy, Visits
  <2> QED
    BY <2>1, NoVisit
<1>2. ASSUME NEW b \in Blocks, Visit(b) PROVE VisitInv'
  BY <1>2, VisitCalled
<1>3. ASSUME NEW t \in Templates, HashForBlock(t) PROVE VisitInv'
  BY <1>3, NoVisit DEF HashForBlock, Visits
<1>4. CASE ApplyGenesis \/ StartFlush
  <2>1. caller' \notin Visits
    BY <1>0, <1>4 DEF ApplyGenesis, StartFlush, Busy, Visits
  <2> QED
    BY <2>1, NoVisit
<1>5. CASE UndoBlock
  BY <1>5, VisitUndo
<1>6. CASE BlockUndone
  BY <1>6, VisitUndone
<1>7. CASE ApplyBlock
  BY <1>7, VisitApply
<1>8. CASE ActivateDone
  BY <1>8, VisitDone
<1>9. CASE ApplyOperation \/ Complete \/ Unapply
  <2>1. /\ pc \in Busy /\ pc' \in Busy \cup {"aborted"}
        /\ UNCHANGED <<caller, bestBlock, undoData, path>>
    BY <1>9 DEF ApplyOperation, Complete, Unapply, Busy, disk
  <2> QED
    BY <2>1, VisitSame
<1>10. CASE Accept
  BY <1>10, VisitAccept
<1>11. CASE AcceptFails \/ RejectDone
  <2>1. pc \in Busy /\ caller \in Visits \cup {"chain", "init", "hash"}
    BY <1>11 DEF AcceptFails, RejectDone, CallShape, Walkers, Busy, Visits
  <2>2. \E best, strayed : Return(FALSE, best, strayed)
    BY <1>11 DEF AcceptFails, RejectDone
  <2> QED
    BY <2>1, <2>2, ReturnEnds
<1>12. CASE FlushFails \/ FlushWrite \/ FlushRename \/ FlushCleanup
  <2>1. caller' \notin Visits
    BY <1>0, <1>12 DEF FlushFails, FlushWrite, FlushRename, FlushCleanup, FlushOver, Busy, Visits
  <2> QED
    BY <2>1, NoVisit
<1>13. CASE Crash \/ Restart
  BY <1>13, NoVisit DEF Crash, Restart, LoseMemory, Visits
<1>14. CASE Rot
  BY <1>14 DEF Rot, VisitInv, Busy, Visits, path, Undoable
<1>15. CASE UNCHANGED vars
  BY <1>15 DEF vars, disk, path, VisitInv, Undoable
<1> QED
  BY <1>1, <1>2, <1>3, <1>4, <1>5, <1>6, <1>7, <1>8, <1>9, <1>10, <1>11, <1>12, <1>13, <1>14, <1>15
  DEF Next, Step

\* One step of a visit that ends.
ComesBack == caller \in Visits /\ pc' = "idle" /\ ~stray' => bestBlock' = oldHash

LEMMA VisitEnds ==
    ASSUME DiskMayFail = FALSE, TypeOK, CallShape, VisitInv, WayIsSound, NeverAborts, [Next]_vars
    PROVE  ComesBack \/ UNCHANGED vars
<1> SUFFICES ASSUME Next, caller \in Visits, pc' = "idle", ~stray' PROVE bestBlock' = oldHash
  BY DEF ComesBack
<1>0. pc \in Busy /\ ~stray
  BY StrayStays DEF NeverAborts, VisitInv, Busy
<1>1. CASE UndoBlock
  <2> DEFINE b == Highest(oldSet)
  <2>1. /\ pc = "undo" /\ oldSet # {} /\ undoData[b] = NoUndo /\ bestBlock' = bestBlock
        /\ (b # bestBlock => stray')
    BY <1>1 DEF UndoBlock, Return
  <2>2. b \in oldSet
    <3>1. caller \in Walkers /\ target \in Blocks /\ OnPath(LedgerAt) /\ b = LedgerAt
      BY <2>1, AtHighest DEF CallShape, Busy
    <3>2. LedgerAt \in Blocks /\ oldSet = Ancestors[LedgerAt] \ Ancestors[target]
      BY <3>1 DEF OnPath
    <3>3. LedgerAt \in Ancestors[LedgerAt] /\ LedgerAt \notin Ancestors[target]
      BY <2>1, <3>1, <3>2, TreeAssumption
    <3> QED
      BY <3>1, <3>2, <3>3
  <2> HIDE DEF b
  <2>3. b = bestBlock
    BY <2>1
  <2>4. caller = "visit"
    BY <2>1, <2>2 DEF VisitInv, Visits, Busy, Undoable
  <2> QED
    BY <2>1, <2>2, <2>3, <2>4 DEF VisitInv, Busy
<1>2. CASE ActivateDone
  <2>1. pc = "undo" /\ Return(TRUE, target, FALSE)
    BY <1>2 DEF ActivateDone
  <2>2. caller = "restore" /\ bestBlock' = target
    BY <2>1 DEF Return, SetPath, Visits
  <2> QED
    BY <2>1, <2>2 DEF VisitInv, Busy
<1>3. CASE ApplyBlock
  BY <1>3 DEF ApplyBlock, WayIsSound, StartTempApply
<1>4. CASE Accept
  BY <1>4 DEF Accept, Visits
<1>5. CASE AcceptFails \/ RejectDone
  BY <1>5 DEF AcceptFails, RejectDone, WayIsSound
<1>6. CASE BlockUndone \/ ApplyOperation \/ Complete \/ Unapply
  BY <1>0, <1>6 DEF BlockUndone, ApplyOperation, Complete, Unapply, Busy
<1>7. CASE FlushFails \/ FlushWrite \/ FlushRename \/ FlushCleanup \/ StartFlush
  BY <1>0, <1>7 DEF FlushFails, FlushWrite, FlushRename, FlushCleanup, StartFlush, Busy
<1>8. CASE ApplyGenesis \/ Crash \/ Rot \/ Restart
  BY <1>0, <1>8 DEF ApplyGenesis, Crash, Rot, Restart, Busy
<1>9. ASSUME NEW b \in Blocks, Activate(b) \/ Visit(b) \/ ForceTrie(b) PROVE FALSE
  BY <1>0, <1>9 DEF Activate, Visit, ForceTrie, Busy
<1>10. ASSUME NEW t \in Templates, HashForBlock(t) PROVE FALSE
  BY <1>0, <1>10 DEF HashForBlock, Busy
<1> QED
  BY <1>1, <1>2, <1>3, <1>4, <1>5, <1>6, <1>7, <1>8, <1>9, <1>10 DEF Next, Step

\* BalancesAt and GetSlice come back to the block they found, across every fork: as
\* long as the disk answers, the blocks on the way can be read and follow the rules,
\* and no block empties the ledger.  What was applied on the way out can always be
\* undone on the way back, and a visit that has no undo data to begin with stays.
THEOREM VisitsAlwaysReturn ==
    ASSUME DiskMayFail = FALSE
    PROVE  Spec /\ []AccountsLeft /\ []WayIsSound => VisitsReturn
<1>1. TypeOK /\ CallShape /\ VisitInv /\ WayIsSound /\ NeverAborts /\ [Next]_vars
        => ComesBack \/ UNCHANGED vars
  BY VisitEnds
<1>2. ComesBack \/ UNCHANGED vars <=>
        [(caller \in {"visit", "restore"} /\ pc' = "idle" /\ ~stray') => bestBlock' = oldHash]_vars
  BY DEF ComesBack, Visits
<1> QED
  BY <1>1, <1>2, TypeCorrect, CallsKeepTheirShape, NoAborts, VisitInit, VisitNext, PTL
  DEF Spec, VisitsReturn
-----------------------------------------------------------------------------
(* Payments and limits *)

\* f holds what the operations up to each i <= n take from k.
TakenRun(vtx, k, f, n) ==
    f = [i \in 0..n |-> IF i = 0 THEN 0 ELSE f[i - 1] + TakenBy(vtx[i], k)]

LEMMA TakenRunExists ==
    ASSUME NEW vtx, NEW k, NEW N \in Nat
    PROVE  \E f : TakenRun(vtx, k, f, N)
<1> DEFINE P == {n \in 0..N : \E f : TakenRun(vtx, k, f, n)}
<1>1. 0 \in P
  <2> DEFINE f == [i \in 0..0 |-> 0]
  <2>1. TakenRun(vtx, k, f, 0)
    BY DEF TakenRun
  <2> QED
    BY <2>1
<1>2. ASSUME NEW n \in 1..N, n - 1 \in P PROVE n \in P
  <2>1. PICK f : TakenRun(vtx, k, f, n - 1)
    BY <1>2
  <2> DEFINE g == [i \in 0..n |-> IF i = n THEN f[n - 1] + TakenBy(vtx[n], k) ELSE f[i]]
  <2>2. \A i \in 0..n : i # 0 => g[i - 1] = f[i - 1]
    OBVIOUS
  <2>3. \A i \in 0..n : g[i] = IF i = 0 THEN 0 ELSE g[i - 1] + TakenBy(vtx[i], k)
    BY <2>1, <2>2 DEF TakenRun
  <2>4. g = [i \in 0..n |-> IF i = 0 THEN 0 ELSE g[i - 1] + TakenBy(vtx[i], k)]
    BY <2>3
  <2>5. TakenRun(vtx, k, g, n)
    BY <2>4 DEF TakenRun
  <2> QED
    BY <2>5
<1> HIDE DEF P
<1>3. \A i \in 0..N : i \in P
  BY <1>1, <1>2, Climb
<1> QED
  BY <1>3 DEF P

LEMMA TakenIsRun ==
    ASSUME NEW vtx, NEW k, NEW N \in Nat
    PROVE  \E f : TakenRun(vtx, k, f, N) /\ Taken(vtx, N, k) = f[N]
<1> DEFINE s == CHOOSE f : f = [i \in 0..N |-> IF i = 0 THEN 0 ELSE f[i - 1] + TakenBy(vtx[i], k)]
<1>1. PICK f : TakenRun(vtx, k, f, N)
  BY TakenRunExists
<1>2. TakenRun(vtx, k, s, N)
  BY <1>1, Zenon DEF TakenRun
<1>3. Taken(vtx, N, k) = s[N]
  BY Zenon DEF Taken
<1> HIDE DEF s
<1> QED
  BY <1>2, <1>3

\* What is taken is a number.
LEMMA TakenType ==
    ASSUME NEW vtx \in Seq(Operation), NEW k, NEW n \in 0..Len(vtx)
    PROVE  Taken(vtx, n, k) \in Nat
<1>1. Len(vtx) \in Nat /\ n \in Nat /\ n <= Len(vtx)
  OBVIOUS
<1>2. PICK f : TakenRun(vtx, k, f, n) /\ Taken(vtx, n, k) = f[n]
  BY <1>1, TakenIsRun
<1> DEFINE P == {i \in 0..n : f[i] \in Nat}
<1>3. 0 \in P
  BY <1>1, <1>2 DEF TakenRun
<1>4. ASSUME NEW i \in 1..n, i - 1 \in P PROVE i \in P
  <2>1. vtx[i] \in Operation
    BY <1>1
  <2>2. TakenBy(vtx[i], k) \in Nat
    BY <2>1 DEF TakenBy, Operation
  <2>3. f[i] = f[i - 1] + TakenBy(vtx[i], k) /\ f[i - 1] \in Nat
    BY <1>1, <1>2, <1>4 DEF TakenRun
  <2> QED
    BY <2>2, <2>3
<1> HIDE DEF P
<1>5. \A i \in 0..n : i \in P
  BY <1>1, <1>3, <1>4, Climb
<1> QED
  BY <1>1, <1>2, <1>5 DEF P

\* Before the first operation nothing is taken, and each operation adds its part.
LEMMA TakenStep ==
    ASSUME NEW vtx \in Seq(Operation), NEW k, NEW n \in 0..(Len(vtx) - 1)
    PROVE  /\ Taken(vtx, n, k) \in Nat
           /\ Taken(vtx, n + 1, k) = Taken(vtx, n, k) + TakenBy(vtx[n + 1], k)
<1>1. Len(vtx) \in Nat /\ n \in Nat /\ n + 1 \in Nat /\ n + 1 <= Len(vtx)
  OBVIOUS
<1>2. \A i \in 1..(n + 1) : TakenBy(vtx[i], k) \in Nat
  <2> SUFFICES ASSUME NEW i \in 1..(n + 1) PROVE TakenBy(vtx[i], k) \in Nat
    OBVIOUS
  <2>1. vtx[i] \in Operation
    BY <1>1
  <2> QED
    BY <2>1 DEF TakenBy, Operation
<1>3. PICK f : TakenRun(vtx, k, f, n) /\ Taken(vtx, n, k) = f[n]
  BY <1>1, TakenIsRun
<1>4. PICK g : TakenRun(vtx, k, g, n + 1) /\ Taken(vtx, n + 1, k) = g[n + 1]
  BY <1>1, TakenIsRun
<1> DEFINE P == {i \in 0..n : f[i] = g[i] /\ f[i] \in Nat}
<1>5. 0 \in P
  BY <1>1, <1>3, <1>4 DEF TakenRun
<1>6. ASSUME NEW i \in 1..n, i - 1 \in P PROVE i \in P
  <2>1. f[i - 1] = g[i - 1] /\ f[i - 1] \in Nat
    BY <1>6
  <2>2. f[i] = f[i - 1] + TakenBy(vtx[i], k) /\ g[i] = g[i - 1] + TakenBy(vtx[i], k)
    BY <1>1, <1>3, <1>4 DEF TakenRun
  <2>3. TakenBy(vtx[i], k) \in Nat
    BY <1>1, <1>2
  <2> QED
    BY <2>1, <2>2, <2>3
<1> HIDE DEF P
<1>7. \A i \in 0..n : i \in P
  BY <1>1, <1>5, <1>6, Climb
<1>8. f[n] = g[n] /\ f[n] \in Nat
  BY <1>1, <1>7 DEF P
<1>9. g[n + 1] = g[n] + TakenBy(vtx[n + 1], k)
  BY <1>1, <1>4 DEF TakenRun
<1> QED
  BY <1>1, <1>3, <1>4, <1>8, <1>9

LEMMA TakenNothing ==
    ASSUME NEW vtx, NEW k
    PROVE  Taken(vtx, 0, k) = 0
<1>1. PICK f : TakenRun(vtx, k, f, 0) /\ Taken(vtx, 0, k) = f[0]
  BY TakenIsRun
<1> QED
  BY <1>1 DEF TakenRun

\* What LimitsKept says of one account, from the ledger before the block.
Within(before, k, taken, now, left, switched, paid) ==
    before[k] # NoNode =>
      /\ k \in paid => taken + left[k] = before[k].limit
      /\ k \notin paid => taken = 0
      /\ k \notin paid \cup switched => now[k] # NoNode /\ now[k].limit = before[k].limit

\* A payment takes from what is left.
LEMMA InputWithin ==
    ASSUME TypeOK, NEW o \in Operation, o.op = "in", ~InputRejected(o), Input(o),
           NEW before \in Trie, NEW k \in Keys, NEW taken \in Nat,
           Within(before, k, taken, root, limits, setLimit, setTxIn)
    PROVE  Within(before, k, taken + TakenBy(o, k), root', limits', setLimit', setTxIn')
<1> SUFFICES ASSUME before[k] # NoNode
             PROVE  /\ k \in setTxIn' => (taken + TakenBy(o, k)) + limits'[k] = before[k].limit
                    /\ k \notin setTxIn' => taken + TakenBy(o, k) = 0
                    /\ k \notin setTxIn' \cup setLimit' =>
                          root'[k] # NoNode /\ root'[k].limit = before[k].limit
  BY DEF Within
<1>1. /\ k \in setTxIn => taken + limits[k] = before[k].limit
      /\ k \notin setTxIn => taken = 0
      /\ k \notin setTxIn \cup setLimit => root[k] # NoNode /\ root[k].limit = before[k].limit
  BY DEF Within
<1>2. o.key \in Keys /\ o.value \in Nat /\ root[o.key] # NoNode
  BY DEF Operation, InputRejected
<1>3. CASE o.key # k
  <2>1. TakenBy(o, k) = 0
    BY <1>3 DEF TakenBy
  <2>2. /\ root'[k] = root[k] /\ limits'[k] = limits[k]
        /\ (k \in setTxIn' <=> k \in setTxIn) /\ (k \in setLimit' <=> k \in setLimit)
    BY <1>2, <1>3 DEF Input, TypeOK, Trie
  <2> QED
    BY <1>1, <2>1, <2>2
<1>4. CASE o.key = k /\ o.fSetLimit
  <2>1. TakenBy(o, k) = 0
    BY <1>4 DEF TakenBy
  <2>2. UNCHANGED <<limits, setTxIn>> /\ k \in setLimit'
    BY <1>4 DEF Input
  <2> QED
    BY <1>1, <2>1, <2>2
<1>5. CASE o.key = k /\ ~o.fSetLimit
  <2>1. TakenBy(o, k) = o.value
    BY <1>5 DEF TakenBy
  <2>2. k \in setTxIn' /\ limits'[k] = Room(k) - o.value
    BY <1>5, <1>2 DEF Input, TypeOK
  <2>3. k \notin setLimit
    BY <1>5 DEF InputRejected, LimitSwitched
  <2>4. limits[k] \in Nat /\ before[k].limit \in Nat
    BY DEF TypeOK, Trie, Account
  <2>5. CASE k \in setTxIn
    <3>1. Room(k) = limits[k]
      BY <2>5 DEF Room
    <3> QED
      BY <1>1, <1>2, <2>1, <2>2, <2>4, <2>5, <3>1
  <2>6. CASE k \notin setTxIn
    <3>1. Room(k) = before[k].limit /\ taken = 0
      BY <1>1, <2>3, <2>6 DEF Room
    <3> QED
      BY <1>2, <2>1, <2>2, <2>4, <3>1
  <2> QED
    BY <2>5, <2>6
<1> QED
  BY <1>3, <1>4, <1>5

\* A deposit leaves the limit of an account that is there.
LEMMA OutputWithin ==
    ASSUME TypeOK, NEW o \in Operation, o.op = "out", Output(o),
           NEW before \in Trie, NEW k \in Keys, NEW taken \in Nat,
           Within(before, k, taken, root, limits, setLimit, setTxIn)
    PROVE  Within(before, k, taken + TakenBy(o, k), root', limits', setLimit', setTxIn')
<1>1. TakenBy(o, k) = 0 /\ taken + TakenBy(o, k) = taken
  BY DEF TakenBy
<1>2. UNCHANGED <<limits, setLimit, setTxIn>>
  BY DEF Output
<1>3. root[k] # NoNode => root'[k] # NoNode /\ root'[k].limit = root[k].limit
  <2> SUFFICES ASSUME root[k] # NoNode PROVE root'[k] # NoNode /\ root'[k].limit = root[k].limit
    OBVIOUS
  <2>1. root' \in Trie
    BY OutputType
  <2>2. CASE o.key # k
    BY <2>2 DEF Output, TypeOK, Trie
  <2>3. CASE o.key = k
    <3> DEFINE a == root[k]
               raised == [balance |-> Wrap(a.balance + o.value), age |-> a.age,
                          limit |-> a.limit, futurelimit |-> a.futurelimit]
    <3>1. root'[k] = raised
      BY <2>3 DEF Output, TypeOK, Trie
    <3>2. raised \in Account
      <4>1. a \in Account /\ o.value \in Nat
        BY DEF TypeOK, Trie, Operation
      <4>2. Wrap(a.balance + o.value) \in Nat
        <5>1. \A x \in Nat : Wrap(x) \in Nat
          BY ConstantsAssumption DEF Wrap
        <5>2. a.balance + o.value \in Nat
          BY <4>1 DEF Account
        <5> QED
          BY <5>1, <5>2
      <4> QED
        BY <4>1, <4>2 DEF Account
    <3> QED
      BY <3>1, <3>2, ConstantsAssumption
  <2> QED
    BY <2>2, <2>3
<1> QED
  BY <1>1, <1>2, <1>3 DEF Within

LEMMA LimitsStart ==
    ASSUME NEW block \in CBlock, StartTempApply(block), UNCHANGED root, root = LedgerOf(Base')
    PROVE  LimitsKept'
<1>1. next' = 1 /\ setTxIn' = {} /\ setLimit' = {} /\ next' - 1 = 0
  BY DEF StartTempApply
<1>2. \A k : Taken(cur'.vtx, 0, k) = 0
  BY TakenNothing
<1>3. next' <= Len(cur'.vtx) + 1
  BY DEF StartTempApply, CBlock
<1> QED
  BY <1>1, <1>2, <1>3 DEF LimitsKept

LEMMA LimitsNext ==
    TypeOK /\ CallShape /\ LedgerInv /\ LimitsKept /\ [Next]_vars => LimitsKept'
<1> SUFFICES ASSUME TypeOK, CallShape, LedgerInv, LimitsKept, [Next]_vars, pc' = "temp", ~stray'
             PROVE  LimitsKept'
  BY DEF LimitsKept
<1>0. LedgerInv /\ ~stray /\ Between /\ MidCall
  BY StrayStays, Zenon DEF LedgerInv
<1>1. ASSUME NEW t \in Templates, HashForBlock(t) PROVE LimitsKept'
  <2>1. Base' = bestBlock /\ UNCHANGED root
    BY <1>1 DEF HashForBlock, Base, Walkers
  <2>2. root = LedgerOf(bestBlock)
    BY <1>0, <1>1 DEF HashForBlock, Between, Quiet
  <2> DEFINE block == [hash |-> NoBlock, nHeight |-> Height[bestBlock] + 1, vtx |-> t.vtx]
  <2>3. block \in CBlock
    BY <1>1, BlocksAssumption DEF HashForBlock, Template, CBlock
  <2>4. StartTempApply(block)
    BY <1>1 DEF HashForBlock
  <2>5. root = LedgerOf(Base')
    BY <2>1, <2>2
  <2> HIDE DEF block
  <2> QED
    BY <2>1, <2>3, <2>4, <2>5, LimitsStart
<1>2. CASE ApplyGenesis
  <2>1. Base' = bestBlock /\ UNCHANGED root
    BY <1>2 DEF ApplyGenesis, Base, Walkers
  <2>2. root = LedgerOf(bestBlock)
    BY <1>0, <1>2 DEF ApplyGenesis, Between, Quiet
  <2>3. StartTempApply(BlockOf(Genesis)) /\ BlockOf(Genesis) \in CBlock
    BY <1>2, BlockOfType, ConstantsAssumption DEF ApplyGenesis
  <2>4. root = LedgerOf(Base')
    BY <2>1, <2>2
  <2> QED
    BY <2>1, <2>3, <2>4, LimitsStart
<1>3. CASE ApplyBlock
  <2>1. caller \in Walkers /\ UNCHANGED root /\ pc = "undo"
    BY <1>3 DEF ApplyBlock, CallShape
  <2>2. CASE Lowest(newSet) \in Unreadable
    BY <1>3, <2>1, <2>2 DEF ApplyBlock, Return, Walkers
  <2>3. CASE Lowest(newSet) \notin Unreadable
    <3>1. StartTempApply(BlockOf(Lowest(newSet))) /\ UNCHANGED <<bestBlock, caller, path>>
      BY <1>3, <2>3 DEF ApplyBlock
    <3>2. Base' = LedgerAt
      BY <2>1, <3>1 DEF Base, LedgerAt, path
    <3>3. root = LedgerOf(LedgerAt)
      BY <1>0, <2>1 DEF MidCall
    <3>4. BlockOf(Lowest(newSet)) \in CBlock
      <4>1. newSet # {} /\ newSet \subseteq Blocks
        BY <1>3 DEF ApplyBlock, TypeOK
      <4>2. Lowest(newSet) \in Blocks
        BY <4>1, LowestExists
      <4> QED
        BY <4>2, BlockOfType
    <3> QED
      BY <2>1, <3>1, <3>2, <3>3, <3>4, LimitsStart
  <2> QED
    BY <2>2, <2>3
<1>4. CASE ApplyOperation
  <2> DEFINE o == cur.vtx[next]
             before == LedgerOf(Base)
  <2>1. pc = "temp" /\ next <= Len(cur.vtx) /\ UNCHANGED <<bestBlock, caller, path, cur>>
    BY <1>4 DEF ApplyOperation
  <2>2. Base' = Base /\ before' = before
    BY <2>1 DEF Base, LedgerAt, path, LedgerOf
  <2>3. before \in Trie
    BY <2>1, BaseType, LedgerOfType
  <2>4. cur.vtx \in Seq(Operation) /\ next \in 1..Len(cur.vtx)
    BY <2>1 DEF TypeOK, CBlock
  <2>5. o \in Operation
    BY <2>4
  <2>6. ~Rejected(o)
    BY <1>4 DEF ApplyOperation
  <2>7. /\ next' = next + 1
        /\ CASE o.op = "coinbase" -> UNCHANGED <<root, undos, limits, setLimit, setTxIn>>
             [] o.op = "in" -> Input(o)
             [] o.op = "out" -> Output(o)
    BY <1>4, <2>6 DEF ApplyOperation
  <2> HIDE DEF before
  <2>8. ASSUME NEW k \in Keys
        PROVE  Within(before, k, Taken(cur.vtx, next, k), root', limits', setLimit', setTxIn')
    <3> DEFINE taken == Taken(cur.vtx, next - 1, k)
    <3>1. taken \in Nat /\ Taken(cur.vtx, next, k) = taken + TakenBy(o, k)
      <4>1. next - 1 \in 0..(Len(cur.vtx) - 1) /\ (next - 1) + 1 = next
        BY <2>4
      <4> QED
        BY <2>4, <4>1, TakenStep
    <3>2. Within(before, k, taken, root, limits, setLimit, setTxIn)
      BY <1>0, <2>1, <2>8 DEF LimitsKept, Within, before
    <3> HIDE DEF taken
    <3>3. CASE o.op = "coinbase"
      <4>1. UNCHANGED <<root, limits, setLimit, setTxIn>> /\ TakenBy(o, k) = 0
        BY <2>7, <3>3 DEF TakenBy
      <4> QED
        BY <3>1, <3>2, <4>1
    <3>4. CASE o.op = "in"
      <4>1. Input(o) /\ ~InputRejected(o)
        BY <2>6, <2>7, <3>4 DEF Rejected
      <4> QED
        BY <2>3, <2>5, <3>1, <3>2, <3>4, <4>1, InputWithin
    <3>5. CASE o.op = "out"
      <4>1. Output(o)
        BY <2>7, <3>5
      <4> QED
        BY <2>3, <2>5, <3>1, <3>2, <3>5, <4>1, OutputWithin
    <3> QED
      BY <2>5, <3>3, <3>4, <3>5 DEF Operation
  <2>9. next' - 1 = next /\ next' <= Len(cur'.vtx) + 1
    BY <2>1, <2>4, <2>7
  <2>10. LedgerOf(Base)' = before
    BY <2>2 DEF before
  <2> QED
    BY <2>1, <2>8, <2>9, <2>10 DEF LimitsKept, Within
<1>5. CASE UNCHANGED vars
  BY <1>5, <1>0 DEF vars, path, disk, temp, loop, LimitsKept, Base, LedgerAt, LedgerOf, Taken
<1>6. CASE Crash \/ Rot \/ Restart \/ StartFlush \/ \E b \in Blocks : Activate(b) \/ Visit(b) \/ ForceTrie(b)
  BY <1>6 DEF Crash, Rot, Restart, StartFlush, Activate, Visit, ForceTrie, SetPath
<1>7. CASE FlushFails \/ FlushWrite \/ FlushRename \/ FlushCleanup
  BY <1>7 DEF FlushFails, FlushWrite, FlushRename, FlushCleanup, FlushOver
<1>8. CASE UndoBlock \/ BlockUndone \/ ActivateDone \/ RejectDone \/ Accept \/ AcceptFails
  BY <1>8 DEF UndoBlock, BlockUndone, ActivateDone, RejectDone, Accept, AcceptFails, Return, SetPath
<1>9. CASE Complete \/ Unapply
  BY <1>9 DEF Complete, Unapply
<1> QED
  BY <1>1, <1>2, <1>3, <1>4, <1>5, <1>6, <1>7, <1>8, <1>9 DEF Next, Step

\* The bookkeeping of TempApply (limits, setLimit, setTxIn) is exact after every
\* operation of every block, applied or only tried, until an unwinding fault.
THEOREM LimitsAlwaysKept == Spec => []LimitsKept
<1>1. Init => LimitsKept
  BY DEF Init, LimitsKept
<1> QED
  BY <1>1, LimitsNext, TypeCorrect, CallsKeepTheirShape, LedgerAlways, PTL DEF Spec

\* Whatever a block mixes, TempApply lets no account pay more in it than the limit
\* the account had before the block.
THEOREM PaymentsAlwaysWithinLimit == Spec => []PaymentsWithinLimit
<1>1. TypeOK /\ CallShape /\ LimitsKept => PaymentsWithinLimit
  <2> SUFFICES ASSUME TypeOK, CallShape, LimitsKept, pc = "temp", ~stray,
                      NEW k \in Keys, LedgerOf(Base)[k] # NoNode
               PROVE  Taken(cur.vtx, next - 1, k) <= LedgerOf(Base)[k].limit
    BY DEF PaymentsWithinLimit
  <2> DEFINE before == LedgerOf(Base)
             taken == Taken(cur.vtx, next - 1, k)
  <2>1. before[k] \in Account
    <3>1. before \in Trie
      BY BaseType, LedgerOfType
    <3> QED
      BY <3>1 DEF Trie
  <2>2. /\ k \in setTxIn => taken + limits[k] = before[k].limit
        /\ k \notin setTxIn => taken = 0
    BY DEF LimitsKept
  <2>3. taken \in Nat
    <3>1. next - 1 \in 0..Len(cur.vtx) /\ cur.vtx \in Seq(Operation)
      BY DEF LimitsKept, TypeOK, CBlock
    <3> QED
      BY <3>1, TakenType
  <2>4. limits[k] \in Nat
    BY DEF TypeOK
  <2> HIDE DEF before, taken
  <2> QED
    BY <2>1, <2>2, <2>3, <2>4 DEF Account, before, taken
<1> QED
  BY <1>1, LimitsAlwaysKept, TypeCorrect, CallsKeepTheirShape, PTL DEF Spec
=============================================================================
