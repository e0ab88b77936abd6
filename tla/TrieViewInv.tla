---------------------------- MODULE TrieViewInv ----------------------------
(***************************************************************************)
(* The inductive invariants behind the properties of TrieView: what holds  *)
(* in the middle of a call, between any two steps.                         *)
(***************************************************************************)
EXTENDS TrieView

Walkers == {"chain", "visit", "restore"}

\* oldSet and newSet are the blocks to undo and to apply on the way from x to
\* the target.
OnPath(x) == /\ x \in Blocks
             /\ oldSet = Ancestors[x] \ Ancestors[target]
             /\ newSet = Ancestors[target] \ Ancestors[x]

\* A call that walks the tree always stands at a block of the path it computed
\* before its first step, from where the sets of blocks that are left lead to
\* the target; only such a call undoes blocks, and the block under TempApply is
\* the lowest one that is left.
CallShape ==
    /\ pc \in {"undo", "disconnect"} => caller \in Walkers
    /\ pc \in {"temp", "accept", "reject"} => caller \in Walkers \cup {"hash", "init"}
    /\ pc \in Busy /\ caller \in Walkers =>
         bestBlock \in Blocks /\ target \in Blocks /\ OnPath(LedgerAt)
    /\ pc \in Busy /\ caller = "visit" => oldHash \in Blocks
    /\ pc = "disconnect" => oldSet # {}
    /\ pc \in {"temp", "accept", "reject"} /\ caller \in Walkers =>
         oldSet = {} /\ newSet # {} /\ cur = BlockOf(Lowest(newSet))
    /\ pc \in Busy /\ caller = "hash" => bestBlock \in Blocks /\ pc # "accept"
    /\ pc \in Busy /\ caller = "init" => bestBlock = NoBlock /\ cur = BlockOf(Genesis)

\* The block whose ledger TempApply started from.
Base == IF caller \in Walkers THEN LedgerAt ELSE bestBlock

\* The records collected by TempApply know the ledger before the block: the
\* first record of an account has its old state, an account without record is
\* unchanged.
Recorded(u, now, before) ==
    /\ \A k \in Keys : (\A i \in 1..Len(u) : u[i].key # k) => now[k] = before[k]
    /\ \A i \in 1..Len(u) : (\A j \in 1..(i - 1) : u[j].key # u[i].key)
                            => Restored(u[i]) = before[u[i].key]

\* Between calls the ledger is the one of the best block.
Between == pc \in Quiet => root = LedgerOf(bestBlock)

\* In the middle of a call the ledger and the undo records at hand together
\* still determine the ledger of a block.
MidCall ==
    /\ pc = "undo" => root = LedgerOf(LedgerAt)
    /\ pc = "disconnect" => TakesBack(undos, next, root, LedgerOf(Parent[LedgerAt]))
    /\ pc = "temp" => Recorded(undos, root, LedgerOf(Base))
    /\ pc = "accept" => /\ root = AccountRoot[cur.hash]
                        /\ TakesBack(undos, 1, root, LedgerOf(Base))
    /\ pc = "reject" => TakesBack(undos, next, root, LedgerOf(Base))
    /\ pc = "rename" => trieTmp = [best |-> bestBlock, trie |-> root]

\* The files belong to the blocks they are kept for.
OnDisk ==
    /\ trieDat \in Snapshot => trieDat.trie = LedgerOf(trieDat.best)
    /\ \A b \in Blocks : undoData[b] # NoUndo =>
         TakesBack(undoData[b], 1, AccountRoot[b], LedgerOf(Parent[b]))

\* After every step of every call, as long as no unwinding fault happened: the
\* ledger is the one of the best block, or can be completed or taken back to
\* the one of a block with what the call holds; and so can what is on disk.
LedgerInv == ~stray => Between /\ MidCall /\ OnDisk

-----------------------------------------------------------------------------
(* Unwinding finds what it expects *)

\* What Unapply asks of the state x of the account of record r: a changed
\* account is there, a destroyed one is not; a created one is not looked at.
Expects(r, x) == r.create \/ (r.destroy <=> x = NoNode)

\* Every record of u from n on, undone in this order, meets what it expects: the
\* account as the ledger has it now, or as the last record before it left it.
Fits(u, n, now) ==
    \A i \in n..Len(u) :
      /\ (\A j \in n..(i - 1) : u[j].key # u[i].key) => Expects(u[i], now[u[i].key])
      /\ \A j \in n..(i - 1) :
           u[j].key = u[i].key /\ (\A m \in (j + 1)..(i - 1) : u[m].key # u[i].key)
             => Expects(u[i], Restored(u[j]))

\* The records collected so far, seen in the order of the operations: what
\* follows a record is the next one of its account, or the ledger as it is now.
Collects(u, now) ==
    \A i \in 1..Len(u) :
      /\ (\A j \in (i + 1)..Len(u) : u[j].key # u[i].key) => Expects(u[i], now[u[i].key])
      /\ \A j \in (i + 1)..Len(u) :
           u[j].key = u[i].key /\ (\A m \in (i + 1)..(j - 1) : u[m].key # u[i].key)
             => Expects(u[i], Restored(u[j]))

\* In the middle of a call and on disk, as long as no unwinding fault happened.
UnwindInv ==
    ~stray => /\ pc \in {"disconnect", "reject"} => Fits(undos, next, root)
              /\ pc = "temp" => Collects(undos, root)
              /\ pc = "accept" => Fits(undos, 1, root)
              /\ \A b \in Blocks : undoData[b] # NoUndo => Fits(undoData[b], 1, AccountRoot[b])

\* When the operations of a block are through, an account is left.
AccountsLeft == pc = "temp" /\ next > Len(cur.vtx) => root # EmptyTrie

-----------------------------------------------------------------------------
(* BalancesAt and GetSlice *)

Visits == {"visit", "restore"}

\* The blocks on the way of a visit can be read and follow the rules.
WayIsSound ==
    caller \in Visits =>
      /\ pc # "reject"
      /\ pc = "undo" /\ oldSet = {} /\ newSet # {} => Lowest(newSet) \notin Unreadable

Undoable == {b \in Blocks : undoData[b] # NoUndo}

\* On the way out m_bestBlock is the old block, or was undone or applied; what has
\* been applied on the way out can be undone on the way back.
VisitInv ==
    /\ caller \in Visits => pc \in Busy \cup {"aborted"}
    /\ pc \in Busy /\ caller = "visit" =>
         /\ bestBlock = oldHash \/ bestBlock \notin oldSet
         /\ Ancestors[target] \ Ancestors[oldHash] \subseteq newSet \cup Undoable
    /\ pc \in Busy /\ caller = "restore" => target = oldHash /\ oldSet \subseteq Undoable

-----------------------------------------------------------------------------
(* Limits *)

\* What an operation takes from account k, limit changes aside.
TakenBy(o, k) == IF o.op = "in" /\ o.key = k /\ ~o.fSetLimit THEN o.value ELSE 0

\* What the first n operations of a block take from account k.
Taken(vtx, n, k) ==
    LET sum[i \in 0..n] == IF i = 0 THEN 0 ELSE sum[i - 1] + TakenBy(vtx[i], k)
    IN  sum[n]

\* Within one block no account pays out more than the limit it had before the
\* block, in whatever order payments, limit changes, deposits and the removal
\* and return of the account are mixed (TempApply).
PaymentsWithinLimit ==
    pc = "temp" /\ ~stray =>
        LET before == LedgerOf(Base)
        IN  \A k \in Keys : before[k] # NoNode => Taken(cur.vtx, next - 1, k) <= before[k].limit

\* What TempApply keeps of the limits: what is left of the limit of an account
\* that paid, and the old limit of one that nothing was taken from.
LimitsKept ==
    pc = "temp" /\ ~stray =>
        LET before == LedgerOf(Base)
        IN  /\ next <= Len(cur.vtx) + 1
            /\ \A k \in Keys : before[k] # NoNode =>
                  /\ k \in setTxIn => Taken(cur.vtx, next - 1, k) + limits[k] = before[k].limit
                  /\ k \notin setTxIn => Taken(cur.vtx, next - 1, k) = 0
                  /\ k \notin setTxIn \cup setLimit => root[k] # NoNode /\ root[k].limit = before[k].limit
=============================================================================
