------------------------------ MODULE Mempool ------------------------------
(***************************************************************************)
(* The memory pool (CTxMemPool) between the three that use it: the node    *)
(* accepts transactions into it against the ledger of the tip, blocks that *)
(* are connected and disconnected take transactions out and bring them     *)
(* back, and the miner builds a block from it, which the ledger must       *)
(* accept.  Everything runs under cs_main.                                 *)
(*                                                                         *)
(* A transaction has one input and at most one output; what CheckTransac-  *)
(* tion, CheckInputs and the fee rules refuse is not among them.  Coinbase *)
(* transactions never enter the pool and are left out.                     *)
(***************************************************************************)
EXTENDS Integers, Sequences, SequencesExt, FiniteSetsExt

CONSTANTS
    Keys,           \* accounts
    NoKey,          \* no output
    Txs,            \* transactions: model values
    TxOrder,        \* the order of their hashes, in which mapTx is walked
    From, Value,    \* the input: account and value
    To, Paid,       \* the output: account and value; the rest is the fee
    SetsLimit,      \* transactions with fSetLimit
    NewLimit,       \* nLimitValue
    LockHeight,     \* nLockHeight
    NoNode,         \* an account the trie does not hold
    FirstView,      \* the accounts at height 0
    MaxHeight,      \* bound: blocks
    MaxBlock,       \* bound: transactions of a block
    MIN_HISTORY,    \* 1000
    MIN_LIMIT_TIME, \* 100
    HEIGHT_SKEW,    \* 5: how far ahead of the tip a transaction may be locked
    UINT64_MAX

Account == [balance : Nat, age : Nat, limit : Nat, futurelimit : Nat]

ASSUME TxAssumption ==
    /\ IsFiniteSet(Txs)
    /\ TxOrder \in Seq(Txs) /\ ToSet(TxOrder) = Txs /\ IsInjective(TxOrder)
    /\ SetsLimit \subseteq Txs
    /\ \A t \in Txs : /\ From[t] \in Keys /\ To[t] \in Keys \cup {NoKey}
                      /\ Value[t] \in Nat \ {0} /\ Paid[t] \in 0 .. Value[t]
                      /\ To[t] = NoKey => Paid[t] = 0
                      /\ NewLimit[t] \in Nat /\ LockHeight[t] \in Nat
    /\ NoKey \notin Keys /\ NoNode \notin Account
    /\ FirstView \in [Keys -> Account \cup {NoNode}]
    /\ {MaxHeight, MaxBlock, MIN_HISTORY, MIN_LIMIT_TIME, HEIGHT_SKEW, UINT64_MAX} \subseteq Nat

VARIABLES
    chain,          \* the connected blocks: transactions and accounts before
    view,           \* the accounts the ledger holds (pviewTip)
    due,            \* the accounts of the last connected block
    pool,           \* the memory pool: mapTx, mapAccount, mapLimits
    phase,          \* where ActivateBestChainStep is, "idle" outside of it
    offer           \* DisconnectTip: transactions still to be offered to the pool

vars == <<chain, view, due, pool, phase, offer>>

Height == Len(chain)
Confirmed(c) == UNION {ToSet(c[i].vtx) : i \in DOMAIN c}
Fee(t) == Value[t] - Paid[t]
Least(a, b) == IF a < b THEN a ELSE b

\* IsFinalTx: not locked any more, and not so old that it is forgotten.
IsFinalTx(t, h) == LockHeight[t] <= h /\ LockHeight[t] + MIN_HISTORY >= h

-----------------------------------------------------------------------------
(* The pool                                                                *)

EmptyPool == [mapTx |-> {},
              mapAccount |-> [k \in Keys |-> {}],
              mapLimits |-> [k \in Keys |-> 0]]

AddUnchecked(p, t) ==
    [mapTx |-> p.mapTx \cup {t},
     mapAccount |-> [k \in Keys |-> p.mapAccount[k] \cup (IF k \in {From[t], To[t]} THEN {t} ELSE {})],
     mapLimits |-> IF t \in SetsLimit THEN [p.mapLimits EXCEPT ![From[t]] = @ + 1] ELSE p.mapLimits]

\* What is left of m counted limit changes of account k without those of T.
LimitsLeft(m, T, k) ==
    LET n == Cardinality({t \in T \cap SetsLimit : From[t] = k}) IN IF n < m THEN m - n ELSE 0

\* Variant: the outputs keep the transactions.
RemoveInputsOnly(p, T) ==
    [mapTx |-> p.mapTx \ T,
     mapAccount |-> [k \in Keys |-> {t \in p.mapAccount[k] : ~(t \in T /\ k = From[t])}],
     mapLimits |-> [k \in Keys |-> LimitsLeft(p.mapLimits[k], T, k)]]

\* Variant: the number of limit changes is kept.
RemoveCounted(p, T) == [RemoveInputsOnly(p, T) EXCEPT !.mapLimits = p.mapLimits]

\* remove, for every transaction of T; also called for transactions of a block
\* that are not in the pool.
RemoveTxs(p, T) ==
    [mapTx |-> p.mapTx \ T,
     mapAccount |-> [k \in Keys |-> {t \in p.mapAccount[k] : ~(t \in T /\ k \in {From[t], To[t]})}],
     mapLimits |-> [k \in Keys |-> LimitsLeft(p.mapLimits[k], T, k)]]

-----------------------------------------------------------------------------
(* Accepting a transaction                                                 *)

\* What the transactions of T take, added up in their order.
Total(T) ==
    LET sum[i \in 0 .. Len(TxOrder)] ==
          IF i = 0 THEN 0
          ELSE sum[i - 1] + (IF TxOrder[i] \in T THEN Value[TxOrder[i]] ELSE 0)
    IN  sum[Len(TxOrder)]

\* ConservativeBalances with one confirmation: the balance without what the
\* transactions of the pool take, and the limit, a raised one a block late.
Withdrawals(p, k) == Total({t \in p.mapAccount[k] : From[t] = k /\ IsFinalTx(t, Height)})

\* Variant: the pool is not counted.
UnspentAlone(p, k) == IF view[k] = NoNode THEN 0 ELSE view[k].balance

Unspent(p, k) ==
    LET taken == Withdrawals(p, k)
    IN  IF view[k] = NoNode \/ taken > view[k].balance THEN 0 ELSE view[k].balance - taken

\* The limit of account a at height h.  The difference is unsigned: it wraps around
\* where the chain is shorter than the account is old, in the middle of a reorganisation.
LimitAfter(a, h, blocks) ==
    IF a.limit # a.futurelimit /\ (h < a.age \/ h - a.age > blocks) THEN a.futurelimit ELSE a.limit

Spendable(p, k) ==
    LET unspent == Unspent(p, k)
    IN  IF unspent = 0 THEN 0
        ELSE Least(unspent, LimitAfter(view[k], Height, MIN_LIMIT_TIME + 1))

\* Variant: only the pool is searched for the transaction.
AcceptableAgain(p, c, t) ==
    /\ IsFinalTx(t, Height + HEIGHT_SKEW)
    /\ t \notin p.mapTx
    /\ Value[t] <= Spendable(p, From[t])
    /\ t \in SetsLimit => p.mapLimits[From[t]] <= MIN_HISTORY \div MIN_LIMIT_TIME

\* AcceptToMemoryPool, for the tip of c.
Acceptable(p, c, t) ==
    /\ IsFinalTx(t, Height + HEIGHT_SKEW)
    /\ t \notin p.mapTx \cup Confirmed(c)
    /\ Value[t] <= Spendable(p, From[t])
    /\ To[t] # NoKey /\ Unspent(p, To[t]) = 0 => Paid[t] >= Fee(t)
    /\ t \in SetsLimit => p.mapLimits[From[t]] <= MIN_HISTORY \div MIN_LIMIT_TIME

AcceptToMemoryPool(p, c, t) == IF Acceptable(p, c, t) THEN AddUnchecked(p, t) ELSE p

-----------------------------------------------------------------------------
(* Which transactions the accounts v can pay, in the order of the pool     *)

\* Variant: only the balance counts.
LeftUnlimited(v, k, h) == IF v[k] = NoNode THEN 0 ELSE v[k].balance

\* What validate and CreateNewBlock let account k pay: its balance, or its limit
\* if that is less.
Left(v, k, h) ==
    IF v[k] = NoNode THEN 0 ELSE Least(v[k].balance, LimitAfter(v[k], h, MIN_LIMIT_TIME))

CanCreate(v, t) == To[t] # NoKey /\ v[To[t]] = NoNode => Paid[t] >= Fee(t)

\* One transaction: acc.run are the running balances (mapBalances), acc.paid the
\* transactions that can be paid.
Count(v, c, acc, t) ==
    LET enough == acc.run[From[t]] >= Value[t] /\ v[From[t]] # NoNode
    IN  [run |-> IF enough THEN [acc.run EXCEPT ![From[t]] = @ - Value[t]] ELSE acc.run,
         paid |-> acc.paid \cup IF enough /\ CanCreate(v, t) /\ t \notin Confirmed(c) THEN {t} ELSE {}]

Payable(v, h, c, ts) ==
    LET acc[i \in 0 .. Len(TxOrder)] ==
          IF i = 0 THEN [run |-> [k \in Keys |-> Left(v, k, h)], paid |-> {}]
          ELSE IF TxOrder[i] \in ts THEN Count(v, c, acc[i - 1], TxOrder[i]) ELSE acc[i - 1]
    IN  acc[Len(TxOrder)].paid

\* validate: what is not final or cannot be paid from accounts v goes.
Validate(p, v, c) ==
    LET final == {t \in p.mapTx : IsFinalTx(t, Len(c) + HEIGHT_SKEW)}
        keep == Payable(v, Len(c), c, final)
    IN  RemoveTxs(p, p.mapTx \ keep)

-----------------------------------------------------------------------------
(* The ledger: TempApply of TrieView, transaction by transaction           *)

Refused(acc, t, h) ==
    LET k == From[t]
        a == acc.view[k]
    IN  \/ a = NoNode
        \/ t \notin SetsLimit /\ Value[t] > (IF k \in DOMAIN acc.limits THEN acc.limits[k] ELSE a.limit)
        \/ Value[t] > a.balance
        \/ t \notin SetsLimit /\ k \in acc.setLimit
        \/ t \in SetsLimit /\ NewLimit[t] < a.limit /\ k \in acc.setTxIn
        \/ h - a.age > MIN_LIMIT_TIME /\ a.futurelimit # a.limit /\ k \in acc.setTxIn

Spent(a, t, h) ==
    LET reached == IF h - a.age > MIN_LIMIT_TIME THEN a.futurelimit ELSE a.limit
        future == IF t \in SetsLimit THEN NewLimit[t] ELSE a.futurelimit
    IN  IF a.balance = Value[t] THEN NoNode
        ELSE [balance |-> a.balance - Value[t], age |-> h,
              limit |-> IF t \in SetsLimit THEN Least(reached, future) ELSE reached,
              futurelimit |-> future]

Deposited(a, t, h) ==
    IF a = NoNode
    THEN [balance |-> Paid[t], age |-> h, limit |-> UINT64_MAX, futurelimit |-> UINT64_MAX]
    ELSE [a EXCEPT !.balance = @ + Paid[t]]

ApplyTx(acc, t, h) ==
    IF ~acc.ok \/ Refused(acc, t, h) THEN [acc EXCEPT !.ok = FALSE]
    ELSE LET k == From[t]
             room == IF k \in DOMAIN acc.limits THEN acc.limits[k] ELSE acc.view[k].limit
             paidIn == [acc.view EXCEPT ![k] = Spent(@, t, h)]
         IN  [ok |-> TRUE,
              view |-> IF To[t] = NoKey THEN paidIn ELSE [paidIn EXCEPT ![To[t]] = Deposited(@, t, h)],
              limits |-> IF t \in SetsLimit THEN acc.limits
                         ELSE [j \in DOMAIN acc.limits \cup {k} |->
                                 IF j = k THEN room - Value[t] ELSE acc.limits[j]],
              setLimit |-> acc.setLimit \cup (IF t \in SetsLimit THEN {k} ELSE {}),
              setTxIn |-> acc.setTxIn \cup (IF t \in SetsLimit THEN {} ELSE {k})]

\* A block of height h on accounts v.
TempApply(v, vtx, h) ==
    LET acc[i \in 0 .. Len(vtx)] ==
          IF i = 0 THEN [ok |-> TRUE, view |-> v, limits |-> <<>>, setLimit |-> {}, setTxIn |-> {}]
          ELSE ApplyTx(acc[i - 1], vtx[i], h)
    IN  acc[Len(vtx)]

-----------------------------------------------------------------------------
(* The miner                                                               *)

\* CreateNewBlock: the transactions it weighs for the next block,
Weighed ==
    Payable(view, Height + 1, chain,
            {t \in pool.mapTx \ Confirmed(chain) : IsFinalTx(t, Height + 1)})

\* and the block it fills in the order of their priorities.  A limit change
\* is left out when its account is in the block; the test of a payment against
\* limit changes only continues the loop over the inputs, and has no effect.
Take(vtx, t) ==
    IF t \in SetsLimit /\ \E i \in DOMAIN vtx : From[vtx[i]] = From[t] THEN vtx ELSE Append(vtx, t)

Fill(queue) ==
    LET block[i \in 0 .. Len(queue)] ==
          IF i = 0 THEN <<>> ELSE Take(block[i - 1], queue[i])
    IN  block[Len(queue)]

\* Priorities depend on age and size, and what is too big or free is left out.
Templates == {Fill(queue) : queue \in SetToAllKPermutations(Weighed)}

-----------------------------------------------------------------------------
(* Actions                                                                 *)

Init ==
    /\ chain = <<>>
    /\ view = FirstView /\ due = FirstView
    /\ pool = EmptyPool
    /\ phase = "idle" /\ offer = <<>>

Submit(t) ==
    /\ phase = "idle"
    /\ Acceptable(pool, chain, t)
    /\ pool' = AddUnchecked(pool, t)
    /\ UNCHANGED <<chain, view, due, phase, offer>>

\* Blocks of transactions: the candidates of a miner anywhere.
Blocks == UNION {{vtx \in [1 .. n -> Txs] : IsInjective(vtx)} : n \in 0 .. MaxBlock}

\* CheckBlock: the account of a limit change is in no other transaction.
CheckBlock(vtx) ==
    \A i, j \in DOMAIN vtx : i # j /\ From[vtx[i]] = From[vtx[j]] => {vtx[i], vtx[j]} \cap SetsLimit = {}

\* A block the node accepts above the chain, and its ledger once it follows.
Fits(vtx) ==
    /\ Height < MaxHeight
    /\ CheckBlock(vtx)
    /\ \A i \in DOMAIN vtx : IsFinalTx(vtx[i], Height + 1) /\ vtx[i] \notin Confirmed(chain)
    /\ TempApply(due, vtx, Height + 1).ok

\* ActivateBestChainStep first unwinds the chain to the fork.  DisconnectTip
\* drops the block's entries of the transaction index
DisconnectTip ==
    /\ phase \in {"idle", "unwind"}
    /\ chain # <<>>
    /\ phase' = "offer"
    /\ offer' = Last(chain).vtx
    /\ UNCHANGED <<chain, view, due, pool>>

\* and offers its transactions to the pool while the block is still the tip and
\* the ledger still where the call found it;
Resurrect ==
    /\ phase = "offer"
    /\ offer # <<>>
    /\ pool' = AcceptToMemoryPool(pool, Front(chain), Head(offer))
    /\ offer' = Tail(offer)
    /\ UNCHANGED <<chain, view, due, phase>>

\* then the block below becomes the tip.
UpdateTip ==
    /\ phase = "offer"
    /\ offer = <<>>
    /\ chain' = Front(chain)
    /\ due' = Last(chain).before
    /\ phase' = "unwind"
    /\ UNCHANGED <<view, pool, offer>>

\* Then it goes up: ConnectTip takes the block's transactions out of the pool.
ConnectTip(vtx) ==
    /\ phase \in {"idle", "unwind", "connect"}
    /\ Fits(vtx)
    /\ chain' = Append(chain, [vtx |-> vtx, before |-> due])
    /\ due' = TempApply(due, vtx, Height + 1).view
    /\ pool' = RemoveTxs(pool, ToSet(vtx))
    /\ phase' = "connect"
    /\ UNCHANGED <<view, offer>>

\* At the tip, or below it where the data of a block is missing, the ledger
\* follows and validate looks at what is left in the pool; a call that finds
\* nothing to unwind or to connect comes here at once.
Settle ==
    /\ phase \in {"idle", "unwind", "connect"}
    /\ view' = due
    /\ pool' = Validate(pool, due, chain)
    /\ phase' = "idle"
    /\ UNCHANGED <<chain, due, offer>>

\* A restart: the pool is not kept.
Restart ==
    /\ phase = "idle"
    /\ pool' = EmptyPool
    /\ UNCHANGED <<chain, view, due, phase, offer>>

Next ==
    \/ \E t \in Txs : Submit(t)
    \/ DisconnectTip \/ Resurrect \/ UpdateTip
    \/ \E vtx \in Blocks : ConnectTip(vtx)
    \/ Settle
    \/ Restart

Spec == Init /\ [][Next]_vars

-----------------------------------------------------------------------------
PoolType == pool \in [mapTx : SUBSET Txs, mapAccount : [Keys -> SUBSET Txs], mapLimits : [Keys -> Nat]]

\* The blocks as the pool sees them, and the block that DisconnectTip is at.
ChainType ==
    /\ chain \in Seq(ToSet(chain)) /\ \A i \in DOMAIN chain : chain[i].vtx \in Seq(Txs)
    /\ offer \in Seq(Txs)
    /\ phase = "offer" => chain # <<>>

\* The accounts, now and at the blocks below.
Views == [Keys -> Account \cup {NoNode}]
ViewType == view \in Views /\ due \in Views /\ \A i \in DOMAIN chain : chain[i].before \in Views

\* The types of the state; counts and balances that go below zero leave them.
TypeOK ==
    /\ phase \in {"idle", "offer", "unwind", "connect"}
    /\ PoolType /\ ChainType /\ ViewType

\* IndexExact: the pool finds exactly the transactions of an account under it,
\* whatever was accepted, confirmed, brought back and dropped: Withdrawals
\* counts what the pool would really take (addUnchecked, remove).
IndexExact ==
    \A k \in Keys : pool.mapAccount[k] = {t \in pool.mapTx : k \in {From[t], To[t]}}

\* LimitsNotOvercounted: mapLimits never goes below zero, and never says that an
\* account has more limit changes in the pool than it has, so that it cannot be
\* shut out by changes that are long gone (remove is called for every
\* transaction of every block).
LimitsNotOvercounted ==
    \A k \in Keys :
        pool.mapLimits[k] \in 0 .. Cardinality({t \in pool.mapTx \cap SetsLimit : From[t] = k})

\* PoolAffordable: the final transactions of the pool together never take more
\* than an account of the tip holds, also after a reorganisation that brought
\* transactions back against the ledger of the old tip.
PoolAffordable ==
    phase = "idle" => \A k \in Keys : Withdrawals(pool, k) <= (IF view[k] = NoNode THEN 0 ELSE view[k].balance)

\* The blocks that stay connected whatever DisconnectTip is at.
Staying == IF phase = "offer" THEN Front(chain) ELSE chain

\* NothingTwice: no transaction of the connected chain waits in the pool, also
\* while blocks are taken back one after the other and others connected.
NothingTwice == pool.mapTx \cap Confirmed(Staying) = {}

\* TemplateAccepted: whatever order the priorities give, the ledger accepts the
\* block the miner builds, as long as no account in it has a limit change in
\* the block or waits for a raised limit (CreateNewBlock, HashForBlock).
Steady(t) == t \notin SetsLimit /\ view[From[t]].limit = view[From[t]].futurelimit
TemplateAccepted ==
    phase = "idle" => \A vtx \in Templates :
        (\A i \in DOMAIN vtx : Steady(vtx[i])) => TempApply(view, vtx, Height + 1).ok

\* PoolMinable: a transaction of the pool that the miner weighs for the next
\* block is, alone, accepted by the ledger.
PoolMinable == phase = "idle" => \A t \in Weighed : TempApply(view, <<t>>, Height + 1).ok

\* NeverBoth: a block the miner builds never holds a payment and a limit change
\* of one account.
NeverBoth ==
    phase = "idle" => \A vtx \in Templates : \A i, j \in DOMAIN vtx :
        From[vtx[i]] = From[vtx[j]] /\ vtx[i] \in SetsLimit => vtx[j] \in SetsLimit
=============================================================================
