----------------------------- MODULE MCMempool -----------------------------
(***************************************************************************)
(* Small instances of Mempool: account ka with coins and a limit, kb that *)
(* a payment creates, and payments and limit changes between them.         *)
(***************************************************************************)
EXTENDS Mempool

CONSTANTS ka, kb, p1, p2, p3, q1, l1, l2

MCTxOrder == SelectSeq(<<p2, l1, p1, q1, l2, p3>>, LAMBDA t : t \in Txs)

MCFrom == [t \in Txs |-> IF t = q1 THEN kb ELSE ka]
MCTo == [t \in Txs |-> CASE t \in {p1, p2} -> kb [] t = q1 -> ka [] OTHER -> NoKey]
MCValue == [t \in Txs |-> CASE t \in {l1, l2} -> 1 [] t = p3 -> 4 [] OTHER -> 3]
MCPaid == [t \in Txs |-> CASE t \in {p1, p2, q1} -> 2 [] OTHER -> 0]
MCNewLimit == [t \in Txs |-> IF t = l1 THEN 2 ELSE 6]
MCLockHeight == [t \in Txs |-> IF t \in {p2, l2} THEN 1 ELSE IF t = q1 THEN 2 ELSE 0]

\* Account ka may pay 4 of its 7 coins in a block.
LimitedView == (ka :> [balance |-> 7, age |-> 0, limit |-> 4, futurelimit |-> 4]) @@ (kb :> NoNode)
\* Account ka waits for a higher limit.
PendingView == (ka :> [balance |-> 7, age |-> 0, limit |-> 2, futurelimit |-> 4]) @@ (kb :> NoNode)
=============================================================================
