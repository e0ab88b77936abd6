----------------------------- MODULE MCTrieView -----------------------------
(***************************************************************************)
(* Small instances of TrieView: three accounts, a block tree with two      *)
(* valid branches above b1 and three blocks the ledger must refuse.        *)
(***************************************************************************)
EXTENDS TrieViewRefines

CONSTANTS k0, k1, k2, g, b1, b2, c2, c3, x2, z2, s

-----------------------------------------------------------------------------
(* Operations *)

Cb(v, fee) == [op |-> "coinbase", key |-> k0, value |-> v, fees |-> fee,
               fSetLimit |-> FALSE, nLimitValue |-> 0]
In(k, v) == [op |-> "in", key |-> k, value |-> v, fees |-> 0,
             fSetLimit |-> FALSE, nLimitValue |-> 0]
Lim(k, v, l) == [op |-> "in", key |-> k, value |-> v, fees |-> 0,
                 fSetLimit |-> TRUE, nLimitValue |-> l]
Out(k, v) == [op |-> "out", key |-> k, value |-> v, fees |-> 0,
              fSetLimit |-> FALSE, nLimitValue |-> 0]
Acct(bal, ag, lim, fut) == [balance |-> bal, age |-> ag, limit |-> lim, futurelimit |-> fut]
Top == UINT64_MAX

-----------------------------------------------------------------------------
(* The tree: g - b1 - b2 and b1 - c2 - c3; x2 and z2 on b1 are refused.      *)
(* s is a sync point: its ledger was downloaded, its own data is not there.  *)

MCParent == [v \in Blocks |-> CASE v = g -> NoBlock [] v = b1 -> g
                                [] v \in {b2, c2, x2, z2} -> b1
                                [] v = c3 -> c2 [] v = s -> g]
MCHeight == [v \in Blocks |-> CASE v = g -> 0 [] v = b1 -> 1
                                [] v \in {b2, c2, x2, z2} -> 2
                                [] v \in {c3, s} -> 3]
MCAncestors == [v \in Blocks |-> {v} \cup
    CASE v = g -> {} [] v = b1 -> {g} [] v \in {b2, c2, x2, z2} -> {g, b1}
      [] v = c3 -> {g, b1, c2} [] v = s -> {g}]

MCOperations == [v \in Blocks |->
    CASE v = g  -> <<Out(k0, 20)>>
      [] v = b1 -> <<Cb(4, 0), In(k0, 4), Out(k1, 4)>>
      \* k1 pays twice and disappears, k2 appears and is paid again
      [] v = b2 -> <<Cb(4, 1), In(k0, 3), Out(k2, 4), In(k1, 2), In(k1, 2), Out(k2, 3)>>
      \* k1 lowers its limit, then raises it twice; no raise counts before c3
      [] v = c2 -> <<Cb(6, 3), In(k0, 3), Out(k2, 3), Out(k1, 3),
                     Lim(k1, 1, 1), Lim(k1, 1, 3), Lim(k1, 1, 4)>>
      [] v = c3 -> <<Cb(2, 0), In(k0, 2), Out(k2, 2), In(k1, 1), Out(k2, 1)>>
      \* a wrong account root, and an overdraft after one use of each account
      [] v = x2 -> <<Cb(3, 0), In(k0, 3), Out(k1, 3), In(k1, 6), Out(k2, 6)>>
      [] v = z2 -> <<Cb(3, 0), In(k0, 3), Out(k2, 3), In(k1, 9)>>
      [] v = s  -> <<>>]

\* The ledgers, worked out by hand from the rules of the currency.
Ledger(of0, of1, of2) == [k \in Keys |-> CASE k = k0 -> of0 [] k = k1 -> of1 [] k = k2 -> of2]
MCAccountRoot == [v \in Blocks |->
    CASE v = g  -> Ledger(Acct(20, 0, Top, Top), NoNode, NoNode)
      [] v = b1 -> Ledger(Acct(16, 1, Top, Top), Acct(4, 1, Top, Top), NoNode)
      [] v = b2 -> Ledger(Acct(13, 2, Top, Top), NoNode, Acct(7, 2, Top, Top))
      [] v = c2 -> Ledger(Acct(13, 2, Top, Top), Acct(4, 2, 1, 4), Acct(3, 2, Top, Top))
      [] v = c3 -> Ledger(Acct(11, 3, Top, Top), Acct(3, 3, 4, 4), Acct(6, 2, Top, Top))
      \* k1 has a raised limit that takes effect with the next block
      [] v = s  -> Ledger(Acct(12, 1, Top, Top), Acct(8, 3, 2, 5), NoNode)
      [] OTHER  -> Ledger(Acct(16, 1, Top, Top), Acct(3, 1, Top, Top), NoNode)]
Valid == {g, b1, b2, c2, c3}

\* Candidate blocks on s: up to three operations in any order.
Alphabet == {In(k1, 1), In(k1, 2), In(k1, 8), In(k2, 1), Lim(k1, 1, 1), Lim(k1, 1, 4),
             Out(k1, 1), Out(k2, 1)}
MCTemplates == [hashPrevBlock : {s}, vtx : UNION {[1..n -> Alphabet] : n \in 1..3}]
NoTemplates == {}

-----------------------------------------------------------------------------
(* Properties of the instances *)

\* Bound: what follows an unwinding fault is not explored; the properties that
\* are checked under this bound say nothing about it.
UpToFault == ~stray

\* Activate blames, and ActivateBestChainStep then marks as failed for good, no
\* block that follows the rules and can be read.
NeverBlamesValid ==
    ~stray => badBlock \notin Valid \ Unreadable
=============================================================================
