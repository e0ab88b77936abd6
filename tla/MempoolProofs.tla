--------------------------- MODULE MempoolProofs ---------------------------
(***************************************************************************)
(* Theorems about Mempool for every finite set of transactions, every set  *)
(* of accounts and every chain of blocks.                                  *)
(***************************************************************************)
EXTENDS Mempool, Induction, FiniteSetTheorems, TLAPS

-----------------------------------------------------------------------------
(* Sums *)

Amount(T, i) == IF TxOrder[i] \in T THEN Value[TxOrder[i]] ELSE 0
Sums(T, f, n) == /\ f \in [0 .. n -> Nat] /\ f[0] = 0
                 /\ \A i \in 1 .. n : f[i] = f[i - 1] + Amount(T, i)

LEMMA Order ==
    /\ Len(TxOrder) \in Nat
    /\ \A i \in 1 .. Len(TxOrder) : TxOrder[i] \in Txs
    /\ \A t \in Txs : \E i \in 1 .. Len(TxOrder) : TxOrder[i] = t
    /\ \A i, j \in 1 .. Len(TxOrder) : TxOrder[i] = TxOrder[j] => i = j
  BY TxAssumption DEF ToSet, IsInjective

LEMMA AmountType ==
    ASSUME NEW T, NEW i \in 1 .. Len(TxOrder)
    PROVE  Amount(T, i) \in Nat
  BY Order, TxAssumption DEF Amount

LEMMA SumsExist ==
    ASSUME NEW T
    PROVE  \E f : Sums(T, f, Len(TxOrder))
<1> DEFINE N == Len(TxOrder)
           P == {n \in 0 .. N : \E f : Sums(T, f, n)}
<1>1. N \in Nat
  BY Order
<1>2. 0 \in P
  <2> DEFINE f == [i \in 0 .. 0 |-> 0]
  <2>1. Sums(T, f, 0)
    BY DEF Sums
  <2> QED
    BY <1>1, <2>1
<1>3. ASSUME NEW i \in 1 .. N, i - 1 \in P PROVE i \in P
  <2>1. PICK f : Sums(T, f, i - 1)
    BY <1>3
  <2>2. Amount(T, i) \in Nat
    BY AmountType
  <2> DEFINE g == [j \in 0 .. i |-> IF j = i THEN f[i - 1] + Amount(T, i) ELSE f[j]]
  <2>3. Sums(T, g, i)
    BY <1>1, <2>1, <2>2 DEF Sums
  <2> QED
    BY <1>1, <2>3
<1> HIDE DEF P
<1>4. \A i \in 0 .. N : i \in P
  BY <1>1, <1>2, <1>3, Climb
<1> QED
  BY <1>1, <1>4 DEF P

LEMMA TotalSums ==
    ASSUME NEW T
    PROVE  \E f : Sums(T, f, Len(TxOrder)) /\ Total(T) = f[Len(TxOrder)]
<1> DEFINE N == Len(TxOrder)
           R(f) == [i \in 0 .. N |-> IF i = 0 THEN 0 ELSE f[i - 1] + Amount(T, i)]
           s == CHOOSE f : f = R(f)
<1>1. PICK f : Sums(T, f, N)
  BY SumsExist
<1>2. N \in Nat
  BY Order
<1>3. f = R(f)
  BY <1>1, <1>2 DEF Sums
<1>4. s = R(s)
  BY <1>3, Zenon
<1>5. Total(T) = s[N]
  BY Zenon DEF Total, Amount
<1> HIDE DEF s
<1>6. /\ s = [i \in 0 .. N |-> s[i]] /\ s[0] = 0
      /\ \A i \in 1 .. N : s[i] = s[i - 1] + Amount(T, i)
  BY <1>2, <1>4
<1> DEFINE P == {i \in 0 .. N : s[i] \in Nat}
<1>7. 0 \in P /\ \A i \in 1 .. N : i - 1 \in P => i \in P
  BY <1>2, <1>6, AmountType
<1> HIDE DEF P
<1>8. \A i \in 0 .. N : i \in P
  BY <1>2, <1>7, Climb
<1>9. \A i \in 0 .. N : s[i] \in Nat
  BY <1>8 DEF P
<1>10. Sums(T, s, N)
  BY <1>6, <1>9 DEF Sums
<1> QED
  BY <1>5, <1>10

LEMMA TotalType ==
    ASSUME NEW T
    PROVE  Total(T) \in Nat
  BY TotalSums, Order DEF Sums

\* Nothing takes nothing.
LEMMA TotalEmpty == Total({}) = 0
<1> DEFINE N == Len(TxOrder)
<1>1. PICK f : Sums({}, f, N) /\ Total({}) = f[N]
  BY TotalSums
<1> DEFINE P == {i \in 0 .. N : f[i] = 0}
<1>2. N \in Nat
  BY Order
<1>3. \A i \in 1 .. N : f[i] = f[i - 1] + 0
  BY <1>1 DEF Sums, Amount
<1>4. 0 \in P /\ \A i \in 1 .. N : i - 1 \in P => i \in P
  BY <1>1, <1>2, <1>3 DEF Sums
<1> HIDE DEF P
<1>6. \A i \in 0 .. N : i \in P
  BY <1>2, <1>4, Climb
<1> QED
  BY <1>1, <1>2, <1>6 DEF P

\* More transactions take no less.
LEMMA TotalMonotone ==
    ASSUME NEW T, NEW U, T \subseteq U
    PROVE  Total(T) <= Total(U)
<1> DEFINE N == Len(TxOrder)
<1>1. PICK f : Sums(T, f, N) /\ Total(T) = f[N]
  BY TotalSums
<1>2. PICK g : Sums(U, g, N) /\ Total(U) = g[N]
  BY TotalSums
<1> DEFINE P == {i \in 0 .. N : f[i] <= g[i]}
<1>3. N \in Nat
  BY Order
<1>4. \A i \in 1 .. N : Amount(T, i) \in Nat /\ Amount(U, i) \in Nat
  BY AmountType
<1>5. 0 \in P
  BY <1>1, <1>2, <1>3 DEF Sums
<1>6. ASSUME NEW i \in 1 .. N, i - 1 \in P PROVE i \in P
  <2>1. Amount(T, i) <= Amount(U, i)
    BY <1>4 DEF Amount
  <2>2. f[i - 1] \in Nat /\ g[i - 1] \in Nat /\ f[i] = f[i - 1] + Amount(T, i) /\ g[i] = g[i - 1] + Amount(U, i)
    BY <1>1, <1>2, <1>3 DEF Sums
  <2> QED
    BY <1>4, <1>6, <2>1, <2>2
<1> HIDE DEF P
<1>7. \A i \in 0 .. N : i \in P
  BY <1>3, <1>5, <1>6, Climb
<1> QED
  BY <1>1, <1>2, <1>3, <1>7 DEF P

\* One more transaction takes its value more.
LEMMA TotalAdd ==
    ASSUME NEW T, NEW t \in Txs, t \notin T
    PROVE  Total(T \cup {t}) = Total(T) + Value[t]
<1> DEFINE N == Len(TxOrder)
           U == T \cup {t}
<1>1. PICK f : Sums(T, f, N) /\ Total(T) = f[N]
  BY TotalSums
<1>2. PICK g : Sums(U, g, N) /\ Total(U) = g[N]
  BY TotalSums
<1>3. N \in Nat /\ Value[t] \in Nat
  BY Order, TxAssumption
<1>4. PICK m \in 1 .. N : TxOrder[m] = t /\ \A i \in 1 .. N : TxOrder[i] = t => i = m
  BY Order
<1> DEFINE P == {i \in 0 .. N : g[i] = f[i] + (IF i < m THEN 0 ELSE Value[t])}
<1>5. \A i \in 1 .. N : /\ Amount(T, i) \in Nat
                        /\ Amount(U, i) = Amount(T, i) + (IF i = m THEN Value[t] ELSE 0)
  BY <1>3, <1>4, AmountType DEF Amount
<1>6. 0 \in P
  BY <1>1, <1>2, <1>3 DEF Sums
<1>7. ASSUME NEW i \in 1 .. N, i - 1 \in P PROVE i \in P
  <2>1. f[i - 1] \in Nat /\ f[i] = f[i - 1] + Amount(T, i) /\ g[i] = g[i - 1] + Amount(U, i)
    <3> HIDE DEF U, P
    <3>1. f \in [0 .. N -> Nat] /\ f[i] = f[i - 1] + Amount(T, i)
      BY <1>1 DEF Sums
    <3>2. g[i] = g[i - 1] + Amount(U, i)
      BY <1>2 DEF Sums
    <3> QED
      BY <1>3, <3>1, <3>2
  <2>2. g[i - 1] = f[i - 1] + (IF i - 1 < m THEN 0 ELSE Value[t])
    BY <1>7
  <2>3. g[i] = f[i] + (IF i < m THEN 0 ELSE Value[t])
    <3> HIDE DEF P, U
    <3> QED
      BY <1>3, <1>5, <2>1, <2>2
  <2> QED
    BY <2>3
<1> HIDE DEF P
<1>8. \A i \in 0 .. N : i \in P
  BY <1>3, <1>6, <1>7, Climb
<1>9. N \in P
  BY <1>3, <1>8
<1> QED
  BY <1>1, <1>2, <1>3, <1>9 DEF P, Sums
-----------------------------------------------------------------------------
(* Which transactions can be paid *)

PayBase(v, h) == [run |-> [k \in Keys |-> Left(v, k, h)], paid |-> {}]
PayStep(v, c, ts, x, i) == IF TxOrder[i] \in ts THEN Count(v, c, x, TxOrder[i]) ELSE x
PayRun(v, h, c, ts, f, n) ==
    f = [i \in 0 .. n |-> IF i = 0 THEN PayBase(v, h) ELSE PayStep(v, c, ts, f[i - 1], i)]

LEMMA PayRunExists ==
    ASSUME NEW v, NEW h, NEW c, NEW ts, NEW N \in Nat
    PROVE  \E f : PayRun(v, h, c, ts, f, N)
<1> DEFINE P == {n \in 0 .. N : \E f : PayRun(v, h, c, ts, f, n)}
<1>1. 0 \in P
  <2> DEFINE f == [i \in 0 .. 0 |-> PayBase(v, h)]
  <2>1. PayRun(v, h, c, ts, f, 0)
    BY DEF PayRun
  <2> QED
    BY <2>1
<1>2. ASSUME NEW n \in 1 .. N, n - 1 \in P PROVE n \in P
  <2>1. PICK f : PayRun(v, h, c, ts, f, n - 1)
    BY <1>2
  <2> DEFINE g == [i \in 0 .. n |-> IF i = n THEN PayStep(v, c, ts, f[n - 1], n) ELSE f[i]]
  <2>2. \A i \in 0 .. n : i # 0 => g[i - 1] = f[i - 1]
    OBVIOUS
  <2>3. \A i \in 0 .. n : g[i] = IF i = 0 THEN PayBase(v, h) ELSE PayStep(v, c, ts, g[i - 1], i)
    BY <2>1, <2>2 DEF PayRun
  <2>4. g = [i \in 0 .. n |-> IF i = 0 THEN PayBase(v, h) ELSE PayStep(v, c, ts, g[i - 1], i)]
    BY <2>3
  <2>5. PayRun(v, h, c, ts, g, n)
    BY <2>4 DEF PayRun
  <2> QED
    BY <2>5
<1> HIDE DEF P
<1>3. \A i \in 0 .. N : i \in P
  BY <1>1, <1>2, Climb
<1> QED
  BY <1>3 DEF P

LEMMA PayableRun ==
    ASSUME NEW v, NEW h, NEW c, NEW ts
    PROVE  \E f : /\ PayRun(v, h, c, ts, f, Len(TxOrder))
                 /\ Payable(v, h, c, ts) = f[Len(TxOrder)].paid
<1> DEFINE N == Len(TxOrder)
           s == CHOOSE f : f = [i \in 0 .. N |-> IF i = 0 THEN PayBase(v, h)
                                                 ELSE PayStep(v, c, ts, f[i - 1], i)]
<1>1. PICK f : PayRun(v, h, c, ts, f, N)
  BY Order, PayRunExists
<1>2. PayRun(v, h, c, ts, s, N)
  BY <1>1, Zenon DEF PayRun
<1>3. Payable(v, h, c, ts) = s[N].paid
  BY Zenon DEF Payable, PayBase, PayStep
<1> QED
  BY <1>2, <1>3
LEMMA LeftType ==
    ASSUME NEW v \in Views, NEW k \in Keys, NEW h \in Nat
    PROVE  /\ Left(v, k, h) \in Nat
           /\ v[k] # NoNode => /\ Left(v, k, h) <= v[k].balance
                               /\ Left(v, k, h) <= LimitAfter(v[k], h, MIN_LIMIT_TIME)
           /\ v[k] = NoNode => Left(v, k, h) = 0
<1>1. CASE v[k] = NoNode
  BY <1>1 DEF Left
<1>2. CASE v[k] # NoNode
  <2>1. v[k] \in Account
    BY <1>2 DEF Views
  <2>2. v[k].balance \in Nat /\ LimitAfter(v[k], h, MIN_LIMIT_TIME) \in Nat
    BY <2>1 DEF Account, LimitAfter
  <2> QED
    BY <1>2, <2>2 DEF Left, Least
<1> QED
  BY <1>1, <1>2

\* Together the transactions that validate or CreateNewBlock let through take no
\* more from an account than its balance and its limit.
LEMMA PayableBounded ==
    ASSUME NEW v \in Views, NEW h \in Nat, NEW c, NEW ts
    PROVE  LET paid == Payable(v, h, c, ts)
           IN  /\ paid \subseteq ts \cap Txs
               /\ \A t \in paid : v[From[t]] # NoNode
               /\ \A k \in Keys : Total({t \in paid : From[t] = k}) <= Left(v, k, h)
<1> DEFINE N == Len(TxOrder)
           Passed(i) == {TxOrder[j] : j \in 1 .. i}
           Of(x, k) == {t \in x.paid : From[t] = k}
           Good(x, i) == /\ x.run \in [Keys -> Nat]
                         /\ x.paid \subseteq ts \cap Txs \cap Passed(i)
                         /\ \A t \in x.paid : v[From[t]] # NoNode
                         /\ \A k \in Keys : Total(Of(x, k)) + x.run[k] <= Left(v, k, h)
<1>1. PICK f : PayRun(v, h, c, ts, f, N) /\ Payable(v, h, c, ts) = f[N].paid
  BY PayableRun
<1>2. N \in Nat
  BY Order
<1>3. f[0] = PayBase(v, h) /\ \A i \in 1 .. N : f[i] = PayStep(v, c, ts, f[i - 1], i)
  BY <1>1, <1>2 DEF PayRun
<1>4. Good(f[0], 0)
  <2>1. f[0].run = [k \in Keys |-> Left(v, k, h)] /\ f[0].paid = {}
    BY <1>3 DEF PayBase
  <2>2. \A k \in Keys : Of(f[0], k) = {}
    BY <2>1
  <2>3. \A k \in Keys : Total(Of(f[0], k)) + f[0].run[k] <= Left(v, k, h)
    BY <2>1, <2>2, TotalEmpty, LeftType
  <2>4. f[0].run \in [Keys -> Nat]
    BY <2>1, LeftType
  <2> QED
    BY <2>1, <2>3, <2>4
<1>5. ASSUME NEW i \in 1 .. N, Good(f[i - 1], i - 1) PROVE Good(f[i], i)
  <2> DEFINE x == f[i - 1]
             y == f[i]
             t == TxOrder[i]
  <2>1. t \in Txs /\ From[t] \in Keys /\ Value[t] \in Nat /\ Passed(i) = Passed(i - 1) \cup {t}
    <3>1. t \in Txs
      BY Order
    <3>2. 1 .. i = (1 .. (i - 1)) \cup {i}
      OBVIOUS
    <3> QED
      BY <3>1, <3>2, TxAssumption
  <2>2. t \notin x.paid
    <3>1. t \notin Passed(i - 1)
      BY Order
    <3> QED
      BY <1>5, <3>1
  <2>3. y = IF t \in ts THEN Count(v, c, x, t) ELSE x
    BY <1>3 DEF PayStep
  <2>4. CASE y.run = x.run /\ y.paid = x.paid
    <3>1. \A k \in Keys : Of(y, k) = Of(x, k)
      BY <2>4
    <3> HIDE DEF x, y, t
    <3> QED
      BY <1>5, <2>1, <2>4, <3>1 DEF x, y
  <2>5. CASE /\ t \in ts /\ x.run[From[t]] >= Value[t] /\ v[From[t]] # NoNode
             /\ y.run = [x.run EXCEPT ![From[t]] = @ - Value[t]]
             /\ y.paid = x.paid \/ y.paid = x.paid \cup {t}
    <3>1. y.run \in [Keys -> Nat]
      BY <1>5, <2>1, <2>5
    <3>2. y.paid \subseteq ts \cap Txs \cap Passed(i) /\ \A u \in y.paid : v[From[u]] # NoNode
      BY <1>5, <2>1, <2>5
    <3>3. ASSUME NEW k \in Keys PROVE Total(Of(y, k)) + y.run[k] <= Left(v, k, h)
      <4> HIDE DEF x, y, t
      <4>1. /\ x.run[k] \in Nat /\ Total(Of(x, k)) \in Nat /\ Left(v, k, h) \in Nat
            /\ Total(Of(x, k)) + x.run[k] <= Left(v, k, h)
        BY <1>5, TotalType, LeftType DEF x
      <4>2. CASE k # From[t]
        <5>1. Of(y, k) = Of(x, k) /\ y.run[k] = x.run[k]
          BY <1>5, <2>1, <2>5, <4>2 DEF x
        <5> QED
          BY <4>1, <5>1
      <4>3. CASE k = From[t]
        <5>1. y.run[k] = x.run[k] - Value[t]
          BY <1>5, <2>1, <2>5, <4>3 DEF x
        <5>2. Of(y, k) = Of(x, k) \/ Of(y, k) = Of(x, k) \cup {t}
          BY <2>5, <4>3
        <5>3. Total(Of(y, k)) = Total(Of(x, k)) \/ Total(Of(y, k)) = Total(Of(x, k)) + Value[t]
          BY <2>1, <2>2, <5>2, TotalAdd
        <5> QED
          BY <2>1, <4>1, <5>1, <5>3
      <4> QED
        BY <4>2, <4>3
    <3> QED
      BY <3>1, <3>2, <3>3
  <2> QED
    <3> HIDE DEF x, y, t, Passed, Of
    <3>1. CASE t \in ts
      <4>1. y = Count(v, c, x, t)
        BY <2>3, <3>1
      <4>2. \/ y.run = x.run /\ y.paid = x.paid
            \/ /\ x.run[From[t]] >= Value[t] /\ v[From[t]] # NoNode
               /\ y.run = [x.run EXCEPT ![From[t]] = @ - Value[t]]
               /\ y.paid = x.paid \/ y.paid = x.paid \cup {t}
        BY <4>1 DEF Count
      <4> QED
        BY <2>4, <2>5, <3>1, <4>2
    <3>2. CASE t \notin ts
      BY <2>3, <2>4, <3>2
    <3> QED
      BY <3>1, <3>2
<1> HIDE DEF Good
<1> DEFINE P == {i \in 0 .. N : Good(f[i], i)}
<1>6. 0 \in P /\ \A i \in 1 .. N : i - 1 \in P => i \in P
  BY <1>2, <1>4, <1>5
<1> HIDE DEF P
<1>7. \A i \in 0 .. N : i \in P
  BY <1>2, <1>6, Climb
<1>8. Good(f[N], N)
  BY <1>2, <1>7 DEF P
<1>9. ASSUME NEW k \in Keys PROVE Total({t \in f[N].paid : From[t] = k}) <= Left(v, k, h)
  <2>1. Total(Of(f[N], k)) \in Nat /\ Left(v, k, h) \in Nat
    BY TotalType, LeftType
  <2>2. f[N].run[k] \in Nat /\ Total(Of(f[N], k)) + f[N].run[k] <= Left(v, k, h)
    BY <1>8 DEF Good
  <2> QED
    BY <2>1, <2>2
<1>10. f[N].paid \subseteq ts \cap Txs /\ \A t \in f[N].paid : v[From[t]] # NoNode
  BY <1>8 DEF Good
<1> QED
  BY <1>1, <1>9, <1>10
-----------------------------------------------------------------------------
(* The ledger *)

ApplyBase(v) == [ok |-> TRUE, view |-> v, limits |-> <<>>, setLimit |-> {}, setTxIn |-> {}]
ApplyRun(v, vtx, h, f, n) ==
    f = [i \in 0 .. n |-> IF i = 0 THEN ApplyBase(v) ELSE ApplyTx(f[i - 1], vtx[i], h)]

LEMMA ApplyRunExists ==
    ASSUME NEW v, NEW vtx, NEW h, NEW N \in Nat
    PROVE  \E f : ApplyRun(v, vtx, h, f, N)
<1> DEFINE P == {n \in 0 .. N : \E f : ApplyRun(v, vtx, h, f, n)}
<1>1. 0 \in P
  <2> DEFINE f == [i \in 0 .. 0 |-> ApplyBase(v)]
  <2>1. ApplyRun(v, vtx, h, f, 0)
    BY DEF ApplyRun
  <2> QED
    BY <2>1
<1>2. ASSUME NEW n \in 1 .. N, n - 1 \in P PROVE n \in P
  <2>1. PICK f : ApplyRun(v, vtx, h, f, n - 1)
    BY <1>2
  <2> DEFINE g == [i \in 0 .. n |-> IF i = n THEN ApplyTx(f[n - 1], vtx[n], h) ELSE f[i]]
  <2>2. \A i \in 0 .. n : i # 0 => g[i - 1] = f[i - 1]
    OBVIOUS
  <2>3. \A i \in 0 .. n : g[i] = IF i = 0 THEN ApplyBase(v) ELSE ApplyTx(g[i - 1], vtx[i], h)
    BY <2>1, <2>2 DEF ApplyRun
  <2>4. g = [i \in 0 .. n |-> IF i = 0 THEN ApplyBase(v) ELSE ApplyTx(g[i - 1], vtx[i], h)]
    BY <2>3
  <2>5. ApplyRun(v, vtx, h, g, n)
    BY <2>4 DEF ApplyRun
  <2> QED
    BY <2>5
<1> HIDE DEF P
<1>3. \A i \in 0 .. N : i \in P
  BY <1>1, <1>2, Climb
<1> QED
  BY <1>3 DEF P

LEMMA TempApplyRun ==
    ASSUME NEW v, NEW vtx, Len(vtx) \in Nat, NEW h
    PROVE  \E f : /\ f[0] = ApplyBase(v)
                  /\ \A i \in 1 .. Len(vtx) : f[i] = ApplyTx(f[i - 1], vtx[i], h)
                  /\ TempApply(v, vtx, h) = f[Len(vtx)]
<1> DEFINE N == Len(vtx)
           s == CHOOSE f : f = [i \in 0 .. N |-> IF i = 0 THEN ApplyBase(v)
                                                 ELSE ApplyTx(f[i - 1], vtx[i], h)]
<1>1. PICK f : ApplyRun(v, vtx, h, f, N)
  BY ApplyRunExists
<1>2. ApplyRun(v, vtx, h, s, N)
  BY <1>1, Zenon DEF ApplyRun
<1>3. TempApply(v, vtx, h) = s[N]
  BY Zenon DEF TempApply, ApplyBase
<1> HIDE DEF s
<1>4. s[0] = ApplyBase(v) /\ \A i \in 1 .. N : s[i] = ApplyTx(s[i - 1], vtx[i], h)
  BY <1>2 DEF ApplyRun
<1> QED
  BY <1>3, <1>4

LEMMA SpentType ==
    ASSUME NEW a \in Account, NEW t \in Txs, NEW h \in Nat, Value[t] <= a.balance
    PROVE  Spent(a, t, h) \in Account \cup {NoNode}
<1> DEFINE reached == IF h - a.age > MIN_LIMIT_TIME THEN a.futurelimit ELSE a.limit
           future == IF t \in SetsLimit THEN NewLimit[t] ELSE a.futurelimit
<1>1. reached \in Nat /\ future \in Nat
  BY TxAssumption DEF Account
<1>2. Value[t] \in Nat /\ a.balance \in Nat /\ a.balance - Value[t] \in Nat
  BY TxAssumption DEF Account
<1> HIDE DEF reached, future
<1>3. Least(reached, future) \in Nat
  BY <1>1 DEF Least
<1>4. Spent(a, t, h) = IF a.balance = Value[t] THEN NoNode
        ELSE [balance |-> a.balance - Value[t], age |-> h,
              limit |-> IF t \in SetsLimit THEN Least(reached, future) ELSE reached,
              futurelimit |-> future]
  BY DEF Spent, reached, future
<1> QED
  BY <1>1, <1>2, <1>3, <1>4 DEF Account

LEMMA DepositedType ==
    ASSUME NEW a \in Account \cup {NoNode}, NEW t \in Txs, NEW h \in Nat
    PROVE  Deposited(a, t, h) \in Account
<1>1. Paid[t] \in Nat /\ UINT64_MAX \in Nat
  BY TxAssumption
<1>2. CASE a = NoNode
  BY <1>1, <1>2 DEF Deposited, Account
<1>3. CASE a # NoNode
  <2>1. a \in Account
    BY <1>3
  <2>2. Deposited(a, t, h) = [a EXCEPT !.balance = @ + Paid[t]]
    BY <1>3 DEF Deposited
  <2> QED
    BY <1>1, <2>1, <2>2 DEF Account
<1> QED
  BY <1>2, <1>3

\* What TempApply keeps has the fields it was given.
Fields(x) == x = [ok |-> x.ok, view |-> x.view, limits |-> x.limits,
                  setLimit |-> x.setLimit, setTxIn |-> x.setTxIn]

LEMMA ApplyType ==
    ASSUME NEW x, Fields(x), x.view \in Views, NEW t \in Txs, NEW h \in Nat
    PROVE  Fields(ApplyTx(x, t, h)) /\ ApplyTx(x, t, h).view \in Views
<1> DEFINE y == ApplyTx(x, t, h)
           k == From[t]
<1>1. CASE ~x.ok \/ Refused(x, t, h)
  <2>1. y = [x EXCEPT !.ok = FALSE]
    BY <1>1 DEF ApplyTx
  <2>2. y = [ok |-> FALSE, view |-> x.view, limits |-> x.limits,
             setLimit |-> x.setLimit, setTxIn |-> x.setTxIn]
    BY <2>1 DEF Fields
  <2> QED
    BY <2>2 DEF Fields
<1>2. CASE x.ok /\ ~Refused(x, t, h)
  <2>1. k \in Keys /\ x.view[k] \in Account /\ Value[t] <= x.view[k].balance
    <3>1. k \in Keys /\ Value[t] \in Nat
      BY TxAssumption
    <3>2. x.view[k] # NoNode /\ ~(Value[t] > x.view[k].balance)
      BY <1>2 DEF Refused
    <3>3. x.view[k] \in Account
      BY <3>1, <3>2 DEF Views
    <3> QED
      BY <3>1, <3>2, <3>3 DEF Account
  <2> DEFINE p == [x.view EXCEPT ![k] = Spent(@, t, h)]
  <2>2. p \in Views
    BY <2>1, SpentType DEF Views
  <2> HIDE DEF p
  <2>3. To[t] # NoKey => To[t] \in Keys
    BY TxAssumption
  <2>4. To[t] # NoKey => [p EXCEPT ![To[t]] = Deposited(@, t, h)] \in Views
    BY <2>2, <2>3, DepositedType DEF Views
  <2>5. /\ y = [ok |-> TRUE, view |-> y.view, limits |-> y.limits,
                setLimit |-> y.setLimit, setTxIn |-> y.setTxIn]
        /\ y.view = IF To[t] = NoKey THEN p ELSE [p EXCEPT ![To[t]] = Deposited(@, t, h)]
    BY <1>2 DEF ApplyTx, p
  <2> QED
    BY <2>2, <2>4, <2>5 DEF Fields
<1> QED
  BY <1>1, <1>2

\* The accounts keep their type.
LEMMA TempApplyType ==
    ASSUME NEW v \in Views, NEW vtx \in Seq(Txs), NEW h \in Nat
    PROVE  TempApply(v, vtx, h).view \in Views
<1> DEFINE N == Len(vtx)
<1>1. N \in Nat /\ \A i \in 1 .. N : vtx[i] \in Txs
  OBVIOUS
<1>2. PICK f : /\ f[0] = ApplyBase(v) /\ TempApply(v, vtx, h) = f[N]
               /\ \A i \in 1 .. N : f[i] = ApplyTx(f[i - 1], vtx[i], h)
  BY <1>1, TempApplyRun
<1> DEFINE P == {i \in 0 .. N : Fields(f[i]) /\ f[i].view \in Views}
<1>3. 0 \in P
  BY <1>1, <1>2 DEF ApplyBase, Fields
<1>4. ASSUME NEW i \in 1 .. N, i - 1 \in P PROVE i \in P
  <2>1. Fields(f[i - 1]) /\ f[i - 1].view \in Views /\ f[i] = ApplyTx(f[i - 1], vtx[i], h)
    BY <1>2, <1>4
  <2>2. Fields(f[i]) /\ f[i].view \in Views
    <3> HIDE DEF P
    <3> QED
      BY <1>1, <2>1, ApplyType
  <2> QED
    BY <2>2
<1> HIDE DEF P
<1>5. \A i \in 0 .. N : i \in P
  BY <1>1, <1>3, <1>4, Climb
<1> QED
  BY <1>1, <1>2, <1>5 DEF P

-----------------------------------------------------------------------------
(* The pool *)

Pools == [mapTx : SUBSET Txs, mapAccount : [Keys -> SUBSET Txs], mapLimits : [Keys -> Nat]]

\* The index and the counts of a pool p.
Indexed(p) == \A k \in Keys : p.mapAccount[k] = {t \in p.mapTx : k \in {From[t], To[t]}}
Changes(p, k) == {t \in p.mapTx \cap SetsLimit : From[t] = k}
Counted(p) == \A k \in Keys : p.mapLimits[k] \in 0 .. Cardinality(Changes(p, k))

LEMMA SubsetsFinite ==
    ASSUME NEW S \in SUBSET Txs
    PROVE  IsFiniteSet(S) /\ Cardinality(S) \in Nat
  BY TxAssumption, FS_Subset, FS_CardinalityType

LEMMA LimitsLeftType ==
    ASSUME NEW T \in SUBSET Txs, NEW m \in Nat, NEW k
    PROVE  LET n == Cardinality({t \in T \cap SetsLimit : From[t] = k})
           IN  /\ n \in Nat
               /\ LimitsLeft(m, T, k) \in Nat
               /\ LimitsLeft(m, T, k) = IF n < m THEN m - n ELSE 0
<1> DEFINE S == {t \in T \cap SetsLimit : From[t] = k}
<1>1. S \in SUBSET Txs
  OBVIOUS
<1>2. Cardinality(S) \in Nat
  BY <1>1, SubsetsFinite
<1> QED
  BY <1>2 DEF LimitsLeft

LEMMA EmptyPoolGood == EmptyPool \in Pools /\ Indexed(EmptyPool) /\ Counted(EmptyPool)
<1>1. EmptyPool \in Pools /\ Indexed(EmptyPool)
  BY DEF EmptyPool, Pools, Indexed
<1>2. ASSUME NEW k \in Keys PROVE EmptyPool.mapLimits[k] \in 0 .. Cardinality(Changes(EmptyPool, k))
  <2>1. EmptyPool.mapLimits[k] = 0 /\ Changes(EmptyPool, k) = {}
    BY DEF EmptyPool, Changes
  <2> QED
    BY <2>1, FS_EmptySet
<1> QED
  BY <1>1, <1>2 DEF Counted

\* addUnchecked, for a transaction that is not in the pool.
LEMMA AddGood ==
    ASSUME NEW p \in Pools, Indexed(p), Counted(p), NEW t \in Txs, t \notin p.mapTx
    PROVE  /\ AddUnchecked(p, t) \in Pools
           /\ Indexed(AddUnchecked(p, t))
           /\ Counted(AddUnchecked(p, t))
<1> DEFINE q == AddUnchecked(p, t)
<1>1. From[t] \in Keys
  BY TxAssumption
<1>2. q \in Pools
  BY <1>1 DEF AddUnchecked, Pools
<1>3. Indexed(q)
  BY DEF AddUnchecked, Indexed, Pools
<1>4. ASSUME NEW k \in Keys PROVE q.mapLimits[k] \in 0 .. Cardinality(Changes(q, k))
  <2>1. p.mapLimits[k] \in Nat /\ p.mapLimits[k] <= Cardinality(Changes(p, k))
    BY DEF Pools, Counted
  <2>2. IsFiniteSet(Changes(p, k)) /\ Cardinality(Changes(p, k)) \in Nat
    <3>1. Changes(p, k) \in SUBSET Txs
      BY DEF Changes, Pools
    <3> QED
      BY <3>1, SubsetsFinite
  <2>3. t \notin Changes(p, k)
    BY DEF Changes
  <2>4. CASE t \in SetsLimit /\ From[t] = k
    <3>1. Changes(q, k) = Changes(p, k) \cup {t}
      BY <2>4 DEF Changes, AddUnchecked
    <3>2. q.mapLimits[k] = p.mapLimits[k] + 1
      BY <2>4 DEF AddUnchecked, Pools
    <3>3. Cardinality(Changes(q, k)) = Cardinality(Changes(p, k)) + 1
      BY <2>2, <2>3, <3>1, FS_AddElement
    <3> QED
      BY <2>1, <2>2, <3>2, <3>3
  <2>5. CASE ~(t \in SetsLimit /\ From[t] = k)
    <3>1. Changes(q, k) = Changes(p, k)
      BY <2>5 DEF Changes, AddUnchecked
    <3>2. q.mapLimits[k] = p.mapLimits[k]
      BY <1>1, <2>5 DEF AddUnchecked, Pools
    <3> QED
      BY <2>1, <2>2, <3>1, <3>2
  <2> QED
    BY <2>4, <2>5
<1> QED
  BY <1>2, <1>3, <1>4 DEF Counted

\* remove, also for transactions that are not in the pool.
LEMMA RemoveGood ==
    ASSUME NEW p \in Pools, Indexed(p), Counted(p), NEW T \in SUBSET Txs
    PROVE  /\ RemoveTxs(p, T) \in Pools
           /\ Indexed(RemoveTxs(p, T))
           /\ Counted(RemoveTxs(p, T))
<1> DEFINE q == RemoveTxs(p, T)
<1>1. \A k \in Keys : LimitsLeft(p.mapLimits[k], T, k) \in Nat
  BY LimitsLeftType DEF Pools
<1>2. q \in Pools
  BY <1>1 DEF RemoveTxs, Pools
<1>3. Indexed(q)
  <2> SUFFICES ASSUME NEW k \in Keys
               PROVE  q.mapAccount[k] = {t \in q.mapTx : k \in {From[t], To[t]}}
    BY DEF Indexed
  <2>1. p.mapAccount[k] = {t \in p.mapTx : k \in {From[t], To[t]}}
    BY DEF Indexed
  <2> QED
    BY <2>1 DEF RemoveTxs
<1>4. ASSUME NEW k \in Keys PROVE q.mapLimits[k] \in 0 .. Cardinality(Changes(q, k))
  <2> DEFINE S == Changes(p, k)
             R == {t \in T \cap SetsLimit : From[t] = k}
             m == p.mapLimits[k]
  <2>1. m \in Nat /\ m <= Cardinality(S)
    BY DEF Pools, Counted
  <2>2. S \in SUBSET Txs /\ R \in SUBSET Txs
    BY DEF Changes, Pools
  <2>3. Changes(q, k) = S \ R
    BY DEF Changes, RemoveTxs
  <2>4. q.mapLimits[k] = IF Cardinality(R) < m THEN m - Cardinality(R) ELSE 0
    BY <2>1, LimitsLeftType DEF RemoveTxs
  <2> HIDE DEF S, R, m
  <2>5. /\ IsFiniteSet(S) /\ IsFiniteSet(R)
        /\ Cardinality(S) \in Nat /\ Cardinality(R) \in Nat
    BY <2>2, SubsetsFinite
  <2>6. /\ Cardinality(S \ R) = Cardinality(S) - Cardinality(S \cap R)
        /\ Cardinality(S \cap R) <= Cardinality(R)
    BY <2>5, FS_Difference, FS_Intersection
  <2>7. Cardinality(S \cap R) \in Nat /\ Cardinality(S \ R) \in Nat
    <3>1. S \cap R \in SUBSET Txs /\ S \ R \in SUBSET Txs
      BY <2>2
    <3> QED
      BY <3>1, SubsetsFinite
  <2> QED
    BY <2>1, <2>3, <2>4, <2>5, <2>6, <2>7
<1> QED
  BY <1>2, <1>3, <1>4 DEF Counted

-----------------------------------------------------------------------------
(* The chain *)

LEMMA OwnRange ==
    ASSUME NEW S, NEW s \in Seq(S)
    PROVE  s \in Seq(ToSet(s))
<1>1. Len(s) \in Nat /\ DOMAIN s = 1 .. Len(s) /\ s = [i \in 1 .. Len(s) |-> s[i]]
  OBVIOUS
<1>2. \A i \in 1 .. Len(s) : s[i] \in ToSet(s)
  BY <1>1 DEF ToSet
<1> QED
  BY <1>1, <1>2

\* The transactions of a chain with one more block, and without its last one.
LEMMA ConfirmedAppend ==
    ASSUME NEW c, c \in Seq(ToSet(c)), NEW e
    PROVE  /\ Confirmed(Append(c, e)) = Confirmed(c) \cup ToSet(e.vtx)
           /\ Append(c, e) \in Seq(ToSet(Append(c, e)))
<1> DEFINE d == Append(c, e)
<1>1. Len(c) \in Nat /\ DOMAIN c = 1 .. Len(c)
  OBVIOUS
<1>2. /\ DOMAIN d = 1 .. (Len(c) + 1) /\ Len(d) = Len(c) + 1
      /\ d[Len(c) + 1] = e
      /\ \A i \in 1 .. Len(c) : d[i] = c[i]
  OBVIOUS
<1>3. d \in Seq(ToSet(d))
  BY <1>2 DEF ToSet
<1> HIDE DEF d
<1>4. DOMAIN d = DOMAIN c \cup {Len(c) + 1}
  BY <1>1, <1>2
<1>5. \A x : x \in Confirmed(d) <=> x \in Confirmed(c) \cup ToSet(e.vtx)
  BY <1>1, <1>2, <1>4 DEF Confirmed
<1> QED
  BY <1>3, <1>5 DEF d

LEMMA ConfirmedFront ==
    ASSUME NEW c, c \in Seq(ToSet(c)), c # <<>>
    PROVE  /\ Confirmed(Front(c)) \subseteq Confirmed(c)
           /\ Front(c) \in Seq(ToSet(Front(c)))
           /\ DOMAIN Front(c) \subseteq DOMAIN c
           /\ \A i \in DOMAIN Front(c) : Front(c)[i] = c[i]
           /\ Len(c) \in DOMAIN c
<1> DEFINE d == Front(c)
<1>1. Len(c) \in Nat \ {0} /\ DOMAIN c = 1 .. Len(c)
  OBVIOUS
<1>2. /\ DOMAIN d = 1 .. (Len(c) - 1) /\ Len(d) = Len(c) - 1
      /\ \A i \in 1 .. (Len(c) - 1) : d[i] = c[i]
  BY <1>1 DEF Front
<1>3. d \in Seq(ToSet(c))
  BY <1>1 DEF Front
<1>4. d \in Seq(ToSet(d))
  BY <1>3, OwnRange
<1> HIDE DEF d
<1>5. DOMAIN d \subseteq DOMAIN c /\ \A i \in DOMAIN d : d[i] = c[i]
  BY <1>1, <1>2
<1>6. Confirmed(d) \subseteq Confirmed(c)
  BY <1>5 DEF Confirmed
<1> QED
  BY <1>1, <1>4, <1>5, <1>6 DEF d

-----------------------------------------------------------------------------
(* The invariant.  The pool and the chain share it: what NothingTwice says  *)
(* needs that a block is only offered or dropped when there is one.         *)

PoolInv ==
    /\ PoolType /\ ChainType
    /\ IndexExact /\ LimitsNotOvercounted /\ NothingTwice

\* What an action does to the pool: it gets one transaction that is not on the
\* chain, or some are removed.
LEMMA PoolInvParts ==
    (PoolType /\ IndexExact /\ LimitsNotOvercounted) <=> (pool \in Pools /\ Indexed(pool) /\ Counted(pool))
  BY DEF PoolType, IndexExact, LimitsNotOvercounted, Pools, Indexed, Counted, Changes

LEMMA PoolInvInit == Init => PoolInv
<1> SUFFICES ASSUME Init PROVE PoolInv
  OBVIOUS
<1>1. PoolType /\ IndexExact /\ LimitsNotOvercounted
  BY EmptyPoolGood, PoolInvParts DEF Init
<1>2. ChainType
  BY DEF Init, ChainType, ToSet
<1>3. NothingTwice
  BY DEF Init, NothingTwice, EmptyPool
<1> QED
  BY <1>1, <1>2, <1>3 DEF PoolInv

\* AcceptToMemoryPool leaves a good pool, with at most the transaction more, and
\* that one only if the chain it was given does not hold it.
LEMMA AcceptGood ==
    ASSUME NEW p \in Pools, Indexed(p), Counted(p), NEW c, NEW t \in Txs
    PROVE  LET q == AcceptToMemoryPool(p, c, t)
           IN  /\ q \in Pools /\ Indexed(q) /\ Counted(q)
               /\ q.mapTx \cap Confirmed(c) \subseteq p.mapTx \cap Confirmed(c)
<1>1. CASE Acceptable(p, c, t)
  <2>1. t \notin p.mapTx /\ t \notin Confirmed(c)
    BY <1>1 DEF Acceptable
  <2>2. AcceptToMemoryPool(p, c, t) = AddUnchecked(p, t)
    BY <1>1 DEF AcceptToMemoryPool
  <2>3. AddUnchecked(p, t).mapTx = p.mapTx \cup {t}
    BY DEF AddUnchecked
  <2> QED
    BY <2>1, <2>2, <2>3, AddGood
<1>2. CASE ~Acceptable(p, c, t)
  BY <1>2 DEF AcceptToMemoryPool
<1> QED
  BY <1>1, <1>2

LEMMA PoolInvNext == PoolInv /\ [Next]_vars => PoolInv'
<1> SUFFICES ASSUME PoolInv, [Next]_vars PROVE PoolInv'
  OBVIOUS
<1> USE DEF PoolInv
<1>p. pool \in Pools /\ Indexed(pool) /\ Counted(pool)
  BY PoolInvParts
<1>q. ASSUME pool' \in Pools, Indexed(pool'), Counted(pool')
      PROVE  (PoolType /\ IndexExact /\ LimitsNotOvercounted)'
  BY <1>q DEF PoolType, IndexExact, LimitsNotOvercounted, Pools, Indexed, Counted, Changes
<1>1. ASSUME NEW t \in Txs, Submit(t) PROVE PoolInv'
  <2>1. pool' = AcceptToMemoryPool(pool, chain, t) /\ phase = "idle"
    BY <1>1 DEF Submit, AcceptToMemoryPool
  <2>2. /\ pool' \in Pools /\ Indexed(pool') /\ Counted(pool')
        /\ pool'.mapTx \cap Confirmed(chain) \subseteq pool.mapTx \cap Confirmed(chain)
    BY <2>1, <1>p, AcceptGood
  <2>3. ChainType'
    BY <1>1 DEF Submit, ChainType
  <2>4. Staying = chain /\ Staying' = chain
    BY <1>1 DEF Submit, Staying
  <2>5. NothingTwice'
    BY <2>2, <2>4 DEF NothingTwice
  <2> QED
    BY <1>q, <2>2, <2>3, <2>5
<1>2. ASSUME DisconnectTip PROVE PoolInv'
  <2>1. ChainType'
    <3>1. chain \in Seq(ToSet(chain)) /\ chain # <<>> /\ chain' = chain
      BY <1>2 DEF DisconnectTip, ChainType
    <3>2. Last(chain) = chain[Len(chain)] /\ Len(chain) \in DOMAIN chain
      BY <3>1, ConfirmedFront DEF Last
    <3>3. offer' \in Seq(Txs)
      BY <1>2, <3>2 DEF DisconnectTip, ChainType
    <3> QED
      BY <1>2, <3>1, <3>3 DEF DisconnectTip, ChainType
  <2>2. Confirmed(Staying') \subseteq Confirmed(Staying)
    <3>1. Staying = chain /\ Staying' = Front(chain)
      BY <1>2 DEF DisconnectTip, Staying
    <3> QED
      BY <1>2, <3>1, ConfirmedFront DEF DisconnectTip, ChainType
  <2>3. NothingTwice'
    BY <1>2, <2>2 DEF DisconnectTip, NothingTwice
  <2> QED
    BY <1>2, <1>p, <1>q, <2>1, <2>3 DEF DisconnectTip
<1>3. ASSUME Resurrect PROVE PoolInv'
  <2>1. Head(offer) \in Txs /\ Tail(offer) \in Seq(Txs)
    BY <1>3 DEF Resurrect, ChainType
  <2>2. /\ pool' \in Pools /\ Indexed(pool') /\ Counted(pool')
        /\ pool'.mapTx \cap Confirmed(Front(chain)) \subseteq pool.mapTx \cap Confirmed(Front(chain))
    BY <1>3, <2>1, <1>p, AcceptGood DEF Resurrect
  <2>3. ChainType'
    BY <1>3, <2>1 DEF Resurrect, ChainType
  <2>4. Staying = Front(chain) /\ Staying' = Front(chain)
    BY <1>3 DEF Resurrect, Staying
  <2>5. NothingTwice'
    BY <2>2, <2>4 DEF NothingTwice
  <2> QED
    BY <1>q, <2>2, <2>3, <2>5
<1>4. ASSUME UpdateTip PROVE PoolInv'
  <2>1. chain \in Seq(ToSet(chain)) /\ chain # <<>> /\ chain' = Front(chain)
    BY <1>4 DEF UpdateTip, ChainType
  <2>2. ChainType'
    <3>1. /\ chain' \in Seq(ToSet(chain'))
          /\ \A i \in DOMAIN chain' : i \in DOMAIN chain /\ chain'[i] = chain[i]
      BY <2>1, ConfirmedFront
    <3> QED
      BY <1>4, <3>1 DEF UpdateTip, ChainType
  <2>3. Staying' = Staying
    BY <1>4 DEF UpdateTip, Staying
  <2>4. NothingTwice'
    BY <1>4, <2>3 DEF UpdateTip, NothingTwice
  <2> QED
    BY <1>4, <1>p, <1>q, <2>2, <2>4 DEF UpdateTip
<1>5. ASSUME NEW vtx \in Blocks, ConnectTip(vtx) PROVE PoolInv'
  <2> DEFINE e == [vtx |-> vtx, before |-> due]
  <2>1. vtx \in Seq(Txs) /\ ToSet(vtx) \in SUBSET Txs
    BY DEF Blocks, ToSet
  <2>2. /\ chain' = Append(chain, e) /\ chain \in Seq(ToSet(chain)) /\ e.vtx = vtx
        /\ pool' = RemoveTxs(pool, ToSet(vtx))
    BY <1>5 DEF ConnectTip, ChainType
  <2>3. /\ chain' \in Seq(ToSet(chain'))
        /\ Confirmed(chain') = Confirmed(chain) \cup ToSet(vtx)
    <3> HIDE DEF e
    <3> QED
      BY <2>2, ConfirmedAppend
  <2>4. ChainType'
    <3>1. \A i \in DOMAIN chain' : chain'[i].vtx \in Seq(Txs)
      BY <2>1, <2>2 DEF ChainType
    <3> QED
      BY <1>5, <2>3, <3>1 DEF ConnectTip, ChainType
  <2>5. pool' \in Pools /\ Indexed(pool') /\ Counted(pool')
    BY <1>p, <2>1, <2>2, RemoveGood
  <2>6. NothingTwice'
    <3>1. Staying = chain /\ Staying' = chain'
      BY <1>5 DEF ConnectTip, Staying
    <3>2. pool'.mapTx = pool.mapTx \ ToSet(vtx)
      BY <2>2 DEF RemoveTxs
    <3> QED
      BY <2>3, <3>1, <3>2 DEF NothingTwice
  <2> QED
    BY <1>q, <2>4, <2>5, <2>6
<1>6. ASSUME Settle PROVE PoolInv'
  <2>1. PICK T \in SUBSET Txs : pool' = RemoveTxs(pool, T)
    <3>1. PICK K : Validate(pool, due, chain) = RemoveTxs(pool, pool.mapTx \ K)
      BY DEF Validate
    <3>2. pool.mapTx \ K \in SUBSET Txs
      BY <1>p DEF Pools
    <3> QED
      BY <1>6, <3>1, <3>2 DEF Settle
  <2>2. pool' \in Pools /\ Indexed(pool') /\ Counted(pool')
    BY <1>p, <2>1, RemoveGood
  <2>3. ChainType'
    BY <1>6 DEF Settle, ChainType
  <2>4. NothingTwice'
    <3>1. Staying = chain /\ Staying' = chain
      BY <1>6 DEF Settle, Staying
    <3>2. pool'.mapTx = pool.mapTx \ T
      BY <2>1 DEF RemoveTxs
    <3> QED
      BY <3>1, <3>2 DEF NothingTwice
  <2> QED
    BY <1>q, <2>2, <2>3, <2>4
<1>7. ASSUME Restart PROVE PoolInv'
  <2>1. ChainType' /\ NothingTwice'
    BY <1>7 DEF Restart, ChainType, NothingTwice, EmptyPool
  <2> QED
    BY <1>7, <1>q, <2>1, EmptyPoolGood DEF Restart
<1>8. ASSUME UNCHANGED vars PROVE PoolInv'
  <2>1. ChainType' /\ NothingTwice'
    BY <1>8 DEF vars, ChainType, NothingTwice, Staying
  <2> QED
    BY <1>8, <1>p, <1>q, <2>1 DEF vars
<1> QED
  BY <1>1, <1>2, <1>3, <1>4, <1>5, <1>6, <1>7, <1>8 DEF Next

\* The indexes of the pool, the connected blocks and what DisconnectTip still has to
\* offer belong together after every step of ActivateBestChainStep.
THEOREM PoolInvAlways == Spec => []PoolInv
  BY PoolInvInit, PoolInvNext, PTL DEF Spec

\* The index of the pool is exact whatever happens to it.
THEOREM IndexAlwaysExact == Spec => []IndexExact
<1>1. PoolInv => IndexExact
  BY DEF PoolInv
<1> QED
  BY <1>1, PoolInvAlways, PTL

\* No account is ever shut out by limit changes that are not in the pool.
THEOREM LimitsNeverOvercounted == Spec => []LimitsNotOvercounted
<1>1. PoolInv => LimitsNotOvercounted
  BY DEF PoolInv
<1> QED
  BY <1>1, PoolInvAlways, PTL

\* No transaction of the chain ever waits in the pool, in whatever order and to
\* whatever depth blocks are disconnected and connected.
THEOREM NeverTwice == Spec => []NothingTwice
<1>1. PoolInv => NothingTwice
  BY DEF PoolInv
<1> QED
  BY <1>1, PoolInvAlways, PTL
-----------------------------------------------------------------------------
(* What waits can be paid *)

LEMMA ViewTypeInit == Init => ViewType
  BY TxAssumption DEF Init, ViewType, Views

\* Appending leaves what was there, and puts the new block on top.
LEMMA AppendFacts ==
    ASSUME NEW c, c \in Seq(ToSet(c)), NEW e
    PROVE  \A i \in DOMAIN Append(c, e) :
              \/ i \in DOMAIN c /\ Append(c, e)[i] = c[i]
              \/ Append(c, e)[i] = e
  OBVIOUS

LEMMA ViewTypeNext == PoolInv /\ ViewType /\ [Next]_vars => ViewType'
<1> SUFFICES ASSUME PoolInv, ViewType, [Next]_vars PROVE ViewType'
  OBVIOUS
<1>c. chain \in Seq(ToSet(chain)) /\ Height \in Nat
  BY DEF PoolInv, ChainType, Height
<1>1. ASSUME UNCHANGED <<chain, due>>, view' \in {view, due} PROVE ViewType'
  BY <1>1 DEF ViewType
<1>2. CASE UpdateTip
  <2>1. chain # <<>>
    BY <1>2 DEF UpdateTip, PoolInv, ChainType
  <2>2. /\ \A i \in DOMAIN Front(chain) : i \in DOMAIN chain /\ Front(chain)[i] = chain[i]
        /\ Len(chain) \in DOMAIN chain
    BY <1>c, <2>1, ConfirmedFront
  <2>3. chain' = Front(chain) /\ due' = chain[Len(chain)].before /\ view' = view
    BY <1>2 DEF UpdateTip, Last
  <2> QED
    BY <2>2, <2>3 DEF ViewType
<1>3. ASSUME NEW vtx \in Blocks, ConnectTip(vtx) PROVE ViewType'
  <2>1. vtx \in Seq(Txs)
    BY DEF Blocks
  <2>2. due' \in Views
    BY <1>3, <1>c, <2>1, TempApplyType DEF ConnectTip, ViewType
  <2> DEFINE e == [vtx |-> vtx, before |-> due]
  <2>3. \A i \in DOMAIN chain' : chain'[i] = e \/ (i \in DOMAIN chain /\ chain'[i] = chain[i])
    <3>1. chain' = Append(chain, e)
      BY <1>3 DEF ConnectTip
    <3> HIDE DEF e
    <3>2. \A i \in DOMAIN Append(chain, e) :
             \/ i \in DOMAIN chain /\ Append(chain, e)[i] = chain[i]
             \/ Append(chain, e)[i] = e
      BY <1>c, AppendFacts
    <3> QED
      BY <3>1, <3>2, Zenon
  <2>4. \A i \in DOMAIN chain' : chain'[i].before \in Views
    BY <2>3 DEF ViewType
  <2> QED
    BY <1>3, <2>2, <2>4 DEF ConnectTip, ViewType
<1> QED
  BY <1>1, <1>2, <1>3 DEF Next, vars, Submit, DisconnectTip, Resurrect, Settle, Restart

\* No handler leaves the types of the state: no balance, no limit and no count of
\* limit changes goes below zero, in whatever order blocks come and go.
THEOREM TypeCorrect == Spec => []TypeOK
<1>1. Init => phase = "idle"
  BY DEF Init
<1> DEFINE Phase == phase \in {"idle", "offer", "unwind", "connect"}
<1>2. Phase /\ [Next]_vars => Phase'
  BY DEF Next, vars, Submit, DisconnectTip, Resurrect, UpdateTip, ConnectTip, Settle, Restart
<1>3. Init => Phase
  BY <1>1
<1>4. PoolInv /\ ViewType /\ Phase => TypeOK
  BY DEF PoolInv, TypeOK
<1> HIDE DEF Phase
<1> QED
  BY <1>2, <1>3, <1>4, PoolInvAlways, ViewTypeInit, ViewTypeNext, PTL DEF Spec

\* The transactions of the pool that Withdrawals adds up, at height h.
Waiting(p, k, h) == {t \in p.mapAccount[k] : From[t] = k /\ IsFinalTx(t, h)}

LEMMA AffordableNext ==
    PoolInv /\ PoolInv' /\ ViewType /\ PoolAffordable /\ [Next]_vars => PoolAffordable'
<1> SUFFICES ASSUME PoolInv, PoolInv', ViewType, PoolAffordable, [Next]_vars, phase' = "idle",
                    NEW k \in Keys
             PROVE  Total(Waiting(pool', k, Height')) <= (IF view'[k] = NoNode THEN 0 ELSE view'[k].balance)
  BY DEF PoolAffordable, Withdrawals, Waiting
<1> DEFINE Held(v) == IF v[k] = NoNode THEN 0 ELSE v[k].balance
<1>c. chain \in Seq(ToSet(chain)) /\ Height \in Nat
  BY DEF PoolInv, ChainType, Height
<1>h. Held(view) \in Nat /\ Held(due) \in Nat
  BY DEF ViewType, Views, Account
<1>1. ASSUME NEW t \in Txs, Submit(t) PROVE Total(Waiting(pool', k, Height')) <= Held(view')
  <2> DEFINE W == Waiting(pool, k, Height)
  <2>1. Total(W) \in Nat /\ Total(W) <= Held(view)
    <3>1. Withdrawals(pool, k) <= Held(view)
      BY <1>1 DEF Submit, PoolAffordable
    <3> QED
      BY <3>1, TotalType DEF Withdrawals, Waiting
  <2>2. pool' = AddUnchecked(pool, t) /\ Height' = Height /\ view' = view /\ t \notin pool.mapTx
    BY <1>1 DEF Submit, Height, Acceptable
  <2>3. pool'.mapAccount[k] = pool.mapAccount[k] \cup (IF k \in {From[t], To[t]} THEN {t} ELSE {})
    BY <2>2 DEF AddUnchecked
  <2>4. t \notin W
    BY <2>2 DEF Waiting, PoolInv, IndexExact
  <2>5. CASE From[t] = k /\ IsFinalTx(t, Height)
    <3>1. Waiting(pool', k, Height') = W \cup {t}
      BY <2>2, <2>3, <2>5 DEF Waiting
    <3>2. Total(W \cup {t}) = Total(W) + Value[t]
      BY <2>4, TotalAdd
    <3>3. Value[t] \in Nat \ {0} /\ Value[t] <= Spendable(pool, k)
      BY <1>1, <2>5, TxAssumption DEF Submit, Acceptable
    <3>4. Value[t] <= Held(view) - Total(W)
      <4>1. Withdrawals(pool, k) = Total(W)
        BY DEF Withdrawals, Waiting
      <4> DEFINE u == Unspent(pool, k)
      <4>2. u = IF view[k] = NoNode \/ Total(W) > view[k].balance THEN 0 ELSE view[k].balance - Total(W)
        BY <4>1 DEF Unspent
      <4>3. u \in Nat /\ u <= Held(view) - Total(W)
        BY <1>h, <2>1, <4>2
      <4>4. Spendable(pool, k) = IF u = 0 THEN 0 ELSE Least(u, LimitAfter(view[k], Height, MIN_LIMIT_TIME + 1))
        BY DEF Spendable
      <4> HIDE DEF u
      <4>5. u # 0 => view[k] # NoNode
        BY <4>2
      <4>6. u # 0 => LimitAfter(view[k], Height, MIN_LIMIT_TIME + 1) \in Nat
        <5>1. u # 0 => view[k] \in Account
          BY <4>5 DEF ViewType, Views
        <5> QED
          BY <5>1 DEF LimitAfter, Account
      <4>7. Value[t] <= u
        BY <3>3, <4>3, <4>4, <4>6 DEF Least
      <4> HIDE DEF Held
      <4> QED
        BY <1>h, <2>1, <3>3, <4>3, <4>7
    <3> HIDE DEF W, Held
    <3> QED
      BY <1>h, <2>1, <2>2, <3>1, <3>2, <3>3, <3>4
  <2>6. CASE ~(From[t] = k /\ IsFinalTx(t, Height))
    <3>1. Waiting(pool', k, Height') = W
      BY <2>2, <2>3, <2>6 DEF Waiting
    <3> QED
      BY <2>1, <2>2, <3>1
  <2> QED
    BY <2>5, <2>6
<1>2. CASE Settle
  <2> DEFINE keep == Payable(due, Len(chain), chain, {t \in pool.mapTx : IsFinalTx(t, Len(chain) + HEIGHT_SKEW)})
  <2>1. pool' = RemoveTxs(pool, pool.mapTx \ keep) /\ view' = due /\ Height' = Height
    BY <1>2 DEF Settle, Validate, Height
  <2>2. pool'.mapTx = pool.mapTx \ (pool.mapTx \ keep)
    BY <2>1 DEF RemoveTxs
  <2> HIDE DEF keep
  <2>3. Waiting(pool', k, Height') \subseteq {t \in keep : From[t] = k}
    BY <2>2 DEF Waiting, PoolInv, IndexExact
  <2>4. /\ Total({t \in keep : From[t] = k}) <= Left(due, k, Len(chain))
        /\ Left(due, k, Len(chain)) \in Nat
        /\ Left(due, k, Len(chain)) <= Held(due)
    <3>1. due \in Views /\ Len(chain) \in Nat
      BY <1>c DEF ViewType, Height
    <3>2. Total({t \in keep : From[t] = k}) <= Left(due, k, Len(chain))
      BY <3>1, PayableBounded DEF keep
    <3> QED
      BY <3>1, <3>2, LeftType
  <2>5. Total(Waiting(pool', k, Height')) <= Total({t \in keep : From[t] = k})
    BY <2>3, TotalMonotone
  <2>6. Total(Waiting(pool', k, Height')) \in Nat /\ Total({t \in keep : From[t] = k}) \in Nat
    BY TotalType
  <2> HIDE DEF Held
  <2>7. Total(Waiting(pool', k, Height')) <= Held(due)
    BY <1>h, <2>4, <2>5, <2>6
  <2> QED
    BY <2>1, <2>7 DEF Held
<1>3. CASE Restart
  <2>1. Waiting(pool', k, Height') = {} /\ view' = view
    BY <1>3 DEF Restart, EmptyPool, Waiting
  <2> QED
    BY <1>h, <2>1, TotalEmpty
<1>4. CASE UNCHANGED vars
  <2>1. Waiting(pool', k, Height') = Waiting(pool, k, Height) /\ view' = view /\ phase = "idle"
    BY <1>4 DEF vars, Waiting, Height
  <2> QED
    BY <2>1 DEF PoolAffordable, Withdrawals, Waiting
<1> QED
  BY <1>1, <1>2, <1>3, <1>4 DEF Next, DisconnectTip, Resurrect, UpdateTip, ConnectTip

LEMMA AffordableInit == Init => PoolAffordable
<1> SUFFICES ASSUME Init, NEW k \in Keys
             PROVE  Withdrawals(pool, k) <= (IF view[k] = NoNode THEN 0 ELSE view[k].balance)
  BY DEF PoolAffordable
<1>1. {t \in pool.mapAccount[k] : From[t] = k /\ IsFinalTx(t, Height)} = {}
  BY DEF Init, EmptyPool
<1>2. (IF view[k] = NoNode THEN 0 ELSE view[k].balance) \in Nat
  BY ViewTypeInit DEF ViewType, Views, Account
<1> QED
  BY <1>1, <1>2, TotalEmpty DEF Withdrawals

\* Between the calls of ActivateBestChain the final transactions of the pool take no
\* more from an account than the tip lets it hold: ComplexBalances counts every one
\* when a transaction is accepted, and validate throws out what a reorganisation has
\* left without cover, also the transactions it brought back against the old ledger.
THEOREM PoolAlwaysAffordable == Spec => []PoolAffordable
  BY AffordableInit, AffordableNext, PoolInvAlways, ViewTypeInit, ViewTypeNext, PTL DEF Spec
-----------------------------------------------------------------------------
(* The miner *)

FillRun(queue, f, n) == f = [i \in 0 .. n |-> IF i = 0 THEN <<>> ELSE Take(f[i - 1], queue[i])]

LEMMA FillRunExists ==
    ASSUME NEW queue, NEW N \in Nat
    PROVE  \E f : FillRun(queue, f, N)
<1> DEFINE P == {n \in 0 .. N : \E f : FillRun(queue, f, n)}
<1>1. 0 \in P
  <2> DEFINE f == [i \in 0 .. 0 |-> <<>>]
  <2>1. FillRun(queue, f, 0)
    BY DEF FillRun
  <2> QED
    BY <2>1
<1>2. ASSUME NEW n \in 1 .. N, n - 1 \in P PROVE n \in P
  <2>1. PICK f : FillRun(queue, f, n - 1)
    BY <1>2
  <2> DEFINE g == [i \in 0 .. n |-> IF i = n THEN Take(f[n - 1], queue[n]) ELSE f[i]]
  <2>2. \A i \in 0 .. n : i # 0 => g[i - 1] = f[i - 1]
    OBVIOUS
  <2>3. \A i \in 0 .. n : g[i] = IF i = 0 THEN <<>> ELSE Take(g[i - 1], queue[i])
    BY <2>1, <2>2 DEF FillRun
  <2>4. g = [i \in 0 .. n |-> IF i = 0 THEN <<>> ELSE Take(g[i - 1], queue[i])]
    BY <2>3
  <2>5. FillRun(queue, g, n)
    BY <2>4 DEF FillRun
  <2> QED
    BY <2>5
<1> HIDE DEF P
<1>3. \A i \in 0 .. N : i \in P
  BY <1>1, <1>2, Climb
<1> QED
  BY <1>3 DEF P

\* Take adds the transaction, or leaves the block.
LEMMA TakeGood ==
    ASSUME NEW W, NEW vtx \in Seq(W), NEW t \in W,
           \A i, j \in 1 .. Len(vtx) : vtx[i] = vtx[j] => i = j,
           \A i \in 1 .. Len(vtx) : vtx[i] # t
    PROVE  LET y == Take(vtx, t)
           IN  /\ y \in Seq(W)
               /\ \A i, j \in 1 .. Len(y) : y[i] = y[j] => i = j
               /\ \A i \in 1 .. Len(y) : y[i] = t \/ \E j \in 1 .. Len(vtx) : y[i] = vtx[j]
<1> DEFINE z == Append(vtx, t)
<1>1. /\ z \in Seq(W) /\ Len(z) = Len(vtx) + 1 /\ z[Len(vtx) + 1] = t
      /\ \A i \in 1 .. Len(vtx) : z[i] = vtx[i]
  OBVIOUS
<1>2. Len(vtx) \in Nat
  OBVIOUS
<1>3. \A i \in 1 .. Len(z) : z[i] = t \/ \E j \in 1 .. Len(vtx) : z[i] = vtx[j]
  BY <1>1, <1>2
<1>4. \A i, j \in 1 .. Len(z) : z[i] = z[j] => i = j
  BY <1>1, <1>2
<1>5. Take(vtx, t) = vtx \/ Take(vtx, t) = z
  BY DEF Take
<1> HIDE DEF z
<1> QED
  BY <1>1, <1>3, <1>4, <1>5

\* A block that is filled from a queue without repetitions holds only what was
\* in the queue, and nothing twice.
LEMMA FillGood ==
    ASSUME NEW W, NEW queue \in Seq(W), \A i, j \in 1 .. Len(queue) : queue[i] = queue[j] => i = j
    PROVE  LET y == Fill(queue)
           IN  y \in Seq(W) /\ \A i, j \in 1 .. Len(y) : y[i] = y[j] => i = j
<1> DEFINE N == Len(queue)
           s == CHOOSE f : f = [i \in 0 .. N |-> IF i = 0 THEN <<>> ELSE Take(f[i - 1], queue[i])]
<1>1. N \in Nat /\ \A i \in 1 .. N : queue[i] \in W
  OBVIOUS
<1>2. PICK f : FillRun(queue, f, N)
  BY <1>1, FillRunExists
<1>3. FillRun(queue, s, N)
  BY <1>2, Zenon DEF FillRun
<1>4. Fill(queue) = s[N]
  BY Zenon DEF Fill
<1> HIDE DEF s
<1>5. s[0] = <<>> /\ \A i \in 1 .. N : s[i] = Take(s[i - 1], queue[i])
  BY <1>1, <1>3 DEF FillRun
<1> DEFINE Good(x, i) == /\ x \in Seq(W)
                         /\ \A a, b \in 1 .. Len(x) : x[a] = x[b] => a = b
                         /\ \A a \in 1 .. Len(x) : \E j \in 1 .. i : x[a] = queue[j]
           P == {i \in 0 .. N : Good(s[i], i)}
<1>6. 0 \in P
  <2>1. Good(<<>>, 0)
    OBVIOUS
  <2> HIDE DEF Good
  <2>2. Good(s[0], 0)
    BY <1>5, <2>1
  <2> QED
    BY <1>1, <2>2
<1>7. ASSUME NEW i \in 1 .. N, i - 1 \in P PROVE i \in P
  <2> DEFINE x == s[i - 1]
  <2>1. Good(x, i - 1)
    BY <1>7
  <2>2. \A a \in 1 .. Len(x) : x[a] # queue[i]
    BY <1>1, <2>1
  <2>3. queue[i] \in W /\ s[i] = Take(x, queue[i])
    BY <1>1, <1>5
  <2> HIDE DEF x
  <2> DEFINE y == Take(x, queue[i])
  <2>4. /\ y \in Seq(W)
        /\ \A a, b \in 1 .. Len(y) : y[a] = y[b] => a = b
        /\ \A a \in 1 .. Len(y) : y[a] = queue[i] \/ \E b \in 1 .. Len(x) : y[a] = x[b]
    BY <2>1, <2>2, <2>3, TakeGood
  <2> HIDE DEF y
  <2>5. \A a \in 1 .. Len(y) : \E j \in 1 .. i : y[a] = queue[j]
    BY <1>1, <2>1, <2>4
  <2>6. Good(y, i)
    BY <2>4, <2>5
  <2> QED
    BY <2>3, <2>6 DEF y
<1> HIDE DEF P
<1>8. \A i \in 0 .. N : i \in P
  BY <1>1, <1>6, <1>7, Climb
<1>9. Good(s[N], N)
  BY <1>1, <1>8 DEF P
<1> QED
  BY <1>4, <1>9

\* The orders in which the miner may take what it weighs.
LEMMA QueueGood ==
    ASSUME NEW W \in SUBSET Txs, NEW q \in SetToAllKPermutations(W)
    PROVE  q \in Seq(W) /\ \A i, j \in 1 .. Len(q) : q[i] = q[j] => i = j
<1>1. PICK S \in SUBSET W : q \in SetToSeqs(S)
  BY DEF SetToAllKPermutations
<1>2. S \in SUBSET Txs
  OBVIOUS
<1>3. Cardinality(S) \in Nat
  BY <1>2, SubsetsFinite
<1>4. /\ q \in [1 .. Cardinality(S) -> S]
      /\ \A i, j \in 1 .. Cardinality(S) : i # j => q[i] # q[j]
  BY <1>1 DEF SetToSeqs
<1>5. q \in Seq(W) /\ Len(q) = Cardinality(S)
  BY <1>3, <1>4
<1> QED
  BY <1>4, <1>5
\* What account a holds; nothing if the trie does not have it.
Worth(a) == IF a = NoNode THEN 0 ELSE a.balance

\* A steady account stays steady, and loses or gains what is moved.
LEMMA SpentSteady ==
    ASSUME NEW a \in Account, NEW t \in Txs, t \notin SetsLimit, NEW h \in Nat, Value[t] <= a.balance
    PROVE  /\ Worth(Spent(a, t, h)) + Value[t] = a.balance
           /\ a.limit = a.futurelimit =>
                 Spent(a, t, h) = NoNode \/ Spent(a, t, h).limit = Spent(a, t, h).futurelimit
<1>1. Value[t] \in Nat /\ a.balance \in Nat
  BY TxAssumption DEF Account
<1>2. CASE a.balance = Value[t]
  BY <1>1, <1>2 DEF Spent, Worth
<1>3. CASE a.balance # Value[t]
  <2> DEFINE reached == IF h - a.age > MIN_LIMIT_TIME THEN a.futurelimit ELSE a.limit
             b == [balance |-> a.balance - Value[t], age |-> h, limit |-> reached,
                   futurelimit |-> a.futurelimit]
  <2>1. Spent(a, t, h) = b
    BY <1>3 DEF Spent
  <2>2. b \in Account /\ b # NoNode
    <3>1. Spent(a, t, h) \in Account \cup {NoNode}
      BY SpentType
    <3>2. reached \in Nat /\ a.balance - Value[t] \in Nat /\ a.futurelimit \in Nat
      BY <1>1 DEF Account
    <3>3. b \in Account
      BY <3>2 DEF Account
    <3> QED
      BY <3>3, TxAssumption
  <2>3. b.balance = a.balance - Value[t] /\ b.limit = reached /\ b.futurelimit = a.futurelimit
    OBVIOUS
  <2> QED
    BY <1>1, <2>1, <2>2, <2>3 DEF Worth
<1> QED
  BY <1>2, <1>3

LEMMA DepositedSteady ==
    ASSUME NEW a \in Account \cup {NoNode}, NEW t \in Txs, NEW h \in Nat
    PROVE  LET d == Deposited(a, t, h)
           IN  /\ d # NoNode /\ Worth(d) >= Worth(a) /\ Worth(a) \in Nat /\ Worth(d) \in Nat
               /\ a # NoNode => d.limit = a.limit /\ d.futurelimit = a.futurelimit
               /\ a = NoNode => d.limit = d.futurelimit
<1> DEFINE d == Deposited(a, t, h)
<1>1. Paid[t] \in Nat /\ UINT64_MAX \in Nat
  BY TxAssumption
<1>2. d \in Account /\ d # NoNode
  BY DepositedType, TxAssumption
<1>3. Worth(a) \in Nat /\ Worth(d) = d.balance /\ d.balance \in Nat
  BY <1>2 DEF Worth, Account
<1>4. CASE a = NoNode
  <2>1. d = [balance |-> Paid[t], age |-> h, limit |-> UINT64_MAX, futurelimit |-> UINT64_MAX]
    BY <1>4 DEF Deposited
  <2>2. Worth(a) = 0
    BY <1>4 DEF Worth
  <2>3. d.limit = d.futurelimit
    BY <2>1
  <2> HIDE DEF d
  <2> QED
    BY <1>2, <1>3, <1>4, <2>2, <2>3 DEF d
<1>5. CASE a # NoNode
  <2>1. a \in Account /\ d = [a EXCEPT !.balance = @ + Paid[t]]
    BY <1>5 DEF Deposited
  <2>2. d.balance = a.balance + Paid[t] /\ d.limit = a.limit /\ d.futurelimit = a.futurelimit
    BY <2>1 DEF Account
  <2>3. Worth(a) = a.balance
    BY <1>5 DEF Worth
  <2> HIDE DEF d
  <2> QED
    BY <1>1, <1>2, <1>3, <1>5, <2>2, <2>3 DEF d
<1> QED
  BY <1>4, <1>5
\* What the ledger still knows of account k of the accounts v, after the
\* transactions D of the block took from it: there is enough left for the rest.
Kept(v, x, D, k) ==
    /\ Worth(x.view[k]) + Total(D) >= v[k].balance
    /\ k \in DOMAIN x.limits => x.limits[k] = v[k].limit - Total(D)
    /\ k \notin DOMAIN x.limits => D = {} /\ x.view[k] # NoNode /\ x.view[k].limit = v[k].limit
    /\ v[k].limit = v[k].futurelimit => \/ x.view[k] = NoNode
                                        \/ x.view[k].limit = x.view[k].futurelimit

LEMMA PaymentStep ==
    ASSUME NEW v \in Views, NEW x, Fields(x), x.view \in Views, x.ok = TRUE, x.setLimit = {},
           NEW h \in Nat, NEW t \in Txs, t \notin SetsLimit,
           v[From[t]] # NoNode, v[From[t]].limit = v[From[t]].futurelimit,
           NEW D, \A j \in Keys : v[j] # NoNode => Kept(v, x, D[j], j),
           t \notin D[From[t]],
           Total(D[From[t]] \cup {t}) <= v[From[t]].balance,
           Total(D[From[t]] \cup {t}) <= v[From[t]].limit
    PROVE  LET y == ApplyTx(x, t, h)
           IN  /\ y.ok = TRUE /\ y.setLimit = {}
               /\ \A j \in Keys : v[j] # NoNode =>
                     Kept(v, y, IF j = From[t] THEN D[j] \cup {t} ELSE D[j], j)
<1> DEFINE y == ApplyTx(x, t, h)
           k == From[t]
           a == x.view[k]
           room == IF k \in DOMAIN x.limits THEN x.limits[k] ELSE a.limit
           p == [x.view EXCEPT ![k] = Spent(a, t, h)]
           s == Total(D[k])
<1>1. k \in Keys /\ Value[t] \in Nat /\ Value[t] > 0 /\ (To[t] # NoKey => To[t] \in Keys)
  BY TxAssumption
<1>2. v[k] \in Account /\ v[k].balance \in Nat /\ v[k].limit \in Nat
  BY <1>1 DEF Views, Account
<1>3. s \in Nat /\ s + Value[t] <= v[k].balance /\ s + Value[t] <= v[k].limit
      /\ Total(D[k] \cup {t}) = s + Value[t]
  BY TotalType, TotalAdd
<1>4. Kept(v, x, D[k], k)
  BY <1>1
<1>5. a # NoNode
  <2> SUFFICES ASSUME a = NoNode PROVE FALSE
    OBVIOUS
  <2>1. 0 + s >= v[k].balance
    BY <1>4 DEF Kept, Worth
  <2> HIDE DEF s
  <2> QED
    BY <1>1, <1>2, <1>3, <2>1
<1>6. a \in Account /\ a.balance \in Nat /\ Worth(a) = a.balance
  BY <1>1, <1>5 DEF Views, Account, Worth
<1>7. a.balance >= Value[t]
  <2>1. a.balance + s >= v[k].balance
    BY <1>4, <1>6 DEF Kept
  <2> HIDE DEF s, a
  <2> QED
    BY <1>1, <1>2, <1>3, <1>6, <2>1
<1>8. room = v[k].limit - s
  <2>1. CASE k \in DOMAIN x.limits
    BY <1>4, <2>1 DEF Kept
  <2>2. CASE k \notin DOMAIN x.limits
    <3>1. D[k] = {} /\ a.limit = v[k].limit
      BY <1>4, <2>2 DEF Kept
    <3> QED
      BY <1>2, <2>2, <3>1, TotalEmpty
  <2> QED
    BY <2>1, <2>2
<1>9. room >= Value[t]
  <2> HIDE DEF room, s
  <2> QED
    BY <1>1, <1>2, <1>3, <1>8
<1>10. a.limit = a.futurelimit
  BY <1>4, <1>5 DEF Kept
<1>11. ~Refused(x, t, h)
  <2>1. room \in Int
    <3> HIDE DEF room, s
    <3> QED
      BY <1>2, <1>3, <1>8
  <2>2. ~(Value[t] > room) /\ ~(Value[t] > a.balance)
    <3> HIDE DEF room, a
    <3> QED
      BY <1>1, <1>6, <1>7, <1>9, <2>1
  <2> QED
    BY <1>5, <1>10, <2>2 DEF Refused
<1>12. /\ y.ok = TRUE /\ y.setLimit = {}
       /\ DOMAIN y.limits = DOMAIN x.limits \cup {k}
       /\ y.limits[k] = room - Value[t]
       /\ \A j \in DOMAIN x.limits : j # k => y.limits[j] = x.limits[j]
       /\ p \in Views
       /\ y.view = IF To[t] = NoKey THEN p
                   ELSE [p EXCEPT ![To[t]] = Deposited(p[To[t]], t, h)]
  <2>1. y = [ok |-> TRUE,
             view |-> IF To[t] = NoKey THEN p ELSE [p EXCEPT ![To[t]] = Deposited(p[To[t]], t, h)],
             limits |-> [j \in DOMAIN x.limits \cup {k} |->
                           IF j = k THEN room - Value[t] ELSE x.limits[j]],
             setLimit |-> x.setLimit \cup {},
             setTxIn |-> x.setTxIn \cup {k}]
    BY <1>11 DEF ApplyTx
  <2>2. p \in Views
    <3>1. Spent(a, t, h) \in Account \cup {NoNode}
      BY <1>6, <1>7, <1>1, SpentType
    <3> QED
      BY <1>1, <3>1 DEF Views
  <2> HIDE DEF y, p, a, room
  <2> QED
    BY <2>1, <2>2
<1>13. Worth(p[k]) + Value[t] = a.balance /\ (p[k] = NoNode \/ p[k].limit = p[k].futurelimit)
  <2>1. p[k] = Spent(a, t, h)
    BY <1>1 DEF Views
  <2> QED
    BY <1>1, <1>6, <1>7, <1>10, <2>1, SpentSteady
<1>14. ASSUME NEW j \in Keys
       PROVE  \/ y.view[j] = p[j]
              \/ y.view[j] = Deposited(p[j], t, h)
  <2>1. p \in Views /\ y.view = IF To[t] = NoKey THEN p
                   ELSE [p EXCEPT ![To[t]] = Deposited(p[To[t]], t, h)]
    BY <1>12
  <2> HIDE DEF p, y
  <2> QED
    BY <1>1, <1>14, <2>1 DEF Views
<1>15. ASSUME NEW j \in Keys
       PROVE  /\ Worth(y.view[j]) >= Worth(p[j]) /\ Worth(p[j]) \in Nat /\ Worth(y.view[j]) \in Nat
              /\ p[j] # NoNode => y.view[j] # NoNode /\ y.view[j].limit = p[j].limit
              /\ (p[j] = NoNode \/ p[j].limit = p[j].futurelimit) =>
                    (y.view[j] = NoNode \/ y.view[j].limit = y.view[j].futurelimit)
  <2> DEFINE b == p[j]
  <2>1. b \in Account \cup {NoNode}
    BY <1>12, <1>15 DEF Views
  <2> HIDE DEF b, p, y
  <2>2. Worth(b) \in Nat
    BY <2>1 DEF Worth, Account
  <2>3. y.view[j] = b \/ y.view[j] = Deposited(b, t, h)
    BY <1>14, <1>15 DEF b
  <2>4. LET d == Deposited(b, t, h)
        IN  /\ d # NoNode /\ Worth(d) >= Worth(b) /\ Worth(b) \in Nat /\ Worth(d) \in Nat
            /\ b # NoNode => d.limit = b.limit /\ d.futurelimit = b.futurelimit
            /\ b = NoNode => d.limit = d.futurelimit
    BY <2>1, DepositedSteady
  <2> QED
    BY <2>2, <2>3, <2>4 DEF b
<1>16. Kept(v, y, D[k] \cup {t}, k)
  <2>1. Worth(y.view[k]) + (s + Value[t]) >= v[k].balance
    <3>1. a.balance + s >= v[k].balance
      BY <1>4, <1>6 DEF Kept
    <3>2. Worth(y.view[k]) >= Worth(p[k]) /\ Worth(p[k]) \in Nat /\ Worth(y.view[k]) \in Nat
      BY <1>1, <1>15
    <3> HIDE DEF s, a, p, y
    <3> QED
      BY <1>1, <1>2, <1>3, <1>6, <1>13, <3>1, <3>2
  <2>2. k \in DOMAIN y.limits /\ y.limits[k] = v[k].limit - (s + Value[t])
    <3> HIDE DEF s, room, y
    <3> QED
      BY <1>1, <1>2, <1>3, <1>8, <1>12
  <2>3. y.view[k] = NoNode \/ y.view[k].limit = y.view[k].futurelimit
    BY <1>1, <1>13, <1>15
  <2> HIDE DEF s, y
  <2> QED
    BY <1>3, <2>1, <2>2, <2>3 DEF Kept
<1>17. ASSUME NEW j \in Keys, v[j] # NoNode, j # k PROVE Kept(v, y, D[j], j)
  <2>1. Kept(v, x, D[j], j)
    BY <1>17
  <2>2. p[j] = x.view[j]
    BY <1>17 DEF Views
  <2>3. /\ Worth(y.view[j]) >= Worth(p[j]) /\ Worth(p[j]) \in Nat /\ Worth(y.view[j]) \in Nat
        /\ p[j] # NoNode => y.view[j] # NoNode /\ y.view[j].limit = p[j].limit
        /\ (p[j] = NoNode \/ p[j].limit = p[j].futurelimit) =>
              (y.view[j] = NoNode \/ y.view[j].limit = y.view[j].futurelimit)
    BY <1>15, <1>17
  <2>4. Total(D[j]) \in Nat /\ v[j].balance \in Nat
    BY <1>17, TotalType DEF Views, Account
  <2>5. j \in DOMAIN y.limits <=> j \in DOMAIN x.limits
    BY <1>12, <1>17
  <2>6. j \in DOMAIN x.limits => y.limits[j] = x.limits[j]
    BY <1>12, <1>17
  <2> HIDE DEF p, y
  <2>7. Worth(y.view[j]) + Total(D[j]) >= v[j].balance
    <3>1. Worth(x.view[j]) + Total(D[j]) >= v[j].balance
      BY <2>1 DEF Kept
    <3> QED
      BY <2>2, <2>3, <2>4, <3>1
  <2> QED
    BY <2>1, <2>2, <2>3, <2>5, <2>6, <2>7 DEF Kept
<1> HIDE DEF y
<1> QED
  BY <1>12, <1>16, <1>17 DEF y
\* The ledger accepts any block of payments of steady accounts, in any order, if
\* the payments of an account are among transactions W that its balance and its
\* limit can pay together.
LEMMA BlockAccepted ==
    ASSUME NEW v \in Views, NEW h \in Nat, NEW W \in SUBSET Txs,
           \A t \in W : v[From[t]] # NoNode,
           \A k \in Keys : Total({t \in W : From[t] = k}) <= Left(v, k, h),
           NEW vtx \in Seq(W), \A i, j \in 1 .. Len(vtx) : vtx[i] = vtx[j] => i = j,
           \A i \in 1 .. Len(vtx) : /\ vtx[i] \notin SetsLimit
                                    /\ v[From[vtx[i]]].limit = v[From[vtx[i]]].futurelimit
    PROVE  TempApply(v, vtx, h).ok
<1> DEFINE N == Len(vtx)
           Passed(i, k) == {vtx[j] : j \in {m \in 1 .. i : From[vtx[m]] = k}}
           Good(x, i) == /\ Fields(x) /\ x.view \in Views /\ x.ok = TRUE /\ x.setLimit = {}
                         /\ \A k \in Keys : v[k] # NoNode => Kept(v, x, Passed(i, k), k)
<1>1. N \in Nat /\ \A i \in 1 .. N : vtx[i] \in W
  OBVIOUS
<1>2. PICK f : /\ f[0] = ApplyBase(v) /\ TempApply(v, vtx, h) = f[N]
               /\ \A i \in 1 .. N : f[i] = ApplyTx(f[i - 1], vtx[i], h)
  BY <1>1, TempApplyRun
<1> DEFINE P == {i \in 0 .. N : Good(f[i], i)}
<1>3. Good(f[0], 0)
  <2> DEFINE x == f[0]
  <2>1. x = [ok |-> TRUE, view |-> v, limits |-> <<>>, setLimit |-> {}, setTxIn |-> {}]
    BY <1>2 DEF ApplyBase
  <2>2. Fields(x) /\ x.view = v /\ x.ok = TRUE /\ x.setLimit = {} /\ DOMAIN x.limits = {}
    BY <2>1 DEF Fields
  <2> HIDE DEF x
  <2>3. ASSUME NEW k \in Keys, v[k] # NoNode PROVE Kept(v, x, Passed(0, k), k)
    <3>1. Passed(0, k) = {}
      OBVIOUS
    <3>2. v[k] \in Account /\ v[k].balance \in Nat
      BY <2>3 DEF Views, Account
    <3> HIDE DEF Passed
    <3>3. Worth(x.view[k]) + Total(Passed(0, k)) >= v[k].balance
      <4>1. Worth(x.view[k]) = v[k].balance
        BY <2>2, <2>3 DEF Worth
      <4>2. Total(Passed(0, k)) = 0
        BY <3>1, TotalEmpty
      <4> QED
        BY <3>2, <4>1, <4>2
    <3>4. k \notin DOMAIN x.limits /\ x.view[k] = v[k]
      BY <2>2
    <3> QED
      BY <2>3, <3>1, <3>3, <3>4 DEF Kept
  <2> HIDE DEF Passed
  <2> QED
    BY <2>2, <2>3 DEF x
<1>4. ASSUME NEW i \in 1 .. N, Good(f[i - 1], i - 1) PROVE Good(f[i], i)
  <2> DEFINE x == f[i - 1]
             t == vtx[i]
             y == ApplyTx(x, t, h)
             k == From[t]
             D == [j \in Keys |-> Passed(i - 1, j)]
  <2>1. f[i] = y
    BY <1>2
  <2>2. t \in Txs /\ t \in W /\ t \notin SetsLimit /\ v[k] # NoNode /\ v[k].limit = v[k].futurelimit
    BY <1>1
  <2>3. k \in Keys /\ Value[t] \in Nat
    BY <2>2, TxAssumption
  <2>4. Fields(y) /\ y.view \in Views
    BY <1>4, <2>2, ApplyType
  <2>5. t \notin D[k]
    BY <1>1, <2>3
  <2>6. \A j \in Keys : Passed(i, j) = IF j = k THEN D[j] \cup {t} ELSE D[j]
    BY <1>1
  <2>7. D[k] \cup {t} \subseteq {u \in W : From[u] = k}
    BY <1>1, <2>2, <2>3
  <2>8. Total(D[k] \cup {t}) <= v[k].balance /\ Total(D[k] \cup {t}) <= v[k].limit
    <3>1. Total(D[k] \cup {t}) <= Total({u \in W : From[u] = k})
      BY <2>7, TotalMonotone
    <3>2. Total({u \in W : From[u] = k}) <= Left(v, k, h)
      BY <2>3
    <3>3. /\ Left(v, k, h) \in Nat /\ Left(v, k, h) <= v[k].balance
          /\ Left(v, k, h) <= LimitAfter(v[k], h, MIN_LIMIT_TIME)
      BY <2>2, <2>3, LeftType
    <3>4. LimitAfter(v[k], h, MIN_LIMIT_TIME) = v[k].limit
      BY <2>2 DEF LimitAfter
    <3>5. Total(D[k] \cup {t}) \in Nat /\ Total({u \in W : From[u] = k}) \in Nat
      BY TotalType
    <3>6. v[k].balance \in Nat /\ v[k].limit \in Nat
      BY <2>2, <2>3 DEF Views, Account
    <3> HIDE DEF D, t, k
    <3> QED
      BY <3>1, <3>2, <3>3, <3>4, <3>5, <3>6
  <2>9. /\ Fields(x) /\ x.view \in Views /\ x.ok = TRUE /\ x.setLimit = {}
        /\ \A j \in Keys : v[j] # NoNode => Kept(v, x, D[j], j)
    BY <1>4
  <2>10. /\ y.ok = TRUE /\ y.setLimit = {}
         /\ \A j \in Keys : v[j] # NoNode => Kept(v, y, IF j = k THEN D[j] \cup {t} ELSE D[j], j)
    <3> HIDE DEF D, x, t
    <3> QED
      BY <2>2, <2>5, <2>8, <2>9, PaymentStep
  <2> HIDE DEF D, Passed, y
  <2>11. \A j \in Keys : v[j] # NoNode => Kept(v, y, Passed(i, j), j)
    BY <2>6, <2>10
  <2> QED
    BY <2>1, <2>4, <2>10, <2>11
<1> HIDE DEF Good
<1>5. 0 \in P /\ \A i \in 1 .. N : i - 1 \in P => i \in P
  BY <1>1, <1>3, <1>4
<1> HIDE DEF P
<1>6. \A i \in 0 .. N : i \in P
  BY <1>1, <1>5, Climb
<1>7. Good(f[N], N)
  BY <1>1, <1>6 DEF P
<1> QED
  BY <1>2, <1>7 DEF Good

LEMMA TemplateInv == PoolInv /\ ViewType => TemplateAccepted
<1> SUFFICES ASSUME PoolInv, ViewType, NEW vtx \in Templates,
                    \A i \in DOMAIN vtx : Steady(vtx[i])
             PROVE  TempApply(view, vtx, Height + 1).ok
  BY DEF TemplateAccepted
<1> DEFINE h == Height + 1
           ts == {t \in pool.mapTx \ Confirmed(chain) : IsFinalTx(t, h)}
<1>1. h \in Nat /\ view \in Views
  BY DEF PoolInv, ChainType, Height, ViewType
<1>2. Weighed = Payable(view, h, chain, ts)
  BY DEF Weighed
<1> HIDE DEF h, ts
<1>3. /\ Weighed \in SUBSET Txs
      /\ \A t \in Weighed : view[From[t]] # NoNode
      /\ \A k \in Keys : Total({t \in Weighed : From[t] = k}) <= Left(view, k, h)
  BY <1>1, <1>2, PayableBounded
<1>4. PICK q \in SetToAllKPermutations(Weighed) : vtx = Fill(q)
  BY DEF Templates
<1>5. q \in Seq(Weighed) /\ \A i, j \in 1 .. Len(q) : q[i] = q[j] => i = j
  BY <1>3, QueueGood
<1>6. vtx \in Seq(Weighed) /\ \A i, j \in 1 .. Len(vtx) : vtx[i] = vtx[j] => i = j
  BY <1>4, <1>5, FillGood
<1>7. \A i \in 1 .. Len(vtx) : /\ vtx[i] \notin SetsLimit
                               /\ view[From[vtx[i]]].limit = view[From[vtx[i]]].futurelimit
  BY <1>6 DEF Steady
<1>8. TempApply(view, vtx, h).ok
  BY <1>1, <1>3, <1>6, <1>7, BlockAccepted
<1> QED
  BY <1>8 DEF h

\* Whatever the pool holds after any history of submissions, reorganisations and
\* restarts, and whatever order the miner's priorities give, TempApply accepts
\* the block CreateNewBlock builds from payments of accounts whose limit is not
\* about to change.
THEOREM TemplateAlwaysAccepted == Spec => []TemplateAccepted
  BY PoolInvAlways, ViewTypeInit, ViewTypeNext, TemplateInv, PTL DEF Spec
=============================================================================
