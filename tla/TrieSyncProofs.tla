-------------------------- MODULE TrieSyncProofs --------------------------
(***************************************************************************)
(* Theorems about TrieSync for keys of every width, every set of peers,    *)
(* honest or not, and every order of requests, answers and failures.       *)
(***************************************************************************)
EXTENDS TrieSync, Induction, FiniteSetTheorems, TLAPS

-----------------------------------------------------------------------------
(* Numbers *)

\* A power of two is the number of subsets of a set with that many elements.
LEMMA PowerOfTwo ==
    ASSUME NEW n \in Nat
    PROVE  /\ 2^n \in Nat \ {0}
           /\ 2^(n + 1) = 2 * 2^n
<1> DEFINE S == 1 .. n
           P == SUBSET S
           Q == {A \cup {n + 1} : A \in P}
           f == [A \in P |-> A \cup {n + 1}]
<1>1. /\ IsFiniteSet(S) /\ Cardinality(S) = n
      /\ IsFiniteSet(1 .. (n + 1)) /\ Cardinality(1 .. (n + 1)) = n + 1
  BY FS_Interval
<1>2. /\ IsFiniteSet(P) /\ Cardinality(P) = 2^n
      /\ Cardinality(SUBSET (1 .. (n + 1))) = 2^(n + 1)
  BY <1>1, FS_SUBSET
<1>3. Cardinality(P) \in Nat /\ Cardinality(P) # 0
  <2>1. {} \in P
    OBVIOUS
  <2> HIDE DEF P
  <2> QED
    BY <1>2, <2>1, FS_CardinalityType, FS_EmptySet
<1>4. f \in Bijection(P, Q)
  <2>1. f \in [P -> Q] /\ \A B \in Q : \E A \in P : f[A] = B
    OBVIOUS
  <2>2. ASSUME NEW A \in P, NEW B \in P, f[A] = f[B] PROVE A = B
    <3>1. n + 1 \notin A /\ n + 1 \notin B /\ A \cup {n + 1} = B \cup {n + 1}
      BY <2>2
    <3> QED
      BY <3>1
  <2> HIDE DEF f, P, Q
  <2> QED
    BY <2>1, <2>2 DEF Bijection, Injection, Surjection, IsInjective
<1>5. IsFiniteSet(Q) /\ Cardinality(Q) = Cardinality(P)
  <2>1. ExistsBijection(P, Q)
    BY <1>4 DEF ExistsBijection
  <2> HIDE DEF P, Q
  <2> QED
    BY <1>2, <2>1, FS_Bijection
<1>6. P \cap Q = {}
  OBVIOUS
<1>7. SUBSET (1 .. (n + 1)) = P \cup Q
  <2>1. ASSUME NEW B \in SUBSET (1 .. (n + 1)) PROVE B \in P \cup Q
    <3>1. CASE n + 1 \in B
      <4>1. B \ {n + 1} \in P /\ B = (B \ {n + 1}) \cup {n + 1}
        BY <3>1
      <4> QED
        BY <4>1
    <3>2. CASE n + 1 \notin B
      BY <3>2
    <3> QED
      BY <3>1, <3>2
  <2>2. ASSUME NEW B \in P \cup Q PROVE B \in SUBSET (1 .. (n + 1))
    OBVIOUS
  <2> QED
    BY <2>1, <2>2
<1>8. Cardinality(P \cup Q) = Cardinality(P) + Cardinality(Q)
  <2> HIDE DEF P, Q
  <2> QED
    <3>1. Cardinality(P \cap Q) = 0
      BY <1>6, FS_EmptySet
    <3>2. Cardinality(P \cup Q) = Cardinality(P) + Cardinality(Q) - Cardinality(P \cap Q)
      BY <1>2, <1>5, FS_Union
    <3> QED
      BY <1>3, <1>5, <3>1, <3>2
<1> QED
  <2> DEFINE a == 2^n
             b == 2^(n + 1)
             m == Cardinality(P)
  <2>1. m \in Nat /\ m # 0 /\ a = m /\ b = m + m
    <3>1. Cardinality(SUBSET (1 .. (n + 1))) = Cardinality(P) + Cardinality(P)
      BY <1>5, <1>7, <1>8
    <3> QED
      BY <1>2, <1>3, <3>1, Zenon
  <2> SUFFICES a \in Nat \ {0} /\ b = 2 * a
    OBVIOUS
  <2> HIDE DEF a, b, m
  <2> QED
    BY <2>1

LEMMA MinExists ==
    ASSUME NEW S \in SUBSET Nat, S # {}
    PROVE  Min(S) \in S /\ \A y \in S : Min(S) <= y
<1>1. PICK x \in S : \A y \in S : ~(<<y, x>> \in OpToRel(<, Nat))
  BY NatLessThanWellFounded, WFMin
<1>2. \A y \in S : ~(y < x)
  BY <1>1, Zenon DEF OpToRel
<1>3. \A y \in S : x <= y
  BY <1>2
<1> QED
  BY <1>3 DEF Min

LEMMA MaxExists ==
    ASSUME NEW n \in Nat, NEW S \in SUBSET (0 .. n), S # {}
    PROVE  Max(S) \in S /\ \A y \in S : Max(S) >= y
<1> DEFINE T == {n - y : y \in S}
<1>1. T \in SUBSET Nat /\ T # {}
  <2>1. \A y \in S : n - y \in Nat
    OBVIOUS
  <2> QED
    BY <2>1
<1>2. Min(T) \in T /\ \A z \in T : Min(T) <= z
  <2> HIDE DEF T
  <2> QED
    BY <1>1, MinExists
<1>3. PICK x \in S : Min(T) = n - x
  BY <1>2
<1>4. \A y \in S : x >= y
  <2> SUFFICES ASSUME NEW y \in S PROVE x >= y
    OBVIOUS
  <2>1. n - x <= n - y
    BY <1>2, <1>3
  <2> QED
    BY <2>1
<1> QED
  BY <1>4 DEF Max

LEMMA Sizes ==
    /\ Width \in Nat /\ Width >= 2
    /\ MIN_HISTORY \in Nat /\ FirstTip \in Nat /\ MaxTip \in Nat /\ MaxTime \in Nat
    /\ MIN_HISTORY <= FirstTip /\ FirstTip <= MaxTip
    /\ MaxKey \in Nat /\ MaxKey >= 3 /\ MaxKey + 1 = 2^Width
<1>1. /\ Width \in Nat /\ Width >= 2
      /\ MIN_HISTORY \in Nat /\ FirstTip \in Nat /\ MaxTip \in Nat /\ MaxTime \in Nat
      /\ MIN_HISTORY <= FirstTip /\ FirstTip <= MaxTip
  BY SizesAssumption
<1>2. PICK m \in Nat : 2^Width = 4 * m /\ m # 0
  <2> DEFINE k == Width - 2
  <2>1. k \in Nat /\ k + 1 \in Nat /\ (k + 1) + 1 = Width
    BY <1>1
  <2>2. 2^k \in Nat \ {0} /\ 2^(k + 1) = 2 * 2^k /\ 2^((k + 1) + 1) = 2 * 2^(k + 1)
    <3> HIDE DEF k
    <3> QED
      BY <2>1, PowerOfTwo
  <2> DEFINE a == 2^k
             b == 2^(k + 1)
             c == 2^Width
  <2>3. a \in Nat \ {0} /\ b = 2 * a /\ c = 2 * b
    BY <2>1, <2>2
  <2> HIDE DEF a, b, c, k
  <2>4. c = 4 * a
    BY <2>3
  <2> QED
    BY <2>3, <2>4 DEF c
<1>3. MaxKey = 4 * m - 1
  BY <1>2 DEF MaxKey
<1> QED
  BY <1>1, <1>2, <1>3

-----------------------------------------------------------------------------
(* Where the next slice is cut out *)

\* Lowest: the first key that is not covered.
LEMMA LowestUncovered ==
    ASSUME NEW C \in SUBSET Keys, C # Keys
    PROVE  /\ Lowest(C) \in Keys \ C
           /\ \A k \in Keys : k < Lowest(C) => k \in C
           /\ Lowest(C) = 0 <=> 0 \notin C
<1> DEFINE K == Keys \ C
           m == Min(K)
<1>1. MaxKey \in Nat /\ 0 \in Keys
  BY Sizes DEF Keys
<1>2. K \in SUBSET (0 .. MaxKey) /\ K # {}
  BY DEF Keys
<1>3. m \in K /\ \A y \in K : m <= y
  <2> HIDE DEF K
  <2> QED
    BY <1>1, <1>2, MinExists
<1>4. Lowest(C) = m
  BY DEF Lowest
<1>5. \A k \in Keys : k \in Nat
  BY <1>1 DEF Keys
<1>6. \A k \in Keys : k < m => k \in C
  BY <1>3, <1>5
<1>7. m = 0 <=> 0 \notin C
  BY <1>1, <1>3, <1>5
<1> HIDE DEF m
<1> QED
  BY <1>3, <1>4, <1>6, <1>7

\* Halved: the interval is not empty, and it ends at r or well before.
LEMMA HalvedBetween ==
    ASSUME NEW l \in Keys, NEW r \in Keys, l < r, log2size \in 0 .. Width - 2
    PROVE  LET h == Halved(l, r)
           IN  h \in Int /\ l < h /\ (h = r \/ h <= r - 2)
<1> DEFINE d == r - l
           lim == 2^(Width - 1 - log2size)
           fits == {j \in 0 .. Width : d \div 2^j <= lim}
           j == Min(fits)
<1>1. l \in Nat /\ r \in Nat /\ d \in Nat /\ d >= 1 /\ d <= MaxKey /\ r = l + d
  BY Sizes DEF Keys
<1>2. lim \in Nat /\ lim >= 2
  <2> DEFINE n == Width - 2 - log2size
  <2>1. n \in Nat /\ n + 1 = Width - 1 - log2size
    BY Sizes
  <2>2. 2^n \in Nat \ {0} /\ 2^(n + 1) = 2 * 2^n
    <3> HIDE DEF n
    <3> QED
      BY <2>1, PowerOfTwo
  <2> DEFINE a == 2^n
  <2>3. a \in Nat \ {0} /\ lim = 2 * a
    BY <2>1, <2>2
  <2> HIDE DEF a, lim
  <2> QED
    BY <2>3
<1>3. Halved(l, r) = l + d \div 2^j
  BY DEF Halved
<1>4. fits \in SUBSET Nat /\ Width \in fits
  <2>1. d \div 2^Width = 0
    <3> DEFINE w == 2^Width
    <3>1. w \in Nat \ {0} /\ d < w
      BY <1>1, Sizes, PowerOfTwo
    <3> HIDE DEF d, w
    <3>2. d \div w = 0
      BY <1>1, <3>1
    <3> QED
      BY <3>2 DEF w
  <2> HIDE DEF d, lim
  <2> QED
    BY <1>2, <2>1, Sizes
<1>5. j \in fits /\ \A i \in fits : j <= i
  <2> HIDE DEF fits
  <2> QED
    BY <1>4, MinExists
<1> HIDE DEF d
<1>6. CASE j = 0
  <2>1. d \div 2^0 = d
    BY <1>1
  <2> HIDE DEF j
  <2>2. d \div 2^j = d
    BY <1>6, <2>1, Zenon
  <2>3. Halved(l, r) = l + d
    BY <1>3, <2>2, Zenon
  <2> QED
    BY <1>1, <2>3
<1>7. CASE j # 0
  <2> DEFINE i == j - 1
             a == 2^i
             b == 2^j
  <2>1. i \in Nat /\ i \in 0 .. Width /\ i + 1 = j /\ ~(j <= i)
    BY <1>4, <1>5, <1>7, Sizes
  <2>2. i \notin fits
    BY <1>5, <2>1
  <2>3. ~(d \div a <= lim)
    BY <2>1, <2>2
  <2>4. a \in Nat \ {0} /\ b = 2 * a
    <3> HIDE DEF i
    <3> QED
      BY <2>1, PowerOfTwo
  <2>5. d \div b <= lim /\ Halved(l, r) = l + d \div b
    BY <1>3, <1>5
  <2> HIDE DEF a, b, lim, i, j
  <2>6. d \div a \in Nat /\ d \div a >= 3 /\ d >= a * (d \div a)
    BY <1>1, <1>2, <2>3, <2>4
  <2>7. d >= 3 * a
    BY <1>1, <2>4, <2>6
  <2>8. /\ d \div b \in Nat /\ d >= b * (d \div b)
        /\ d \div b >= 1
    BY <1>1, <2>4, <2>7
  <2>9. b >= 2 /\ d >= 2 * (d \div b)
    BY <1>1, <2>4, <2>8
  <2>10. d >= 3
    BY <1>1, <2>4, <2>7
  <2>11. d - (d \div b) >= 2
    BY <1>1, <2>8, <2>9, <2>10
  <2> QED
    BY <1>1, <2>5, <2>8, <2>11
<1> QED
  BY <1>6, <1>7

-----------------------------------------------------------------------------
(* The inductive invariant.  A key next to a border that is too short for a *)
(* slice of its own never remains because no slice starts at the second key *)
(* and none ends at the last but one.                                       *)

Cut(s) == s.left < s.right /\ s.left # 1 /\ s.right # MaxKey - 1
WellCut == \A s \in slices \cup slicesRequested : Cut(s)

SyncInv == TypeOK /\ RequestsOwned /\ WellCut

Covered == KeysOf(slices \cup slicesRequested)

\* There is room for a slice in front of the first run of covered keys or
\* behind it.
LEMMA RoomLeft ==
    ASSUME TypeOK, WellCut, Covered # Keys
    PROVE  LET l == Lowest(Covered)
               r == Rightmost(Covered)
           IN  /\ l \in Keys \ Covered /\ r \in Keys /\ l < r
               /\ l # 1 /\ (r = MaxKey \/ r <= MaxKey - 2)
<1> DEFINE C == Covered
           all == slices \cup slicesRequested
           l == Lowest(C)
           r == Rightmost(C)
<1>1. \A s \in all : s.left \in Keys /\ s.right \in Keys /\ Cut(s)
  BY DEF TypeOK, CSlice, WellCut
<1>2. \A k : k \in C <=> \E s \in all : k \in s.left .. s.right
  BY DEF Covered, KeysOf
<1>3. MaxKey \in Nat /\ MaxKey >= 3 /\ Keys = 0 .. MaxKey
  BY Sizes DEF Keys
<1>4. C \in SUBSET Keys
  <2> HIDE DEF C, all
  <2> QED
    BY <1>1, <1>2, <1>3
<1>5. /\ l \in Keys \ C
      /\ \A k \in Keys : k < l => k \in C
      /\ l = 0 <=> 0 \notin C
  BY <1>4, LowestUncovered
<1> HIDE DEF C, all, l
<1>6. l # 1
  <2> SUFFICES ASSUME l = 1 PROVE FALSE
    OBVIOUS
  <2>1. 0 \in C
    BY <1>5
  <2>2. PICK s \in all : 0 \in s.left .. s.right
    BY <1>2, <2>1
  <2>3. 1 \in s.left .. s.right
    BY <1>1, <1>3, <2>2 DEF Cut
  <2> QED
    BY <1>2, <1>5, <2>3
<1>7. CASE C = {} \/ 0 \in C
  <2>1. r = MaxKey
    BY <1>7 DEF Rightmost
  <2>2. l # MaxKey
    <3> SUFFICES ASSUME l = MaxKey PROVE FALSE
      OBVIOUS
    <3>1. MaxKey - 1 \in C
      BY <1>3, <1>5
    <3>2. PICK s \in all : MaxKey - 1 \in s.left .. s.right
      BY <1>2, <3>1
    <3>3. MaxKey \in s.left .. s.right
      BY <1>1, <1>3, <3>2 DEF Cut
    <3> QED
      BY <1>2, <1>5, <3>3
  <2> QED
    BY <1>3, <1>5, <1>6, <2>1, <2>2 DEF C, l
<1>8. CASE C # {} /\ 0 \notin C
  <2>1. PICK m \in C : r = m - 1 /\ \A y \in C : m <= y
    <3>1. C \in SUBSET Nat
      BY <1>3, <1>4
    <3> QED
      BY <1>8, <3>1, MinExists DEF Rightmost
  <2>2. m \in Keys /\ m \in Int
    BY <1>3, <1>4
  <2>3. PICK s \in all : m \in s.left .. s.right
    BY <1>2, <2>1
  <2>4. s.left \in Int /\ s.right \in Int /\ s.left \in C /\ s.left <= m
    <3>1. s.left \in s.left .. s.right
      BY <1>1, <1>3, <2>3 DEF Cut
    <3> QED
      BY <1>1, <1>2, <1>3, <2>3, <3>1
  <2>5. s.left = m
    <3>1. m <= s.left
      BY <2>1, <2>4
    <3> QED
      BY <2>2, <2>4, <3>1
  <2>6. m \in Keys /\ m # 0 /\ m # 1 /\ m <= MaxKey - 1
    <3>1. Cut(s) /\ s.right \in Keys
      BY <1>1
    <3> QED
      BY <1>3, <1>8, <2>2, <2>5, <3>1 DEF Cut
  <2>7. l = 0
    BY <1>5, <1>8
  <2> HIDE DEF r
  <2>8. r \in Keys /\ l < r /\ r <= MaxKey - 2
    BY <1>3, <2>1, <2>6, <2>7
  <2> QED
    BY <1>5, <1>6, <2>8 DEF C, l, r
<1> QED
  BY <1>7, <1>8

\* What GetSlice offers, and that it offers something.
LEMMA WantedCut ==
    ASSUME TypeOK, WellCut
    PROVE  /\ \A s \in Wanted : s \in CSlice /\ Cut(s) /\ s.left \notin Covered
           /\ Covered # Keys => Wanted # {}
<1>1. CASE Covered = Keys
  BY <1>1 DEF Wanted, Covered
<1>2. CASE Covered # Keys
  <2> DEFINE l == Lowest(Covered)
             R == Rightmost(Covered)
             h == Halved(l, R)
             s == [at |-> tip - MIN_HISTORY, left |-> l, right |-> h]
  <2>1. /\ l \in Keys \ Covered /\ R \in Keys /\ l < R
        /\ l # 1 /\ (R = MaxKey \/ R <= MaxKey - 2)
    BY <1>2, RoomLeft
  <2>2. tip \in Nat /\ tip >= MIN_HISTORY /\ tip - MIN_HISTORY \in 0 .. MaxTip
    BY Sizes DEF TypeOK
  <2>3. h \in Int /\ l < h /\ (h = R \/ h <= R - 2)
    <3> HIDE DEF l, R
    <3> QED
      BY <2>1, HalvedBetween DEF TypeOK
  <2>4. Wanted = {s}
    <3>1. ~(h <= l)
      BY <2>1, <2>3, Sizes DEF Keys
    <3>2. ~(tip < MIN_HISTORY)
      BY <2>2, Sizes
    <3> QED
      BY <1>2, <3>1, <3>2 DEF Wanted, Covered
  <2> HIDE DEF l, R, h
  <2>5. h \in Keys /\ h # MaxKey - 1
    BY <2>1, <2>3, Sizes DEF Keys
  <2>6. s \in CSlice /\ s.left = l /\ s.right = h
    BY <2>1, <2>2, <2>5 DEF CSlice
  <2>7. Cut(s) /\ s.left \notin Covered
    BY <2>1, <2>3, <2>5, <2>6 DEF Cut
  <2> HIDE DEF s
  <2> QED
    BY <2>4, <2>6, <2>7
<1> QED
  BY <1>1, <1>2

\* ReadyToBuild: the walk from left to right misses no key.
LEMMA ReachedCovers ==
    ASSUME NEW ss \in SUBSET CSlice, \A s \in ss : Cut(s), Reached(ss) = MaxKey
    PROVE  KeysOf(ss) = Keys
<1> DEFINE C == KeysOf(ss)
           ends == {0} \cup {s.right : s \in ss}
           stops == {r \in ends : ~\E s \in ss : s.left <= r + 1 /\ s.right > r}
<1>1. \A s \in ss : s.left \in Keys /\ s.right \in Keys
  BY DEF CSlice
<1>2. MaxKey \in Nat /\ MaxKey >= 3 /\ Keys = 0 .. MaxKey
  BY Sizes DEF Keys
<1>3. \A k : k \in C <=> \E s \in ss : k \in s.left .. s.right
  BY DEF KeysOf
<1>4. ends \in SUBSET (0 .. MaxKey) /\ 0 \in ends /\ \A s \in ss : s.right \in ends
  BY <1>1, <1>2
<1>5. stops \in SUBSET Nat
  BY <1>4
<1> HIDE DEF C, ends
<1>6. ASSUME NEW x \in stops PROVE x >= MaxKey
  <2>1. Min(stops) = MaxKey
    BY DEF Reached, ends
  <2> HIDE DEF stops
  <2> QED
    BY <1>2, <1>5, <1>6, <2>1, MinExists
<1>7. 0 \in C
  <2>1. 0 \notin stops
    BY <1>2, <1>6
  <2>2. PICK s \in ss : s.left <= 0 + 1 /\ s.right > 0
    BY <1>4, <2>1
  <2>3. s.left = 0
    BY <1>1, <1>2, <2>2 DEF Cut
  <2> QED
    BY <1>1, <1>2, <1>3, <2>2, <2>3
<1>8. ASSUME NEW k \in Keys, k \notin C PROVE FALSE
  <2> DEFINE below == {r \in ends : r < k}
             m == Max(below)
  <2>1. k \in Nat /\ k > 0 /\ k <= MaxKey
    BY <1>2, <1>7, <1>8
  <2>2. below \in SUBSET (0 .. MaxKey) /\ 0 \in below
    BY <1>4, <2>1
  <2>3. m \in below /\ \A y \in below : m >= y
    <3> HIDE DEF below
    <3> QED
      BY <1>2, <2>2, MaxExists
  <2> HIDE DEF m
  <2>4. m \in ends /\ m \in Nat /\ m < k
    BY <2>2, <2>3
  <2>5. ASSUME NEW s \in ss, s.left <= m + 1, s.right > m PROVE FALSE
    <3>1. s.right \in Nat /\ s.left \in Nat
      BY <1>1, <1>2
    <3>2. ~(s.right < k)
      BY <1>4, <2>3, <2>4, <2>5, <3>1
    <3>3. k \in s.left .. s.right
      BY <2>1, <2>4, <2>5, <3>1, <3>2
    <3> QED
      BY <1>3, <1>8, <3>3
  <2>6. m \in stops
    BY <2>4, <2>5
  <2>7. m >= MaxKey
    BY <1>6, <2>6
  <2> QED
    BY <2>1, <2>4, <2>7, <1>2
<1>9. C \subseteq Keys
  BY <1>1, <1>2, <1>3
<1> QED
  BY <1>8, <1>9 DEF C

-----------------------------------------------------------------------------
(* The steps *)

\* ActivateTrie adds no slice and no request.
LEMMA ActivateDropsOnly ==
    ASSUME NEW ss, NEW rq, NEW lg, ActivateTrie(ss, rq, lg)
    PROVE  /\ slices' \subseteq ss /\ slicesRequested' \subseteq rq
           /\ log2size' \in {lg, 0}
           /\ online' \in {online, TRUE} /\ halted' \in {halted, "crashed", "aborted"}
<1> DEFINE kept == ss \ Untenable(ss)
           bs == {Build(order) : order \in Orders(kept)}
<1>1. CASE /\ kept # ss
           /\ halted' = "crashed"
           /\ slices' = ss /\ slicesRequested' = rq /\ log2size' = lg
           /\ UNCHANGED online
  BY <1>1
<1>2. CASE /\ ~ReadyToBuild(kept)
           /\ slices' = kept /\ slicesRequested' = rq /\ log2size' = lg
           /\ UNCHANGED <<online, halted>>
  BY <1>2
<1>3. CASE \E b \in bs :
                \/ /\ b.data # Ledger[b.at]
                   /\ halted' = "aborted"
                   /\ slices' = kept /\ slicesRequested' = rq /\ log2size' = lg
                   /\ UNCHANGED online
                \/ /\ b.data = Ledger[b.at]
                   /\ Connected(b.at) >= b.at + MIN_HISTORY
                   /\ online' = TRUE
                   /\ slices' = kept /\ slicesRequested' = rq /\ log2size' = lg
                   /\ UNCHANGED halted
                \/ /\ b.data = Ledger[b.at]
                   /\ Connected(b.at) < b.at + MIN_HISTORY
                   /\ slices' = {} /\ slicesRequested' = {} /\ log2size' = 0
                   /\ UNCHANGED <<online, halted>>
  <2> HIDE DEF bs
  <2> QED
    BY <1>3
<1> QED
  BY <1>1, <1>2, <1>3 DEF ActivateTrie

LEMMA LogSize ==
    ASSUME NEW n \in 0 .. Width - 2
    PROVE  IncLog2Size(n) \in 0 .. Width - 2 /\ DecLog2Size(n) \in 0 .. Width - 2
  BY Sizes DEF IncLog2Size, DecLog2Size

LEMMA SyncInvInit == Init => SyncInv
<1> SUFFICES ASSUME Init PROVE SyncInv
  OBVIOUS
<1>1. TypeOK
  <2>1. have \subseteq 0 .. tip
    BY Sizes DEF Init
  <2>2. tip \in FirstTip .. MaxTip /\ now \in 0 .. MaxTime /\ log2size \in 0 .. Width - 2
    BY Sizes DEF Init
  <2>3. sliceTime \in [Peers -> 0 .. MaxTime] /\ asked \in [Peers -> CSlice \cup {NoSlice}]
    BY Sizes DEF Init
  <2> QED
    BY <2>1, <2>2, <2>3 DEF Init, TypeOK
<1>2. RequestsOwned /\ WellCut
  BY DEF Init, RequestsOwned, WellCut
<1> QED
  BY <1>1, <1>2 DEF SyncInv

\* The steps that leave the slices, the requests and who owes them alone.
LEMMA OwnersKept ==
    ASSUME RequestsOwned, WellCut,
           UNCHANGED <<slices, slicesRequested, sliced, asked>>
    PROVE  RequestsOwned' /\ WellCut'
  BY DEF RequestsOwned, WellCut, Cut

\* The steps after which p owes nothing: its request is gone.
LEMMA OwnerReleased ==
    ASSUME RequestsOwned, WellCut, NEW p, sliced' = sliced \ {p},
           slicesRequested' \subseteq slicesRequested \ {asked[p]},
           \A q \in sliced \ {p} : asked'[q] = asked[q],
           slices' \subseteq slices \cup slicesRequested
    PROVE  RequestsOwned' /\ WellCut'
  BY DEF RequestsOwned, WellCut, Cut

LEMMA SyncInvNext == SyncInv /\ [Next]_vars => SyncInv'
<1> SUFFICES ASSUME SyncInv, [Next]_vars PROVE SyncInv'
  OBVIOUS
<1>t. TypeOK /\ RequestsOwned /\ WellCut
  BY DEF SyncInv
<1> USE DEF chain, conn, blame, work
<1>1. ASSUME NewHeader PROVE SyncInv'
  <2>1. TypeOK'
    BY <1>t, <1>1, Sizes DEF NewHeader, TypeOK
  <2> QED
    BY <1>t, <1>1, <2>1, OwnersKept DEF NewHeader, SyncInv
<1>2. ASSUME NEW h, NewBlock(h) PROVE SyncInv'
  <2>1. TypeOK'
    BY <1>t, <1>2 DEF NewBlock, TypeOK
  <2> QED
    BY <1>t, <1>2, <2>1, OwnersKept DEF NewBlock, SyncInv
<1>3. ASSUME NEW f, NewBranch(f) PROVE SyncInv'
  <2>1. TypeOK'
    BY <1>t, <1>3 DEF NewBranch, TypeOK
  <2> QED
    BY <1>t, <1>3, <2>1, OwnersKept DEF NewBranch, SyncInv
<1>4. ASSUME NEW t \in 0 .. MaxTime, SetClock(t) PROVE SyncInv'
  <2>1. TypeOK'
    BY <1>t, <1>4 DEF SetClock, TypeOK
  <2> QED
    BY <1>t, <1>4, <2>1, OwnersKept DEF SetClock, SyncInv
<1>5. ASSUME Restart PROVE SyncInv'
  <2>1. TypeOK'
    BY <1>t, <1>5, Sizes DEF Restart, TypeOK
  <2>2. RequestsOwned' /\ WellCut'
    BY <1>5 DEF Restart, RequestsOwned, WellCut
  <2> QED
    BY <2>1, <2>2 DEF SyncInv
<1>6. ASSUME NEW p \in Peers, Connect(p) PROVE SyncInv'
  <2>1. TypeOK'
    BY <1>t, <1>6 DEF Connect, TypeOK
  <2>2. p \notin sliced
    BY <1>t, <1>6 DEF Connect, TypeOK
  <2>3. RequestsOwned'
    BY <1>t, <1>6, <2>2 DEF Connect, RequestsOwned, TypeOK
  <2>4. WellCut'
    BY <1>t, <1>6 DEF Connect, WellCut, Cut
  <2> QED
    BY <2>1, <2>3, <2>4 DEF SyncInv
<1>7. ASSUME NEW p \in Peers, Disconnect(p) PROVE SyncInv'
  <2>1. TypeOK'
    BY <1>t, <1>7, Sizes DEF Disconnect, RemoveRequest, TypeOK
  <2>2. CASE nodes = {p} \/ p \in sliced
    <3>1. /\ sliced' = sliced \ {p}
          /\ slicesRequested' \subseteq slicesRequested \ {asked[p]}
          /\ slices' \subseteq slices \cup slicesRequested
      BY <1>7, <2>2 DEF Disconnect, RemoveRequest
    <3>2. \A q \in sliced \ {p} : asked'[q] = asked[q]
      BY <1>t, <1>7 DEF Disconnect, TypeOK
    <3> QED
      BY <1>t, <2>1, <3>1, <3>2, OwnerReleased DEF SyncInv
  <2>3. CASE ~(nodes = {p} \/ p \in sliced)
    <3>1. RequestsOwned'
      BY <1>t, <1>7, <2>3 DEF Disconnect, RequestsOwned, TypeOK
    <3>2. WellCut'
      BY <1>t, <1>7, <2>3 DEF Disconnect, WellCut, Cut
    <3> QED
      BY <2>1, <3>1, <3>2 DEF SyncInv
  <2> QED
    BY <2>2, <2>3
<1>8. ASSUME NEW p \in Peers, Stalled(p) PROVE SyncInv'
  <2>1. TypeOK'
    BY <1>t, <1>8 DEF Stalled, MaySend, TypeOK
  <2> QED
    BY <1>t, <1>8, <2>1, OwnersKept DEF Stalled, SyncInv
<1>9. ASSUME NEW p \in Peers, Request(p) PROVE SyncInv'
  <2>1. PICK s \in Wanted : /\ slicesRequested' = slicesRequested \cup {s}
                            /\ asked' = [asked EXCEPT ![p] = s]
    BY <1>9 DEF Request, GetSlice
  <2>2. s \in CSlice /\ Cut(s)
    BY <1>t, <2>1, WantedCut
  <2>3. p \in nodes /\ p \notin sliced /\ sliced' = sliced \cup {p} /\ slices' = slices
    BY <1>9 DEF Request, MaySend
  <2>4. TypeOK'
    BY <1>t, <1>9, <2>1, <2>2, <2>3 DEF Request, TypeOK
  <2>5. RequestsOwned'
    BY <1>t, <2>1, <2>3 DEF RequestsOwned, TypeOK
  <2>6. WellCut'
    BY <1>t, <2>1, <2>2, <2>3 DEF WellCut, Cut
  <2> QED
    BY <2>4, <2>5, <2>6 DEF SyncInv
<1>10. ASSUME NEW p \in Peers, NothingToAsk(p) PROVE SyncInv'
  <2>1. /\ slices' \subseteq slices /\ slicesRequested' \subseteq slicesRequested
        /\ log2size' \in {log2size, 0}
        /\ online' \in {online, TRUE} /\ halted' \in {halted, "crashed", "aborted"}
    BY <1>10, ActivateDropsOnly DEF NothingToAsk
  <2>2. log2size' \in 0 .. Width - 2
    BY <1>t, <2>1, Sizes DEF TypeOK
  <2>3. TypeOK'
    BY <1>t, <1>10, <2>1, <2>2 DEF NothingToAsk, TypeOK
  <2>4. RequestsOwned'
    BY <1>t, <1>10, <2>1 DEF NothingToAsk, RequestsOwned
  <2>5. WellCut'
    BY <1>t, <2>1 DEF WellCut, Cut
  <2> QED
    BY <2>3, <2>4, <2>5 DEF SyncInv
<1>11. ASSUME NEW p \in Peers, SliceAccepted(p) PROVE SyncInv'
  <2>1. /\ slices' \subseteq slices \cup (slicesRequested \cap {asked[p]})
        /\ slicesRequested' \subseteq slicesRequested \ {asked[p]}
        /\ log2size' \in {DecLog2Size(log2size), 0}
        /\ online' \in {online, TRUE} /\ halted' \in {halted, "crashed", "aborted"}
    BY <1>11, ActivateDropsOnly DEF SliceAccepted, RemoveRequest
  <2>2. log2size' \in 0 .. Width - 2
    BY <1>t, <2>1, LogSize, Sizes DEF TypeOK
  <2>3. TypeOK'
    BY <1>t, <1>11, <2>1, <2>2 DEF SliceAccepted, Receives, TypeOK
  <2>4. sliced' = sliced \ {p} /\ asked' = asked
    BY <1>11 DEF SliceAccepted, Receives
  <2> QED
    BY <1>t, <2>1, <2>3, <2>4, OwnerReleased DEF SyncInv
<1>12. ASSUME NEW p \in Peers, NEW tooBig, Receives(p), AbortSlice(asked[p], tooBig, p),
              UNCHANGED <<chain, online, halted, now, nodes, asked, sliceTime, leaving, slices>>
       PROVE  SyncInv'
  <2>1. /\ slicesRequested' = slicesRequested \ {asked[p]}
        /\ log2size' \in {log2size, IncLog2Size(log2size)}
        /\ bans' \in {bans, bans \cup {p}, {}}
        /\ nodesTooBig' \in {nodesTooBig, nodesTooBig \cup {p}, {}}
    BY <1>12 DEF AbortSlice, RemoveRequest
  <2>2. log2size' \in 0 .. Width - 2
    BY <1>t, <2>1, LogSize DEF TypeOK
  <2>3. p \in nodes /\ sliced' = sliced \ {p}
    BY <1>12 DEF Receives
  <2>4. TypeOK'
    BY <1>t, <1>12, <2>1, <2>2, <2>3 DEF TypeOK
  <2> QED
    BY <1>t, <1>12, <2>1, <2>3, <2>4, OwnerReleased DEF SyncInv
<1>13. ASSUME NEW p \in Peers, SliceRefused(p) \/ SliceMismatch(p) PROVE SyncInv'
  BY <1>12, <1>13 DEF SliceRefused, SliceMismatch
<1>14. ASSUME NEW p \in Peers, SliceInvalid(p) PROVE SyncInv'
  <2>1. /\ slicesRequested' = slicesRequested \ {asked[p]} /\ slices' = slices
        /\ sliced' = sliced \ {p} /\ asked' = asked
    BY <1>14 DEF SliceInvalid, Receives, RemoveRequest
  <2>2. log2size' \in 0 .. Width - 2
    BY <1>t, <1>14, LogSize DEF SliceInvalid, TypeOK
  <2>3. TypeOK'
    BY <1>t, <1>14, <2>1, <2>2 DEF SliceInvalid, TypeOK
  <2> QED
    BY <1>t, <2>1, <2>3, OwnerReleased DEF SyncInv
<1>15. ASSUME UNCHANGED vars PROVE SyncInv'
  <2>1. TypeOK'
    BY <1>t, <1>15 DEF vars, TypeOK
  <2> QED
    BY <1>t, <1>15, <2>1, OwnersKept DEF vars, SyncInv
<1> QED
  BY <1>1, <1>2, <1>3, <1>4, <1>5, <1>6, <1>7, <1>8, <1>9, <1>10, <1>11, <1>13, <1>14, <1>15 DEF Next

\* After every message and every timeout the slices received and requested leave no
\* key alone at an end of the key space, and every request has its peer.
THEOREM SyncInvAlways == Spec => []SyncInv
  BY SyncInvInit, SyncInvNext, PTL DEF Spec

\* Every variable keeps its type; in particular the exponent of the slice size
\* stays within its bounds.
THEOREM TypeCorrect == Spec => []TypeOK
<1>1. SyncInv => TypeOK
  BY DEF SyncInv
<1> QED
  BY <1>1, SyncInvAlways, PTL

\* Every request under way is owed by a connected peer.
THEOREM RequestsAlwaysOwned == Spec => []RequestsOwned
<1>1. SyncInv => RequestsOwned
  BY DEF SyncInv
<1> QED
  BY <1>1, SyncInvAlways, PTL

\* As long as a key is missing, GetSlice asks for one that is.
THEOREM GapsAlwaysAsked == Spec => []NoGapLeft
<1>1. SyncInv => NoGapLeft
  <2> SUFFICES ASSUME SyncInv, Covered # Keys PROVE \E s \in Wanted : s.left \notin Covered
    BY DEF NoGapLeft, Covered
  <2> QED
    BY WantedCut DEF SyncInv
<1> QED
  BY <1>1, SyncInvAlways, PTL

\* ReadyToBuild is never content with slices that miss a key.
THEOREM ReadyAlwaysCovered == Spec => []ReadyMeansCovered
<1>1. SyncInv => ReadyMeansCovered
  <2> SUFFICES ASSUME SyncInv, Reached(slices) = MaxKey PROVE KeysOf(slices) = Keys
    BY DEF ReadyMeansCovered
  <2>1. slices \in SUBSET CSlice /\ \A s \in slices : Cut(s)
    BY DEF SyncInv, TypeOK, WellCut
  <2> QED
    BY <2>1, ReachedCovers
<1> QED
  BY <1>1, SyncInvAlways, PTL
-----------------------------------------------------------------------------
(* Putting together slices of one block *)

\* No round leaves the accounts as they are.
LEMMA ReplayNone ==
    ASSUME NEW data, NEW h
    PROVE  Replay(data, h, 0) = data
<1> DEFINE R(f) == [i \in 0 .. 0 |-> IF i = 0 THEN data ELSE ApplyTransactions(f[i - 1], h)]
           s == CHOOSE f : f = R(f)
           g == [i \in 0 .. 0 |-> data]
<1>1. g = R(g)
  OBVIOUS
<1>2. s = R(s)
  BY <1>1, Zenon
<1>3. Replay(data, h, 0) = s[0]
  BY Zenon DEF Replay
<1> HIDE DEF s
<1>4. s[0] = data
  BY <1>2
<1> QED
  BY <1>3, <1>4

BuildBase == [data |-> [k \in Keys |-> 0], last |-> 0, at |-> 0]
BuildRun(order, f, n) ==
    f = [i \in 0 .. n |-> IF i = 0 THEN BuildBase ELSE AddSlice(f[i - 1], order[i])]

LEMMA BuildRunExists ==
    ASSUME NEW order, NEW N \in Nat
    PROVE  \E f : BuildRun(order, f, N)
<1> DEFINE P == {n \in 0 .. N : \E f : BuildRun(order, f, n)}
<1>1. 0 \in P
  <2> DEFINE f == [i \in 0 .. 0 |-> BuildBase]
  <2>1. BuildRun(order, f, 0)
    BY DEF BuildRun
  <2> QED
    BY <2>1
<1>2. ASSUME NEW n \in 1 .. N, n - 1 \in P PROVE n \in P
  <2>1. PICK f : BuildRun(order, f, n - 1)
    BY <1>2
  <2> DEFINE g == [i \in 0 .. n |-> IF i = n THEN AddSlice(f[n - 1], order[n]) ELSE f[i]]
  <2>2. \A i \in 0 .. n : i # 0 => g[i - 1] = f[i - 1]
    OBVIOUS
  <2>3. \A i \in 0 .. n : g[i] = IF i = 0 THEN BuildBase ELSE AddSlice(g[i - 1], order[i])
    BY <2>1, <2>2 DEF BuildRun
  <2>4. g = [i \in 0 .. n |-> IF i = 0 THEN BuildBase ELSE AddSlice(g[i - 1], order[i])]
    BY <2>3
  <2>5. BuildRun(order, g, n)
    BY <2>4 DEF BuildRun
  <2> QED
    BY <2>5
<1> HIDE DEF P
<1>3. \A i \in 0 .. N : i \in P
  BY <1>1, <1>2, Climb
<1> QED
  BY <1>3 DEF P

\* Slices of block a that were put together: the accounts of their keys.
Together(x, a, i, C) ==
    /\ x.data \in [Keys -> Nat]
    /\ \A k \in Keys : x.data[k] = IF k \in C THEN Ledger[a][k] ELSE 0
    /\ i = 0 => x.last = 0
    /\ i > 0 => x.last = a + 1 /\ x.at = a

\* One more slice of block a, wherever it lies, replays nothing.
LEMMA AddSliceSame ==
    ASSUME NEW s \in CSlice, NEW i \in Nat, NEW C, NEW x, Together(x, s.at, i, C)
    PROVE  Together(AddSlice(x, s), s.at, i + 1, C \cup s.left .. s.right)
<1> DEFINE a == s.at
           y == AddSlice(x, s)
           rounds == IF x.last = 0 \/ a < x.last THEN 0 ELSE a - x.last + 1
           data == Replay(x.data, a, rounds)
<1>1. a \in 0 .. MaxTip /\ a \in Nat /\ Ledger[a] \in [Keys -> Nat]
  BY LedgerAssumption, SizesAssumption DEF CSlice
<1>2. rounds = 0
  BY <1>1 DEF Together
<1>3. data = x.data
  BY <1>2, ReplayNone
<1>4. y = [data |-> [k \in Keys |-> IF k \in s.left .. s.right /\ Ledger[a][k] > 0
                                    THEN Ledger[a][k] ELSE x.data[k]],
           last |-> a + 1, at |-> a]
  BY <1>3 DEF AddSlice
<1> HIDE DEF data, rounds, y, a
<1>5. y.last = a + 1 /\ y.at = a
  BY <1>4
<1>6. y.data = [k \in Keys |-> IF k \in s.left .. s.right /\ Ledger[a][k] > 0
                               THEN Ledger[a][k] ELSE x.data[k]]
  BY <1>4
<1>7. Together(x, a, i, C)
  BY DEF a
<1>8. y.data \in [Keys -> Nat]
  BY <1>1, <1>6, <1>7 DEF Together
<1>9. ASSUME NEW k \in Keys
      PROVE  y.data[k] = IF k \in C \cup s.left .. s.right THEN Ledger[a][k] ELSE 0
  <2>1. Ledger[a][k] \in Nat
    BY <1>1, <1>9
  <2>2. x.data[k] = IF k \in C THEN Ledger[a][k] ELSE 0
    BY <1>7, <1>9 DEF Together
  <2>3. y.data[k] = IF k \in s.left .. s.right /\ Ledger[a][k] > 0 THEN Ledger[a][k] ELSE x.data[k]
    BY <1>6, <1>9
  <2> QED
    BY <2>1, <2>2, <2>3
<1>10. Together(y, a, i + 1, C \cup s.left .. s.right)
  BY <1>5, <1>8, <1>9 DEF Together
<1> QED
  BY <1>10 DEF a, y

\* Build of slices of one block that cover all keys, in any order and however
\* they overlap, gives the accounts of that block.
LEMMA BuildSame ==
    ASSUME NEW a, NEW order \in Seq(CSlice), \A i \in 1 .. Len(order) : order[i].at = a,
           \A k \in Keys : \E i \in 1 .. Len(order) : k \in order[i].left .. order[i].right
    PROVE  Build(order).data = Ledger[Build(order).at]
<1> DEFINE N == Len(order)
           Passed(i) == UNION {order[j].left .. order[j].right : j \in 1 .. i}
           s == CHOOSE f : f = [i \in 0 .. N |-> IF i = 0 THEN BuildBase ELSE AddSlice(f[i - 1], order[i])]
<1>1. N \in Nat /\ \A i \in 1 .. N : order[i] \in CSlice
  OBVIOUS
<1>2. PICK f : BuildRun(order, f, N)
  BY <1>1, BuildRunExists
<1>3. BuildRun(order, s, N)
  BY <1>2, Zenon DEF BuildRun
<1>4. Build(order) = s[N]
  BY Zenon DEF Build, BuildBase
<1> HIDE DEF s
<1>5. s[0] = BuildBase /\ \A i \in 1 .. N : s[i] = AddSlice(s[i - 1], order[i])
  BY <1>1, <1>3 DEF BuildRun
<1> DEFINE P == {i \in 0 .. N : Together(s[i], a, i, Passed(i))}
<1>6. Together(s[0], a, 0, Passed(0))
  <2>1. Passed(0) = {}
    OBVIOUS
  <2> HIDE DEF Passed
  <2>2. s[0] = [data |-> [k \in Keys |-> 0], last |-> 0, at |-> 0]
    BY <1>5 DEF BuildBase
  <2>3. s[0].data = [k \in Keys |-> 0] /\ s[0].last = 0
    BY <2>2
  <2> QED
    BY <2>1, <2>3 DEF Together
<1>7. ASSUME NEW i \in 1 .. N, Together(s[i - 1], a, i - 1, Passed(i - 1))
      PROVE  Together(s[i], a, i, Passed(i))
  <2>1. i - 1 \in Nat /\ (i - 1) + 1 = i /\ order[i] \in CSlice /\ order[i].at = a
    BY <1>1
  <2>2. Passed(i) = Passed(i - 1) \cup order[i].left .. order[i].right
    <3>1. 1 .. i = 1 .. (i - 1) \cup {i}
      BY <1>1
    <3> QED
      BY <3>1
  <2> HIDE DEF Passed
  <2>3. Together(AddSlice(s[i - 1], order[i]), a, (i - 1) + 1,
                 Passed(i - 1) \cup order[i].left .. order[i].right)
    BY <1>7, <2>1, AddSliceSame
  <2> QED
    BY <1>5, <2>1, <2>2, <2>3
<1> HIDE DEF Passed
<1>8. 0 \in P /\ \A i \in 1 .. N : i - 1 \in P => i \in P
  BY <1>1, <1>6, <1>7
<1> HIDE DEF P
<1>9. \A i \in 0 .. N : i \in P
  BY <1>1, <1>8, Climb
<1>10. Together(s[N], a, N, Passed(N))
  BY <1>1, <1>9 DEF P
<1>11. \A k \in Keys : k \in Passed(N)
  BY DEF Passed
<1>12. N > 0
  <2>1. 0 \in Keys
    BY Sizes DEF Keys
  <2> QED
    BY <1>1, <2>1
<1>13. /\ s[N].at = a /\ s[N].data \in [Keys -> Nat]
       /\ \A k \in Keys : s[N].data[k] = Ledger[a][k]
  BY <1>10, <1>11, <1>12 DEF Together
<1>14. Ledger[a] \in [Keys -> Nat]
  <2>1. order[N].at = a /\ order[N] \in CSlice
    BY <1>1, <1>12
  <2> QED
    BY <2>1, LedgerAssumption DEF CSlice
<1> QED
  BY <1>4, <1>13, <1>14

LEMMA SlicesFinite == IsFiniteSet(CSlice)
<1> DEFINE T == (0 .. MaxTip) \X (Keys \X Keys)
           f == [s \in CSlice |-> <<s.at, <<s.left, s.right>>>>]
<1>1. IsFiniteSet(0 .. MaxTip) /\ IsFiniteSet(Keys)
  <2>1. 0 \in Int /\ MaxTip \in Int /\ MaxKey \in Int
    BY Sizes, SizesAssumption
  <2>2. IsFiniteSet(0 .. MaxTip) /\ IsFiniteSet(0 .. MaxKey)
    BY <2>1, FS_Interval
  <2> QED
    BY <2>2 DEF Keys
<1>2. IsFiniteSet(Keys \X Keys)
  BY <1>1, FS_Product
<1>3. IsFiniteSet(T)
  BY <1>1, <1>2, FS_Product
<1>4. f \in [CSlice -> T]
  BY DEF CSlice
<1>5. ASSUME NEW s \in CSlice, NEW u \in CSlice, f[s] = f[u] PROVE s = u
  <2>1. s.at = u.at /\ s.left = u.left /\ s.right = u.right
    BY <1>5
  <2> QED
    BY <2>1 DEF CSlice
<1>6. f \in Injection(CSlice, T)
  BY <1>4, <1>5 DEF Injection, IsInjective
<1> HIDE DEF f, T
<1> QED
  BY <1>3, <1>6, FS_Injection

\* An order of slices goes through all of them.
LEMMA OrderTakesAll ==
    ASSUME NEW ss \in SUBSET CSlice, NEW q \in Orders(ss)
    PROVE  q \in Seq(ss) /\ \A s \in ss : \E i \in 1 .. Len(q) : q[i] = s
<1> DEFINE n == Cardinality(ss)
           D == 1 .. n
<1>1. IsFiniteSet(ss) /\ n \in Nat
  BY SlicesFinite, FS_Subset, FS_CardinalityType
<1>2. q \in [D -> ss] /\ \A i, j \in D : i # j => q[i] # q[j]
  BY DEF Orders, SetToSeqs
<1>3. IsFiniteSet(D) /\ Cardinality(D) = n
  BY <1>1, FS_Interval
<1>4. q \in Injection(D, ss)
  BY <1>2 DEF Injection, IsInjective
<1>5. q \in Surjection(D, ss)
  <2> HIDE DEF D
  <2> QED
    BY <1>1, <1>3, <1>4, FS_Injection
<1>6. \A s \in ss : \E i \in D : q[i] = s
  BY <1>5 DEF Surjection
<1>7. q \in Seq(ss) /\ Len(q) = n
  BY <1>1, <1>2
<1> QED
  BY <1>6, <1>7

\* ActivateTrie ends the process only over slices of different blocks.
LEMMA ActivateAborts ==
    ASSUME NEW ss \in SUBSET CSlice, \A s \in ss : Cut(s), NEW rq, NEW lg,
           ActivateTrie(ss, rq, lg), halted = "no", halted' = "aborted"
    PROVE  \E s \in slices', u \in slices' : s.at # u.at
<1> DEFINE kept == ss \ Untenable(ss)
<1>1. /\ ReadyToBuild(kept) /\ slices' = kept
      /\ \E b \in {Build(order) : order \in Orders(kept)} : b.data # Ledger[b.at]
  BY DEF ActivateTrie
<1>2. PICK order \in Orders(kept) : Build(order).data # Ledger[Build(order).at]
  BY <1>1
<1>3. kept \in SUBSET CSlice /\ \A s \in kept : Cut(s)
  OBVIOUS
<1> HIDE DEF kept
<1>4. KeysOf(kept) = Keys
  BY <1>1, <1>3, ReachedCovers DEF ReadyToBuild
<1>5. order \in Seq(kept) /\ \A s \in kept : \E i \in 1 .. Len(order) : order[i] = s
  BY <1>3, OrderTakesAll
<1>6. \A k \in Keys : \E i \in 1 .. Len(order) : k \in order[i].left .. order[i].right
  BY <1>4, <1>5 DEF KeysOf
<1> SUFFICES ASSUME \A s \in kept, u \in kept : s.at = u.at PROVE FALSE
  BY <1>1
<1>7. PICK s \in kept : TRUE
  <2>1. 0 \in Keys
    BY Sizes DEF Keys
  <2> QED
    BY <1>4, <2>1 DEF KeysOf
<1>8. order \in Seq(CSlice) /\ \A i \in 1 .. Len(order) : order[i].at = s.at
  BY <1>3, <1>5, <1>7
<1> QED
  BY <1>2, <1>6, <1>8, BuildSame
LEMMA AbortsNext == SyncInv /\ AbortsOnlyMixed /\ [Next]_vars => AbortsOnlyMixed'
<1> SUFFICES ASSUME SyncInv, AbortsOnlyMixed, [Next]_vars, halted' = "aborted"
             PROVE  \E s \in slices', u \in slices' : s.at # u.at
  BY DEF AbortsOnlyMixed
<1>1. slices \cup slicesRequested \in SUBSET CSlice /\ \A s \in slices \cup slicesRequested : Cut(s)
  BY DEF SyncInv, TypeOK, WellCut
<1>2. CASE UNCHANGED <<slices, halted>>
  BY <1>2 DEF AbortsOnlyMixed
<1>3. ASSUME NEW ss, NEW rq, NEW lg, ss \subseteq slices \cup slicesRequested,
             ActivateTrie(ss, rq, lg), halted = "no"
      PROVE  \E s \in slices', u \in slices' : s.at # u.at
  <2>1. ss \in SUBSET CSlice /\ \A s \in ss : Cut(s)
    BY <1>1, <1>3
  <2> QED
    BY <1>3, <2>1, ActivateAborts
<1>4. ASSUME NEW p \in Peers, NothingToAsk(p) PROVE \E s \in slices', u \in slices' : s.at # u.at
  BY <1>3, <1>4 DEF NothingToAsk, MaySend
<1>5. ASSUME NEW p \in Peers, SliceAccepted(p) PROVE \E s \in slices', u \in slices' : s.at # u.at
  BY <1>3, <1>5 DEF SliceAccepted, Receives
<1>6. ASSUME NEW p \in Peers, Disconnect(p) PROVE FALSE
  BY <1>6 DEF Disconnect
<1> QED
  BY <1>2, <1>4, <1>5, <1>6 DEF Next, vars, work, chain, conn, blame, NewHeader, NewBlock, NewBranch,
     SetClock, Restart, Connect, Stalled, Request, SliceRefused, SliceMismatch, SliceInvalid

\* Accounts that were collected at one block, from whatever peers and in slices
\* that overlap however they like, always have the account root of that block:
\* ActivateTrie ends the process only over slices of different blocks.
THEOREM AbortsOnlyOverMixed == Spec => []AbortsOnlyMixed
<1>1. Init => AbortsOnlyMixed
  BY DEF Init, AbortsOnlyMixed
<1> QED
  BY <1>1, AbortsNext, SyncInvAlways, PTL DEF Spec
=============================================================================
