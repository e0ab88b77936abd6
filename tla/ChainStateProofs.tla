-------------------------- MODULE ChainStateProofs --------------------------
(***************************************************************************)
(* Theorems about ChainState for every tree of blocks, every set of bad    *)
(* and of unreadable blocks and every order of arrivals, crashes and       *)
(* restarts.                                                               *)
(***************************************************************************)
EXTENDS ChainStateInv, FiniteSetTheorems, WellFoundedInduction, TLAPS

-----------------------------------------------------------------------------
(* The tree *)

LEMMA LeastNumber ==
    ASSUME NEW T \in SUBSET Nat, T # {}
    PROVE  \E x \in T : \A y \in T : x <= y
<1>1. PICK x \in T : \A y \in T : ~(<<y, x>> \in OpToRel(<, Nat))
  BY NatLessThanWellFounded, WFMin
<1>2. \A y \in T : ~(y < x)
  BY <1>1, Zenon DEF OpToRel
<1> QED
  BY <1>2

LEMMA LowestExists ==
    ASSUME NEW S \in SUBSET Blocks, S # {}
    PROVE  /\ Lowest(S) \in S
           /\ \A c \in S : Height[Lowest(S)] <= Height[c]
<1> DEFINE T == {Height[c] : c \in S}
<1>1. T \in SUBSET Nat /\ T # {}
  BY ChainAssumption
<1>2. PICK x \in T : \A y \in T : x <= y
  <2> HIDE DEF T
  <2> QED
    BY <1>1, LeastNumber
<1>3. PICK b \in S : x = Height[b]
  OBVIOUS
<1>4. \A c \in S : Height[b] <= Height[c]
  BY <1>2, <1>3
<1> QED
  BY <1>4 DEF Lowest

\* The set of blocks is finite, so that a measure has its greatest value.
LEMMA MostExists ==
    ASSUME NEW W \in [Blocks -> Nat], NEW S \in SUBSET Blocks, S # {}
    PROVE  \E b \in S : \A c \in S : W[c] <= W[b]
<1> DEFINE Has(T) == \E b \in T : \A c \in T : W[c] <= W[b]
           Bad == {T \in SUBSET Blocks : T # {} /\ ~Has(T)}
           N == {Cardinality(T) : T \in Bad}
<1>1. \A T \in SUBSET Blocks : IsFiniteSet(T) /\ Cardinality(T) \in Nat
  BY ChainAssumption, FS_Subset, FS_CardinalityType
<1>2. \A b \in Blocks : W[b] \in Nat
  OBVIOUS
<1>3. Bad = {}
  <2> SUFFICES ASSUME Bad # {} PROVE FALSE
    OBVIOUS
  <2>1. N \in SUBSET Nat /\ N # {}
    BY <1>1
  <2>2. PICK n \in N : \A m \in N : n <= m
    <3> HIDE DEF N
    <3> QED
      BY <2>1, LeastNumber
  <2>3. PICK T \in Bad : n = Cardinality(T)
    OBVIOUS
  <2>4. PICK x \in T : TRUE
    OBVIOUS
  <2> DEFINE U == T \ {x}
  <2>5. U \in SUBSET Blocks /\ Cardinality(U) = Cardinality(T) - 1
    BY <1>1, <2>4, FS_RemoveElement
  <2>6. U \notin Bad
    <3> SUFFICES ASSUME U \in Bad PROVE FALSE
      OBVIOUS
    <3>1. n <= Cardinality(U)
      BY <2>2
    <3> QED
      BY <1>1, <2>3, <2>5, <3>1
  <2>7. CASE U = {}
    <3>1. T = {x}
      BY <2>4, <2>7
    <3>2. Has(T)
      BY <1>2, <3>1
    <3> QED
      BY <3>2
  <2>8. CASE U # {}
    <3>1. PICK m \in U : \A c \in U : W[c] <= W[m]
      BY <2>5, <2>6, <2>8
    <3>2. W[x] \in Nat /\ W[m] \in Nat /\ \A c \in T : W[c] \in Nat /\ (c \in U \/ c = x)
      BY <1>2, <2>4
    <3>3. CASE W[x] <= W[m]
      <4>1. Has(T)
        BY <3>1, <3>2, <3>3
      <4> QED
        BY <4>1
    <3>4. CASE W[m] < W[x]
      <4>1. Has(T)
        BY <3>1, <3>2, <3>4, <2>4
      <4> QED
        BY <4>1
    <3> QED
      BY <3>2, <3>3, <3>4
  <2> QED
    BY <2>7, <2>8
<1> QED
  BY <1>3

LEMMA HighestExists ==
    ASSUME NEW S \in SUBSET Blocks, S # {}
    PROVE  /\ Highest(S) \in S
           /\ \A c \in S : Height[c] <= Height[Highest(S)]
<1>1. PICK b \in S : \A c \in S : Height[c] <= Height[b]
  BY MostExists, ChainAssumption
<1> QED
  BY <1>1 DEF Highest

LEMMA ParentBelow ==
    ASSUME NEW b \in Blocks, b # Genesis
    PROVE  /\ Parent[b] \in Blocks
           /\ Height[b] = Height[Parent[b]] + 1
           /\ Height[b] \in Nat /\ Height[Parent[b]] \in Nat
           /\ Ancestors[b] = {b} \cup Ancestors[Parent[b]]
  BY ChainAssumption

\* The blocks below a block: itself, all that is below one of them, the genesis
\* block; every other one is strictly lower.
LEMMA AncestorFacts ==
    ASSUME NEW b \in Blocks
    PROVE  /\ b \in Ancestors[b] /\ Ancestors[b] \subseteq Blocks
           /\ Genesis \in Ancestors[b]
           /\ \A a \in Ancestors[b] : /\ Ancestors[a] \subseteq Ancestors[b]
                                      /\ a # b => Height[a] < Height[b]
<1> DEFINE Good(c) == /\ Genesis \in Ancestors[c]
                      /\ \A a \in Ancestors[c] : /\ Ancestors[a] \subseteq Ancestors[c]
                                                 /\ a # c => Height[a] < Height[c]
           S == {c \in Blocks : ~Good(c)}
<1>1. \A c \in Blocks : c \in Ancestors[c] /\ Ancestors[c] \subseteq Blocks /\ Height[c] \in Nat
  BY ChainAssumption
<1>2. Good(Genesis)
  <2>1. Ancestors[Genesis] = {Genesis}
    BY ChainAssumption
  <2> QED
    BY <2>1
<1>3. S = {}
  <2> SUFFICES ASSUME S # {} PROVE FALSE
    OBVIOUS
  <2> DEFINE c == Lowest(S)
  <2>1. c \in S /\ \A d \in S : Height[c] <= Height[d]
    <3>1. S \in SUBSET Blocks
      OBVIOUS
    <3> HIDE DEF S
    <3> QED
      BY <3>1, LowestExists
  <2> HIDE DEF c
  <2>2. c \in Blocks /\ ~Good(c) /\ c # Genesis
    BY <1>2, <2>1
  <2> DEFINE p == Parent[c]
  <2>3. /\ p \in Blocks /\ Height[c] = Height[p] + 1 /\ Height[p] \in Nat
        /\ Ancestors[c] = {c} \cup Ancestors[p]
    BY <2>2, ParentBelow
  <2>4. p \notin S
    BY <2>1, <2>3
  <2> HIDE DEF p
  <2>5. Good(p)
    BY <2>3, <2>4
  <2>6. Genesis \in Ancestors[c]
    BY <2>3, <2>5
  <2>7. ASSUME NEW a \in Ancestors[c]
        PROVE  Ancestors[a] \subseteq Ancestors[c] /\ (a # c => Height[a] < Height[c])
    <3>1. CASE a = c
      BY <3>1
    <3>2. CASE a # c
      <4>1. a \in Ancestors[p] /\ a \in Blocks
        BY <1>1, <2>2, <2>3, <3>2
      <4>2. Ancestors[a] \subseteq Ancestors[p] /\ (a # p => Height[a] < Height[p])
        BY <2>5, <4>1
      <4>3. Height[a] \in Nat
        BY <1>1, <4>1
      <4> QED
        BY <2>3, <4>2, <4>3
    <3> QED
      BY <3>1, <3>2
  <2> QED
    BY <2>2, <2>6, <2>7
<1> QED
  BY <1>1, <1>3

\* A chain has a block at every height up to its tip.
LEMMA AtExists ==
    ASSUME NEW b \in Blocks, NEW n \in Nat, n <= Height[b]
    PROVE  At(b, n) \in Ancestors[b] /\ Height[At(b, n)] = n
<1> DEFINE S == {a \in Ancestors[b] : n <= Height[a]}
           a == Lowest(S)
<1>1. S \in SUBSET Blocks /\ b \in S
  BY AncestorFacts
<1>2. a \in S /\ \A d \in S : Height[a] <= Height[d]
  <2> HIDE DEF S
  <2> QED
    BY <1>1, LowestExists
<1> HIDE DEF a
<1>3. a \in Blocks /\ a \in Ancestors[b] /\ n <= Height[a] /\ Height[a] \in Nat
  BY <1>1, <1>2, ChainAssumption
<1>4. Height[a] = n
  <2>1. CASE a = Genesis
    BY <1>3, <2>1, ChainAssumption
  <2>2. CASE a # Genesis
    <3> DEFINE p == Parent[a]
    <3>1. /\ p \in Blocks /\ Height[a] = Height[p] + 1 /\ Height[p] \in Nat
          /\ Ancestors[a] = {a} \cup Ancestors[p]
      BY <1>3, <2>2, ParentBelow
    <3>2. p \in Ancestors[b]
      BY <1>3, <3>1, AncestorFacts
    <3> HIDE DEF p
    <3>3. p \notin S
      BY <1>2, <3>1
    <3>4. ~(n <= Height[p])
      BY <3>2, <3>3
    <3> QED
      BY <1>3, <3>1, <3>4
  <2> QED
    BY <2>1, <2>2
<1> QED
  BY <1>3, <1>4 DEF At

\* Of two blocks of a chain the lower one is below the higher one.
LEMMA ChainLinear ==
    ASSUME NEW b \in Blocks, NEW a \in Ancestors[b], NEW c \in Ancestors[b], Height[a] <= Height[c]
    PROVE  a \in Ancestors[c]
<1> DEFINE S == {d \in Blocks : \E x, y \in Ancestors[d] : Height[x] <= Height[y] /\ x \notin Ancestors[y]}
<1>1. S = {}
  <2> SUFFICES ASSUME S # {} PROVE FALSE
    OBVIOUS
  <2> DEFINE d == Lowest(S)
  <2>1. d \in S /\ \A e \in S : Height[d] <= Height[e]
    <3>1. S \in SUBSET Blocks
      OBVIOUS
    <3> HIDE DEF S
    <3> QED
      BY <3>1, LowestExists
  <2> HIDE DEF d
  <2>2. PICK x \in Ancestors[d], y \in Ancestors[d] : Height[x] <= Height[y] /\ x \notin Ancestors[y]
    BY <2>1
  <2>3. d \in Blocks /\ x \in Blocks /\ y \in Blocks
    BY <2>1, <2>2, AncestorFacts
  <2>4. Height[x] \in Nat /\ Height[y] \in Nat /\ Height[d] \in Nat
    BY <2>3, ChainAssumption
  <2>5. y # d
    BY <2>2
  <2>6. x # d
    <3>1. Height[y] < Height[d]
      BY <2>3, <2>5, <2>2, AncestorFacts
    <3> QED
      BY <2>2, <2>4, <3>1
  <2>7. d # Genesis
    <3>1. Ancestors[Genesis] = {Genesis}
      BY ChainAssumption
    <3> QED
      BY <2>2, <2>5, <3>1
  <2>8. /\ Parent[d] \in Blocks /\ Height[d] = Height[Parent[d]] + 1 /\ Height[Parent[d]] \in Nat
        /\ Ancestors[d] = {d} \cup Ancestors[Parent[d]]
    BY <2>3, <2>7, ParentBelow
  <2>9. Parent[d] \in S
    BY <2>2, <2>5, <2>6, <2>8
  <2> QED
    BY <2>1, <2>8, <2>9
<1> QED
  BY <1>1
-----------------------------------------------------------------------------
(* The best candidate *)

\* Two blocks of the order of arrival have different positions.
LEMMA PositionDiffers ==
    ASSUME received \in Seq(Blocks), NEW b \in Range(received), NEW c \in Range(received), b # c
    PROVE  Position(b) \in Nat /\ Position(b) # Position(c)
<1>1. \A x \in Range(received) : Position(x) \in DOMAIN received /\ received[Position(x)] = x
  BY DEF Position, Range
<1>2. DOMAIN received \subseteq Nat
  OBVIOUS
<1> QED
  BY <1>1, <1>2

\* ActivateBestHeader always finds the candidate it looks for.
LEMMA BestExists ==
    ASSUME TypeOK, CandidatesReceived, candidates # {}
    PROVE  Best \in candidates /\ \A c \in candidates \ {Best} : Better(Best, c)
<1>1. candidates \in SUBSET Blocks /\ received \in Seq(Blocks)
  BY DEF TypeOK, Known
<1>2. PICK m \in candidates : \A c \in candidates : Work[c] <= Work[m]
  BY <1>1, MostExists, ChainAssumption
<1> DEFINE S == {c \in candidates : Work[c] = Work[m]}
           T == {Position(c) : c \in S}
<1>3. \A c \in candidates : Position(c) \in Nat
  <2>1. \A c \in Range(received) : Position(c) \in DOMAIN received
    BY DEF Position, Range
  <2> QED
    BY <1>1, <2>1 DEF CandidatesReceived
<1>4. T \in SUBSET Nat /\ T # {}
  BY <1>3
<1>5. PICK x \in T : \A y \in T : x <= y
  <2> HIDE DEF T
  <2> QED
    BY <1>4, LeastNumber
<1>6. PICK b \in S : x = Position(b)
  OBVIOUS
<1>7. ASSUME NEW c \in candidates \ {b} PROVE Better(b, c)
  <2>1. Work[c] \in Nat /\ Work[b] \in Nat /\ Work[b] = Work[m] /\ Work[c] <= Work[m]
    BY <1>1, <1>2, <1>6, ChainAssumption
  <2>2. CASE Work[c] # Work[m]
    BY <2>1, <2>2 DEF Better
  <2>3. CASE Work[c] = Work[m]
    <3>1. Position(b) <= Position(c)
      BY <1>5, <1>6, <2>3
    <3>2. Position(b) # Position(c)
      BY <1>1, <1>6, PositionDiffers DEF CandidatesReceived
    <3>3. Position(b) < Position(c)
      BY <1>3, <1>6, <3>1, <3>2
    <3> QED
      BY <2>1, <2>3, <3>3 DEF Better
  <2> QED
    BY <2>2, <2>3
<1> QED
  BY <1>6, <1>7 DEF Best
-----------------------------------------------------------------------------
(* IndexInv in parts, each over a few variables *)

Statuses == [Blocks -> Status \cup {Unknown}]

IndexPart ==
    /\ index \in Statuses /\ diskIndex \in Statuses
    /\ AppliedAgree /\ AppliedStored /\ AppliedClosed
    /\ KnownClosed /\ GenesisStays
CandidatePart == candidates \subseteq Known /\ received \in Seq(Blocks) /\ CandidatesReceived
TipPart == {headers, active} \subseteq Known
RestPart ==
    /\ {syncPoint, diskSync} \subseteq Blocks \cup {NoBlock}
    /\ unindexed \subseteq Blocks
    /\ txIndex \subseteq Tx
    /\ lost \subseteq damaged /\ damaged \subseteq Fragile
LedgerPart == diskTrie \in [best : Blocks, ledger : Blocks \cup {Torn}] /\ LedgerApplied
WalkPart == oldSet \subseteq Blocks /\ newSet \subseteq Blocks /\ WalkShape
ControlPart ==
    /\ pc \in {"idle", "header", "reorg", "unwind", "connect", "trie", "walk", "restep", "store",
               "orphans", "loaded", "hung"}
    /\ after \in {"none", "accept", "store", "chain", "connect", "again", "load"}
    /\ loading \in BOOLEAN
    /\ accepting \in Blocks \cup {NoBlock}
    /\ HandlerShape

LEMMA Parts ==
    IndexInv <=> /\ IndexPart /\ CandidatePart /\ TipPart /\ RestPart
                 /\ LedgerPart /\ WalkPart /\ ControlPart
<1>1. AppliedAgree => AppliedOnDisk \subseteq Known
  BY DEF AppliedAgree, AppliedOnDisk
<1> QED
  BY <1>1 DEF IndexInv, TypeOK, Statuses, IndexPart, CandidatePart, TipPart, RestPart, LedgerPart,
              LedgerApplied, WalkPart, ControlPart

-----------------------------------------------------------------------------
(* What the handlers do to the index and to its copy on disk *)

\* The part about the index holds again, and no block was forgotten.
Grows == IndexPart' /\ Known \subseteq Known' /\ AppliedOnDisk \subseteq AppliedOnDisk'

LEMMA AppliedKnown == IndexPart => AppliedOnDisk \subseteq Known /\ Genesis \in Known
  BY DEF IndexPart, AppliedAgree, AppliedOnDisk, GenesisStays

LEMMA IndexSame ==
    ASSUME IndexPart, UNCHANGED <<index, diskIndex>>
    PROVE  Grows /\ Known' = Known /\ AppliedOnDisk' = AppliedOnDisk
  BY DEF Grows, IndexPart, AppliedAgree, AppliedStored, AppliedClosed, KnownClosed, GenesisStays,
         Known, AppliedOnDisk

\* The entry of a block is written as it is.
LEMMA IndexWritten ==
    ASSUME IndexPart, NEW b \in Known, UNCHANGED index, WriteBlockIndex(b, index[b])
    PROVE  Grows /\ Known' = Known /\ AppliedOnDisk' = AppliedOnDisk
<1>1. Known' = Known /\ b \in Blocks /\ index[b] \in Status /\ index[b] # Unknown
  BY ChainAssumption DEF Known, IndexPart, Statuses
<1>2. diskIndex' = [diskIndex EXCEPT ![b] = index[b]] /\ diskIndex' \in Statuses
  BY <1>1 DEF WriteBlockIndex, IndexPart, Statuses
<1>3. AppliedOnDisk' = AppliedOnDisk
  BY <1>1, <1>2 DEF AppliedOnDisk, IndexPart, Statuses, AppliedAgree
<1>4. ~diskIndex'[Genesis].failed
  BY <1>1, <1>2, ChainAssumption DEF IndexPart, GenesisStays, Statuses
<1> QED
  BY <1>1, <1>2, <1>3, <1>4
  DEF Grows, IndexPart, AppliedAgree, AppliedStored, AppliedClosed, KnownClosed, GenesisStays, Known

\* Blocks are marked as failed, and one of them is written.
LEMMA MarkFacts ==
    ASSUME IndexPart, NEW M \in SUBSET Known, index' = Mark(M)
    PROVE  /\ index' \in Statuses /\ Known' = Known
           /\ \A b \in Known : /\ index'[b].data = index[b].data
                               /\ index'[b].applied = index[b].applied
                               /\ index'[b].failed <=> index[b].failed \/ b \in M
<1>1. \A b \in Known : b \in Blocks /\ index[b] \in Status
  BY DEF Known, IndexPart, Statuses
<1>2. \A b \in Blocks : index'[b] = IF b \in M THEN [index[b] EXCEPT !.failed = TRUE] ELSE index[b]
  BY DEF Mark
<1>3. \A b \in Known : /\ index'[b] \in Status
                       /\ index'[b].data = index[b].data
                       /\ index'[b].applied = index[b].applied
                       /\ index'[b].failed <=> index[b].failed \/ b \in M
  BY <1>1, <1>2 DEF Status
<1>4. \A b \in Blocks \ Known : index'[b] = Unknown /\ index[b] = Unknown
  BY <1>2 DEF Known
<1>5. index' \in Statuses
  BY <1>3, <1>4 DEF Mark, Statuses
<1>6. Known' = Known
  BY <1>3, <1>4, ChainAssumption DEF Known
<1> QED
  BY <1>3, <1>5, <1>6

LEMMA IndexMarked ==
    ASSUME IndexPart, NEW M \in SUBSET Known, Genesis \notin M, index' = Mark(M), UNCHANGED diskIndex
    PROVE  Grows /\ Known' = Known
<1>1. /\ index' \in Statuses /\ Known' = Known
      /\ \A b \in Known : /\ index'[b].data = index[b].data
                          /\ index'[b].applied = index[b].applied
                          /\ index'[b].failed <=> index[b].failed \/ b \in M
  BY MarkFacts
<1>2. AppliedOnDisk' = AppliedOnDisk
  BY DEF AppliedOnDisk
<1>3. Genesis \in Known
  BY DEF IndexPart, GenesisStays, AppliedAgree, AppliedOnDisk
<1>4a. AppliedAgree' /\ AppliedClosed' /\ KnownClosed' /\ GenesisStays'
  BY <1>1, <1>2, <1>3 DEF IndexPart, AppliedAgree, AppliedClosed, KnownClosed, GenesisStays
<1>4b. AppliedStored'
  BY <1>1, <1>2, <1>3, AppliedKnown DEF IndexPart, AppliedStored
<1> QED
  BY <1>1, <1>2, <1>4a, <1>4b DEF Grows, IndexPart

LEMMA IndexFailed ==
    ASSUME IndexPart, NEW M \in SUBSET Known, Genesis \notin M, NEW bad \in M, index' = Mark(M),
           WriteBlockIndex(bad, [index[bad] EXCEPT !.failed = TRUE])
    PROVE  Grows /\ Known' = Known /\ AppliedOnDisk' = AppliedOnDisk
<1>1. /\ index' \in Statuses /\ Known' = Known
      /\ \A b \in Known : /\ index'[b].data = index[b].data
                          /\ index'[b].applied = index[b].applied
                          /\ index'[b].failed <=> index[b].failed \/ b \in M
  BY MarkFacts
<1> DEFINE st == [index[bad] EXCEPT !.failed = TRUE]
<1>2. bad \in Known /\ bad \in Blocks /\ bad # Genesis /\ index[bad] \in Status
  BY DEF Known, IndexPart, Statuses
<1>3. st \in Status /\ st # Unknown /\ st.applied = index[bad].applied /\ (st.data <=> index[bad].data)
  BY <1>2, ChainAssumption DEF Status
<1>4. diskIndex' = [diskIndex EXCEPT ![bad] = st]
  BY DEF WriteBlockIndex
<1> HIDE DEF st
<1>5. diskIndex' \in Statuses /\ diskIndex'[Genesis] = diskIndex[Genesis]
  BY <1>2, <1>3, <1>4, ChainAssumption DEF IndexPart, Statuses
<1>6. AppliedOnDisk' = AppliedOnDisk
  BY <1>2, <1>3, <1>4 DEF AppliedOnDisk, IndexPart, Statuses, AppliedAgree
<1>7. Genesis \in Known
  BY DEF IndexPart, GenesisStays, AppliedAgree, AppliedOnDisk
<1>8a. AppliedAgree' /\ AppliedClosed' /\ KnownClosed' /\ GenesisStays'
  BY <1>1, <1>5, <1>6, <1>7 DEF IndexPart, AppliedAgree, AppliedClosed, KnownClosed, GenesisStays
<1>8b. AppliedStored'
  <2> SUFFICES ASSUME NEW b \in AppliedOnDisk PROVE index'[b].data /\ diskIndex'[b].data
    BY <1>6 DEF AppliedStored
  <2>1. b \in Known /\ b \in Blocks /\ index[b].data /\ diskIndex[b].data
    BY AppliedKnown DEF IndexPart, AppliedStored, AppliedOnDisk
  <2>2. index'[b].data
    BY <1>1, <2>1
  <2>3. diskIndex'[b].data
    <3>1. CASE b = bad
      BY <1>2, <1>3, <1>4, <2>1, <3>1 DEF IndexPart, Statuses
    <3>2. CASE b # bad
      BY <1>4, <2>1, <3>2 DEF IndexPart, Statuses
    <3> QED
      BY <3>1, <3>2
  <2> QED
    BY <2>2, <2>3
<1> QED
  BY <1>1, <1>5, <1>6, <1>8a, <1>8b DEF Grows, IndexPart

\* A header is inserted above a known block.
LEMMA IndexInserted ==
    ASSUME IndexPart, NEW b \in Blocks, b \notin Known, Parent[b] \in Known,
           index' = [index EXCEPT ![b] = HeaderStatus], UNCHANGED diskIndex
    PROVE  Grows /\ Known' = Known \cup {b}
<1>1. HeaderStatus \in Status /\ HeaderStatus # Unknown /\ ~HeaderStatus.applied /\ ~HeaderStatus.failed
  <2>1. HeaderStatus \in Status /\ ~HeaderStatus.applied /\ ~HeaderStatus.failed
    BY DEF HeaderStatus, Status
  <2> QED
    BY <2>1, ChainAssumption
<1>2. index' \in Statuses /\ index'[b] = HeaderStatus /\ \A c \in Blocks \ {b} : index'[c] = index[c]
  BY <1>1 DEF IndexPart, Statuses
<1>3. Known' = Known \cup {b}
  BY <1>1, <1>2 DEF Known
<1>4. AppliedOnDisk' = AppliedOnDisk /\ b \notin AppliedOnDisk
  BY DEF AppliedOnDisk, IndexPart, AppliedAgree
<1>5. Genesis \in Known
  BY DEF IndexPart, GenesisStays, AppliedAgree, AppliedOnDisk
<1>6. Ancestors[b] \subseteq Known'
  <2>1. b # Genesis
    BY <1>5
  <2> QED
    BY <1>3, <2>1, ParentBelow DEF IndexPart, KnownClosed
<1>7. KnownClosed' /\ GenesisStays'
  BY <1>2, <1>3, <1>4, <1>5, <1>6 DEF IndexPart, KnownClosed, GenesisStays, Known
<1>8. AppliedAgree' /\ AppliedStored' /\ AppliedClosed'
  BY <1>1, <1>2, <1>3, <1>4 DEF IndexPart, AppliedAgree, AppliedStored, AppliedClosed, Known
<1> QED
  BY <1>2, <1>3, <1>4, <1>7, <1>8 DEF Grows, IndexPart
\* A block is applied on top of applied ones.
LEMMA IndexApplied ==
    ASSUME IndexPart, NEW b \in Known, HasData(b), Ancestors[b] \ {b} \subseteq AppliedOnDisk,
           index' = [index EXCEPT ![b].applied = TRUE], WriteBlockIndex(b, index'[b])
    PROVE  Grows /\ Known' = Known /\ AppliedOnDisk' = AppliedOnDisk \cup {b}
<1> DEFINE st == [index[b] EXCEPT !.applied = TRUE]
<1>1. b \in Blocks /\ index[b] \in Status
  BY DEF Known, IndexPart, Statuses
<1>2. st \in Status /\ st.applied /\ st.data /\ (st.failed <=> index[b].failed)
  BY <1>1 DEF Status, HasData
<1>3. st # Unknown
  BY <1>2, ChainAssumption
<1>4. index' = [index EXCEPT ![b] = st] /\ diskIndex' = [diskIndex EXCEPT ![b] = st]
  BY <1>1 DEF WriteBlockIndex, IndexPart, Statuses
<1> HIDE DEF st
<1>5. /\ index' \in Statuses /\ diskIndex' \in Statuses
      /\ index'[b] = st /\ diskIndex'[b] = st
      /\ \A c \in Blocks \ {b} : index'[c] = index[c] /\ diskIndex'[c] = diskIndex[c]
  BY <1>1, <1>2, <1>4 DEF IndexPart, Statuses
<1>6. Known' = Known
  BY <1>1, <1>3, <1>5 DEF Known
<1>7. AppliedOnDisk' = AppliedOnDisk \cup {b}
  BY <1>1, <1>2, <1>3, <1>5 DEF AppliedOnDisk
<1>8. AppliedAgree' /\ AppliedStored'
  <2>1. AppliedAgree'
    BY <1>1, <1>2, <1>5, <1>6, <1>7 DEF IndexPart, AppliedAgree, Known
  <2>2. AppliedStored'
    BY <1>2, <1>5, <1>7, AppliedKnown DEF IndexPart, AppliedStored, Known
  <2> QED
    BY <2>1, <2>2
<1>9. AppliedClosed' /\ KnownClosed'
  BY <1>6, <1>7 DEF IndexPart, AppliedClosed, KnownClosed
<1>10. GenesisStays'
  BY <1>2, <1>5, <1>7, ChainAssumption DEF IndexPart, GenesisStays
<1> QED
  BY <1>5, <1>6, <1>7, <1>8, <1>9, <1>10 DEF Grows, IndexPart

\* A block that was not applied is stored.
LEMMA IndexStored ==
    ASSUME IndexPart, NEW b \in Known, ~AlreadyApplied(b),
           index' = [index EXCEPT ![b].data = TRUE, ![b].applied = FALSE],
           WriteBlockIndex(b, index'[b])
    PROVE  Grows /\ Known' = Known /\ AppliedOnDisk' = AppliedOnDisk
<1> DEFINE st == [[index[b] EXCEPT !.data = TRUE] EXCEPT !.applied = FALSE]
<1>1. b \in Blocks /\ index[b] \in Status
  BY DEF Known, IndexPart, Statuses
<1>2. st \in Status /\ ~st.applied /\ st.data /\ (st.failed <=> index[b].failed)
  BY <1>1 DEF Status
<1>3. st # Unknown
  BY <1>2, ChainAssumption
<1>4. index' = [index EXCEPT ![b] = st] /\ diskIndex' = [diskIndex EXCEPT ![b] = st]
  <2>1. index \in [Blocks -> Status \cup {Unknown}]
    BY DEF IndexPart, Statuses
  <2>2. index' = [index EXCEPT ![b] = st] /\ index'[b] = st
    BY <1>1, <2>1
  <2> QED
    BY <2>2 DEF WriteBlockIndex
<1> HIDE DEF st
<1>5. /\ index' \in Statuses /\ diskIndex' \in Statuses
      /\ index'[b] = st /\ diskIndex'[b] = st
      /\ \A c \in Blocks \ {b} : index'[c] = index[c] /\ diskIndex'[c] = diskIndex[c]
  BY <1>1, <1>2, <1>4 DEF IndexPart, Statuses
<1>6. Known' = Known
  BY <1>1, <1>3, <1>5 DEF Known
<1>7. b \notin AppliedOnDisk
  BY <1>1 DEF IndexPart, AppliedAgree, AppliedStored, AlreadyApplied, HasData
<1>8. AppliedOnDisk' = AppliedOnDisk
  BY <1>1, <1>2, <1>5, <1>7 DEF AppliedOnDisk
<1>9. AppliedAgree' /\ AppliedStored'
  <2>1. AppliedAgree'
    BY <1>1, <1>2, <1>5, <1>6, <1>7, <1>8 DEF IndexPart, AppliedAgree, Known
  <2>2. AppliedStored'
    BY <1>5, <1>7, <1>8, AppliedKnown DEF IndexPart, AppliedStored, Known
  <2> QED
    BY <2>1, <2>2
<1>10. AppliedClosed' /\ KnownClosed'
  BY <1>6, <1>8 DEF IndexPart, AppliedClosed, KnownClosed
<1>11. GenesisStays'
  BY <1>5, <1>7, <1>8, ChainAssumption DEF IndexPart, GenesisStays
<1> QED
  BY <1>5, <1>6, <1>8, <1>9, <1>10, <1>11 DEF Grows, IndexPart

\* A start reads the index from disk.
LEMMA IndexLoaded ==
    ASSUME IndexPart, Restart
    PROVE  /\ IndexPart' /\ Known' = OnDisk /\ AppliedOnDisk' = AppliedOnDisk
           /\ AppliedOnDisk \subseteq OnDisk
           /\ \A b \in OnDisk : index'[b].failed <=> \E a \in Ancestors[b] : diskIndex[a].failed
           /\ \A b \in OnDisk : index'[b].data = diskIndex[b].data
<1> DEFINE failed == {b \in OnDisk : \E a \in Ancestors[b] : diskIndex[a].failed}
<1>1. /\ index' = [b \in Blocks |-> IF b \in failed THEN [diskIndex[b] EXCEPT !.failed = TRUE]
                                    ELSE IF b \in OnDisk THEN diskIndex[b] ELSE Unknown]
      /\ diskIndex' = diskIndex
  BY DEF Restart, FailedAtStart
<1>2. \A b \in OnDisk : b \in Blocks /\ b \in Ancestors[b] /\ diskIndex[b] # Unknown /\ diskIndex[b] \in Status
  BY AncestorFacts DEF OnDisk, IndexPart, Statuses
<1>3. \A b \in OnDisk : /\ index'[b] \in Status
                        /\ index'[b].data = diskIndex[b].data
                        /\ index'[b].applied <=> diskIndex[b].applied
                        /\ index'[b].failed <=> \E a \in Ancestors[b] : diskIndex[a].failed
  <2> SUFFICES ASSUME NEW b \in OnDisk
               PROVE  /\ index'[b] \in Status
                      /\ index'[b].data = diskIndex[b].data
                      /\ index'[b].applied <=> diskIndex[b].applied
                      /\ index'[b].failed <=> \E a \in Ancestors[b] : diskIndex[a].failed
    OBVIOUS
  <2>1. diskIndex[b] \in Status /\ b \in Ancestors[b] /\ b \in Blocks
    BY <1>2
  <2>2. CASE b \in failed
    <3>1. index'[b] = [diskIndex[b] EXCEPT !.failed = TRUE]
      BY <1>1, <2>1, <2>2
    <3> QED
      BY <2>1, <2>2, <3>1 DEF Status
  <2>3. CASE b \notin failed
    <3>1. index'[b] = diskIndex[b]
      BY <1>1, <2>1, <2>3
    <3>2. ~ \E a \in Ancestors[b] : diskIndex[a].failed
      BY <2>3
    <3> QED
      BY <2>1, <3>1, <3>2
  <2> QED
    BY <2>2, <2>3
<1>4. \A b \in Blocks \ OnDisk : index'[b] = Unknown
  BY <1>1
<1>5. index' \in Statuses
  BY <1>1, <1>3, <1>4 DEF Statuses
<1>6. Known' = OnDisk
  BY <1>2, <1>3, <1>4, ChainAssumption DEF Known
<1> HIDE DEF failed
<1>7. AppliedOnDisk' = AppliedOnDisk
  BY <1>1 DEF AppliedOnDisk
<1>8. AppliedOnDisk \subseteq OnDisk
  BY DEF IndexPart, AppliedClosed, AppliedOnDisk, OnDisk
<1>9. AppliedAgree'
  BY <1>2, <1>3, <1>6, <1>7, <1>8 DEF AppliedAgree, AppliedOnDisk
<1>10. AppliedStored'
  BY <1>1, <1>3, <1>7, <1>8 DEF IndexPart, AppliedStored
<1>11. AppliedClosed'
  BY <1>7 DEF IndexPart, AppliedClosed
<1>12. KnownClosed'
  BY <1>6, AncestorFacts DEF KnownClosed, OnDisk
<1>13. GenesisStays'
  <2>1. Genesis \in OnDisk /\ Ancestors[Genesis] = {Genesis}
    BY <1>8, ChainAssumption DEF IndexPart, GenesisStays
  <2> QED
    BY <1>1, <1>3, <1>7, <2>1 DEF IndexPart, GenesisStays
<1> QED
  BY <1>1, <1>3, <1>5, <1>6, <1>7, <1>8, <1>9, <1>10, <1>11, <1>12, <1>13 DEF IndexPart
-----------------------------------------------------------------------------
(* The parts a handler leaves alone *)

LEMMA CandidatesKept ==
    ASSUME CandidatePart, Grows, candidates' \subseteq candidates, UNCHANGED received
    PROVE  CandidatePart'
  BY DEF CandidatePart, CandidatesReceived, Grows

LEMMA TipsKept ==
    ASSUME Grows, headers' \in Known, active' \in Known
    PROVE  TipPart'
  BY DEF TipPart, Grows

LEMMA LedgerKept ==
    ASSUME LedgerPart, Grows, UNCHANGED <<trieBest, ledger, diskTrie>>
    PROVE  LedgerPart'
  BY DEF LedgerPart, LedgerApplied, Grows

LEMMA NoWalkKept ==
    ASSUME WalkPart, pc # "walk", pc' # "walk", UNCHANGED <<oldSet, newSet>>
    PROVE  WalkPart'
  BY DEF WalkPart, WalkShape

LEMMA NoWalkLeft ==
    ASSUME pc' # "walk", NoWalk
    PROVE  WalkPart'
  BY DEF WalkPart, WalkShape, NoWalk

LEMMA RestKept ==
    ASSUME RestPart, UNCHANGED <<sync, unindexed, txIndex, lost, damaged>>
    PROVE  RestPart'
  BY DEF RestPart, sync

-----------------------------------------------------------------------------
(* The ends of the handlers *)

\* A header chain that loses its failed tip keeps the genesis block.
LEMMA WithoutFailedKnown ==
    ASSUME IndexPart, NEW tip \in Known, NEW failed, Genesis \notin failed
    PROVE  /\ WithoutFailed(tip, failed) \in Ancestors[tip] \ failed
           /\ WithoutFailed(tip, failed) \in Known
<1>1. tip \in Blocks /\ Genesis \in Ancestors[tip] /\ Ancestors[tip] \subseteq Blocks
  BY AncestorFacts DEF Known
<1>2. WithoutFailed(tip, failed) \in Ancestors[tip] \ failed
  BY <1>1, HighestExists DEF WithoutFailed
<1> QED
  BY <1>2 DEF IndexPart, KnownClosed

LEMMA GenesisNotFailed == IndexPart => Genesis \notin FailedBlocks /\ Genesis \in Known
  BY AppliedKnown DEF IndexPart, GenesisStays, FailedBlocks, Failed

\* A call of ActivateBestHeader.
LEMMA HeaderCalled ==
    ASSUME ControlPart, Known \subseteq Known', UNCHANGED <<accepting, loading>>,
           NEW caller \in {"chain", "connect", "again"}, pc' = "header", after' = caller
    PROVE  ControlPart'
  BY DEF ControlPart, HandlerShape

\* The return of ActivateBestHeader.
LEMMA HeaderReturned ==
    ASSUME IndexPart, ControlPart, NEW ok \in BOOLEAN, HeaderReturn(ok), UNCHANGED index
    PROVE  Grows /\ Known' = Known /\ ControlPart' /\ pc' # "walk"
<1>1. CASE UNCHANGED diskIndex
  BY <1>1, IndexSame
  DEF HeaderReturn, ControlPart, HandlerShape, GoOn, Finish
<1>2. CASE after \in {"accept", "store"} /\ WriteBlockIndex(accepting, index[accepting])
  <2>1. accepting \in Known
    BY <1>2 DEF ControlPart, HandlerShape
  <2>2. Grows /\ Known' = Known
    BY <1>2, <2>1, IndexWritten
  <2> QED
    BY <1>2, <2>1, <2>2 DEF HeaderReturn, ControlPart, HandlerShape, GoOn, Finish
<1> QED
  BY <1>1, <1>2 DEF HeaderReturn

LEMMA Finished ==
    ASSUME Finish
    PROVE  ControlPart' /\ pc' # "walk"
  BY DEF Finish, ControlPart, HandlerShape
-----------------------------------------------------------------------------
(* Every step keeps IndexInv *)

LEMMA PartsNext ==
    /\ IndexPart' /\ CandidatePart' /\ TipPart' /\ RestPart' /\ LedgerPart' /\ WalkPart' /\ ControlPart'
    => IndexInv'
  BY Parts, PTL

LEMMA IndexInvInit == Init => IndexInv
<1> SUFFICES ASSUME Init PROVE IndexInv
  OBVIOUS
<1> DEFINE st == [data |-> TRUE, failed |-> FALSE, applied |-> TRUE]
<1>1. st \in Status /\ st.data /\ st.applied /\ ~st.failed
  BY DEF Status
<1>2. st # Unknown
  BY <1>1, ChainAssumption
<1>3. /\ index = [b \in Blocks |-> IF b = Genesis THEN st ELSE Unknown] /\ diskIndex = index
      /\ Genesis \in Blocks /\ Ancestors[Genesis] = {Genesis}
  BY ChainAssumption DEF Init
<1> HIDE DEF st
<1>4. Known = {Genesis} /\ AppliedOnDisk = {Genesis} /\ index[Genesis] = st
  BY <1>1, <1>2, <1>3 DEF Known, AppliedOnDisk
<1>5. IndexPart
  BY <1>1, <1>2, <1>3, <1>4
  DEF IndexPart, Statuses, AppliedAgree, AppliedStored, AppliedClosed, KnownClosed, GenesisStays
<1>6. CandidatePart /\ TipPart /\ RestPart
  BY <1>4 DEF Init, CandidatePart, CandidatesReceived, TipPart, RestPart
<1>7. LedgerPart /\ WalkPart /\ ControlPart
  BY <1>3, <1>4
  DEF Init, LedgerPart, LedgerApplied, WalkPart, WalkShape, ControlPart, HandlerShape
<1> QED
  BY <1>5, <1>6, <1>7, Parts

LEMMA KeepNoCandidates == IndexInv /\ NoCandidates => IndexInv'
<1> SUFFICES ASSUME IndexInv, NoCandidates PROVE IndexInv'
  OBVIOUS
<1>1. IndexPart /\ CandidatePart /\ TipPart /\ RestPart /\ LedgerPart /\ WalkPart /\ ControlPart
  BY Parts
<1>2. Grows /\ ControlPart' /\ pc' # "walk"
  BY <1>1, HeaderReturned DEF NoCandidates, tree
<1> QED
  BY <1>1, <1>2, CandidatesKept, TipsKept, LedgerKept, NoWalkKept, RestKept, PartsNext
  DEF NoCandidates, tree, trie, files, walk, TipPart, Grows

LEMMA KeepFindBest == IndexInv /\ FindBest => IndexInv'
<1> SUFFICES ASSUME IndexInv, FindBest PROVE IndexInv'
  OBVIOUS
<1>1. IndexPart /\ CandidatePart /\ TipPart /\ RestPart /\ LedgerPart /\ WalkPart /\ ControlPart
  BY Parts
<1>2. Best \in candidates /\ Best \in Known /\ Best \in Blocks
  BY <1>1, BestExists DEF FindBest, IndexInv, CandidatePart, Known
<1>3. Grows /\ Known' = Known
  <2>1. CASE UNCHANGED index
    BY <1>1, <2>1, IndexSame DEF FindBest
  <2>2. CASE FailedBelow # {} /\ index' = Mark(AboveFailed)
    <3>1. Ancestors[Best] \subseteq Known /\ FailedBelow \in SUBSET Blocks /\ AboveFailed \in SUBSET Known
      BY <1>1, <1>2, AncestorFacts DEF IndexPart, KnownClosed, FailedBelow, AboveFailed
    <3>2. Highest(FailedBelow) \in Blocks
      BY <2>2, <3>1, HighestExists
    <3>3. Genesis \notin AboveFailed
      BY <3>2, ChainAssumption DEF AboveFailed
    <3> QED
      BY <1>1, <2>2, <3>1, <3>3, IndexMarked DEF FindBest
  <2> QED
    BY <2>1, <2>2 DEF FindBest
<1>4. candidates' \subseteq candidates /\ ControlPart' /\ pc' # "walk"
  BY <1>1, <1>3 DEF FindBest, Drop, ControlPart, HandlerShape
<1> QED
  BY <1>1, <1>3, <1>4, CandidatesKept, TipsKept, LedgerKept, NoWalkKept, RestKept, PartsNext
  DEF FindBest, trie, files, walk, TipPart, Grows

\* A tip that is not in a chain is not the genesis block and has its parent in the
\* index.
LEMMA TipParent ==
    ASSUME IndexPart, NEW tip \in Known, NEW b \in Known, ~InChain(b, tip)
    PROVE  tip # Genesis /\ Parent[tip] \in Known
<1>1. tip \in Blocks /\ b \in Blocks /\ tip # Genesis
  BY AncestorFacts DEF Known, InChain
<1>2. Parent[tip] \in Ancestors[tip]
  BY <1>1, ParentBelow, AncestorFacts
<1> QED
  BY <1>1, <1>2 DEF IndexPart, KnownClosed

LEMMA KeepReorgDisconnect == IndexInv /\ ReorgDisconnect => IndexInv'
<1> SUFFICES ASSUME IndexInv, ReorgDisconnect PROVE IndexInv'
  OBVIOUS
<1>1. IndexPart /\ CandidatePart /\ TipPart /\ RestPart /\ LedgerPart /\ WalkPart /\ ControlPart
  BY Parts
<1>2. Parent[active] \in Known
  BY <1>1, TipParent DEF ReorgDisconnect, TipPart
<1>3. Grows /\ Known' = Known /\ ControlPart' /\ pc' # "walk"
  <2>1. CASE CanDisconnect
    <3>1. UNCHANGED <<index, diskIndex, candidates, headers, pc, after, accepting, loading>>
      BY <2>1 DEF ReorgDisconnect, tree, control
    <3>2. Grows /\ Known' = Known
      BY <1>1, <3>1, IndexSame
    <3> QED
      BY <1>1, <3>1, <3>2 DEF ControlPart, HandlerShape, ReorgDisconnect
  <2>2. CASE ~CanDisconnect
    BY <1>1, <2>2, HeaderReturned DEF ReorgDisconnect, tree
  <2> QED
    BY <2>1, <2>2
<1>4. active' \in Known /\ RestPart'
  BY <1>1, <1>2
  DEF ReorgDisconnect, DisconnectTip, EraseTxIndex, TipPart, RestPart, sync, files
<1> QED
  BY <1>1, <1>3, <1>4, CandidatesKept, TipsKept, LedgerKept, NoWalkKept, PartsNext
  DEF ReorgDisconnect, tree, trie, files, walk, TipPart, Grows

LEMMA KeepReorgPop == IndexInv /\ ReorgPop => IndexInv'
<1> SUFFICES ASSUME IndexInv, ReorgPop PROVE IndexInv'
  OBVIOUS
<1>1. IndexPart /\ CandidatePart /\ TipPart /\ RestPart /\ LedgerPart /\ WalkPart /\ ControlPart
  BY Parts
<1>2. Best \in Known
  BY <1>1, BestExists DEF ReorgPop, IndexInv, ControlPart, HandlerShape, CandidatePart
<1>3. Parent[headers] \in Known
  BY <1>1, <1>2, TipParent DEF ReorgPop, TipPart
<1>4. Grows /\ Known' = Known
  BY <1>1, IndexSame DEF ReorgPop, tree
<1>5. ControlPart' /\ pc' # "walk"
  BY <1>1, <1>4 DEF ReorgPop, control, tree, ControlPart, HandlerShape
<1> QED
  BY <1>1, <1>3, <1>4, <1>5, CandidatesKept, TipsKept, LedgerKept, NoWalkKept, RestKept, PartsNext
  DEF ReorgPop, tree, trie, files, walk, TipPart, Grows

LEMMA KeepReorgDone == IndexInv /\ ReorgDone => IndexInv'
<1> SUFFICES ASSUME IndexInv, ReorgDone PROVE IndexInv'
  OBVIOUS
<1>1. IndexPart /\ CandidatePart /\ TipPart /\ RestPart /\ LedgerPart /\ WalkPart /\ ControlPart
  BY Parts
<1>2. Best \in Known
  BY <1>1, BestExists DEF ReorgDone, IndexInv, ControlPart, HandlerShape, CandidatePart
<1>3. Grows /\ ControlPart' /\ pc' # "walk"
  BY <1>1, HeaderReturned DEF ReorgDone, tree
<1> QED
  BY <1>1, <1>2, <1>3, CandidatesKept, TipsKept, LedgerKept, NoWalkKept, RestKept, PartsNext
  DEF ReorgDone, tree, trie, files, walk, TipPart, Grows
LEMMA KeepRestep == IndexInv /\ Restep => IndexInv'
<1> SUFFICES ASSUME IndexInv, Restep PROVE IndexInv'
  OBVIOUS
<1>1. IndexPart /\ CandidatePart /\ TipPart /\ RestPart /\ LedgerPart /\ WalkPart /\ ControlPart
  BY Parts
<1>2. Grows /\ Known' = Known
  BY <1>1, IndexSame DEF Restep, tree
<1>3. headers' \in Known
  BY <1>1, GenesisNotFailed, WithoutFailedKnown DEF Restep, ActivateBestHeader, TipPart
<1>4. ControlPart' /\ pc' # "walk"
  BY <1>1, <1>2, HeaderCalled DEF Restep, ActivateBestHeader
<1> QED
  BY <1>1, <1>2, <1>3, <1>4, CandidatesKept, TipsKept, LedgerKept, NoWalkKept, RestKept, PartsNext
  DEF Restep, tree, trie, files, walk, TipPart, Grows

LEMMA KeepUnwindTip == IndexInv /\ UnwindTip => IndexInv'
<1> SUFFICES ASSUME IndexInv, UnwindTip PROVE IndexInv'
  OBVIOUS
<1>1. IndexPart /\ CandidatePart /\ TipPart /\ RestPart /\ LedgerPart /\ WalkPart /\ ControlPart
  BY Parts
<1>2. Parent[active] \in Known
  BY <1>1, TipParent DEF UnwindTip, TipPart
<1>3. Grows /\ Known' = Known
  BY <1>1, IndexSame DEF UnwindTip, tree
<1>4. ControlPart' /\ pc' # "walk"
  BY <1>1, <1>3 DEF UnwindTip, tree, ControlPart, HandlerShape
<1>5. active' \in Known /\ RestPart'
  BY <1>1, <1>2 DEF UnwindTip, DisconnectTip, EraseTxIndex, TipPart, RestPart, sync, files
<1> QED
  BY <1>1, <1>3, <1>4, <1>5, CandidatesKept, TipsKept, LedgerKept, NoWalkKept, PartsNext
  DEF UnwindTip, tree, trie, files, walk, TipPart, Grows

LEMMA KeepMoves == IndexInv /\ (UnwindDone \/ ConnectDone \/ OrphansDone) => IndexInv'
<1> SUFFICES ASSUME IndexInv, UnwindDone \/ ConnectDone \/ OrphansDone PROVE IndexInv'
  OBVIOUS
<1>1. IndexPart /\ CandidatePart /\ TipPart /\ RestPart /\ LedgerPart /\ WalkPart /\ ControlPart
  BY Parts
<1>2. Grows /\ Known' = Known
  BY <1>1, IndexSame DEF UnwindDone, ConnectDone, OrphansDone, tree
<1>3. ControlPart' /\ pc # "walk" /\ pc' # "walk"
  BY <1>1, <1>2 DEF UnwindDone, ConnectDone, OrphansDone, ControlPart, HandlerShape, InChain
<1> QED
  BY <1>1, <1>2, <1>3, CandidatesKept, TipsKept, LedgerKept, NoWalkKept, RestKept, PartsNext
  DEF UnwindDone, ConnectDone, OrphansDone, tree, trie, files, walk, TipPart, Grows

\* InvalidBlockFound is never called for the genesis block.
LEMMA BlockFailed ==
    ASSUME IndexPart, TipPart, NEW bad \in Known, bad # Genesis, NEW caller, InvalidBlockFound(bad, caller)
    PROVE  /\ Grows /\ Known' = Known /\ AppliedOnDisk' = AppliedOnDisk
           /\ candidates' \subseteq candidates
           /\ headers' \in Known /\ pc' = "header" /\ after' = caller
<1> DEFINE M == {bad} \cup Descendants(bad)
<1>1. headers \in Known /\ Ancestors[headers] \subseteq Known /\ bad \in Blocks
  BY DEF TipPart, IndexPart, KnownClosed, Known
<1>2. M \in SUBSET Known /\ bad \in M
  BY <1>1 DEF Descendants
<1>3. Genesis \notin M
  BY <1>1, ChainAssumption DEF Descendants
<1>4. /\ index' = Mark(M) /\ WriteBlockIndex(bad, [index[bad] EXCEPT !.failed = TRUE])
      /\ candidates' = candidates \ M /\ ActivateBestHeader(caller, FailedBlocks \cup M)
  BY DEF InvalidBlockFound
<1> HIDE DEF M
<1>5. Grows /\ Known' = Known /\ AppliedOnDisk' = AppliedOnDisk
  BY <1>2, <1>3, <1>4, IndexFailed
<1>6. headers' \in Known
  BY <1>1, <1>3, <1>4, GenesisNotFailed, WithoutFailedKnown DEF ActivateBestHeader
<1> QED
  BY <1>4, <1>5, <1>6 DEF ActivateBestHeader

\* The block to be connected is the child of the tip on the header chain.
LEMMA NextBlockFacts ==
    ASSUME headers \in Blocks, active \in Ancestors[headers], active # headers
    PROVE  /\ NextBlock \in Ancestors[headers] /\ NextBlock \in Blocks
           /\ Height[NextBlock] = Height[active] + 1
           /\ NextBlock # Genesis /\ Parent[NextBlock] = active
<1>1. active \in Blocks /\ Height[active] < Height[headers]
  BY AncestorFacts
<1>2. Height[active] \in Nat /\ Height[headers] \in Nat
  BY <1>1, ChainAssumption
<1> DEFINE n == Height[active] + 1
<1>3. n \in Nat /\ n <= Height[headers] /\ n # 0
  BY <1>1, <1>2
<1>4. NextBlock \in Ancestors[headers] /\ Height[NextBlock] = n
  BY <1>3, AtExists DEF NextBlock
<1>5. NextBlock \in Blocks /\ NextBlock # Genesis
  BY <1>3, <1>4, AncestorFacts, ChainAssumption
<1>6. active \in Ancestors[NextBlock] /\ active # NextBlock
  BY <1>2, <1>4, ChainLinear
<1>7. /\ Ancestors[NextBlock] = {NextBlock} \cup Ancestors[Parent[NextBlock]]
      /\ Parent[NextBlock] \in Blocks /\ Height[NextBlock] = Height[Parent[NextBlock]] + 1
      /\ Height[Parent[NextBlock]] \in Nat
  BY <1>5, ParentBelow
<1>8. active \in Ancestors[Parent[NextBlock]]
  BY <1>6, <1>7
<1>9. Height[active] = Height[Parent[NextBlock]]
  BY <1>2, <1>4, <1>7
<1>10. Parent[NextBlock] = active
  BY <1>2, <1>7, <1>8, <1>9, AncestorFacts
<1> QED
  BY <1>4, <1>5, <1>10

LEMMA SyncPointKnown ==
    ASSUME NEW b \in Blocks, syncPoint \in Blocks \cup {NoBlock}
    PROVE  SyncPointAfter(b) \in Blocks \cup {NoBlock}
<1>1. CASE Height[b] > MIN_HISTORY
  <2>1. Height[b] \in Nat /\ MIN_HISTORY \in Nat
    BY ChainAssumption
  <2> DEFINE n == Height[b] - MIN_HISTORY
  <2>2. n \in Nat /\ n <= Height[b]
    BY <1>1, <2>1
  <2>3. At(b, n) \in Blocks
    BY <2>2, AtExists, AncestorFacts
  <2> QED
    BY <2>3 DEF SyncPointAfter
<1>2. CASE ~(Height[b] > MIN_HISTORY)
  BY <1>2 DEF SyncPointAfter
<1> QED
  BY <1>1, <1>2

LEMMA KeepConnectTip == IndexInv /\ ConnectTip => IndexInv'
<1> SUFFICES ASSUME IndexInv, ConnectTip PROVE IndexInv'
  OBVIOUS
<1>1. IndexPart /\ CandidatePart /\ TipPart /\ RestPart /\ LedgerPart /\ WalkPart /\ ControlPart
  BY Parts
<1>2. /\ NextBlock \in Ancestors[headers] /\ NextBlock \in Known /\ NextBlock \in Blocks
      /\ NextBlock # Genesis
  <2>1. headers \in Blocks /\ active \in Ancestors[headers] /\ active # headers
    BY <1>1 DEF ConnectTip, CanConnect, ControlPart, HandlerShape, InChain, TipPart, Known
  <2> QED
    BY <1>1, <2>1, NextBlockFacts DEF TipPart, IndexPart, KnownClosed
<1>3. CASE ConnectRefuses(NextBlock)
  <2>1. InvalidBlockFound(NextBlock, "connect") /\ UNCHANGED <<active, sync, txIndex>>
    BY <1>3 DEF ConnectTip
  <2>2. /\ Grows /\ Known' = Known /\ candidates' \subseteq candidates
        /\ headers' \in Known /\ pc' = "header" /\ after' = "connect"
    BY <1>1, <1>2, <2>1, BlockFailed
  <2>3. ControlPart'
    BY <1>1, <2>2, HeaderCalled DEF ConnectTip
  <2> QED
    BY <1>1, <2>1, <2>2, <2>3, CandidatesKept, TipsKept, LedgerKept, NoWalkKept, RestKept, PartsNext
    DEF ConnectTip, trie, files, walk, TipPart, Grows
<1>4. CASE ~ConnectRefuses(NextBlock)
  <2>1. /\ active' = NextBlock /\ txIndex' = txIndex \cup Txs[NextBlock]
        /\ syncPoint' = SyncPointAfter(NextBlock)
        /\ diskSync' \in {syncPoint', diskSync}
        /\ UNCHANGED <<index, candidates, headers, diskIndex, pc, after>>
    BY <1>4 DEF ConnectTip
  <2>2. Grows /\ Known' = Known
    BY <1>1, <2>1, IndexSame
  <2>3. RestPart'
    BY <1>1, <1>2, <2>1, SyncPointKnown, ChainAssumption DEF RestPart, ConnectTip, files
  <2>4. ControlPart' /\ pc' # "walk"
    BY <1>1, <1>2, <2>1, <2>2 DEF ConnectTip, ControlPart, HandlerShape, InChain
  <2> QED
    BY <1>1, <1>2, <2>1, <2>2, <2>3, <2>4, CandidatesKept, TipsKept, LedgerKept, NoWalkKept, PartsNext
    DEF ConnectTip, trie, files, walk, TipPart, Grows
<1> QED
  BY <1>3, <1>4
LEMMA KeepActivateLedger == IndexInv /\ ActivateLedger => IndexInv'
<1> SUFFICES ASSUME IndexInv, ActivateLedger PROVE IndexInv'
  OBVIOUS
<1>1. IndexPart /\ CandidatePart /\ TipPart /\ RestPart /\ LedgerPart /\ WalkPart /\ ControlPart
  BY Parts
<1>2. Grows /\ Known' = Known /\ AppliedOnDisk' = AppliedOnDisk
  BY <1>1, IndexSame DEF ActivateLedger, tree
<1>3. trieBest \in AppliedOnDisk /\ trieBest \in Known /\ Ancestors[trieBest] \subseteq AppliedOnDisk
  BY <1>1, AppliedKnown DEF LedgerPart, LedgerApplied, IndexPart, AppliedClosed
<1>4. /\ GoOn("walk") /\ oldSet' = Ancestors[trieBest] \ Ancestors[active]
      /\ newSet' = Ancestors[active] \ Ancestors[trieBest] /\ active' = active
  BY <1>3 DEF ActivateLedger
<1>5. /\ Ancestors[trieBest] \subseteq Blocks /\ Ancestors[active] \subseteq Blocks
      /\ Genesis \in Ancestors[trieBest]
  BY <1>1, <1>3, AncestorFacts DEF TipPart, Known
<1>6. WalkPart'
  BY <1>2, <1>3, <1>4, <1>5 DEF WalkPart, WalkShape, GoOn
<1>7. ControlPart'
  BY <1>1, <1>2, <1>4 DEF GoOn, ControlPart, HandlerShape
<1> QED
  BY <1>1, <1>2, <1>6, <1>7, CandidatesKept, TipsKept, LedgerKept, RestKept, PartsNext
  DEF ActivateLedger, tree, trie, files, TipPart, Grows

LEMMA KeepUndoBlock == IndexInv /\ UndoBlock => IndexInv'
<1> SUFFICES ASSUME IndexInv, UndoBlock PROVE IndexInv'
  OBVIOUS
<1>1. IndexPart /\ CandidatePart /\ TipPart /\ RestPart /\ LedgerPart /\ WalkPart /\ ControlPart
  BY Parts
<1> DEFINE b == Highest(oldSet)
<1>2. b \in oldSet /\ b \in Blocks /\ b \in AppliedOnDisk \ Ancestors[active]
  BY <1>1, HighestExists DEF UndoBlock, WalkPart, WalkShape
<1>3. /\ ledger' \in Unapply(b) /\ trieBest' = b /\ oldSet' = oldSet \ {b}
      /\ UNCHANGED <<newSet, pc, after, accepting, loading, active>>
  BY <1>1, <1>2 DEF UndoBlock, IndexPart, AppliedAgree, control
<1> HIDE DEF b
<1>4. b # Genesis
  BY <1>1, <1>2, AncestorFacts DEF TipPart, Known
<1>5. Parent[b] \in AppliedOnDisk
  BY <1>1, <1>2, <1>4, ParentBelow, AncestorFacts DEF IndexPart, AppliedClosed
<1>6. Grows /\ Known' = Known /\ AppliedOnDisk' = AppliedOnDisk
  BY <1>1, IndexSame DEF UndoBlock, tree
<1>7. LedgerPart'
  BY <1>1, <1>2, <1>3, <1>5, <1>6 DEF LedgerPart, LedgerApplied, Unapply, UndoBlock, files
<1>8. WalkPart'
  BY <1>1, <1>3, <1>6 DEF WalkPart, WalkShape, UndoBlock
<1>9. ControlPart'
  BY <1>1, <1>3, <1>6 DEF UndoBlock, ControlPart, HandlerShape
<1> QED
  BY <1>1, <1>6, <1>7, <1>8, <1>9, CandidatesKept, TipsKept, RestKept, PartsNext
  DEF UndoBlock, tree, files, TipPart, Grows

\* The lowest block that has to be applied stands on applied ones.
LEMMA LowestNew ==
    ASSUME IndexPart, TipPart, WalkPart, pc = "walk", newSet # {}
    PROVE  /\ Lowest(newSet) \in newSet /\ Lowest(newSet) \in Known /\ Lowest(newSet) # Genesis
           /\ Lowest(newSet) \in Ancestors[active]
           /\ Ancestors[Lowest(newSet)] \ {Lowest(newSet)} \subseteq AppliedOnDisk
<1> DEFINE b == Lowest(newSet)
<1>1. /\ newSet \in SUBSET Blocks /\ newSet \subseteq Ancestors[active] \ {Genesis}
      /\ Ancestors[active] \subseteq newSet \cup AppliedOnDisk
  BY DEF WalkPart, WalkShape
<1>2. b \in newSet /\ \A c \in newSet : Height[b] <= Height[c]
  BY <1>1, LowestExists
<1> HIDE DEF b
<1>3. active \in Known /\ active \in Blocks /\ Ancestors[active] \subseteq Known
  BY DEF TipPart, IndexPart, KnownClosed, Known
<1>4. b \in Ancestors[active] /\ b \in Known /\ b \in Blocks /\ b # Genesis
  BY <1>1, <1>2, <1>3
<1>5. ASSUME NEW a \in Ancestors[b] \ {b} PROVE a \in AppliedOnDisk
  <2>1. a \in Ancestors[active] /\ a \in Blocks /\ Height[a] < Height[b]
    BY <1>3, <1>4, AncestorFacts
  <2>2. Height[a] \in Nat /\ Height[b] \in Nat
    BY <1>4, <2>1, ChainAssumption
  <2>3. a \notin newSet
    BY <1>2, <2>1, <2>2
  <2> QED
    BY <1>1, <2>1, <2>3
<1>6. Ancestors[b] \ {b} \subseteq AppliedOnDisk
  BY <1>5
<1> QED
  BY <1>2, <1>4, <1>6 DEF b

LEMMA KeepApplyBlock == IndexInv /\ ApplyBlock => IndexInv'
<1> SUFFICES ASSUME IndexInv, ApplyBlock PROVE IndexInv'
  OBVIOUS
<1>1. IndexPart /\ CandidatePart /\ TipPart /\ RestPart /\ LedgerPart /\ WalkPart /\ ControlPart
  BY Parts
<1> DEFINE b == Lowest(newSet)
<1>2. /\ b \in newSet /\ b \in Known /\ b # Genesis
      /\ Ancestors[b] \ {b} \subseteq AppliedOnDisk
  BY <1>1, LowestNew DEF ApplyBlock
<1>3. CASE (Applies(b) \/ Mends(b)) /\ Take(b)
  <2>1. /\ ledger' = b /\ trieBest' = b /\ newSet' = newSet \ {b}
        /\ index' = [index EXCEPT ![b].applied = TRUE] /\ WriteBlockIndex(b, index'[b])
        /\ UNCHANGED <<candidates, headers, oldSet, pc, after, active, accepting, loading>>
    BY <1>3 DEF ApplyBlock, Take
  <2>2. HasData(b)
    BY <1>3 DEF Applies, Mends, Readable
  <2> HIDE DEF b
  <2>3. Grows /\ Known' = Known /\ AppliedOnDisk' = AppliedOnDisk \cup {b}
    BY <1>1, <1>2, <2>1, <2>2, IndexApplied
  <2>4. LedgerPart'
    BY <1>1, <2>1, <2>3 DEF LedgerPart, LedgerApplied, ApplyBlock, files
  <2>5. WalkPart'
    BY <1>1, <2>1, <2>3 DEF WalkPart, WalkShape, ApplyBlock
  <2>6. ControlPart'
    BY <1>1, <2>1, <2>3 DEF ApplyBlock, ControlPart, HandlerShape
  <2> QED
    BY <1>1, <2>1, <2>3, <2>4, <2>5, <2>6, CandidatesKept, TipsKept, RestKept, PartsNext
    DEF ApplyBlock, files, TipPart, Grows
<1>4. CASE Refuse(b)
  <2>1. /\ InvalidBlockFound(b, "again") /\ NoWalk
        /\ trieBest' = trieBest /\ ledger' \in {ledger, Torn}
    BY <1>4 DEF Refuse, AfterRefusal
  <2> HIDE DEF b
  <2>2. /\ Grows /\ Known' = Known /\ candidates' \subseteq candidates
        /\ headers' \in Known /\ pc' = "header" /\ after' = "again"
    BY <1>1, <1>2, <2>1, BlockFailed
  <2>3. ControlPart'
    BY <1>1, <2>2, HeaderCalled DEF ApplyBlock
  <2>4. LedgerPart'
    BY <1>1, <2>1, <2>2 DEF ApplyBlock, files, LedgerPart, LedgerApplied, Grows
  <2> QED
    BY <1>1, <2>1, <2>2, <2>3, <2>4, CandidatesKept, TipsKept, NoWalkLeft, RestKept, PartsNext
    DEF ApplyBlock, files, TipPart, Grows
<1> QED
  BY <1>3, <1>4 DEF ApplyBlock

LEMMA KeepWalkDone == IndexInv /\ WalkDone => IndexInv'
<1> SUFFICES ASSUME IndexInv, WalkDone PROVE IndexInv'
  OBVIOUS
<1>1. IndexPart /\ CandidatePart /\ TipPart /\ RestPart /\ LedgerPart /\ WalkPart /\ ControlPart
  BY Parts
<1>2. Grows /\ Known' = Known /\ AppliedOnDisk' = AppliedOnDisk
  BY <1>1, IndexSame DEF WalkDone, tree
<1>3. ControlPart' /\ pc' # "walk"
  BY Finished DEF WalkDone
<1>4. active \in AppliedOnDisk /\ active \in Blocks
  BY <1>1, AncestorFacts DEF WalkDone, WalkPart, WalkShape, TipPart, Known
<1>5. LedgerPart'
  <2>1. /\ trieBest' = active /\ ledger' = ledger
        /\ diskTrie' = diskTrie \/ diskTrie' = [best |-> active, ledger |-> ledger]
    BY DEF WalkDone
  <2>2. ledger \in AppliedOnDisk \cup {Torn} /\ ledger \in Blocks \cup {Torn}
    BY <1>1 DEF LedgerPart, LedgerApplied, AppliedOnDisk
  <2>3. CASE diskTrie' = diskTrie
    BY <1>1, <1>2, <1>4, <2>1, <2>2, <2>3 DEF LedgerPart, LedgerApplied
  <2>4. CASE diskTrie' = [best |-> active, ledger |-> ledger]
    BY <1>2, <1>4, <2>1, <2>2, <2>4 DEF LedgerPart, LedgerApplied
  <2> QED
    BY <2>1, <2>3, <2>4
<1>6. WalkPart'
  BY <1>3, NoWalkLeft DEF WalkDone, NoWalk, walk
<1> QED
  BY <1>1, <1>2, <1>3, <1>5, <1>6, CandidatesKept, TipsKept, RestKept, PartsNext
  DEF WalkDone, tree, TipPart, Grows
\* A header that is not known is inserted above its parent.
LEMMA HeaderInserted ==
    ASSUME IndexPart, CandidatePart, TipPart, NEW b \in Blocks, b \notin Known, HeaderAccepted(b),
           Insert(b), UNCHANGED diskIndex, headers' = WithoutFailed(headers, FailedBlocks)
    PROVE  Grows /\ CandidatePart' /\ headers' \in Known /\ b \in Known'
<1>1. Grows /\ Known' = Known \cup {b}
  BY IndexInserted DEF HeaderAccepted, Insert
<1>2. CandidatePart'
  <2>1. received' = Append(received, b) /\ candidates' = candidates \cup {b}
    BY DEF Insert
  <2>2. received' \in Seq(Blocks) /\ Range(received) \cup {b} \subseteq Range(received')
    <3>1. received \in Seq(Blocks)
      BY DEF CandidatePart
    <3>2. /\ received' \in Seq(Blocks) /\ Len(received') = Len(received) + 1
          /\ received'[Len(received) + 1] = b
          /\ \A i \in 1 .. Len(received) : received'[i] = received[i]
          /\ DOMAIN received' = 1 .. (Len(received) + 1) /\ DOMAIN received = 1 .. Len(received)
          /\ Len(received) \in Nat
      BY <2>1, <3>1
    <3> QED
      BY <3>2 DEF Range
  <2> QED
    BY <1>1, <2>1, <2>2 DEF CandidatePart, CandidatesReceived
<1>3. headers' \in Known
  BY GenesisNotFailed, WithoutFailedKnown DEF TipPart
<1> QED
  BY <1>1, <1>2, <1>3

LEMMA KeepProcessBlockHeader ==
    ASSUME NEW b \in Blocks
    PROVE  IndexInv /\ ProcessBlockHeader(b) => IndexInv'
<1> SUFFICES ASSUME IndexInv, ProcessBlockHeader(b) PROVE IndexInv'
  OBVIOUS
<1>1. IndexPart /\ CandidatePart /\ TipPart /\ RestPart /\ LedgerPart /\ WalkPart /\ ControlPart
  BY Parts
<1>2. Grows /\ CandidatePart' /\ headers' \in Known /\ b \in Known'
  BY <1>1, HeaderInserted DEF ProcessBlockHeader, ActivateBestHeader
<1>3. ControlPart' /\ pc' # "walk"
  BY <1>1, <1>2, ChainAssumption DEF ProcessBlockHeader, ActivateBestHeader, ControlPart, HandlerShape
<1> QED
  BY <1>1, <1>2, <1>3, TipsKept, LedgerKept, NoWalkKept, RestKept, PartsNext
  DEF ProcessBlockHeader, trie, files, walk, TipPart, Grows

LEMMA BlockAccepted ==
    ASSUME IndexPart, CandidatePart, TipPart, ControlPart, pc \in {"idle", "orphans"},
           NEW b \in Blocks, AcceptBlock(b), UNCHANGED <<diskIndex, loading>>
    PROVE  Grows /\ CandidatePart' /\ headers' \in Known /\ ControlPart' /\ pc' # "walk"
<1>1. CASE b \in Known
  <2>1. UNCHANGED <<index, candidates, received, headers, after>> /\ pc' = "store" /\ accepting' = b
    BY <1>1 DEF AcceptBlock, tree
  <2>2. Grows /\ Known' = Known
    BY <2>1, IndexSame
  <2>3. CandidatePart'
    BY <2>1, <2>2, CandidatesKept
  <2> QED
    BY <1>1, <2>1, <2>2, <2>3, ChainAssumption DEF ControlPart, HandlerShape, TipPart
<1>2. CASE b \notin Known /\ HeaderAccepted(b)
  <2>1. Insert(b) /\ accepting' = b /\ ActivateBestHeader("store", FailedBlocks)
    BY <1>2 DEF AcceptBlock
  <2>2. Grows /\ CandidatePart' /\ headers' \in Known /\ b \in Known'
    BY <1>2, <2>1, HeaderInserted DEF ActivateBestHeader
  <2> QED
    BY <2>1, <2>2, ChainAssumption DEF ActivateBestHeader, ControlPart, HandlerShape
<1>3. CASE b \notin Known /\ ~HeaderAccepted(b)
  <2>1. UNCHANGED <<index, candidates, received, headers, after, accepting>> /\ pc' = "orphans"
    BY <1>3 DEF AcceptBlock, tree
  <2>2. Grows /\ Known' = Known
    BY <2>1, IndexSame
  <2>3. CandidatePart'
    BY <2>1, <2>2, CandidatesKept
  <2> QED
    BY <2>1, <2>2, <2>3 DEF ControlPart, HandlerShape, TipPart
<1> QED
  BY <1>1, <1>2, <1>3

LEMMA KeepProcessBlock ==
    ASSUME NEW b \in Blocks
    PROVE  IndexInv /\ ProcessBlock(b) => IndexInv'
<1> SUFFICES ASSUME IndexInv, ProcessBlock(b) PROVE IndexInv'
  OBVIOUS
<1>1. IndexPart /\ CandidatePart /\ TipPart /\ RestPart /\ LedgerPart /\ WalkPart /\ ControlPart
  BY Parts
<1>2. Grows /\ CandidatePart' /\ headers' \in Known /\ ControlPart' /\ pc' # "walk"
  <2>1. CASE Parent[b] \in Known
    BY <1>1, <2>1, BlockAccepted DEF ProcessBlock
  <2>2. CASE Parent[b] \notin Known
    <3>1. UNCHANGED <<index, diskIndex, candidates, received, headers, pc, after, accepting, loading>>
      BY <2>2 DEF ProcessBlock, tree
    <3>2. Grows /\ Known' = Known
      BY <1>1, <3>1, IndexSame
    <3> QED
      BY <1>1, <3>1, <3>2, CandidatesKept DEF ControlPart, HandlerShape, TipPart, ProcessBlock
  <2> QED
    BY <2>1, <2>2
<1>3. RestPart'
  BY <1>1 DEF ProcessBlock, RestPart, sync, files
<1> QED
  BY <1>1, <1>2, <1>3, TipsKept, LedgerKept, NoWalkKept, PartsNext
  DEF ProcessBlock, trie, files, walk, TipPart, Grows

LEMMA KeepProcessOrphan == IndexInv /\ ProcessOrphan => IndexInv'
<1> SUFFICES ASSUME IndexInv, ProcessOrphan PROVE IndexInv'
  OBVIOUS
<1>1. IndexPart /\ CandidatePart /\ TipPart /\ RestPart /\ LedgerPart /\ WalkPart /\ ControlPart
  BY Parts
<1>2. PICK b \in unindexed : AcceptBlock(b) /\ unindexed' = unindexed \ {b}
  BY DEF ProcessOrphan
<1>3. b \in Blocks /\ RestPart'
  BY <1>1, <1>2 DEF RestPart, ProcessOrphan, sync, files
<1>4. Grows /\ CandidatePart' /\ headers' \in Known /\ ControlPart' /\ pc' # "walk"
  BY <1>1, <1>2, <1>3, BlockAccepted DEF ProcessOrphan
<1> QED
  BY <1>1, <1>3, <1>4, TipsKept, LedgerKept, NoWalkKept, PartsNext
  DEF ProcessOrphan, trie, files, walk, TipPart, Grows

LEMMA KeepStoreBlock == IndexInv /\ StoreBlock => IndexInv'
<1> SUFFICES ASSUME IndexInv, StoreBlock PROVE IndexInv'
  OBVIOUS
<1>1. IndexPart /\ CandidatePart /\ TipPart /\ RestPart /\ LedgerPart /\ WalkPart /\ ControlPart
  BY Parts
<1>2. accepting \in Known
  BY <1>1 DEF StoreBlock, ControlPart, HandlerShape
<1>3. Grows /\ headers' \in Known /\ ControlPart' /\ pc' # "walk" /\ lost' \subseteq lost
  <2>1. CASE AlreadyApplied(accepting)
    <3>1. Finish /\ UNCHANGED <<index, headers, diskIndex, lost>>
      BY <2>1 DEF StoreBlock
    <3> QED
      BY <1>1, <3>1, IndexSame, Finished DEF TipPart
  <2>2. CASE ~AlreadyApplied(accepting)
    <3>1. /\ index' = [index EXCEPT ![accepting].data = TRUE, ![accepting].applied = FALSE]
          /\ WriteBlockIndex(accepting, index'[accepting]) /\ lost' = lost \ {accepting}
          /\ ActivateBestHeader("chain", FailedBlocks) /\ UNCHANGED <<accepting, loading>>
      BY <2>2 DEF StoreBlock
    <3>2. Grows /\ Known' = Known
      BY <1>1, <1>2, <2>2, <3>1, IndexStored
    <3>3. headers' \in Known
      BY <1>1, <3>1, GenesisNotFailed, WithoutFailedKnown DEF ActivateBestHeader, TipPart
    <3>4. ControlPart' /\ pc' # "walk"
      BY <1>1, <3>1, <3>2, HeaderCalled DEF ActivateBestHeader
    <3> QED
      BY <3>1, <3>2, <3>3, <3>4
  <2> QED
    BY <2>1, <2>2
<1>4. RestPart'
  BY <1>1, <1>3 DEF StoreBlock, RestPart, sync
<1> QED
  BY <1>1, <1>3, <1>4, CandidatesKept, TipsKept, LedgerKept, NoWalkKept, PartsNext
  DEF StoreBlock, trie, walk, TipPart, Grows

LEMMA KeepLoseBlock ==
    ASSUME NEW b \in Fragile
    PROVE  IndexInv /\ LoseBlock(b) => IndexInv'
<1> SUFFICES ASSUME IndexInv, LoseBlock(b) PROVE IndexInv'
  OBVIOUS
<1>1. IndexPart /\ CandidatePart /\ TipPart /\ RestPart /\ LedgerPart /\ WalkPart /\ ControlPart
  BY Parts
<1>2. Grows /\ Known' = Known /\ AppliedOnDisk' = AppliedOnDisk
  BY <1>1, IndexSame DEF LoseBlock, tree
<1>3. UNCHANGED <<index, candidates, headers, active, pc, after, accepting, loading, oldSet, newSet>>
  BY DEF LoseBlock, tree, control, walk
<1>4. ControlPart' /\ WalkPart'
  BY <1>1, <1>2, <1>3 DEF ControlPart, HandlerShape, WalkPart, WalkShape
<1>5. RestPart'
  BY <1>1 DEF LoseBlock, RestPart, sync
<1> QED
  BY <1>1, <1>2, <1>3, <1>4, <1>5, CandidatesKept, TipsKept, LedgerKept, PartsNext
  DEF LoseBlock, tree, trie, TipPart, Grows

\* The order in which a start finds the blocks has each of them.
LEMMA LoadOrderHas ==
    ASSUME NEW S \in SUBSET Blocks, NEW r \in LoadOrders(S)
    PROVE  r \in Seq(Blocks) /\ Range(r) = S
<1>1. Cardinality(S) \in Nat
  BY ChainAssumption, FS_Subset, FS_CardinalityType
<1> DEFINE some == SetToSeq(S)
<1>2. PICK p \in Permutations(S) : r = [i \in 1 .. Cardinality(S) |-> p[some[i]]]
  BY DEF LoadOrders
<1>3. Range(r) = S
  BY DEF LoadOrders
<1>4. \A i \in DOMAIN r : r[i] \in Blocks
  BY <1>3 DEF Range
<1> HIDE DEF some
<1>5. r \in [1 .. Cardinality(S) -> Blocks]
  BY <1>2, <1>4
<1> QED
  BY <1>1, <1>3, <1>5

LEMMA KeepRestart == IndexInv /\ Restart => IndexInv'
<1> SUFFICES ASSUME IndexInv, Restart PROVE IndexInv'
  OBVIOUS
<1>1. IndexPart /\ CandidatePart /\ TipPart /\ RestPart /\ LedgerPart /\ WalkPart /\ ControlPart
  BY Parts
<1>2. /\ IndexPart' /\ Known' = OnDisk /\ AppliedOnDisk' = AppliedOnDisk
      /\ AppliedOnDisk \subseteq OnDisk
  BY <1>1, IndexLoaded
<1>3. CandidatePart'
  <2>1. candidates' \subseteq OnDisk /\ received' \in LoadOrders(candidates') /\ OnDisk \subseteq Blocks
    BY DEF Restart, FailedAtStart, OnDisk
  <2>2. received' \in Seq(Blocks) /\ Range(received') = candidates'
    BY <2>1, LoadOrderHas
  <2> QED
    BY <1>2, <2>1, <2>2 DEF CandidatePart, CandidatesReceived
<1>4. TipPart'
  BY <1>1, <1>2 DEF Restart, TipPart, IndexPart, GenesisStays
<1>5. RestPart'
  BY <1>1, ChainAssumption DEF Restart, RestPart, files
<1>6. LedgerPart'
  BY <1>1, <1>2 DEF Restart, LedgerPart, LedgerApplied, files
<1>7. ControlPart' /\ WalkPart'
  BY NoWalkLeft DEF Restart, ControlPart, HandlerShape
<1> QED
  BY <1>2, <1>3, <1>4, <1>5, <1>6, <1>7, PartsNext

LEMMA KeepLoaded == IndexInv /\ Loaded => IndexInv'
<1> SUFFICES ASSUME IndexInv, Loaded PROVE IndexInv'
  OBVIOUS
<1>1. IndexPart /\ CandidatePart /\ TipPart /\ RestPart /\ LedgerPart /\ WalkPart /\ ControlPart
  BY Parts
<1>2. Grows /\ Known' = Known
  BY <1>1, IndexSame DEF Loaded, tree
<1>3. headers' \in Known
  BY <1>1, GenesisNotFailed, WithoutFailedKnown DEF Loaded, ActivateBestHeader, TipPart
<1>4. StartPoint \in Known
  <2>1. CASE Height[headers] > MIN_HISTORY
    <3> DEFINE n == Height[headers] - START_BACK
    <3>1. headers \in Blocks /\ Ancestors[headers] \subseteq Known
      BY <1>1 DEF TipPart, IndexPart, KnownClosed, Known
    <3>2. Height[headers] \in Nat /\ MIN_HISTORY \in Nat /\ START_BACK \in 0..(MIN_HISTORY - 1)
      BY <3>1, ChainAssumption
    <3>3. n \in Nat /\ n <= Height[headers]
      BY <2>1, <3>2
    <3>4. At(headers, n) \in Known
      BY <3>1, <3>3, AtExists
    <3> QED
      BY <1>1, <3>4 DEF StartPoint, TipPart
  <2>2. CASE ~(Height[headers] > MIN_HISTORY)
    BY <1>1, <2>2 DEF StartPoint, TipPart
  <2> QED
    BY <2>1, <2>2
<1>5. ControlPart' /\ pc' # "walk"
  BY <1>1, <1>2, HeaderCalled DEF Loaded, ActivateBestHeader
<1>6. RestPart'
  BY <1>1 DEF Loaded, RestPart, files, Known
<1> QED
  BY <1>1, <1>2, <1>3, <1>4, <1>5, <1>6, CandidatesKept, TipsKept, LedgerKept, NoWalkKept, PartsNext
  DEF Loaded, tree, trie, files, walk, TipPart, Grows

LEMMA IndexInvNext == IndexInv /\ [Next]_vars => IndexInv'
<1> SUFFICES ASSUME IndexInv, [Next]_vars PROVE IndexInv'
  OBVIOUS
<1>1. CASE Step
  BY <1>1, KeepNoCandidates, KeepFindBest, KeepReorgDisconnect, KeepReorgPop, KeepReorgDone, KeepRestep,
     KeepUnwindTip, KeepMoves, KeepConnectTip, KeepActivateLedger, KeepUndoBlock, KeepApplyBlock,
     KeepWalkDone, KeepStoreBlock, KeepProcessOrphan, KeepLoaded DEF Step
<1>2. CASE \E b \in Blocks \ {Genesis} : ProcessBlockHeader(b) \/ ProcessBlock(b)
  BY <1>2, KeepProcessBlockHeader, KeepProcessBlock
<1>3. CASE \E b \in Fragile : LoseBlock(b)
  BY <1>3, KeepLoseBlock
<1>4. CASE Restart
  BY <1>4, KeepRestart
<1>5. CASE UNCHANGED vars
  <2>1. IndexPart /\ CandidatePart /\ TipPart /\ RestPart /\ LedgerPart /\ WalkPart /\ ControlPart
    BY Parts
  <2>2. Grows /\ Known' = Known /\ AppliedOnDisk' = AppliedOnDisk
    BY <1>5, <2>1, IndexSame DEF vars, tree
  <2>3. ControlPart' /\ WalkPart'
    BY <1>5, <2>1, <2>2
    DEF vars, tree, control, walk, ControlPart, HandlerShape, WalkPart, WalkShape
  <2> QED
    BY <1>5, <2>1, <2>2, <2>3, CandidatesKept, TipsKept, LedgerKept, RestKept, PartsNext
    DEF vars, tree, trie, files, TipPart, Grows
<1> QED
  BY <1>1, <1>2, <1>3, <1>4, <1>5 DEF Next
-----------------------------------------------------------------------------
(* Theorems *)

\* The index, its copy on disk, the candidates, the tips, the ledger and the walk
\* agree at every point of every handler of main.cpp and across every restart.
THEOREM IndexInvAlways == Spec => []IndexInv
  BY IndexInvInit, IndexInvNext, PTL DEF Spec

\* No handler of main.cpp leaves the types of the state: in particular the tips of
\* both chains, the candidates and the block of the ledger are always in
\* mapBlockIndex, however blocks arrive, fail, get lost and are loaded again.
THEOREM TypeCorrect == Spec => []TypeOK
<1>1. IndexInv => TypeOK
  BY DEF IndexInv
<1> QED
  BY <1>1, IndexInvAlways, PTL

\* At whatever point the process dies, the block of trie.dat and all below it are
\* in the block index on disk with their undo data, so that Activate can leave the
\* block again: InvalidBlockFound and WriteBlockPosition never take an undo record
\* away, and Flush comes after the index was written.
THEOREM SnapshotAlwaysIndexed == Spec => []SnapshotIndexed
<1>1. IndexInv => SnapshotIndexed
  BY DEF IndexInv, LedgerApplied, AppliedClosed, AppliedOnDisk, SnapshotIndexed
<1> QED
  BY <1>1, IndexInvAlways, PTL

\* TrieView::Activate never gives up for lack of undo data.
UndoDataThere == pc = "walk" /\ oldSet # {} => index[Highest(oldSet)].applied

\* The blocks that Activate has to leave were all applied before and still have the
\* undo data that Apply wrote: the early return of the unwinding loop is never taken.
THEOREM UndoDataAlwaysThere == Spec => []UndoDataThere
<1>1. IndexInv => UndoDataThere
  <2> SUFFICES ASSUME IndexInv, pc = "walk", oldSet # {} PROVE index[Highest(oldSet)].applied
    BY DEF UndoDataThere
  <2>1. IndexPart /\ WalkPart
    BY Parts
  <2>2. Highest(oldSet) \in AppliedOnDisk
    BY <2>1, HighestExists DEF WalkPart, WalkShape
  <2> QED
    BY <2>1, <2>2 DEF IndexPart, AppliedAgree, AppliedOnDisk
<1> QED
  BY <1>1, IndexInvAlways, PTL
-----------------------------------------------------------------------------
(* The search for the best header *)

\* Every block has more work than the genesis block.
LEMMA GenesisLeast ==
    ASSUME NEW b \in Blocks, b # Genesis
    PROVE  Work[Genesis] < Work[b] /\ Work[b] \in Nat /\ Work[Genesis] \in Nat
<1> DEFINE S == {c \in Blocks : c # Genesis /\ ~(Work[Genesis] < Work[c])}
<1>1. \A c \in Blocks : Work[c] \in Nat /\ Height[c] \in Nat
  BY ChainAssumption
<1>2. S = {}
  <2> SUFFICES ASSUME S # {} PROVE FALSE
    OBVIOUS
  <2> DEFINE c == Lowest(S)
  <2>1. c \in S /\ \A d \in S : Height[c] <= Height[d]
    <3>1. S \in SUBSET Blocks
      OBVIOUS
    <3> HIDE DEF S
    <3> QED
      BY <3>1, LowestExists
  <2> HIDE DEF c
  <2>2. c \in Blocks /\ c # Genesis /\ ~(Work[Genesis] < Work[c])
    BY <2>1
  <2>3. Parent[c] \in Blocks /\ Height[c] = Height[Parent[c]] + 1 /\ Work[c] > Work[Parent[c]]
    BY <2>2, ChainAssumption
  <2>4. Parent[c] \notin S
    BY <1>1, <2>1, <2>2, <2>3
  <2>5. Parent[c] = Genesis \/ Work[Genesis] < Work[Parent[c]]
    BY <2>3, <2>4
  <2>6. Work[c] \in Nat /\ Work[Parent[c]] \in Nat /\ Work[Genesis] \in Nat
    BY <1>1, <2>2, <2>3, ChainAssumption
  <2> QED
    BY <2>2, <2>3, <2>5, <2>6
<1> QED
  BY <1>1, <1>2, ChainAssumption

\* A step that leaves index and candidates alone.
LEMMA SearchSame ==
    ASSUME UNCHANGED <<index, candidates>>
    PROVE  /\ Known' = Known /\ FailedBlocks' = FailedBlocks
           /\ CandidatesComplete => CandidatesComplete'
  BY DEF Known, FailedBlocks, Failed, CandidatesComplete

LEMMA BestSame ==
    ASSUME UNCHANGED <<candidates, received>>
    PROVE  Best' = Best
  BY DEF Best, Better, Position

\* Marked blocks are no candidates.
LEMMA SearchMarked ==
    ASSUME IndexPart, CandidatesComplete, NEW M \in SUBSET Known, index' = Mark(M),
           candidates' = candidates \ M
    PROVE  Known' = Known /\ FailedBlocks' = FailedBlocks \cup M /\ CandidatesComplete'
<1>1. Known' = Known /\ \A b \in Known : index'[b].failed <=> index[b].failed \/ b \in M
  BY MarkFacts
<1>2. FailedBlocks' = FailedBlocks \cup M
  BY <1>1 DEF FailedBlocks, Failed
<1> QED
  BY <1>1, <1>2 DEF CandidatesComplete

\* To store or apply a block leaves the failed blocks as they are.
LEMMA EntryStored ==
    ASSUME IndexPart, NEW b \in Known,
           index' = [index EXCEPT ![b].data = TRUE, ![b].applied = FALSE]
    PROVE  /\ Known' = Known /\ index'[b].data
           /\ \A c \in Known : index'[c].failed <=> index[c].failed
           /\ \A c \in Known \ {b} : index'[c] = index[c]
<1> DEFINE st == [[index[b] EXCEPT !.data = TRUE] EXCEPT !.applied = FALSE]
<1>1. b \in Blocks /\ index[b] \in Status /\ index \in [Blocks -> Status \cup {Unknown}]
  BY DEF Known, IndexPart, Statuses
<1>2. st \in Status /\ st.data /\ (st.failed <=> index[b].failed)
  BY <1>1 DEF Status
<1>3. st # Unknown
  BY <1>2, ChainAssumption
<1>4. index'[b] = st /\ \A c \in Blocks \ {b} : index'[c] = index[c]
  BY <1>1
<1> HIDE DEF st
<1> QED
  BY <1>1, <1>2, <1>3, <1>4 DEF Known

LEMMA EntryApplied ==
    ASSUME IndexPart, NEW b \in Known, index' = [index EXCEPT ![b].applied = TRUE]
    PROVE  /\ Known' = Known
           /\ \A c \in Known : /\ index'[c].failed <=> index[c].failed
                               /\ index'[c].data <=> index[c].data
<1> DEFINE st == [index[b] EXCEPT !.applied = TRUE]
<1>1. b \in Blocks /\ index[b] \in Status /\ index \in [Blocks -> Status \cup {Unknown}]
  BY DEF Known, IndexPart, Statuses
<1>2. st \in Status /\ (st.data <=> index[b].data) /\ (st.failed <=> index[b].failed)
  BY <1>1 DEF Status
<1>3. st # Unknown
  BY <1>2, ChainAssumption
<1>4. index'[b] = st /\ \A c \in Blocks \ {b} : index'[c] = index[c]
  BY <1>1
<1> HIDE DEF st
<1> QED
  BY <1>1, <1>2, <1>3, <1>4 DEF Known

\* A header begins without data and without failure.
LEMMA EntryInserted ==
    ASSUME IndexPart, NEW b \in Blocks, b \notin Known, index' = [index EXCEPT ![b] = HeaderStatus]
    PROVE  /\ Known' = Known \cup {b} /\ ~index'[b].failed /\ ~index'[b].data
           /\ \A c \in Known : index'[c] = index[c]
<1>1. HeaderStatus \in Status /\ ~HeaderStatus.failed /\ ~HeaderStatus.data
  BY DEF HeaderStatus, Status
<1>2. HeaderStatus # Unknown
  BY <1>1, ChainAssumption
<1>3. index'[b] = HeaderStatus /\ \A c \in Blocks \ {b} : index'[c] = index[c]
  BY DEF IndexPart, Statuses
<1> QED
  BY <1>1, <1>2, <1>3 DEF Known

LEMMA SearchFailedSame ==
    ASSUME Known' = Known, candidates' = candidates, CandidatesComplete,
           \A c \in Known : index'[c].failed <=> index[c].failed
    PROVE  FailedBlocks' = FailedBlocks /\ CandidatesComplete'
<1>1. FailedBlocks' = FailedBlocks
  BY DEF FailedBlocks, Failed
<1> QED
  BY <1>1 DEF CandidatesComplete

LEMMA SearchInserted ==
    ASSUME IndexPart, CandidatesComplete, NEW b \in Blocks, b \notin Known, Insert(b)
    PROVE  FailedBlocks' = FailedBlocks /\ CandidatesComplete' /\ Known' = Known \cup {b}
<1>1. /\ Known' = Known \cup {b} /\ ~index'[b].failed
      /\ \A c \in Known : index'[c] = index[c]
  BY EntryInserted DEF Insert
<1>2. FailedBlocks' = FailedBlocks
  BY <1>1 DEF FailedBlocks, Failed
<1> QED
  BY <1>1, <1>2 DEF CandidatesComplete, Insert

\* ActivateBestHeader drops a failed tip.
LEMMA SearchCalled ==
    ASSUME IndexPart, headers \in Known, CandidatesComplete', Known \subseteq Known',
           NEW failed, Genesis \notin failed, FailedBlocks' \subseteq failed,
           headers' = WithoutFailed(headers, failed), pc' = "header"
    PROVE  SearchInv' /\ ~Failed(headers)'
<1>1. headers' \in Known /\ headers' \notin failed
  BY WithoutFailedKnown
<1>2. ~Failed(headers)'
  BY <1>1 DEF FailedBlocks
<1> QED
  BY <1>2 DEF SearchInv

\* InvalidBlockFound.
LEMMA SearchFailed ==
    ASSUME IndexPart, TipPart, CandidatesComplete, NEW bad \in Known, bad # Genesis, NEW caller,
           InvalidBlockFound(bad, caller)
    PROVE  SearchInv' /\ ~Failed(headers)' /\ FailedBlocks' = FailedBlocks \cup {bad} \cup Descendants(bad)
<1> DEFINE M == {bad} \cup Descendants(bad)
<1>1. headers \in Known /\ Ancestors[headers] \subseteq Known /\ bad \in Blocks
  BY DEF TipPart, IndexPart, KnownClosed, Known
<1>2. M \in SUBSET Known
  BY <1>1 DEF Descendants
<1>3. Genesis \notin M
  BY <1>1, ChainAssumption DEF Descendants
<1>4. index' = Mark(M) /\ candidates' = candidates \ M /\ ActivateBestHeader(caller, FailedBlocks \cup M)
  BY DEF InvalidBlockFound
<1> HIDE DEF M
<1>5. Known' = Known /\ FailedBlocks' = FailedBlocks \cup M /\ CandidatesComplete'
  BY <1>2, <1>4, SearchMarked
<1>6. Genesis \notin FailedBlocks \cup M
  BY <1>3, GenesisNotFailed
<1>7. SearchInv' /\ ~Failed(headers)'
  BY <1>1, <1>4, <1>5, <1>6, SearchCalled DEF ActivateBestHeader
<1> QED
  BY <1>5, <1>7 DEF M

LEMMA SearchInit == Init => SearchInv
<1> SUFFICES ASSUME Init PROVE SearchInv
  OBVIOUS
<1>1. Known \subseteq {Genesis}
  BY DEF Init, Known
<1> QED
  BY <1>1 DEF Init, SearchInv, CandidatesComplete

\* What a start puts among the candidates.
LEMMA SearchRestart == IndexInv /\ Restart => SearchInv'
<1> SUFFICES ASSUME IndexInv, Restart PROVE SearchInv'
  OBVIOUS
<1>1. IndexPart
  BY Parts
<1>2. /\ IndexPart' /\ Known' = OnDisk
      /\ \A b \in OnDisk : index'[b].failed <=> \E a \in Ancestors[b] : diskIndex[a].failed
  BY <1>1, IndexLoaded
<1>3. candidates' = OnDisk \ {b \in OnDisk : \E a \in Ancestors[b] : diskIndex[a].failed}
  BY DEF Restart, FailedAtStart
<1>4. CandidatesComplete'
  BY <1>2, <1>3 DEF CandidatesComplete, FailedBlocks, Failed
<1>5. headers' = Genesis /\ pc' = "header" /\ ~index'[Genesis].failed
  BY <1>2 DEF Restart, IndexPart, GenesisStays
<1> QED
  BY <1>4, <1>5 DEF SearchInv, Failed

\* The candidate is better than the tip, or is the tip.
LEMMA TipIsTested == IndexInv /\ SearchInv => OnlyTipIsTested
<1> SUFFICES ASSUME IndexInv, SearchInv, pc = "header", candidates # {}, ~Failed(Best), ~Improves
             PROVE  Best = headers /\ FailedBelow = {} /\ ~ForkFailed
  BY DEF OnlyTipIsTested
<1>1. /\ Best \in candidates /\ \A c \in candidates \ {Best} : Better(Best, c)
      /\ Best \in Blocks
  BY BestExists DEF IndexInv, TypeOK, Known
<1>2. headers \in Known /\ headers \in Blocks /\ ~Failed(headers)
  BY DEF IndexInv, TypeOK, Known, SearchInv
<1>3. Best = headers
  <2> SUFFICES ASSUME Best # headers PROVE FALSE
    OBVIOUS
  <2>1. CASE headers = Genesis
    <3>1. Work[Best] > Work[headers]
      BY <1>1, <2>1, GenesisLeast
    <3> QED
      BY <3>1 DEF Improves, Better
  <2>2. CASE headers # Genesis
    <3>1. headers \in candidates
      BY <1>2, <2>2 DEF SearchInv, CandidatesComplete, FailedBlocks
    <3> QED
      BY <1>1, <3>1 DEF Improves
  <2> QED
    BY <2>1, <2>2
<1>4. FailedBelow = {}
  BY <1>3 DEF FailedBelow, InChain
<1>5. Highest(Ancestors[Best] \cap Ancestors[headers]) = headers
  <2> DEFINE S == Ancestors[Best] \cap Ancestors[headers]
             h == Highest(S)
  <2>1. S = Ancestors[headers] /\ S \in SUBSET Blocks /\ headers \in S
    BY <1>2, <1>3, AncestorFacts
  <2>2. h \in S /\ Height[headers] <= Height[h]
    <3> HIDE DEF S
    <3> QED
      BY <2>1, HighestExists
  <2>3. Height[headers] \in Nat /\ Height[h] \in Nat
    BY <1>2, <2>1, <2>2, ChainAssumption
  <2> HIDE DEF h
  <2>4. h = headers
    BY <1>2, <2>1, <2>2, <2>3, AncestorFacts
  <2> QED
    BY <2>4 DEF h
<1> QED
  BY <1>2, <1>3, <1>4, <1>5 DEF ForkFailed
\* The search drops a failed candidate or ends.
LEMMA SearchFound ==
    ASSUME IndexInv, SearchInv, FindBest
    PROVE  /\ SearchInv' /\ UNCHANGED <<index, headers>> /\ pc' # "hung"
           /\ (candidates' = candidates \ {Best}) \/ (candidates' = candidates /\ pc' = "reorg")
<1>1. OnlyTipIsTested
  BY TipIsTested
<1>2. CASE Failed(Best)
  <2>1. /\ candidates' = candidates \ {Best} /\ UNCHANGED <<index, headers, pc>> /\ pc = "header"
    BY <1>2 DEF FindBest, Drop
  <2>2. Best \in Known
    BY BestExists DEF FindBest, IndexInv, TypeOK
  <2>3. Known' = Known /\ FailedBlocks' = FailedBlocks /\ Best \in FailedBlocks
    BY <1>2, <2>1, <2>2 DEF Known, FailedBlocks, Failed
  <2>4. CandidatesComplete'
    BY <2>1, <2>3 DEF SearchInv, CandidatesComplete
  <2> QED
    BY <2>1, <2>4 DEF SearchInv, Failed
<1>3. CASE ~Failed(Best)
  <2>1. ~(~Improves /\ FailedBelow # {}) /\ ~(~Improves /\ ForkFailed)
    BY <1>1, <1>3 DEF OnlyTipIsTested, FindBest
  <2>2. pc' = "reorg" /\ UNCHANGED <<index, candidates, received, headers>>
    BY <1>3, <2>1 DEF FindBest
  <2>3. Best' = Best
    BY <2>2, BestSame
  <2>4. CandidatesComplete'
    BY <2>2, SearchSame DEF SearchInv
  <2> QED
    BY <1>3, <2>2, <2>3, <2>4 DEF SearchInv, Failed
<1> QED
  BY <1>2, <1>3

\* Steps that leave the index, the candidates and the order of arrival alone.
LEMMA SearchKept ==
    ASSUME SearchInv, UNCHANGED <<index, candidates, received>>, pc' # "header",
           pc' = "reorg" => pc = "reorg"
    PROVE  SearchInv'
<1>1. CandidatesComplete'
  BY SearchSame DEF SearchInv
<1>2. Best' = Best
  BY BestSame
<1> QED
  BY <1>1, <1>2 DEF SearchInv, Failed

LEMMA SearchAgain ==
    ASSUME IndexInv, SearchInv, UNCHANGED <<index, candidates>>, NEW caller,
           ActivateBestHeader(caller, FailedBlocks)
    PROVE  SearchInv' /\ ~Failed(headers)'
<1>1. IndexPart /\ headers \in Known
  BY Parts DEF TipPart
<1>2. CandidatesComplete' /\ Known' = Known /\ FailedBlocks' = FailedBlocks
  BY SearchSame DEF SearchInv
<1> QED
  BY <1>1, <1>2, GenesisNotFailed, SearchCalled DEF ActivateBestHeader

LEMMA SearchAccepted ==
    ASSUME IndexInv, SearchInv, NEW b \in Blocks, AcceptBlock(b), pc \in {"idle", "orphans"}
    PROVE  SearchInv'
<1>1. IndexPart /\ headers \in Known
  BY Parts DEF TipPart
<1>2. CASE b \notin Known /\ HeaderAccepted(b)
  <2>1. Insert(b) /\ ActivateBestHeader("store", FailedBlocks)
    BY <1>2 DEF AcceptBlock
  <2>2. FailedBlocks' = FailedBlocks /\ CandidatesComplete' /\ Known' = Known \cup {b}
    BY <1>1, <1>2, <2>1, SearchInserted DEF SearchInv
  <2> QED
    BY <1>1, <2>1, <2>2, GenesisNotFailed, SearchCalled DEF ActivateBestHeader
<1>3. CASE ~(b \notin Known /\ HeaderAccepted(b))
  <2>1. UNCHANGED <<index, candidates, received>> /\ pc' \in {"store", "orphans"}
    BY <1>3 DEF AcceptBlock, tree
  <2> QED
    BY <2>1, SearchKept
<1> QED
  BY <1>2, <1>3

LEMMA SearchNext == IndexInv /\ SearchInv /\ [Next]_vars => SearchInv'
<1> SUFFICES ASSUME IndexInv, SearchInv, [Next]_vars PROVE SearchInv'
  OBVIOUS
<1>0. IndexPart /\ TipPart /\ WalkPart /\ ControlPart /\ CandidatesComplete /\ headers \in Known
  BY Parts DEF SearchInv, TipPart
<1>1. CASE NoCandidates \/ ReorgDone
  BY <1>1, SearchKept DEF NoCandidates, ReorgDone, tree, HeaderReturn, GoOn, Finish
<1>2. CASE ReorgDisconnect
  <2>1. UNCHANGED <<index, candidates, received>> /\ pc = "reorg" /\ pc' # "header"
    BY <1>2 DEF ReorgDisconnect, tree, control, HeaderReturn, GoOn, Finish
  <2> QED
    BY <2>1, SearchKept
<1>3. CASE FindBest
  BY <1>3, SearchFound
<1>4. CASE ReorgPop \/ UnwindTip \/ UnwindDone \/ ConnectDone \/ OrphansDone
  BY <1>4, SearchKept DEF ReorgPop, UnwindTip, UnwindDone, ConnectDone, OrphansDone, tree, control
<1>5. CASE Restep \/ Loaded
  BY <1>5, SearchAgain DEF Restep, Loaded, tree
<1>6. CASE ConnectTip
  <2>1. headers \in Blocks /\ active \in Ancestors[headers] /\ active # headers
    BY <1>0, <1>6 DEF ConnectTip, CanConnect, ControlPart, HandlerShape, InChain, TipPart, Known
  <2>2. NextBlock \in Known /\ NextBlock # Genesis
    BY <1>0, <2>1, NextBlockFacts DEF IndexPart, KnownClosed
  <2>3. CASE ConnectRefuses(NextBlock)
    BY <1>0, <1>6, <2>2, <2>3, SearchFailed DEF ConnectTip
  <2>4. CASE ~ConnectRefuses(NextBlock)
    BY <1>6, <2>4, SearchKept DEF ConnectTip
  <2> QED
    BY <2>3, <2>4
<1>7. CASE ActivateLedger \/ UndoBlock \/ WalkDone
  BY <1>7, SearchKept DEF ActivateLedger, UndoBlock, WalkDone, tree, control, GoOn, Finish
<1>8. CASE ApplyBlock
  <2> DEFINE b == Lowest(newSet)
  <2>1. b \in Known /\ b # Genesis
    BY <1>0, <1>8, LowestNew DEF ApplyBlock
  <2>2. CASE Take(b)
    <3>1. index' = [index EXCEPT ![b].applied = TRUE] /\ UNCHANGED <<candidates, pc>> /\ pc = "walk"
      BY <1>8, <2>2 DEF ApplyBlock, Take
    <3> HIDE DEF b
    <3>2. Known' = Known /\ \A c \in Known : index'[c].failed <=> index[c].failed
      BY <1>0, <2>1, <3>1, EntryApplied
    <3>3. CandidatesComplete'
      BY <1>0, <3>1, <3>2, SearchFailedSame
    <3> QED
      BY <3>1, <3>3 DEF SearchInv
  <2>3. CASE Refuse(b)
    <3>1. InvalidBlockFound(b, "again")
      BY <2>3 DEF Refuse
    <3> HIDE DEF b
    <3> QED
      BY <1>0, <2>1, <3>1, SearchFailed
  <2> QED
    BY <1>8, <2>2, <2>3 DEF ApplyBlock
<1>9. CASE StoreBlock
  <2>1. CASE AlreadyApplied(accepting)
    BY <1>9, <2>1, SearchKept DEF StoreBlock, Finish
  <2>2. CASE ~AlreadyApplied(accepting)
    <3>1. /\ index' = [index EXCEPT ![accepting].data = TRUE, ![accepting].applied = FALSE]
          /\ ActivateBestHeader("chain", FailedBlocks) /\ candidates' = candidates
      BY <1>9, <2>2 DEF StoreBlock
    <3>2. accepting \in Known
      BY <1>0, <1>9 DEF StoreBlock, ControlPart, HandlerShape
    <3>3. Known' = Known /\ \A c \in Known : index'[c].failed <=> index[c].failed
      BY <1>0, <3>1, <3>2, EntryStored
    <3>4. FailedBlocks' = FailedBlocks /\ CandidatesComplete'
      BY <1>0, <3>1, <3>3, SearchFailedSame
    <3> QED
      BY <1>0, <3>1, <3>3, <3>4, GenesisNotFailed, SearchCalled DEF ActivateBestHeader
  <2> QED
    BY <2>1, <2>2
<1>10. CASE ProcessOrphan
  <2>1. PICK b \in unindexed : AcceptBlock(b)
    BY <1>10 DEF ProcessOrphan
  <2>2. b \in Blocks /\ pc = "orphans"
    BY <1>10 DEF ProcessOrphan, IndexInv, TypeOK
  <2> QED
    BY <2>1, <2>2, SearchAccepted
<1>11. ASSUME NEW b \in Blocks, ProcessBlockHeader(b) PROVE SearchInv'
  <2>1. b \notin Known /\ Insert(b) /\ ActivateBestHeader("accept", FailedBlocks)
    BY <1>11 DEF ProcessBlockHeader
  <2>2. FailedBlocks' = FailedBlocks /\ CandidatesComplete' /\ Known' = Known \cup {b}
    BY <1>0, <2>1, SearchInserted
  <2> QED
    BY <1>0, <2>1, <2>2, GenesisNotFailed, SearchCalled DEF ActivateBestHeader
<1>12. ASSUME NEW b \in Blocks, ProcessBlock(b) PROVE SearchInv'
  <2>1. CASE Parent[b] \in Known
    BY <1>12, <2>1, SearchAccepted DEF ProcessBlock
  <2>2. CASE Parent[b] \notin Known
    BY <1>12, <2>2, SearchKept DEF ProcessBlock, tree
  <2> QED
    BY <2>1, <2>2
<1>13. CASE (\E b \in Fragile : LoseBlock(b)) \/ UNCHANGED vars
  <2>1. UNCHANGED <<index, candidates, received, headers, pc>>
    BY <1>13 DEF LoseBlock, vars, tree, control
  <2>2. CandidatesComplete'
    BY <1>0, <2>1, SearchSame
  <2>3. Best' = Best
    BY <2>1, BestSame
  <2> QED
    BY <2>1, <2>2, <2>3 DEF SearchInv, Failed
<1>14. CASE Restart
  BY <1>14, SearchRestart
<1> QED
  BY <1>1, <1>2, <1>3, <1>4, <1>5, <1>6, <1>7, <1>8, <1>9, <1>10, <1>11, <1>12, <1>13, <1>14
  DEF Next, Step

\* Between the steps of every handler, through every refusal and restart, whatever
\* has not failed is a candidate, and the search begins at a tip that has not failed.
LEMMA SearchAlways == Spec => []SearchInv
  BY IndexInvAlways, SearchInit, SearchNext, PTL DEF Spec

\* The test of the blocks "between the candidate new best and the currently-accepted
\* best" (main.cpp:1803) is made only when the candidate is the tip itself: it never
\* finds a failed block, and the loop around it always ends.
THEOREM SearchNeverTestsBetween == Spec => []OnlyTipIsTested
  BY IndexInvAlways, SearchAlways, TipIsTested, PTL
-----------------------------------------------------------------------------
(* What is stored stays stored *)

\* No stored block is forgotten and the connected chain only loses blocks.
LEMMA StoredKept ==
    ASSUME StoredInv, Stored \subseteq Stored', Stored' \subseteq StoredOnDisk',
           Ancestors[active'] \subseteq Ancestors[active], diskSync' = diskSync
    PROVE  StoredInv'
  BY DEF StoredInv

LEMMA StoredSame ==
    ASSUME UNCHANGED <<index, diskIndex>>
    PROVE  Stored' = Stored /\ StoredOnDisk' = StoredOnDisk
  BY DEF Stored, StoredOnDisk, HasData, Known

LEMMA StoredLeft ==
    ASSUME StoredInv, UNCHANGED <<index, diskIndex, active, diskSync>>
    PROVE  StoredInv'
  BY StoredSame, StoredKept DEF StoredInv

\* The entry of one block, or of none, is written as it is.
LEMMA StoredWritten ==
    ASSUME IndexPart, StoredInv, NEW b \in Known, Stored' = Stored \/ Stored' = Stored \cup {b},
           diskIndex' = [diskIndex EXCEPT ![b] = index'[b]], Known' = Known
    PROVE  Stored' \subseteq StoredOnDisk'
<1>1. b \in Blocks /\ index'[b] # Unknown /\ diskIndex'[b] = index'[b]
  BY DEF Known, IndexPart, Statuses
<1>2. \A c \in Blocks \ {b} : diskIndex'[c] = diskIndex[c]
  BY DEF IndexPart, Statuses
<1>3. ASSUME NEW c \in Stored' PROVE c \in StoredOnDisk'
  <2>1. c \in Blocks /\ index'[c].data
    BY <1>3 DEF Stored, HasData, Known
  <2>2. CASE c = b
    BY <1>1, <2>1, <2>2 DEF StoredOnDisk
  <2>3. CASE c # b
    <3>1. c \in Stored
      BY <1>3, <2>3
    <3> QED
      BY <1>2, <2>1, <2>3, <3>1 DEF StoredInv, StoredOnDisk
  <2> QED
    BY <2>2, <2>3
<1> QED
  BY <1>3

LEMMA StoredReturn ==
    ASSUME IndexInv, StoredInv, NEW ok \in BOOLEAN, HeaderReturn(ok),
           UNCHANGED <<index, active, diskSync>>
    PROVE  StoredInv'
<1>1. IndexPart /\ ControlPart
  BY Parts
<1>2. CASE UNCHANGED diskIndex
  BY <1>2, StoredLeft
<1>3. CASE after \in {"accept", "store"} /\ WriteBlockIndex(accepting, index[accepting])
  <2>1. accepting \in Known
    BY <1>1, <1>3 DEF ControlPart, HandlerShape
  <2>2. Stored' = Stored /\ Known' = Known
    BY DEF Stored, HasData, Known
  <2>3. Stored' \subseteq StoredOnDisk'
    BY <1>1, <1>3, <2>1, <2>2, StoredWritten DEF WriteBlockIndex
  <2> QED
    BY <2>2, <2>3, StoredKept
<1> QED
  BY <1>2, <1>3 DEF HeaderReturn

LEMMA StoredDisconnect ==
    ASSUME IndexInv, StoredInv, ~InChain(headers, active), DisconnectTip,
           UNCHANGED <<index, diskIndex, diskSync>>
    PROVE  StoredInv'
<1>1. active \in Blocks /\ headers \in Blocks
  BY DEF IndexInv, TypeOK, Known
<1>2. active # Genesis
  BY <1>1, AncestorFacts DEF InChain
<1>3. Ancestors[active'] \subseteq Ancestors[active]
  BY <1>1, <1>2, ParentBelow DEF DisconnectTip
<1> QED
  BY <1>3, StoredSame, StoredKept DEF StoredInv

\* InvalidBlockFound changes nothing but the marks.
LEMMA StoredFailed ==
    ASSUME IndexInv, StoredInv, NEW bad \in Known, bad # Genesis, NEW caller,
           InvalidBlockFound(bad, caller), UNCHANGED <<active, diskSync>>
    PROVE  StoredInv' /\ Stored' = Stored
<1> DEFINE M == {bad} \cup Descendants(bad)
           st == [index[bad] EXCEPT !.failed = TRUE]
<1>0. IndexPart /\ headers \in Known
  BY Parts DEF TipPart
<1>1. M \in SUBSET Known
  BY <1>0 DEF Descendants, IndexPart, KnownClosed
<1>2. index' = Mark(M) /\ WriteBlockIndex(bad, st)
  BY DEF InvalidBlockFound
<1>3. bad \in Blocks /\ bad \in M
  BY DEF Known
<1>4. index'[bad] = st
  BY <1>2, <1>3 DEF Mark
<1> HIDE DEF M, st
<1>5. Known' = Known /\ \A b \in Known : index'[b].data = index[b].data
  BY <1>0, <1>1, <1>2, MarkFacts
<1>6. Stored' = Stored
  BY <1>5 DEF Stored, HasData
<1>7. Stored' \subseteq StoredOnDisk'
  BY <1>0, <1>2, <1>4, <1>5, <1>6, StoredWritten DEF WriteBlockIndex
<1> QED
  BY <1>6, <1>7, StoredKept

\* The next block can be read, so it is stored.
LEMMA StoredConnect == IndexInv /\ StoredInv /\ ConnectTip => StoredInv'
<1> SUFFICES ASSUME IndexInv, StoredInv, ConnectTip PROVE StoredInv'
  OBVIOUS
<1>0. IndexPart /\ TipPart /\ ControlPart
  BY Parts
<1>1. headers \in Known /\ headers \in Blocks /\ active \in Ancestors[headers] /\ active # headers
  BY <1>0 DEF ConnectTip, CanConnect, ControlPart, HandlerShape, InChain, TipPart, Known
<1>2. NextBlock \in Known /\ NextBlock \in Blocks /\ NextBlock # Genesis /\ Parent[NextBlock] = active
  BY <1>0, <1>1, NextBlockFacts DEF IndexPart, KnownClosed
<1>3. CASE ConnectRefuses(NextBlock)
  BY <1>2, <1>3, StoredFailed DEF ConnectTip, sync
<1>4. CASE ~ConnectRefuses(NextBlock)
  <2> DEFINE b == NextBlock
  <2>1. /\ active' = b /\ UNCHANGED <<index, diskIndex>> /\ HasData(b)
        /\ syncPoint' = SyncPointAfter(b)
        /\ diskSync' = IF syncPoint' # syncPoint THEN syncPoint' ELSE diskSync
    BY <1>4 DEF ConnectTip, CanConnect, Readable
  <2>2. b \in Known /\ b \in Blocks /\ Ancestors[b] = {b} \cup Ancestors[active]
    BY <1>2, ParentBelow
  <2> HIDE DEF b
  <2>3. Ancestors[b] \subseteq Stored
    BY <2>1, <2>2 DEF StoredInv, Stored
  <2>4. diskSync' = diskSync \/ diskSync' \in Ancestors[b]
    <3>1. CASE Height[b] > MIN_HISTORY
      <4> DEFINE n == Height[b] - MIN_HISTORY
      <4>1. Height[b] \in Nat /\ MIN_HISTORY \in Nat
        BY <2>2, ChainAssumption
      <4>2. n \in Nat /\ n <= Height[b]
        BY <3>1, <4>1
      <4>3. At(b, n) \in Ancestors[b]
        BY <2>2, <4>2, AtExists
      <4> QED
        BY <2>1, <4>3 DEF SyncPointAfter
    <3>2. CASE ~(Height[b] > MIN_HISTORY)
      BY <2>1, <3>2 DEF SyncPointAfter
    <3> QED
      BY <3>1, <3>2
  <2>5. diskSync' # NoBlock => Ancestors[diskSync'] \subseteq Stored
    BY <2>2, <2>3, <2>4, AncestorFacts DEF StoredInv
  <2>6. Stored' = Stored /\ StoredOnDisk' = StoredOnDisk
    BY <2>1, StoredSame
  <2> QED
    BY <2>1, <2>3, <2>5, <2>6 DEF StoredInv
<1> QED
  BY <1>3, <1>4

LEMMA StoredApply == IndexInv /\ StoredInv /\ ApplyBlock => StoredInv' /\ Stored' = Stored
<1> SUFFICES ASSUME IndexInv, StoredInv, ApplyBlock PROVE StoredInv' /\ Stored' = Stored
  OBVIOUS
<1>0. IndexPart /\ TipPart /\ WalkPart
  BY Parts
<1> DEFINE b == Lowest(newSet)
<1>1. b \in Known /\ b # Genesis
  BY <1>0, LowestNew DEF ApplyBlock
<1>2. active' = active /\ diskSync' = diskSync
  BY DEF ApplyBlock, sync
<1>3. CASE Take(b)
  <2>1. index' = [index EXCEPT ![b].applied = TRUE] /\ WriteBlockIndex(b, index'[b])
    BY <1>3 DEF Take
  <2> HIDE DEF b
  <2>2. Known' = Known /\ \A c \in Known : index'[c].data <=> index[c].data
    BY <1>0, <1>1, <2>1, EntryApplied
  <2>3. Stored' = Stored
    BY <2>2 DEF Stored, HasData
  <2>4. Stored' \subseteq StoredOnDisk'
    BY <1>0, <1>1, <2>1, <2>2, <2>3, StoredWritten DEF WriteBlockIndex
  <2> QED
    BY <1>2, <2>3, <2>4, StoredKept
<1>4. CASE Refuse(b)
  <2>1. InvalidBlockFound(b, "again")
    BY <1>4 DEF Refuse
  <2> HIDE DEF b
  <2> QED
    BY <1>1, <1>2, <2>1, StoredFailed
<1> QED
  BY <1>3, <1>4 DEF ApplyBlock

LEMMA StoredStore == IndexInv /\ StoredInv /\ StoreBlock => StoredInv'
<1> SUFFICES ASSUME IndexInv, StoredInv, StoreBlock PROVE StoredInv'
  OBVIOUS
<1>0. IndexPart /\ ControlPart
  BY Parts
<1>1. CASE AlreadyApplied(accepting)
  BY <1>1, StoredLeft DEF StoreBlock, sync
<1>2. CASE ~AlreadyApplied(accepting)
  <2>1. /\ index' = [index EXCEPT ![accepting].data = TRUE, ![accepting].applied = FALSE]
        /\ WriteBlockIndex(accepting, index'[accepting]) /\ active' = active /\ diskSync' = diskSync
    BY <1>2 DEF StoreBlock, sync
  <2>2. accepting \in Known
    BY <1>0 DEF StoreBlock, ControlPart, HandlerShape
  <2>3. /\ Known' = Known /\ index'[accepting].data
        /\ \A c \in Known \ {accepting} : index'[c] = index[c]
    BY <1>0, <2>1, <2>2, EntryStored
  <2>4. Stored' = Stored \cup {accepting}
    BY <2>2, <2>3 DEF Stored, HasData
  <2>5. Stored' \subseteq StoredOnDisk'
    BY <1>0, <2>1, <2>2, <2>3, <2>4, StoredWritten DEF WriteBlockIndex
  <2> QED
    BY <2>1, <2>4, <2>5, StoredKept
<1> QED
  BY <1>1, <1>2

LEMMA StoredInsert ==
    ASSUME IndexInv, StoredInv, NEW b \in Blocks, b \notin Known, Insert(b),
           UNCHANGED <<diskIndex, active, diskSync>>
    PROVE  StoredInv'
<1>0. IndexPart
  BY Parts
<1>1. Known' = Known \cup {b} /\ ~index'[b].data /\ \A c \in Known : index'[c] = index[c]
  BY <1>0, EntryInserted DEF Insert
<1>2. Stored' = Stored
  BY <1>1 DEF Stored, HasData
<1>3. StoredOnDisk' = StoredOnDisk
  BY DEF StoredOnDisk
<1> QED
  BY <1>2, <1>3, StoredKept DEF StoredInv

LEMMA StoredRestart == IndexInv /\ StoredInv /\ Restart => StoredInv'
<1> SUFFICES ASSUME IndexInv, StoredInv, Restart PROVE StoredInv'
  OBVIOUS
<1>0. IndexPart
  BY Parts
<1>1. Known' = OnDisk /\ \A b \in OnDisk : index'[b].data = diskIndex[b].data
  BY <1>0, IndexLoaded
<1>2. StoredOnDisk' = StoredOnDisk
  BY DEF Restart, StoredOnDisk
<1>3. Stored' = OnDisk \cap StoredOnDisk
  <2>1. \A b \in OnDisk : b \in Blocks /\ diskIndex[b] # Unknown
    BY AncestorFacts DEF OnDisk
  <2> QED
    BY <1>1, <2>1 DEF Stored, HasData, StoredOnDisk
<1>4. ASSUME NEW tip \in Blocks, Ancestors[tip] \subseteq Stored
      PROVE  Ancestors[tip] \subseteq Stored'
  <2>1. Ancestors[tip] \subseteq StoredOnDisk
    BY <1>4 DEF StoredInv
  <2>2. ASSUME NEW a \in Ancestors[tip] PROVE a \in OnDisk
    <3>1. a \in Blocks /\ Ancestors[a] \subseteq StoredOnDisk
      BY <2>1, <2>2, AncestorFacts
    <3> QED
      BY <3>1 DEF OnDisk, StoredOnDisk
  <2> QED
    BY <1>3, <2>1, <2>2
<1>5. Ancestors[Genesis] = {Genesis} /\ Genesis \in Stored
  BY <1>0, AppliedKnown, ChainAssumption DEF IndexPart, GenesisStays, AppliedStored, Stored, HasData
<1>6. Ancestors[Genesis] \subseteq Stored'
  BY <1>4, <1>5, ChainAssumption
<1>7. active' = Genesis /\ diskSync' \in {Genesis, diskSync} /\ diskSync \in Blocks \cup {NoBlock}
  BY DEF Restart, IndexInv, TypeOK
<1>8. diskSync' # NoBlock => Ancestors[diskSync'] \subseteq Stored'
  BY <1>4, <1>6, <1>7 DEF StoredInv
<1> QED
  BY <1>2, <1>3, <1>6, <1>7, <1>8 DEF StoredInv

\* With a stored block all the blocks below it are stored.
LEMMA StoredBelow ==
    ASSUME IndexInv, StoredInOrder, NEW tip \in Known, HasData(tip)
    PROVE  Ancestors[tip] \subseteq Stored
<1> DEFINE S == Ancestors[tip] \ Stored
<1>0. IndexPart /\ tip \in Blocks /\ Ancestors[tip] \subseteq Known
  BY Parts DEF IndexPart, KnownClosed, Known
<1>1. S \in SUBSET Blocks
  BY <1>0, AncestorFacts
<1> SUFFICES ASSUME S # {} PROVE FALSE
  OBVIOUS
<1> DEFINE b == Highest(S)
<1>2. b \in S /\ \A c \in S : Height[c] <= Height[b]
  <2> HIDE DEF S
  <2> QED
    BY <1>1, HighestExists
<1> HIDE DEF b
<1>3. b \in Ancestors[tip] /\ b \notin Stored /\ b \in Blocks /\ b # tip
  BY <1>0, <1>1, <1>2 DEF Stored
<1>4. Height[b] < Height[tip] /\ Height[b] \in Nat /\ Height[tip] \in Nat
  BY <1>0, <1>3, AncestorFacts, ChainAssumption
<1> DEFINE n == Height[b] + 1
           c == At(tip, n)
<1>5. n \in Nat /\ n <= Height[tip] /\ n # 0
  BY <1>4
<1>6. c \in Ancestors[tip] /\ Height[c] = n
  BY <1>0, <1>5, AtExists
<1> HIDE DEF c
<1>7. c \in Blocks /\ c # Genesis /\ c \in Known
  BY <1>0, <1>5, <1>6, ChainAssumption, AncestorFacts
<1>8. c \in Stored
  BY <1>2, <1>4, <1>6
<1>9. Parent[c] = b
  <2>1. b \in Ancestors[c] /\ b # c
    BY <1>0, <1>3, <1>4, <1>6, ChainLinear
  <2>2. /\ Ancestors[c] = {c} \cup Ancestors[Parent[c]] /\ Parent[c] \in Blocks
        /\ Height[c] = Height[Parent[c]] + 1 /\ Height[Parent[c]] \in Nat
    BY <1>7, ParentBelow
  <2>3. b \in Ancestors[Parent[c]] /\ Height[b] = Height[Parent[c]]
    BY <1>4, <1>6, <2>1, <2>2
  <2> QED
    BY <1>4, <2>2, <2>3, AncestorFacts
<1> QED
  BY <1>0, <1>3, <1>7, <1>8, <1>9 DEF StoredInOrder, Stored

\* A start goes on at a block with data, or at the sync point.
LEMMA StoredLoaded == IndexInv /\ StoredInOrder /\ StoredInv /\ Loaded => StoredInv'
<1> SUFFICES ASSUME IndexInv, StoredInOrder, StoredInv, Loaded PROVE StoredInv'
  OBVIOUS
<1>1. active' = StartPoint /\ UNCHANGED <<index, diskIndex, diskSync>>
  BY DEF Loaded, tree
<1>2. IndexPart /\ TipPart
  BY Parts
<1> DEFINE n == Height[headers] - START_BACK
           p == At(headers, n)
<1>3. CASE Height[headers] > MIN_HISTORY /\ HasData(p)
  <2>1. headers \in Blocks /\ Ancestors[headers] \subseteq Known
    BY <1>2 DEF TipPart, IndexPart, KnownClosed, Known
  <2>2. Height[headers] \in Nat /\ MIN_HISTORY \in Nat /\ START_BACK \in 0..(MIN_HISTORY - 1)
    BY <2>1, ChainAssumption
  <2>3. n \in Nat /\ n <= Height[headers]
    BY <1>3, <2>2
  <2>4. p \in Known
    BY <2>1, <2>3, AtExists
  <2>5. Ancestors[p] \subseteq Stored
    BY <1>3, <2>4, StoredBelow
  <2> QED
    <3>1. active' = p \/ (active' = diskSync /\ diskSync \in Known) \/ active' = active
      BY <1>1 DEF StartPoint
    <3>2. Ancestors[active'] \subseteq Stored
      BY <2>5, <3>1, ChainAssumption DEF StoredInv, Known
    <3> QED
      BY <1>1, <3>2, StoredSame DEF StoredInv
<1>4. CASE ~(Height[headers] > MIN_HISTORY /\ HasData(p))
  <2>1. (active' = diskSync /\ diskSync \in Known) \/ active' = active
    BY <1>1, <1>4 DEF StartPoint
  <2>2. Ancestors[active'] \subseteq Stored
    BY <2>1, ChainAssumption DEF StoredInv, Known
  <2> QED
    BY <1>1, <2>2, StoredSame DEF StoredInv
<1> QED
  BY <1>3, <1>4

LEMMA StoredInit == Init => StoredInv
<1> SUFFICES ASSUME Init PROVE StoredInv
  OBVIOUS
<1>1. Genesis \in Blocks /\ Ancestors[Genesis] = {Genesis} /\ active = Genesis /\ diskSync = NoBlock
  BY ChainAssumption DEF Init
<1>2. index[Genesis] = [data |-> TRUE, failed |-> FALSE, applied |-> TRUE] /\ diskIndex = index
  BY <1>1 DEF Init
<1>3. index[Genesis] \in Status /\ index[Genesis].data
  BY <1>2 DEF Status
<1>4. Genesis \in Stored
  BY <1>1, <1>3, ChainAssumption DEF Stored, Known, HasData
<1> QED
  BY <1>1, <1>2, <1>4 DEF StoredInv, Stored, StoredOnDisk, Known, HasData

LEMMA StoredNext ==
    IndexInv /\ SearchInv /\ StoredInOrder /\ StoredInv /\ [Next]_vars => StoredInv'
<1> SUFFICES ASSUME IndexInv, SearchInv, StoredInOrder, StoredInv, [Next]_vars PROVE StoredInv'
  OBVIOUS
<1>1. CASE NoCandidates \/ ReorgDone
  BY <1>1, StoredReturn DEF NoCandidates, ReorgDone, tree, sync
<1>2. CASE ReorgDisconnect
  <2>1. CASE CanDisconnect
    BY <1>2, <2>1, StoredDisconnect DEF ReorgDisconnect, tree, sync
  <2>2. CASE ~CanDisconnect
    BY <1>2, <2>2, StoredReturn DEF ReorgDisconnect, tree, sync
  <2> QED
    BY <2>1, <2>2
<1>3. CASE FindBest
  BY <1>3, SearchFound, StoredLeft DEF FindBest, sync
<1>4. CASE ReorgPop \/ Restep \/ UnwindDone \/ ConnectDone \/ OrphansDone
  BY <1>4, StoredLeft DEF ReorgPop, Restep, UnwindDone, ConnectDone, OrphansDone, tree, sync
<1>5. CASE UnwindTip
  <2>1. CASE CanDisconnect
    BY <1>5, <2>1, StoredDisconnect DEF UnwindTip, tree, sync
  <2>2. CASE ~CanDisconnect
    BY <1>5, <2>2, StoredLeft DEF UnwindTip, tree, sync
  <2> QED
    BY <2>1, <2>2
<1>6. CASE ConnectTip
  BY <1>6, StoredConnect
<1>7. CASE ActivateLedger \/ UndoBlock \/ WalkDone
  BY <1>7, StoredLeft DEF ActivateLedger, UndoBlock, WalkDone, tree, sync
<1>8. CASE ApplyBlock
  BY <1>8, StoredApply
<1>9. CASE StoreBlock
  BY <1>9, StoredStore
<1>10. ASSUME NEW b \in Blocks, AcceptBlock(b), UNCHANGED <<diskIndex, active, diskSync>>
       PROVE  StoredInv'
  BY <1>10, StoredLeft, StoredInsert DEF AcceptBlock, tree
<1>11. CASE ProcessOrphan
  <2>1. PICK b \in unindexed : AcceptBlock(b)
    BY <1>11 DEF ProcessOrphan
  <2>2. b \in Blocks
    BY DEF IndexInv, TypeOK
  <2> QED
    BY <1>10, <1>11, <2>1, <2>2 DEF ProcessOrphan, sync
<1>12. ASSUME NEW b \in Blocks, ProcessBlockHeader(b) PROVE StoredInv'
  BY <1>12, StoredInsert DEF ProcessBlockHeader, sync
<1>13. ASSUME NEW b \in Blocks, ProcessBlock(b) PROVE StoredInv'
  BY <1>10, <1>13, StoredLeft DEF ProcessBlock, tree, sync
<1>14. CASE (\E b \in Fragile : LoseBlock(b)) \/ UNCHANGED vars
  BY <1>14, StoredLeft DEF LoseBlock, vars, tree, sync
<1>15. CASE Restart
  BY <1>15, StoredRestart
<1>16. CASE Loaded
  BY <1>16, StoredLoaded
<1> QED
  BY <1>1, <1>2, <1>3, <1>4, <1>5, <1>6, <1>7, <1>8, <1>9, <1>11, <1>12, <1>13, <1>14, <1>15, <1>16
  DEF Next, Step

LEMMA StoredAlways == Spec /\ []StoredInOrder => []StoredInv
  BY IndexInvAlways, SearchAlways, StoredInit, StoredNext, PTL DEF Spec

-----------------------------------------------------------------------------
(* No loop turns for ever *)

\* A tip that is stored can be disconnected.
LEMMA TipReadable == IndexInv /\ StoredInv /\ NothingLost => CanDisconnect
<1> SUFFICES ASSUME IndexInv, StoredInv, NothingLost PROVE CanDisconnect
  OBVIOUS
<1>1. active \in Ancestors[active]
  BY AncestorFacts DEF IndexInv, TypeOK, Known
<1> QED
  BY <1>1 DEF StoredInv, Stored, NothingLost, CanDisconnect, Readable

LEMMA HangsNext ==
    IndexInv /\ SearchInv /\ StoredInv /\ NothingLost /\ NeverHangs /\ [Next]_vars => NeverHangs'
<1> SUFFICES ASSUME IndexInv, SearchInv, StoredInv, NothingLost, NeverHangs, [Next]_vars
             PROVE  pc' # "hung"
  BY DEF NeverHangs
<1>0. CanDisconnect /\ pc # "hung"
  BY TipReadable DEF NeverHangs
<1>1. CASE NoCandidates \/ ReorgDone \/ ReorgDisconnect \/ ReorgPop
  BY <1>0, <1>1 DEF NoCandidates, ReorgDone, ReorgDisconnect, ReorgPop, HeaderReturn, GoOn, Finish, control
<1>2. CASE FindBest
  BY <1>2, SearchFound
<1>3. CASE Restep \/ UnwindTip \/ UnwindDone \/ ConnectDone \/ OrphansDone \/ Loaded
  BY <1>0, <1>3 DEF Restep, UnwindTip, UnwindDone, ConnectDone, OrphansDone, Loaded, ActivateBestHeader
<1>4. CASE ConnectTip
  BY <1>0, <1>4 DEF ConnectTip, InvalidBlockFound, ActivateBestHeader
<1>5. CASE ActivateLedger \/ UndoBlock \/ ApplyBlock \/ WalkDone
  BY <1>0, <1>5 DEF ActivateLedger, UndoBlock, ApplyBlock, Take, Refuse, WalkDone, GoOn, Finish,
                    control, InvalidBlockFound, ActivateBestHeader
<1>6. CASE StoreBlock
  BY <1>6 DEF StoreBlock, ActivateBestHeader, Finish
<1>7. CASE ProcessOrphan
  BY <1>7 DEF ProcessOrphan, AcceptBlock, ActivateBestHeader
<1>8. CASE \E b \in Blocks \ {Genesis} : ProcessBlockHeader(b) \/ ProcessBlock(b)
  BY <1>0, <1>8 DEF ProcessBlockHeader, ProcessBlock, AcceptBlock, ActivateBestHeader
<1>9. CASE (\E b \in Fragile : LoseBlock(b)) \/ UNCHANGED vars
  BY <1>0, <1>9 DEF LoseBlock, vars, control
<1>10. CASE Restart
  BY <1>10 DEF Restart
<1> QED
  BY <1>1, <1>2, <1>3, <1>4, <1>5, <1>6, <1>7, <1>8, <1>9, <1>10 DEF Next, Step

\* As long as blocks are stored after their parents and the disk keeps them, no loop of
\* ActivateBestHeader or ActivateBestChainStep turns for ever, whatever else is refused,
\* reorganised or interrupted: every connected block is stored, also after a start that
\* goes on above blocks it did not connect, and the search of ActivateBestHeader never
\* meets the candidate it could not leave.
THEOREM LoopsAlwaysEnd == Spec /\ []StoredInOrder /\ []NothingLost => []NeverHangs
<1>1. Init => NeverHangs
  BY DEF Init, NeverHangs
<1> QED
  BY <1>1, IndexInvAlways, SearchAlways, StoredAlways, HangsNext, PTL DEF Spec
=============================================================================
