----------------------------- MODULE Induction -----------------------------
(***************************************************************************)
(* Induction over an interval, for sets of numbers: what the proofs about  *)
(* loops over transactions and slices rest on.  A loop is a function that  *)
(* is defined by recursion over the number of rounds; the set holds the    *)
(* rounds after which the invariant of the loop is true.                   *)
(***************************************************************************)
EXTENDS Integers, WellFoundedInduction, TLAPS

\* What holds at 0 and goes from each number to the next holds up to n.
LEMMA Climb ==
    ASSUME NEW n \in Nat, NEW T, 0 \in T, \A i \in 1 .. n : i - 1 \in T => i \in T
    PROVE  \A i \in 0 .. n : i \in T
<1> SUFFICES ASSUME NEW z \in 0 .. n, z \notin T PROVE FALSE
  OBVIOUS
<1> DEFINE U == {i \in 0 .. n : i \notin T}
<1>1. U \subseteq Nat /\ z \in U
  OBVIOUS
<1> HIDE DEF U
<1>2. PICK x \in U : \A y \in U : ~(<<y, x>> \in OpToRel(<, Nat))
  BY <1>1, NatLessThanWellFounded, WFMin
<1>3. \A y \in U : ~(y < x)
  BY <1>1, <1>2, Zenon DEF OpToRel
<1>4. x \in 1 .. n /\ x - 1 \in 0 .. n
  BY DEF U
<1>5. x - 1 \in T
  BY <1>1, <1>3, <1>4 DEF U
<1> QED
  BY <1>4, <1>5 DEF U
=============================================================================
