-------------------------------- MODULE NatSets --------------------------------
(***************************************************************************)
(* Facts about sets of numbers that the other proofs cite: induction, and  *)
(* that a set has a least and, below a bound, a greatest member.           *)
(*                                                                         *)
(* Induction is stated for a set and not for a predicate, since a theorem  *)
(* with an operator for a parameter cannot be instantiated by the provers. *)
(***************************************************************************)
EXTENDS Integers, FiniteSets, FiniteSetTheorems, FunctionTheorems, TLAPS

(* Induction: a number that is not in S would make n |-> n + 1 an injection  *)
(* from the members of S below it into those that are not 0, one fewer.      *)
LEMMA SetInduction ==
    ASSUME NEW S \in SUBSET Nat, 0 \in S, \A n \in S : n + 1 \in S
    PROVE  \A n \in Nat : n \in S
<1> SUFFICES ASSUME NEW x \in Nat, x \notin S PROVE FALSE
  OBVIOUS
<1> DEFINE A == S \cap (0 .. x)
           next == [n \in A |-> n + 1]
<1>1. IsFiniteSet(A)
  <2>1. IsFiniteSet(0 .. x) BY FS_Interval
  <2> QED BY <2>1, FS_Subset
<1>2. IsFiniteSet(A \ {0}) /\ Cardinality(A \ {0}) = Cardinality(A) - 1 /\ Cardinality(A) \in Nat
  <2>1. 0 \in A OBVIOUS
  <2> HIDE DEF A
  <2> QED BY <1>1, <2>1, FS_RemoveElement, FS_CardinalityType
<1>3. ASSUME NEW n \in A PROVE n + 1 \in A \ {0}
  <2>1. n \in S /\ n \in Nat /\ n <= x OBVIOUS
  <2>2. n # x /\ n + 1 \in S BY <2>1
  <2> QED BY <2>1, <2>2
<1>4. next \in [A -> A \ {0}] BY <1>3
<1>5. \A m, n \in A : next[m] = next[n] => m = n OBVIOUS
<1> HIDE DEF A, next
<1>6. Cardinality(A \ {0}) < Cardinality(A) BY <1>2
<1> QED BY <1>1, <1>2, <1>4, <1>5, <1>6, FS_PigeonHole

LEMMA NatMin ==
    ASSUME NEW S \in SUBSET Nat, S # {}
    PROVE  \E x \in S : \A y \in S : x <= y
<1> SUFFICES ASSUME \A x \in S : \E y \in S : y < x PROVE FALSE
  OBVIOUS
<1> DEFINE T == {n \in Nat : \A m \in S : n <= m}
<1>1. 0 \in T OBVIOUS
<1>2. \A n \in T : n + 1 \in T OBVIOUS
<1>3. \A n \in Nat : n \in T BY <1>1, <1>2, SetInduction
<1>4. PICK x \in S : TRUE OBVIOUS
<1>5. x + 1 \in T BY <1>3, <1>4
<1> QED BY <1>4, <1>5

LEMMA NatMax ==
    ASSUME NEW S \in SUBSET Nat, S # {}, NEW bound \in Nat, \A n \in S : n <= bound
    PROVE  \E x \in S : \A y \in S : y <= x
<1> DEFINE T == {bound - n : n \in S}
<1>1. T \in SUBSET Nat /\ T # {}
  <2>1. \A n \in S : bound - n \in Nat OBVIOUS
  <2>2. T \subseteq Nat BY <2>1
  <2>3. T # {} OBVIOUS
  <2> QED BY <2>2, <2>3
<1> HIDE DEF T
<1>2. PICK t \in T : \A u \in T : t <= u BY <1>1, NatMin
<1>3. PICK x \in S : t = bound - x BY <1>2 DEF T
<1>4. ASSUME NEW y \in S PROVE y <= x
  <2>1. bound - y \in T BY DEF T
  <2> QED BY <1>2, <1>3, <2>1
<1> QED BY <1>4
===============================================================================
