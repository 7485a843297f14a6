----------------------------- MODULE Induction -----------------------------
(***************************************************************************)
(* Induction on numbers, in the form the proofs use it: a property that    *)
(* fails for some number fails for a least one.  And what follows for      *)
(* functions that are defined by recursion on numbers: there are such.     *)
(***************************************************************************)
EXTENDS Integers, WellFoundedInduction, TLAPS

(* Every set of numbers that is not empty has a least element.             *)
LEMMA LeastExists ==
  ASSUME NEW S \in SUBSET Nat, S # {}
  PROVE  \E x \in S : \A y \in S : x <= y
<1>1. IsWellFoundedOn({p \in Nat \X Nat : p[1] < p[2]}, Nat)
  BY NatLessThanWellFounded DEF OpToRel
<1>2. PICK x \in S : \A y \in S : <<y, x>> \notin {p \in Nat \X Nat : p[1] < p[2]}
  BY <1>1, WFMin
<1>3. ASSUME NEW y \in S PROVE x <= y
  <2>1. x \in Nat /\ y \in Nat
    OBVIOUS
  <2>2. ~(y < x)
    BY <1>2, <2>1
  <2>3. QED
    BY <2>1, <2>2
<1>4. QED
  BY <1>3

(* g takes the step from x, over and over.                                 *)
Iterated(g, m, x, step) == g = [n \in 0 .. m |-> IF n = 0 THEN x ELSE step[<<n, g[n - 1]>>]]

(* A step that is a function can be taken any number of times.             *)
LEMMA Iterates ==
  ASSUME NEW m \in Nat, NEW S, NEW x \in S, NEW step \in [(1 .. m) \X S -> S]
  PROVE  \E g \in [0 .. m -> S] : Iterated(g, m, x, step)
<1> DEFINE turn(n, g) == IF n = 0 THEN x ELSE step[<<n, g[n - 1]>>]
           Goes(k) == \E g : g = [n \in 0 .. k |-> turn(n, g)] /\ g \in [0 .. k -> S]
           None == {k \in 0 .. m : ~Goes(k)}
<1>1. ASSUME None # {} PROVE FALSE
  <2>1. PICK k \in None : \A j \in None : k <= j
    <3>1. None \in SUBSET Nat
      OBVIOUS
    <3> HIDE DEF None
    <3>2. QED
      BY <1>1, <3>1, LeastExists
  <2>2. k \in 0 .. m /\ k \in Nat /\ ~Goes(k)
    OBVIOUS
  <2>3. CASE k = 0
    <3> DEFINE g == [n \in 0 .. 0 |-> x]
    <3>1. g = [n \in 0 .. 0 |-> turn(n, g)] /\ g \in [0 .. 0 -> S]
      OBVIOUS
    <3>2. QED
      BY <2>2, <2>3, <3>1
  <2>4. CASE k # 0
    <3>1. k - 1 \in 0 .. m /\ k - 1 \notin None
      <4> HIDE DEF None
      <4>1. k - 1 \in 0 .. m /\ ~(k <= k - 1)
        BY <2>2, <2>4
      <4>2. QED
        BY <2>1, <4>1
    <3>2. PICK h : h = [n \in 0 .. k - 1 |-> turn(n, h)] /\ h \in [0 .. k - 1 -> S]
      BY <3>1
    <3> DEFINE g == [n \in 0 .. k |-> turn(n, h)]
    <3>3. \A n \in 0 .. k : n # 0 => n - 1 \in 0 .. k - 1 /\ n \in 1 .. m
      BY <2>2
    <3>4. \A n \in 0 .. k : turn(n, h) \in S
      BY <3>2, <3>3
    <3>5. \A n \in 0 .. k - 1 : g[n] = h[n]
      <4>1. \A n \in 0 .. k - 1 : n \in 0 .. k
        BY <2>2
      <4> HIDE DEF turn
      <4>2. \A n \in 0 .. k - 1 : h[n] = turn(n, h)
        BY <3>2
      <4>3. QED
        BY <4>1, <4>2
    <3>6. \A n \in 0 .. k : turn(n, h) = turn(n, g)
      BY <3>3, <3>5
    <3>7. g = [n \in 0 .. k |-> turn(n, g)] /\ g \in [0 .. k -> S]
      BY <3>4, <3>6
    <3>8. QED
      BY <2>2, <3>7
  <2>5. QED
    BY <2>3, <2>4
<1>2. Goes(m)
  BY <1>1
<1>3. QED
  BY <1>2 DEF Iterated

=============================================================================
