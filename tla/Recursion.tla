------------------------------ MODULE Recursion ------------------------------
(***************************************************************************)
(* Induction over an interval, and what it gives for the functions that the *)
(* models define by recursion over the indices of a sequence.  The          *)
(* hypothesis of the induction is a set, the indices it holds for: the       *)
(* provers have no use for a theorem about every predicate.                  *)
(***************************************************************************)
EXTENDS Naturals, WellFoundedInduction, TLAPS

(* A set of numbers has a least one.                                        *)
LEMMA Least ==
  ASSUME NEW T, T \subseteq Nat, T # {}
  PROVE  \E n \in T : \A m \in T : n <= m
  <1>1. PICK n \in T : \A m \in T : <<m, n>> \notin OpToRel(<, Nat)
    BY NatLessThanWellFounded, WFMin
  <1>2. \A m \in T : ~(m < n)
    BY <1>1 DEF OpToRel
  <1> QED
    BY <1>2

(* What holds for 0 and for the successor of whatever it holds for, up to n.   *)
LEMMA IntervalInduction ==
  ASSUME NEW T, NEW n \in Nat, 0 \in T, \A i \in 1..n : i - 1 \in T => i \in T
  PROVE  0..n \subseteq T
  <1> DEFINE Missed == {i \in 0..n : i \notin T}
  <1> SUFFICES ASSUME Missed # {} PROVE FALSE
    OBVIOUS
  <1>1. Missed \subseteq Nat
    OBVIOUS
  <1> HIDE DEF Missed
  <1>2. PICK m \in Missed : \A i \in Missed : m <= i
    BY <1>1, Least
  <1>3. m \in 1..n /\ m \notin T
    BY <1>2 DEF Missed
  <1>4. m - 1 \notin Missed
    BY <1>1, <1>2, <1>3
  <1>5. m - 1 \in T
    BY <1>3, <1>4 DEF Missed
  <1> QED
    BY <1>3, <1>5

(* f starts with base and goes from index to index by Succ.                 *)
Iterates(f, base, Succ, n, S) ==
  /\ f \in [0..n -> S]
  /\ f[0] = base
  /\ \A i \in 1..n : f[i] = Succ[i][f[i - 1]]

(* A step from each index to the next defines a function on the interval.     *)
LEMMA IntervalRecursion ==
  ASSUME NEW S, NEW n \in Nat, NEW base \in S, NEW Succ \in [1..n -> [S -> S]]
  PROVE  \E f : Iterates(f, base, Succ, n, S)
  <1> DEFINE Solves(f, m) == /\ f[0] = base
                             /\ \A i \in 1..m : f[i] = Succ[i][f[i - 1]]
             Solved == {m \in 0..n : \E f \in [0..m -> S] : Solves(f, m)}
  <1>1. 0 \in Solved
    <2>1. [i \in 0..0 |-> base] \in [0..0 -> S] /\ Solves([i \in 0..0 |-> base], 0)
      OBVIOUS
    <2>2. \E f \in [0..0 -> S] : Solves(f, 0)
      BY <2>1
    <2> QED
      BY <2>2
  <1>2. ASSUME NEW m \in 1..n, m - 1 \in Solved PROVE m \in Solved
    <2>1. PICK f \in [0..(m - 1) -> S] : Solves(f, m - 1)
      BY <1>2
    <2> DEFINE g == [i \in 0..m |-> IF i = m THEN Succ[m][f[m - 1]] ELSE f[i]]
    <2>2. \A i \in 0..m : i # m => i \in 0..(m - 1) /\ g[i] = f[i]
      OBVIOUS
    <2>3. g[m] = Succ[m][f[m - 1]] /\ m - 1 \in 0..(m - 1)
      OBVIOUS
    <2>4. g \in [0..m -> S]
      BY <2>2, <2>3
    <2>5. g[0] = base
      BY <2>1, <2>2
    <2>6. \A i \in 1..m : g[i] = Succ[i][g[i - 1]]
      <3> TAKE i \in 1..m
      <3>1. i - 1 \in 0..m /\ i - 1 # m /\ g[i - 1] = f[i - 1]
        BY <2>2
      <3>2. CASE i = m
        BY <3>1, <3>2, <2>3
      <3>3. CASE i # m
        BY <3>1, <3>3, <2>1, <2>2
      <3> QED
        BY <3>2, <3>3
    <2> HIDE DEF g
    <2>7. \E h \in [0..m -> S] : Solves(h, m)
      BY <2>4, <2>5, <2>6
    <2>8. m \in 0..n
      OBVIOUS
    <2> QED
      BY <2>7, <2>8
  <1> HIDE DEF Solved
  <1>3. \A i \in 1..n : i - 1 \in Solved => i \in Solved
    BY <1>2
  <1>4. 0..n \subseteq Solved
    BY <1>1, <1>3, IntervalInduction
  <1> QED
    BY <1>4 DEF Solved, Iterates

=============================================================================
