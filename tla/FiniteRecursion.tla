-------------------------- MODULE FiniteRecursion --------------------------
(***************************************************************************)
(* Induction and recursion over 0..N, without an operator as a parameter:  *)
(* what is to be shown is a set of numbers, and what a recursive function   *)
(* does at each number is itself given as a function.  The models are       *)
(* written with such recursive functions; Recursion says that they exist.   *)
(***************************************************************************)
EXTENDS Integers, FiniteSetTheorems, WellFoundedInduction, TLAPS

(* Finite induction: a set that holds 0 and every successor up to N holds   *)
(* them all.                                                                *)
LEMMA CountUp ==
  ASSUME NEW N \in Nat, NEW S, 0 \in S, \A n \in 0..N-1 : n \in S => n + 1 \in S
  PROVE  \A n \in 0..N : n \in S
PROOF
  <1> DEFINE Bad == (0..N) \ S
             Up(n) == 0..n
             U == {Up(n) : n \in Bad}
  <1>1. SUFFICES ASSUME Bad # {} PROVE FALSE
    OBVIOUS
  <1>2. U # {} /\ U \subseteq FiniteSubsetsOf(0..N)
    <2>1. U # {}
      BY <1>1
    <2>2. ASSUME NEW n \in Bad PROVE Up(n) \in SUBSET (0..N) /\ IsFiniteSet(Up(n))
      <3>1. n \in 0..N
        OBVIOUS
      <3>2. IsFiniteSet(0..n)
        BY <3>1, FS_Interval
      <3> QED
        BY <3>1, <3>2
    <2> QED
      BY <2>1, <2>2 DEF FiniteSubsetsOf
  <1>3. \E x \in U : \A y \in U : ~(<<y, x>> \in StrictSubsetOrdering(0..N))
    <2>1. IsWellFoundedOn(StrictSubsetOrdering(0..N), FiniteSubsetsOf(0..N))
      BY FS_StrictSubsetOrderingWellFounded, Zenon
    <2> HIDE DEF U
    <2> QED
      BY <1>2, <2>1, WFMin
  <1>4. PICK m \in Bad : \A n \in Bad : ~(<<Up(n), Up(m)>> \in StrictSubsetOrdering(0..N))
    BY <1>3
  <1>5. m # 0 /\ m \in 0..N /\ m \notin S
    OBVIOUS
  <1>6. m - 1 \in 0..N-1 /\ m - 1 \notin S
    BY <1>5
  <1>7. m - 1 \in Bad
    BY <1>6
  <1>8. Up(m-1) \in SUBSET (0..N) /\ Up(m) \in SUBSET (0..N) /\ Up(m-1) \subseteq Up(m)
    BY <1>5, <1>6
  <1>9. m \in Up(m) /\ m \notin Up(m-1)
    BY <1>5
  <1>10. Up(m-1) # Up(m)
    BY <1>9
  <1>11. <<Up(m-1), Up(m)>> \in StrictSubsetOrdering(0..N)
    BY <1>8, <1>10 DEF StrictSubsetOrdering
  <1> QED
    BY <1>4, <1>7, <1>11

\* f takes the steps st from a.
Follows(N, D, a, st, f) ==
  f \in [0..N -> D] /\ f[0] = a /\ \A n \in 1..N : f[n] = st[n][f[n-1]]

(* A function defined from its value one below exists.                      *)
LEMMA Recursion ==
  ASSUME NEW N \in Nat, NEW D, NEW a \in D, NEW st \in [1..N -> [D -> D]]
  PROVE  \E f : Follows(N, D, a, st, f)
PROOF
  <1> DEFINE Good(m, f) == /\ f \in [0..m -> D] /\ f[0] = a
                           /\ \A n \in 1..m : f[n] = st[n][f[n-1]]
             S == {m \in 0..N : \E f : Good(m, f)}
  <1>1. 0 \in S
    <2>1. Good(0, [i \in 0..0 |-> a])
      OBVIOUS
    <2>2. 0 \in 0..N
      OBVIOUS
    <2> HIDE DEF Good
    <2> QED
      BY <2>1, <2>2
  <1>2. ASSUME NEW m \in 0..N-1, m \in S PROVE m + 1 \in S
    <2>1. PICK f : Good(m, f)
      BY <1>2
    <2> DEFINE g == [i \in 0..m+1 |-> IF i = m + 1 THEN st[m + 1][f[m]] ELSE f[i]]
    <2>2. m \in Nat /\ m + 1 \in 1..N /\ m \in 0..m
      OBVIOUS
    <2>3. f[m] \in D
      BY <2>1, <2>2
    <2>4. st[m + 1][f[m]] \in D
      BY <2>2, <2>3
    <2>5. g \in [0..m+1 -> D]
      BY <2>1, <2>2, <2>4
    <2>6. g[0] = a
      BY <2>1, <2>2
    <2>7. ASSUME NEW n \in 1..m+1 PROVE g[n] = st[n][g[n-1]]
      <3>1. CASE n = m + 1
        <4>1. n - 1 = m /\ m \in 0..m+1 /\ m # m + 1 /\ m + 1 \in 0..m+1
          BY <2>2, <3>1
        <4>2. g[m+1] = st[m + 1][f[m]] /\ g[m] = f[m]
          BY <4>1
        <4> QED
          BY <3>1, <4>1, <4>2
      <3>2. CASE n # m + 1
        <4>1. n \in 1..m /\ n \in 0..m+1 /\ n - 1 \in 0..m+1 /\ n - 1 # m + 1
          BY <2>2, <3>2
        <4> QED
          BY <2>1, <3>2, <4>1
      <3> QED
        BY <3>1, <3>2
    <2>8. Good(m + 1, g)
      BY <2>5, <2>6, <2>7
    <2>9. m + 1 \in 0..N
      BY <2>2
    <2> HIDE DEF g, Good
    <2> QED
      BY <2>8, <2>9
  <1>3. N \in S
    <2> HIDE DEF S
    <2>1. \A n \in 0..N : n \in S
      BY <1>1, <1>2, CountUp, Zenon
    <2> QED
      BY <2>1
  <1> QED
    BY <1>3 DEF Follows

=============================================================================
