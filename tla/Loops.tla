-------------------------------- MODULE Loops --------------------------------
(***************************************************************************)
(* Induction over the naturals and what a loop computes.  Induction is     *)
(* stated for a set of naturals, so that no predicate is a parameter; the  *)
(* loops of the program are recursive functions, which exist and keep an   *)
(* invariant by that induction.                                            *)
(***************************************************************************)
EXTENDS Integers, WellFoundedInduction, TLAPS

Less == {ss \in Nat \X Nat : ss[1] < ss[2]}

\* The order of the naturals is well founded, as a set of pairs.
LEMMA LessWF == IsWellFoundedOn(Less, Nat)
  BY NatLessThanWellFounded DEF OpToRel, Less

\* A set of naturals that is not empty has a least element.
LEMMA LeastElement ==
  ASSUME NEW T \in SUBSET Nat, T # {}
  PROVE \E m \in T : \A n \in T : m <= n
  <1>1. \E x \in T : \A y \in T : ~ (<<y, x>> \in Less)
    BY LessWF, WFMin
  <1>2. PICK x \in T : \A y \in T : ~ (<<y, x>> \in Less)
    BY <1>1
  <1>3. \A y \in T : ~(y < x)
    <2> SUFFICES ASSUME NEW y \in T PROVE ~(y < x)
      OBVIOUS
    <2>1. <<y, x>> \notin Less
      BY <1>2
    <2> QED BY <2>1 DEF Less
  <1> QED BY <1>3

\* Induction, over a set of naturals in place of a predicate.
LEMMA SetInduction ==
  ASSUME NEW T \in SUBSET Nat, 0 \in T, \A n \in T : n + 1 \in T
  PROVE T = Nat
  <1> SUFFICES ASSUME Nat \ T # {} PROVE FALSE
    OBVIOUS
  <1>1. PICK m \in Nat \ T : \A n \in Nat \ T : m <= n
    BY LeastElement
  <1>2. m - 1 \in T
    BY <1>1
  <1> QED BY <1>1, <1>2

\* A loop over 1..N from the state d: F[<<n, x>>] is the state after round n, x the one before.
IsLoop(f, D, d, F, N) ==
  f \in [0..N -> D] /\ f[0] = d /\ \A n \in 1..N : f[n] = F[<<n, f[n - 1]>>]

LEMMA Recursion ==
  ASSUME NEW D, NEW d \in D, NEW F \in [Nat \X D -> D], NEW N \in Nat
  PROVE  \E f : IsLoop(f, D, d, F, N)
  <1> DEFINE Loop(f, m) == f[0] = d /\ \A n \in 1..m : f[n] = F[<<n, f[n - 1]>>]
             T == {m \in Nat : \E f \in [0..m -> D] : Loop(f, m)}
  <1>1. 0 \in T
    <2> DEFINE f == [n \in 0..0 |-> d]
    <2>1. f \in [0..0 -> D] /\ Loop(f, 0)
      OBVIOUS
    <2> QED BY <2>1
  <1>2. ASSUME NEW m \in T PROVE m + 1 \in T
    <2>1. PICK f \in [0..m -> D] : Loop(f, m)
      OBVIOUS
    <2> DEFINE g == [n \in 0..(m + 1) |-> IF n <= m THEN f[n] ELSE F[<<m + 1, f[m]>>]]
    <2>2. g \in [0..(m + 1) -> D]
      <3>1. f[m] \in D /\ <<m + 1, f[m]>> \in Nat \X D
        OBVIOUS
      <3> QED BY <3>1
    <2>3. \A n \in 1..m : g[n] = f[n] /\ g[n - 1] = f[n - 1]
      OBVIOUS
    <2>4. g[0] = d /\ g[m + 1] = F[<<m + 1, g[m]>>]
      <3>1. g[0] = f[0] /\ g[m] = f[m] /\ g[m + 1] = F[<<m + 1, f[m]>>]
        OBVIOUS
      <3> HIDE DEF g
      <3> QED BY <2>1, <3>1
    <2>5. \A n \in 1..(m + 1) : g[n] = F[<<n, g[n - 1]>>]
      <3> SUFFICES ASSUME NEW n \in 1..(m + 1) PROVE g[n] = F[<<n, g[n - 1]>>]
        OBVIOUS
      <3> HIDE DEF g
      <3>1. CASE n = m + 1
        BY <2>4, <3>1
      <3>2. CASE n \in 1..m
        BY <2>1, <2>3, <3>2
      <3> QED BY <3>1, <3>2
    <2> HIDE DEF g
    <2>6. Loop(g, m + 1)
      BY <2>4, <2>5
    <2> QED BY <2>2, <2>6
  <1>3. T = Nat
    <2> HIDE DEF T
    <2> QED BY <1>1, <1>2, SetInduction DEF T
  <1> QED BY <1>3 DEF IsLoop

\* A loop that keeps its state in a set.
Stays(f, D, N) == f[0] \in D /\ \A n \in 1..N : f[n - 1] \in D => f[n] \in D

LEMMA LoopStays ==
  ASSUME NEW N \in Nat, NEW D, NEW f, Stays(f, D, N)
  PROVE  \A n \in 0..N : f[n] \in D
  <1> USE DEF Stays
  <1> DEFINE T == {m \in Nat : m <= N => f[m] \in D}
  <1>1. 0 \in T
    OBVIOUS
  <1>2. ASSUME NEW m \in T PROVE m + 1 \in T
    <2> SUFFICES ASSUME m + 1 <= N PROVE f[m + 1] \in D
      OBVIOUS
    <2>1. m + 1 \in 1..N /\ (m + 1) - 1 = m /\ f[m] \in D
      OBVIOUS
    <2> QED BY <2>1
  <1>3. T = Nat
    <2> HIDE DEF T
    <2> QED BY <1>1, <1>2, SetInduction DEF T
  <1> QED BY <1>3
=============================================================================
