------------------------------ MODULE LoopTheorems ------------------------------
(***************************************************************************)
(* Loops over a finite range, written as recursive functions: they are     *)
(* defined, and what each pass keeps holds at the end.  The induction is   *)
(* the least-number principle for sets, so that every fact is first-order  *)
(* and can be instantiated by the provers.                                 *)
(***************************************************************************)
EXTENDS Integers, WellFoundedInduction, TLAPS

\* Every set of naturals has a least element.
LEMMA LeastElement ==
    ASSUME NEW T \in SUBSET Nat, T # {}
    PROVE  \E m \in T : \A n \in T : m <= n
<1>1. IsWellFoundedOn(OpToRel(<, Nat), Nat)
  BY NatLessThanWellFounded
<1>2. PICK m \in T : \A n \in T : ~ (<<n, m>> \in OpToRel(<, Nat))
  BY <1>1, WFMin
<1>3. \A n \in T : ~(n < m)
  BY <1>2 DEF OpToRel
<1> QED BY <1>3

\* Induction over 0..N, for a set of indices.
LEMMA RangeInduction ==
    ASSUME NEW N \in Nat, NEW T, 0 \in T, \A n \in 1..N : n - 1 \in T => n \in T
    PROVE  \A n \in 0..N : n \in T
<1> DEFINE Bad == {n \in 0..N : n \notin T}
<1> SUFFICES ASSUME Bad # {} PROVE FALSE
  OBVIOUS
<1>1. PICK m \in Bad : \A n \in Bad : m <= n
  <2>1. Bad \in SUBSET Nat
    OBVIOUS
  <2> HIDE DEF Bad
  <2> QED BY <2>1, LeastElement
<1>2. m \in 1..N
  BY <1>1
<1>3. m - 1 \in 0..N /\ m - 1 \notin Bad
  BY <1>1, <1>2
<1>4. m - 1 \in T
  BY <1>3
<1> QED BY <1>1, <1>2, <1>4

\* The passes of a loop over N elements whose state is in S, and its runs
\* from a first state.
Bodies(N, S) == [1..N -> [S -> S]]
Runs(N, S, base, pass) ==
    {f \in [0..N -> S] : f[0] = base /\ \A n \in 1..N : f[n] = pass[n][f[n-1]]}

\* A loop whose passes stay in S has a run.
LEMMA LoopIsDefined ==
    ASSUME NEW N \in Nat, NEW S, NEW base \in S, NEW pass \in Bodies(N, S)
    PROVE  Runs(N, S, base, pass) # {}
<1> DEFINE Good(f, m) == f[0] = base /\ \A n \in 1..m : f[n] = pass[n][f[n-1]]
           T == {m \in 0..N : \E f \in [0..N -> S] : Good(f, m)}
<1>1. 0 \in T
  <2>1. [n \in 0..N |-> base] \in [0..N -> S]
    OBVIOUS
  <2>2. Good([n \in 0..N |-> base], 0)
    OBVIOUS
  <2> DEFINE f == [n \in 0..N |-> base]
  <2>3. f \in [0..N -> S] /\ Good(f, 0)
    BY <2>1, <2>2
  <2> HIDE DEF f, Good
  <2> QED BY <2>3
<1>2. ASSUME NEW m \in 1..N, m - 1 \in T PROVE m \in T
  <2>1. PICK f \in [0..N -> S] : Good(f, m - 1)
    BY <1>2
  <2> DEFINE g == [f EXCEPT ![m] = pass[m][f[m-1]]]
  <2>2. pass[m][f[m-1]] \in S
    BY DEF Bodies
  <2>3. g \in [0..N -> S]
    BY <2>2
  <2>4. Good(g, m)
    <3>1. g[0] = base
      BY <2>1
    <3>2. ASSUME NEW n \in 1..m PROVE g[n] = pass[n][g[n-1]]
      <4>1. CASE n = m
        BY <4>1
      <4>2. CASE n # m
        <5>1. n \in 1..(m-1) /\ n - 1 # m /\ n \in 0..N /\ n - 1 \in 0..N
          BY <4>2
        <5>2. g[n] = f[n] /\ g[n-1] = f[n-1]
          BY <4>2, <5>1
        <5> QED BY <2>1, <5>1, <5>2
      <4> QED BY <4>1, <4>2
    <3> QED BY <3>1, <3>2
  <2> HIDE DEF g, Good
  <2> QED BY <2>3, <2>4
<1>3. N \in T
  <2> HIDE DEF T
  <2>1. \A n \in 1..N : n - 1 \in T => n \in T
    BY <1>2
  <2>2. \A n \in 0..N : n \in T
    BY <1>1, <2>1, RangeInduction
  <2> QED BY <2>2
<1>4. PICK f \in [0..N -> S] : Good(f, N)
  BY <1>3
<1> QED BY <1>4 DEF Runs
=================================================================================
