----------------------------- MODULE NatLemmas -----------------------------
(***************************************************************************)
(* The least number principle and induction, stated for sets of numbers    *)
(* (not for predicates), so that every prover can use them.                *)
(***************************************************************************)
EXTENDS Naturals, WellFoundedInduction, TLAPS

\* Every set of natural numbers that is not empty has a least member.
LEMMA LeastMember ==
  ASSUME NEW T \in SUBSET Nat, T # {}
  PROVE  \E m \in T : \A n \in T : m <= n
<1> DEFINE R == OpToRel(<, Nat)
<1>1. IsWellFoundedOn(R, Nat) BY NatLessThanWellFounded
<1>2. R = {p \in Nat \X Nat : p[1] < p[2]} BY DEF OpToRel
<1> HIDE DEF R
<1>3. PICK m \in T : \A n \in T : ~(<<n, m>> \in R) BY <1>1, WFMin
<1>4. ASSUME NEW n \in T PROVE m <= n
  <2>1. ASSUME n < m PROVE FALSE
    <3>1. <<n, m>> \in Nat \X Nat /\ <<n, m>>[1] < <<n, m>>[2] BY <2>1
    <3>2. <<n, m>> \in R BY <3>1, <1>2
    <3> QED BY <3>2, <1>3
  <2> QED BY <2>1
<1> QED BY <1>4

\* Induction: a set of natural numbers with 0, and with every next number, has them all.
LEMMA NatInductive ==
  ASSUME NEW T \in SUBSET Nat, 0 \in T, \A n \in T : n + 1 \in T
  PROVE  T = Nat
<1> SUFFICES ASSUME Nat \ T # {} PROVE FALSE OBVIOUS
<1>1. PICK m \in Nat \ T : \A n \in Nat \ T : m <= n BY LeastMember
<1>2. m # 0 BY <1>1
<1>3. m - 1 \in T BY <1>1, <1>2
<1>4. (m - 1) + 1 = m BY <1>1
<1> QED BY <1>1, <1>3, <1>4

\* Recursion: a function on the natural numbers is given by its first value and by a step
\* to each next one.
Steps(V) == [Nat \X V -> V]
IsRecursive(f, V, first, step) ==
  /\ f \in [Nat -> V]
  /\ f[0] = first
  /\ \A n \in Nat : f[n + 1] = step[<<n, f[n]>>]

LEMMA NatRecursive ==
  ASSUME NEW V, NEW first \in V, NEW step \in Steps(V)
  PROVE  \E f : IsRecursive(f, V, first, step)
<1> USE DEF Steps
<1> DEFINE Good(n, f) == /\ f \in [0 .. n -> V] /\ f[0] = first
                         /\ \A i \in 0 .. n - 1 : f[i + 1] = step[<<i, f[i]>>]
           T == {n \in Nat : \E f \in [0 .. n -> V] : Good(n, f)}
<1>1. T = Nat
  <2>1. 0 \in T
    <3>1. [i \in 0 .. 0 |-> first] \in [0 .. 0 -> V] OBVIOUS
    <3>2. Good(0, [i \in 0 .. 0 |-> first]) OBVIOUS
    <3> QED BY <3>1, <3>2
  <2>2. ASSUME NEW n \in T PROVE n + 1 \in T
    <3>1. n \in Nat /\ \E f \in [0 .. n -> V] : Good(n, f) OBVIOUS
    <3>2. PICK f \in [0 .. n -> V] : Good(n, f) BY <3>1
    <3> DEFINE g == [i \in 0 .. n + 1 |-> IF i <= n THEN f[i] ELSE step[<<n, f[n]>>]]
    <3>3. f[n] \in V BY <3>1, <3>2
    <3>4. step[<<n, f[n]>>] \in V BY <3>1, <3>3
    <3>5. g \in [0 .. n + 1 -> V] BY <3>1, <3>2, <3>4
    <3>6. \A i \in 0 .. n : g[i] = f[i] BY <3>1
    <3>7. g[n + 1] = step[<<n, f[n]>>] BY <3>1
    <3> HIDE DEF g
    <3>8. g[0] = first BY <3>1, <3>2, <3>6
    <3>9. \A i \in 0 .. (n + 1) - 1 : g[i + 1] = step[<<i, g[i]>>]
      <4> SUFFICES ASSUME NEW i \in 0 .. n PROVE g[i + 1] = step[<<i, g[i]>>] BY <3>1
      <4>1. CASE i = n BY <4>1, <3>1, <3>6, <3>7
      <4>2. CASE i # n
        <5>1. i \in 0 .. n - 1 /\ i + 1 \in 0 .. n BY <4>2, <3>1
        <5> QED BY <5>1, <3>2, <3>6
      <4> QED BY <4>1, <4>2
    <3>10. Good(n + 1, g) BY <3>5, <3>8, <3>9
    <3> HIDE DEF Good
    <3> QED BY <3>1, <3>5, <3>10
  <2> HIDE DEF T
  <2>3. T \in SUBSET Nat BY DEF T
  <2> QED BY <2>1, <2>2, <2>3, NatInductive
<1> DEFINE F(n) == CHOOSE f \in [0 .. n -> V] : Good(n, f)
<1>2. ASSUME NEW n \in Nat PROVE F(n) \in [0 .. n -> V] /\ Good(n, F(n))
  <2>1. \E f \in [0 .. n -> V] : Good(n, f) BY <1>1
  <2> HIDE DEF Good
  <2> QED BY <2>1
<1> HIDE DEF F, Good
\* Two that are good agree.
<1>3. ASSUME NEW n \in Nat, NEW m \in Nat, n <= m PROVE F(m)[n] = F(n)[n]
  <2> DEFINE A == {i \in Nat : i <= n => F(m)[i] = F(n)[i]}
  <2>1. Good(n, F(n)) /\ Good(m, F(m)) BY <1>2
  <2> USE DEF Good
  <2>2. 0 \in A BY <2>1
  <2>3. ASSUME NEW i \in A PROVE i + 1 \in A
    <3>1. i \in Nat /\ (i <= n => F(m)[i] = F(n)[i]) OBVIOUS
    <3>2. CASE i + 1 <= n
      <4>1. i \in 0 .. n - 1 /\ i \in 0 .. m - 1
        <5> HIDE DEF A, Good
        <5>1. n \in Nat /\ m \in Nat /\ n <= m BY <1>3
        <5> QED BY <3>1, <3>2, <5>1
      <4>2. F(m)[i + 1] = step[<<i, F(m)[i]>>] BY <2>1, <4>1
      <4>3. F(n)[i + 1] = step[<<i, F(n)[i]>>] BY <2>1, <4>1
      <4> QED BY <3>1, <3>2, <4>2, <4>3
    <3> QED BY <3>1, <3>2
  <2> HIDE DEF A
  <2>4. A \in SUBSET Nat BY DEF A
  <2>5. A = Nat BY <2>2, <2>3, <2>4, NatInductive
  <2> QED BY <2>5 DEF A
<1> DEFINE f == [n \in Nat |-> F(n)[n]]
<1>4. ASSUME NEW n \in Nat PROVE F(n)[n] \in V
  <2>1. F(n) \in [0 .. n -> V] BY <1>2
  <2> QED BY <2>1
<1>5. f \in [Nat -> V] BY <1>4
<1>6. f[0] = first BY <1>2 DEF Good
<1>7. ASSUME NEW n \in Nat PROVE f[n + 1] = step[<<n, f[n]>>]
  <2>0. n + 1 \in Nat /\ n <= n + 1 /\ n \in 0 .. (n + 1) - 1 OBVIOUS
  <2>1. Good(n + 1, F(n + 1)) BY <1>2, <2>0
  <2>2. F(n + 1)[n] = F(n)[n] BY <1>3, <2>0
  <2>3. f[n] = F(n)[n] /\ f[n + 1] = F(n + 1)[n + 1] BY <2>0
  <2> HIDE DEF f
  <2> QED BY <2>0, <2>1, <2>2, <2>3 DEF Good
<1> HIDE DEF f
<1> QED BY <1>5, <1>6, <1>7 DEF IsRecursive

\* The same up to a last number; what it reaches there is determined.
Recurs(g, L, first, step) ==
  /\ g[0] = first
  /\ \A n \in 1 .. L : g[n] = step[<<n, g[n - 1]>>]

LEMMA RangeRecursive ==
  ASSUME NEW V, NEW first \in V, NEW step \in Steps(V), NEW L \in Nat
  PROVE  \E g \in [0 .. L -> V] : Recurs(g, L, first, step)
<1> DEFINE next == [p \in Nat \X V |-> step[<<p[1] + 1, p[2]>>]]
<1>1. next \in Steps(V) BY DEF Steps
<1>2. \A n \in Nat, v \in V : next[<<n, v>>] = step[<<n + 1, v>>] OBVIOUS
<1> HIDE DEF next
<1>3. PICK f : IsRecursive(f, V, first, next) BY <1>1, NatRecursive
<1> USE <1>3 DEF IsRecursive
<1> DEFINE g == [n \in 0 .. L |-> f[n]]
<1>4. g \in [0 .. L -> V] OBVIOUS
<1>5. ASSUME NEW n \in 1 .. L PROVE g[n] = step[<<n, g[n - 1]>>]
  <2>1. n - 1 \in Nat /\ n - 1 \in 0 .. L /\ n \in 0 .. L /\ (n - 1) + 1 = n OBVIOUS
  <2>2. f[n] = next[<<n - 1, f[n - 1]>>] BY <2>1
  <2>3. f[n - 1] \in V BY <2>1
  <2>4. next[<<n - 1, f[n - 1]>>] = step[<<n, f[n - 1]>>] BY <2>1, <2>3, <1>2
  <2> QED BY <2>1, <2>2, <2>4
<1>6. g[0] = first OBVIOUS
<1> HIDE DEF g
<1> QED BY <1>4, <1>5, <1>6 DEF Recurs

LEMMA RangeUnique ==
  ASSUME NEW L \in Nat, NEW first, NEW step, NEW g, NEW h,
         Recurs(g, L, first, step), Recurs(h, L, first, step)
  PROVE  g[L] = h[L]
<1> USE DEF Recurs
<1> DEFINE T == {n \in Nat : n <= L => g[n] = h[n]}
<1>1. 0 \in T OBVIOUS
<1>2. ASSUME NEW n \in T PROVE n + 1 \in T
  <2> SUFFICES ASSUME n + 1 <= L PROVE g[n + 1] = h[n + 1] OBVIOUS
  <2>1. n + 1 \in 1 .. L /\ (n + 1) - 1 = n /\ g[n] = h[n] OBVIOUS
  <2>2. g[n + 1] = step[<<n + 1, g[n]>>] BY <2>1
  <2>3. h[n + 1] = step[<<n + 1, h[n]>>] BY <2>1
  <2> QED BY <2>1, <2>2, <2>3
<1>3. T \in SUBSET Nat OBVIOUS
<1> HIDE DEF T
<1>4. T = Nat BY <1>1, <1>2, <1>3, NatInductive
<1> QED BY <1>4 DEF T
=============================================================================
