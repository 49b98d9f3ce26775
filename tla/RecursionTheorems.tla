------------------------- MODULE RecursionTheorems -------------------------
(***************************************************************************)
(* Induction and recursion over the naturals, stated with sets instead of  *)
(* predicates so that the provers can use them: what a loop of the code    *)
(* leaves behind after any number of turns is proved with these.           *)
(***************************************************************************)
EXTENDS Naturals, TLAPS, WellFoundedInduction

\* A set of naturals that is not empty has a smallest element.
LEMMA Smallest ==
    ASSUME NEW T, T \subseteq Nat, T # {}
    PROVE  \E x \in T : \A y \in T : x <= y
<1>1. PICK x \in T : \A y \in T : ~ (<<y, x>> \in OpToRel(<, Nat))
  <2>1. IsWellFoundedOn(OpToRel(<, Nat), Nat)
    BY NatLessThanWellFounded
  <2>2. QED
    BY <2>1, WFMin
<1>2. ASSUME NEW y \in T PROVE x <= y
  <2>1. y < x => <<y, x>> \in OpToRel(<, Nat)
    BY DEF OpToRel
  <2>2. ~(y < x)
    BY <2>1, <1>1
  <2>3. QED
    BY <2>2
<1>3. QED
  BY <1>2

\* What holds of 0 and is kept from each natural to the next holds of all.
LEMMA Induction ==
    ASSUME NEW T, 0 \in T, \A k \in Nat : k \in T => k + 1 \in T
    PROVE  Nat \subseteq T
<1> SUFFICES ASSUME Nat \ T # {} PROVE FALSE
  OBVIOUS
<1>1. PICK x \in Nat \ T : \A y \in Nat \ T : x <= y
  <2>1. Nat \ T \subseteq Nat
    OBVIOUS
  <2>2. QED
    BY <2>1, Smallest
<1>2. x # 0 /\ x - 1 \in Nat /\ ~(x <= x - 1)
  OBVIOUS
<1>3. x - 1 \in T
  BY <1>1, <1>2
<1>4. (x - 1) + 1 \in T
  BY <1>2, <1>3
<1>5. QED
  BY <1>4

\* What holds of f[0] and is kept from each value to the next holds of all.
LEMMA UpTo ==
    ASSUME NEW n \in Nat, NEW f, NEW S, f[0] \in S[0],
           \A k \in 1 .. n : f[k - 1] \in S[k - 1] => f[k] \in S[k]
    PROVE  \A k \in 0 .. n : f[k] \in S[k]
<1> DEFINE T == {k \in Nat : k <= n => f[k] \in S[k]}
<1>1. 0 \in T
  OBVIOUS
<1>2. ASSUME NEW k \in T PROVE k + 1 \in T
  <2>1. CASE k + 1 <= n
    <3>1. k + 1 \in 1 .. n /\ (k + 1) - 1 = k /\ k <= n
      BY <2>1
    <3>2. f[(k + 1) - 1] \in S[(k + 1) - 1]
      BY <3>1
    <3>3. f[k + 1] \in S[k + 1]
      BY <3>1, <3>2
    <3>4. QED
      BY <3>3
  <2>2. CASE ~(k + 1 <= n)
    BY <2>2
  <2>3. QED
    BY <2>1, <2>2
<1>3. Nat \subseteq T
  <2> HIDE DEF T
  <2>1. QED
    BY <1>1, <1>2, Induction
<1>4. QED
  BY <1>3

\* step[k] leads from S[k - 1] to S[k], and base is where to begin.
Steps(n, S, base, step) ==
    base \in S[0] /\ \A k \in 1 .. n : \A x \in S[k - 1] : step[k][x] \in S[k]

\* f takes these steps.
Runs(f, n, S, base, step) ==
    /\ f = [k \in 0 .. n |-> f[k]]
    /\ f[0] = base
    /\ \A k \in 1 .. n : f[k - 1] \in S[k - 1] /\ f[k] = step[k][f[k - 1]]

\* A function can be defined by recursion.
LEMMA Recursion ==
    ASSUME NEW n \in Nat, NEW S, NEW base, NEW step, Steps(n, S, base, step)
    PROVE  \E f : Runs(f, n, S, base, step)
<1> USE DEF Steps
<1> DEFINE Reaches(f, m) == /\ f = [k \in 0 .. m |-> f[k]]
                            /\ f[0] = base
                            /\ \A k \in 1 .. m : f[k - 1] \in S[k - 1]
                                                 /\ f[k] = step[k][f[k - 1]]
                            /\ f[m] \in S[m]
           T == {m \in Nat : m <= n => \E f : Reaches(f, m)}
<1>1. 0 \in T
  <2> DEFINE f == [k \in 0 .. 0 |-> base]
  <2>1. Reaches(f, 0)
    OBVIOUS
  <2>2. QED
    BY <2>1
<1>2. ASSUME NEW m \in Nat, m \in T PROVE m + 1 \in T
  <2>1. SUFFICES ASSUME m + 1 <= n PROVE \E f : Reaches(f, m + 1)
    OBVIOUS
  <2>2. PICK f : Reaches(f, m)
    BY <1>2, <2>1
  <2> DEFINE g == [k \in 0 .. m + 1 |-> IF k = m + 1 THEN step[m + 1][f[m]] ELSE f[k]]
  <2>3. g = [k \in 0 .. m + 1 |-> g[k]] /\ g[0] = base
    BY <2>2
  <2>4. g[m + 1] = step[m + 1][f[m]] /\ \A k \in 0 .. m : g[k] = f[k]
    OBVIOUS
  <2> HIDE DEF g
  <2>5. g[m + 1] \in S[m + 1]
    <3>1. m + 1 \in 1 .. n /\ (m + 1) - 1 = m
      BY <2>1
    <3>2. f[m] \in S[(m + 1) - 1]
      BY <2>2, <3>1
    <3>3. QED
      BY <2>4, <3>1, <3>2
  <2>6. ASSUME NEW k \in 1 .. m + 1
        PROVE  g[k - 1] \in S[k - 1] /\ g[k] = step[k][g[k - 1]]
    <3>1. CASE k = m + 1
      <4>1. k - 1 = m /\ m \in 0 .. m
        BY <3>1
      <4>2. QED
        BY <2>2, <2>4, <3>1, <4>1
    <3>2. CASE k # m + 1
      <4>1. k \in 1 .. m /\ k \in 0 .. m /\ k - 1 \in 0 .. m
        BY <3>2
      <4>2. f[k - 1] \in S[k - 1] /\ f[k] = step[k][f[k - 1]]
        BY <2>2, <4>1
      <4>3. QED
        BY <2>4, <4>1, <4>2
    <3>3. QED
      BY <3>1, <3>2
  <2>7. QED
    BY <2>3, <2>5, <2>6
<1>3. Nat \subseteq T
  <2> HIDE DEF T
  <2>1. QED
    BY <1>1, <1>2, Induction
<1>4. PICK f : Reaches(f, n)
  BY <1>3
<1>5. QED
  BY <1>4 DEF Runs

\* f is defined from n down, each value from those behind it.
Descends(f, n, S, step) ==
    /\ f \in [1 .. n -> S]
    /\ \A i \in 1 .. n : f[i] = step[i][[k \in i + 1 .. n |-> f[k]]]

\* A function can be defined by recursion that way, too.
LEMMA Downward ==
    ASSUME NEW n \in Nat, NEW S, NEW step,
           \A i \in 1 .. n : \A g \in [i + 1 .. n -> S] : step[i][g] \in S
    PROVE  \E f : Descends(f, n, S, step)
<1> DEFINE From(f, m) == /\ f \in [m + 1 .. n -> S]
                         /\ \A i \in m + 1 .. n : f[i] = step[i][[k \in i + 1 .. n |-> f[k]]]
           T == {d \in Nat : d <= n => \E f : From(f, n - d)}
<1>1. 0 \in T
  <2> DEFINE f == [k \in n + 1 .. n |-> {}]
  <2>1. n + 1 .. n = {} /\ n - 0 = n
    OBVIOUS
  <2>2. From(f, n)
    BY <2>1
  <2>3. QED
    BY <2>1, <2>2
<1>2. ASSUME NEW d \in Nat, d \in T PROVE d + 1 \in T
  <2> SUFFICES ASSUME d + 1 <= n PROVE \E f : From(f, n - (d + 1))
    OBVIOUS
  <2>1. PICK m : m = n - d
    OBVIOUS
  <2>2. m \in 1 .. n /\ n - (d + 1) = m - 1 /\ (m - 1) + 1 = m /\ d <= n
    BY <2>1
  <2>3. PICK f : From(f, m)
    BY <1>2, <2>1, <2>2
  <2>a. f \in [m + 1 .. n -> S] /\ f = [k \in m + 1 .. n |-> f[k]]
    BY <2>3
  <2> DEFINE g == [k \in m .. n |-> IF k = m THEN step[m][f] ELSE f[k]]
  <2>4. g = [k \in m .. n |-> g[k]] /\ g[m] = step[m][f]
    BY <2>2
  <2>5. \A k \in m + 1 .. n : g[k] = f[k]
    <3> SUFFICES ASSUME NEW k \in m + 1 .. n PROVE g[k] = f[k]
      OBVIOUS
    <3>1. k \in m .. n /\ k # m
      BY <2>2
    <3>2. QED
      BY <3>1
  <2> HIDE DEF g
  <2>6. g[m] \in S
    BY <2>a, <2>2, <2>4
  <2>7. g \in [m .. n -> S]
    <3>1. \A k \in m .. n : k = m \/ k \in m + 1 .. n
      BY <2>2
    <3>2. \A k \in m + 1 .. n : g[k] \in S
      BY <2>a, <2>5
    <3>3. \A k \in m .. n : g[k] \in S
      BY <3>1, <3>2, <2>6
    <3>4. QED
      BY <3>3, <2>4
  <2>8. ASSUME NEW i \in m .. n PROVE g[i] = step[i][[k \in i + 1 .. n |-> g[k]]]
    <3>1. i + 1 .. n \subseteq m + 1 .. n
      BY <2>2
    <3>2. [k \in i + 1 .. n |-> g[k]] = [k \in i + 1 .. n |-> f[k]]
      BY <2>5, <3>1
    <3>3. CASE i = m
      BY <2>a, <2>4, <3>2, <3>3
    <3>4. CASE i # m
      <4>1. i \in m + 1 .. n
        BY <2>2, <3>4
      <4>2. f[i] = step[i][[k \in i + 1 .. n |-> f[k]]] /\ g[i] = f[i]
        BY <2>3, <2>5, <4>1
      <4>3. QED
        BY <3>2, <4>2
    <3>5. QED
      BY <3>3, <3>4
  <2>9. From(g, m - 1)
    BY <2>2, <2>7, <2>8
  <2>10. QED
    BY <2>2, <2>9
<1>3. Nat \subseteq T
  <2> HIDE DEF T
  <2>1. QED
    BY <1>1, <1>2, Induction
<1>4. n \in T
  <2> HIDE DEF T
  <2>1. QED
    BY <1>3
<1>5. n - n = 0 /\ n <= n /\ 0 + 1 = 1
  OBVIOUS
<1>6. \E f : From(f, 0)
  BY <1>4, <1>5
<1>7. QED
  BY <1>5, <1>6 DEF Descends
=============================================================================
