------------------------------- MODULE Induction -------------------------------
(***************************************************************************)
(* Induction on the natural numbers and the existence of functions defined *)
(* by recursion, stated for sets and functions instead of operators: the   *)
(* proofs about recursive definitions instantiate them with a set of       *)
(* numbers that have a property, and with the function of one step.  Folds *)
(* over the numbers from 1 to n, which sums are made of, are unfolded here,*)
(* sequences of sequences are joined, and there is what sequences without  *)
(* repetition and divisions with rest need.                                *)
(***************************************************************************)
EXTENDS Integers, SequencesExt, SequenceTheorems, FiniteSetTheorems, WellFoundedInduction, TLAPS

\* Every nonempty set of natural numbers has a least element.
LEMMA Least ==
  ASSUME NEW T, T \subseteq Nat, T # {}
  PROVE  \E m \in T : \A n \in T : m <= n
<1> DEFINE R == OpToRel(<, Nat)
<1>1. IsWellFoundedOn(R, Nat)
  BY NatLessThanWellFounded
<1>2. \A x, y \in Nat : <<y, x>> \in R <=> y < x
  BY DEF OpToRel
<1> HIDE DEF R
<1>3. PICK m \in T : \A n \in T : ~(<<n, m>> \in R)
  BY <1>1, WFMin
<1>4. ASSUME NEW n \in T
      PROVE  m <= n
  <2>1. m \in Nat /\ n \in Nat /\ ~(n < m)
    BY <1>2, <1>3
  <2> QED
    BY <2>1
<1> QED
  BY <1>4

\* A set that holds zero and the successor of each of its numbers holds all.
LEMMA NumberByNumber ==
  ASSUME NEW T, 0 \in T, \A n \in Nat : n \in T => n + 1 \in T
  PROVE  \A n \in Nat : n \in T
<1> SUFFICES ASSUME NEW k \in Nat, k \notin T PROVE FALSE
  OBVIOUS
<1> DEFINE U == Nat \ T
<1>1. U \subseteq Nat /\ U # {}
  OBVIOUS
<1>2. PICK m \in U : \A n \in U : m <= n
  BY <1>1, Least
<1>3. m \in Nat /\ m # 0 /\ m - 1 \in Nat /\ m - 1 < m /\ m - 1 + 1 = m
  BY <1>2
<1>4. m - 1 \in T
  BY <1>2, <1>3
<1> QED
  BY <1>2, <1>3, <1>4

\* A set that holds every number whose predecessors it all holds, holds all.
LEMMA ByPredecessors ==
  ASSUME NEW T, \A n \in Nat : (\A m \in Nat : m < n => m \in T) => n \in T
  PROVE  \A n \in Nat : n \in T
<1> SUFFICES ASSUME NEW k \in Nat, k \notin T PROVE FALSE
  OBVIOUS
<1> DEFINE U == Nat \ T
<1>1. U \subseteq Nat /\ U # {}
  OBVIOUS
<1>2. PICK m \in U : \A n \in U : m <= n
  BY <1>1, Least
<1>3. \A n \in Nat : n < m => n \in T
  <2>1. m \in Nat
    BY <1>2
  <2> SUFFICES ASSUME NEW n \in Nat, n < m, n \notin T PROVE FALSE
    OBVIOUS
  <2>2. m <= n
    BY <1>2
  <2> QED
    BY <2>1, <2>2
<1> QED
  BY <1>2, <1>3

\* f begins with s0 and goes on by a step, which may depend on the number.
IsIteration(f, s0, step) == f[0] = s0 /\ \A n \in Nat : f[n + 1] = step[n][f[n]]

\* There is such a function.
LEMMA StepByStep ==
  ASSUME NEW S, NEW s0 \in S, NEW step \in [Nat -> [S -> S]]
  PROVE  \E f \in [Nat -> S] : IsIteration(f, s0, step)
<1> DEFINE Upto(n) == {g \in [0 .. n -> S] :
                         g[0] = s0 /\ \A k \in 0 .. n - 1 : g[k + 1] = step[k][g[k]]}
           Some == {n \in Nat : Upto(n) # {}}
\* Two of them agree where both are defined.
<1>1. ASSUME NEW m \in Nat, NEW n \in Nat, NEW g \in Upto(m), NEW h \in Upto(n)
      PROVE  \A k \in Nat : k <= m /\ k <= n => g[k] = h[k]
  <2> DEFINE T == {k \in Nat : k <= m /\ k <= n => g[k] = h[k]}
  <2>1. 0 \in T
    OBVIOUS
  <2>2. ASSUME NEW k \in Nat, k \in T
        PROVE  k + 1 \in T
    <3> SUFFICES ASSUME k + 1 <= m, k + 1 <= n PROVE g[k + 1] = h[k + 1]
      OBVIOUS
    <3>1. g[k] = h[k] /\ k \in 0 .. m - 1 /\ k \in 0 .. n - 1
      BY <2>2
    <3> QED
      BY <3>1
  <2> HIDE DEF T
  <2>3. \A k \in Nat : k \in T
    BY <2>1, <2>2, NumberByNumber
  <2> QED
    BY <2>3 DEF T
<1>2. \A n \in Nat : n \in Some
  <2>1. 0 \in Some
    <3>1. [k \in 0 .. 0 |-> s0] \in Upto(0)
      OBVIOUS
    <3> QED
      BY <3>1
  <2>2. ASSUME NEW n \in Nat, n \in Some
        PROVE  n + 1 \in Some
    <3>1. PICK g \in Upto(n) : TRUE
      BY <2>2
    <3> DEFINE h == [k \in 0 .. n + 1 |-> IF k = n + 1 THEN step[n][g[n]] ELSE g[k]]
    <3>2. g \in [0 .. n -> S] /\ g[n] \in S
      BY <3>1
    <3>3. h \in [0 .. n + 1 -> S]
      BY <3>2
    <3>4. h[0] = s0
      BY <3>1
    <3>5. ASSUME NEW k \in 0 .. n
          PROVE  h[k + 1] = step[k][h[k]]
      <4>1. CASE k = n
        <5>1. h[n] = g[n] /\ h[n + 1] = step[n][g[n]]
          OBVIOUS
        <5> HIDE DEF h
        <5> QED
          BY <4>1, <5>1
      <4>2. CASE k # n
        <5>1. k \in 0 .. n - 1 /\ k + 1 # n + 1 /\ k # n + 1 /\ k + 1 \in 0 .. n + 1 /\ k \in 0 .. n + 1
          BY <4>2
        <5>2. g[k + 1] = step[k][g[k]]
          BY <3>1, <5>1
        <5> QED
          BY <5>1, <5>2
      <4> QED
        BY <4>1, <4>2
    <3> HIDE DEF h
    <3>6. h \in Upto(n + 1)
      BY <3>3, <3>4, <3>5
    <3> QED
      BY <3>6
  <2> HIDE DEF Some
  <2> QED
    BY <2>1, <2>2, NumberByNumber
<1> DEFINE g(n) == CHOOSE h \in Upto(n) : TRUE
           f == [n \in Nat |-> g(n)[n]]
<1>3. ASSUME NEW n \in Nat
      PROVE  g(n) \in Upto(n)
  <2>1. Upto(n) # {}
    BY <1>2
  <2> HIDE DEF Upto
  <2> QED
    BY <2>1
<1> HIDE DEF g
<1>4. f \in [Nat -> S] /\ f[0] = s0
  <2>1. \A n \in Nat : g(n)[n] \in S
    BY <1>3
  <2>2. g(0)[0] = s0
    BY <1>3
  <2> QED
    BY <2>1, <2>2
<1>5. ASSUME NEW n \in Nat
      PROVE  f[n + 1] = step[n][f[n]]
  <2>1. g(n + 1) \in Upto(n + 1) /\ g(n) \in Upto(n) /\ n \in 0 .. (n + 1) - 1
    BY <1>3
  <2>2. g(n + 1)[n + 1] = step[n][g(n + 1)[n]]
    BY <2>1
  <2>3. g(n + 1)[n] = g(n)[n]
    <3> HIDE DEF Upto
    <3> QED
      BY <1>1, <2>1
  <2> QED
    BY <2>2, <2>3
<1> HIDE DEF f
<1>6. IsIteration(f, s0, step)
  BY <1>4, <1>5 DEF IsIteration
<1> QED
  BY <1>4, <1>6

HalvesEquation(f, S, step) ==
  f = [n \in Nat |->
        [s \in S |-> CASE n = 0 -> s
                       [] n = 1 -> step[s]
                       [] OTHER -> f[n - n \div 2][f[n \div 2][s]]]]

\* f[n] is step taken n times.
Repeats(f, S, step) ==
  /\ \A s \in S : f[0][s] = s /\ f[1][s] = step[s]
  /\ \A n \in Nat : \A s \in S : f[n][s] \in S /\ f[n + 1][s] = step[f[n][s]]
  /\ \A m, n \in Nat : \A s \in S : f[m + n][s] = f[m][f[n][s]]

\* Steps can be repeated any number of times.
LEMMA Repetition ==
  ASSUME NEW S, NEW step \in [S -> S]
  PROVE  \E it \in [Nat -> [S -> S]] : Repeats(it, S, step)
<1> DEFINE M == [S -> S]
           same == [s \in S |-> s]
           then == [n \in Nat |-> [h \in M |-> [s \in S |-> step[h[s]]]]]
<1>1. same \in M
  OBVIOUS
<1>2. then \in [Nat -> [M -> M]]
  OBVIOUS
<1>3. \A n \in Nat, h \in M : \A s \in S : then[n][h][s] = step[h[s]]
  OBVIOUS
<1>4. \A s \in S : same[s] = s
  OBVIOUS
<1> HIDE DEF then, M, same
<1>5. PICK it \in [Nat -> M] : it[0] = same /\ \A n \in Nat : it[n + 1] = then[n][it[n]]
  <2>1. \E it \in [Nat -> M] : IsIteration(it, same, then)
    BY <1>1, <1>2, StepByStep
  <2> QED
    BY <2>1 DEF IsIteration
<1>6. \A n \in Nat : \A s \in S : it[n][s] \in S /\ it[n + 1][s] = step[it[n][s]]
  <2> SUFFICES ASSUME NEW n \in Nat, NEW s \in S
               PROVE  it[n][s] \in S /\ it[n + 1][s] = step[it[n][s]]
    OBVIOUS
  <2>1. it[n] \in M /\ it[n + 1] = then[n][it[n]]
    BY <1>5
  <2>2. it[n + 1][s] = step[it[n][s]]
    BY <1>3, <2>1
  <2> QED
    BY <2>1, <2>2 DEF M
<1>7. \A s \in S : it[0][s] = s
  BY <1>4, <1>5
<1>8. \A s \in S : it[1][s] = step[s]
  BY <1>6, <1>7
<1>9. \A m \in Nat : \A n \in Nat : \A s \in S : it[m + n][s] = it[m][it[n][s]]
  <2> DEFINE T == {m \in Nat : \A n \in Nat : \A s \in S : it[m + n][s] = it[m][it[n][s]]}
  <2>1. 0 \in T
    BY <1>6, <1>7
  <2>2. ASSUME NEW m \in Nat, m \in T
        PROVE  m + 1 \in T
    <3> SUFFICES ASSUME NEW n \in Nat, NEW s \in S
                 PROVE  it[(m + 1) + n][s] = it[m + 1][it[n][s]]
      OBVIOUS
    <3>1. (m + 1) + n = (m + n) + 1 /\ m + n \in Nat
      OBVIOUS
    <3>2. it[(m + n) + 1][s] = step[it[m + n][s]]
      BY <1>6, <3>1
    <3>3. it[m + n][s] = it[m][it[n][s]]
      BY <2>2
    <3>4. it[m + 1][it[n][s]] = step[it[m][it[n][s]]]
      BY <1>6
    <3> QED
      BY <3>1, <3>2, <3>3, <3>4
  <2> HIDE DEF T
  <2>3. \A m \in Nat : m \in T
    BY <2>1, <2>2, NumberByNumber
  <2> QED
    BY <2>3 DEF T
<1> QED
  BY <1>5, <1>6, <1>7, <1>8, <1>9 DEF M, Repeats

\* Repeating a step by halves is repeating it one by one.
LEMMA ByHalves ==
  ASSUME NEW S, NEW step \in [S -> S],
         NEW f, f = CHOOSE g : HalvesEquation(g, S, step)
  PROVE  Repeats(f, S, step)
<1>1. PICK it \in [Nat -> [S -> S]] : Repeats(it, S, step)
  BY Repetition
<1>2. HalvesEquation(it, S, step)
  <2>1. ASSUME NEW n \in Nat, NEW s \in S
        PROVE  it[n][s] = CASE n = 0 -> s
                            [] n = 1 -> step[s]
                            [] OTHER -> it[n - n \div 2][it[n \div 2][s]]
    <3>1. n - n \div 2 \in Nat /\ n \div 2 \in Nat /\ (n - n \div 2) + n \div 2 = n
      OBVIOUS
    <3>2. it[n][s] = it[n - n \div 2][it[n \div 2][s]]
      BY <1>1, <3>1 DEF Repeats
    <3> QED
      BY <1>1, <3>2 DEF Repeats
  <2>2. it = [n \in Nat |-> [s \in S |-> it[n][s]]]
    OBVIOUS
  <2> QED
    BY <2>1, <2>2 DEF HalvesEquation
<1>3. HalvesEquation(f, S, step)
  BY <1>2
<1>4. ASSUME NEW n \in Nat, NEW s \in S
      PROVE  f[n][s] = CASE n = 0 -> s
                         [] n = 1 -> step[s]
                         [] OTHER -> f[n - n \div 2][f[n \div 2][s]]
  <2> DEFINE F(k, t) == CASE k = 0 -> t
                          [] k = 1 -> step[t]
                          [] OTHER -> f[k - k \div 2][f[k \div 2][t]]
  <2>1. f = [k \in Nat |-> [t \in S |-> F(k, t)]]
    BY <1>3 DEF HalvesEquation
  <2> HIDE DEF F
  <2>2. f[n] = [t \in S |-> F(n, t)]
    BY <2>1
  <2>3. f[n][s] = F(n, s)
    BY <2>2
  <2> QED
    BY <2>3 DEF F
<1>5. \A n \in Nat : \A s \in S : f[n][s] = it[n][s]
  <2> DEFINE T == {n \in Nat : \A s \in S : f[n][s] = it[n][s]}
  <2>1. ASSUME NEW n \in Nat, \A m \in Nat : m < n => m \in T
        PROVE  n \in T
    <3> SUFFICES ASSUME NEW s \in S PROVE f[n][s] = it[n][s]
      OBVIOUS
    <3>1. CASE n = 0 \/ n = 1
      BY <1>1, <1>4, <3>1 DEF Repeats
    <3>2. CASE n # 0 /\ n # 1
      <4>1. /\ n - n \div 2 \in Nat /\ n \div 2 \in Nat /\ (n - n \div 2) + n \div 2 = n
            /\ n - n \div 2 < n /\ n \div 2 < n
        BY <3>2
      <4>2. n - n \div 2 \in T /\ n \div 2 \in T
        BY <2>1, <4>1
      <4>3. f[n][s] = f[n - n \div 2][f[n \div 2][s]]
        BY <1>4, <3>2
      <4>4. f[n \div 2][s] = it[n \div 2][s] /\ it[n \div 2][s] \in S
        BY <4>1, <4>2
      <4>5. f[n - n \div 2][it[n \div 2][s]] = it[n - n \div 2][it[n \div 2][s]]
        BY <4>2, <4>4
      <4>6. it[n][s] = it[n - n \div 2][it[n \div 2][s]]
        BY <1>1, <4>1 DEF Repeats
      <4> QED
        BY <4>3, <4>4, <4>5, <4>6
    <3> QED
      BY <3>1, <3>2
  <2> HIDE DEF T
  <2>2. \A n \in Nat : n \in T
    BY <2>1, ByPredecessors
  <2> QED
    BY <2>2 DEF T
<1>6. \A n \in Nat : \A s \in S : it[n][s] \in S
  BY <1>1
<1>7. ASSUME NEW m \in Nat, NEW n \in Nat, NEW s \in S
      PROVE  f[m + n][s] = f[m][f[n][s]]
  <2>1. m + n \in Nat /\ it[n][s] \in S
    BY <1>6
  <2>2. f[m + n][s] = it[m + n][s] /\ f[n][s] = it[n][s]
    BY <1>5, <2>1
  <2>3. f[m][it[n][s]] = it[m][it[n][s]]
    BY <1>5, <2>1
  <2> QED
    BY <1>1, <2>2, <2>3 DEF Repeats
<1>8. ASSUME NEW n \in Nat, NEW s \in S
      PROVE  f[n][s] \in S /\ f[n + 1][s] = step[f[n][s]]
  <2>1. n + 1 \in Nat
    OBVIOUS
  <2>2. f[n][s] = it[n][s] /\ f[n + 1][s] = it[n + 1][s]
    BY <1>5, <2>1
  <2>3. it[n][s] \in S /\ it[n + 1][s] = step[it[n][s]]
    BY <1>1 DEF Repeats
  <2> QED
    BY <2>2, <2>3
<1>9. ASSUME NEW s \in S
      PROVE  f[0][s] = s /\ f[1][s] = step[s]
  <2>1. f[0][s] = it[0][s] /\ f[1][s] = it[1][s]
    BY <1>5
  <2> QED
    BY <1>1, <2>1 DEF Repeats
<1> QED
  BY <1>7, <1>8, <1>9 DEF Repeats

-----------------------------------------------------------------------------
(* Folds over a run of numbers, as the community modules define them: over *)
(* its subsets, the largest number last.                                   *)

LEMMA LastOfRun ==
  ASSUME NEW k \in Nat, k # 0
  PROVE  Max(1 .. k) = k /\ (1 .. k) \ {k} = 1 .. k - 1
<1>1. k \in 1 .. k /\ \A y \in 1 .. k : k >= y
  OBVIOUS
<1>2. \A x \in 1 .. k : (\A y \in 1 .. k : x >= y) => x = k
  OBVIOUS
<1>3. Max(1 .. k) = k
  BY <1>1, <1>2 DEF Max
<1> QED
  BY <1>3

LEMMA LastOfMore ==
  ASSUME NEW n \in Nat, NEW s \in SUBSET (1 .. n + 1), n + 1 \in s
  PROVE  Max(s) = n + 1
<1>1. \A y \in s : n + 1 >= y
  OBVIOUS
<1>2. \A x \in s : (\A y \in s : x >= y) => x = n + 1
  <2> SUFFICES ASSUME NEW x \in s, \A y \in s : x >= y PROVE x = n + 1
    OBVIOUS
  <2>1. x \in 1 .. n + 1 /\ x >= n + 1
    OBVIOUS
  <2> QED
    BY <2>1
<1> QED
  BY <1>1, <1>2 DEF Max

LEMMA LastOfSome ==
  ASSUME NEW n \in Nat, NEW s \in SUBSET (1 .. n), s # {}
  PROVE  Max(s) \in s
<1> DEFINE T == {k \in Nat : \A u \in SUBSET (1 .. k) : u # {} => \E x \in u : \A y \in u : x >= y}
<1>1. 0 \in T
  <2>1. 1 .. 0 = {}
    OBVIOUS
  <2> QED
    BY <2>1
<1>2. ASSUME NEW k \in Nat, k \in T
      PROVE  k + 1 \in T
  <2> SUFFICES ASSUME NEW u \in SUBSET (1 .. k + 1), u # {}
               PROVE  \E x \in u : \A y \in u : x >= y
    OBVIOUS
  <2>1. CASE k + 1 \in u
    BY <2>1
  <2>2. CASE k + 1 \notin u
    <3>1. u \in SUBSET (1 .. k)
      <4> SUFFICES ASSUME NEW x \in u PROVE x \in 1 .. k
        OBVIOUS
      <4>1. x \in 1 .. k + 1 /\ x # k + 1
        BY <2>2
      <4> QED
        BY <4>1
    <3> QED
      BY <1>2, <3>1
  <2> QED
    BY <2>1, <2>2
<1> HIDE DEF T
<1>3. n \in T
  BY <1>1, <1>2, NumberByNumber
<1> QED
  BY <1>3 DEF T, Max

\* Max of a set depends on the set only; a fold over the subsets of a run of numbers.
FoldsBy(it, n, s0, step) ==
  \A s \in SUBSET (1 .. n) : it[s] = IF s = {} THEN s0 ELSE step[Max(s)][it[s \ {Max(s)}]]

LEMMA SetFoldExists ==
  ASSUME NEW V, NEW s0 \in V, NEW N \in Nat, NEW step \in [1 .. N -> [V -> V]]
  PROVE  \E it \in [SUBSET (1 .. N) -> V] : FoldsBy(it, N, s0, step)
<1> DEFINE Some(n) == \E it \in [SUBSET (1 .. n) -> V] : FoldsBy(it, n, s0, step)
           T == {n \in Nat : n <= N => Some(n)}
<1>1. 0 \in T
  <2>1. SUBSET (1 .. 0) = {{}}
    OBVIOUS
  <2>2. [s \in SUBSET (1 .. 0) |-> s0] \in [SUBSET (1 .. 0) -> V]
    OBVIOUS
  <2>3. FoldsBy([s \in SUBSET (1 .. 0) |-> s0], 0, s0, step)
    BY <2>1 DEF FoldsBy
  <2> QED
    <3>1. Some(0)
      BY <2>2, <2>3
    <3> HIDE DEF Some
    <3> QED
      BY <3>1
<1>2. ASSUME NEW n \in Nat, n \in T
      PROVE  n + 1 \in T
  <2> SUFFICES ASSUME n + 1 <= N PROVE Some(n + 1)
    <3> HIDE DEF Some
    <3> QED
      OBVIOUS
  <2>1. Some(n)
    <3> HIDE DEF Some
    <3> QED
      BY <1>2
  <2>2. PICK it \in [SUBSET (1 .. n) -> V] : FoldsBy(it, n, s0, step)
    BY <2>1
  <2> DEFINE more == [s \in SUBSET (1 .. n + 1) |->
                        IF n + 1 \in s THEN step[n + 1][it[s \ {n + 1}]] ELSE it[s]]
  <2>3. ASSUME NEW s \in SUBSET (1 .. n + 1)
        PROVE  s \ {n + 1} \in SUBSET (1 .. n)
    <3> SUFFICES ASSUME NEW x \in s, x # n + 1 PROVE x \in 1 .. n
      OBVIOUS
    <3>1. x \in 1 .. n + 1
      OBVIOUS
    <3> QED
      BY <3>1
  <2>4. n + 1 \in 1 .. N
    OBVIOUS
  <2>5. more \in [SUBSET (1 .. n + 1) -> V]
    <3> SUFFICES ASSUME NEW s \in SUBSET (1 .. n + 1)
                 PROVE  (IF n + 1 \in s THEN step[n + 1][it[s \ {n + 1}]] ELSE it[s]) \in V
      OBVIOUS
    <3>1. CASE n + 1 \in s
      <4>1. it[s \ {n + 1}] \in V
        BY <2>2, <2>3
      <4>2. step[n + 1] \in [V -> V]
        BY <2>4
      <4> QED
        BY <3>1, <4>1, <4>2
    <3>2. CASE n + 1 \notin s
      <4>1. s \ {n + 1} = s
        BY <3>2
      <4> QED
        BY <2>2, <2>3, <3>2, <4>1
    <3> QED
      BY <3>1, <3>2
  <2>6. ASSUME NEW s \in SUBSET (1 .. n + 1)
        PROVE  more[s] = IF s = {} THEN s0 ELSE step[Max(s)][more[s \ {Max(s)}]]
    <3>1. \A u \in SUBSET (1 .. n + 1) :
            more[u] = IF n + 1 \in u THEN step[n + 1][it[u \ {n + 1}]] ELSE it[u]
      OBVIOUS
    <3> HIDE DEF more
    <3>2. CASE n + 1 \in s
      <4>1. Max(s) = n + 1
        BY <3>2, LastOfMore
      <4>2. s \ {n + 1} \in SUBSET (1 .. n + 1) /\ n + 1 \notin s \ {n + 1} /\ s # {}
        BY <3>2
      <4>3. more[s \ {n + 1}] = it[s \ {n + 1}]
        BY <3>1, <4>2
      <4> QED
        BY <3>1, <3>2, <4>1, <4>2, <4>3
    <3>3. CASE n + 1 \notin s
      <4>1. s \in SUBSET (1 .. n)
        <5>1. s \ {n + 1} = s
          BY <3>3
        <5> QED
          BY <2>3, <5>1
      <4>2. it[s] = IF s = {} THEN s0 ELSE step[Max(s)][it[s \ {Max(s)}]]
        BY <2>2, <4>1 DEF FoldsBy
      <4>3. s \ {Max(s)} \in SUBSET (1 .. n + 1) /\ n + 1 \notin s \ {Max(s)}
        BY <3>3
      <4>4. more[s] = it[s] /\ more[s \ {Max(s)}] = it[s \ {Max(s)}]
        BY <3>1, <3>3, <4>3
      <4> QED
        BY <4>2, <4>4
    <3> QED
      BY <3>2, <3>3
  <2> HIDE DEF more
  <2>7. FoldsBy(more, n + 1, s0, step)
    BY <2>6 DEF FoldsBy
  <2> QED
    BY <2>5, <2>7
<1>3. N \in T
  <2> HIDE DEF T
  <2> QED
    BY <1>1, <1>2, NumberByNumber
<1>4. Some(N)
  <2> HIDE DEF Some
  <2> QED
    BY <1>3
<1> QED
  BY <1>4

\* What such a fold is at the runs of numbers.
LEMMA FoldOfRuns ==
  ASSUME NEW V, NEW n \in Nat, NEW it, it[{}] \in V,
         \A k \in 1 .. n : it[1 .. k - 1] \in V => it[1 .. k] \in V
  PROVE  [k \in 0 .. n |-> it[1 .. k]] \in [0 .. n -> V]
<1> DEFINE U == {k \in Nat : k <= n => it[1 .. k] \in V}
<1>1. 0 \in U
  <2>1. 1 .. 0 = {}
    OBVIOUS
  <2> QED
    BY <2>1
<1>2. ASSUME NEW k \in Nat, k \in U
      PROVE  k + 1 \in U
  <2> SUFFICES ASSUME k + 1 <= n PROVE it[1 .. k + 1] \in V
    OBVIOUS
  <2>1. k + 1 \in 1 .. n /\ (k + 1) - 1 = k /\ it[1 .. k] \in V
    BY <1>2
  <2> QED
    BY <2>1
<1> HIDE DEF U
<1>3. \A k \in Nat : k \in U
  BY <1>1, <1>2, NumberByNumber
<1> QED
  BY <1>3 DEF U

\* A function that is defined by its value at the half of its argument.
GoesByHalves(f, s0, step) == \A n \in Nat : f[n] = IF n = 0 THEN s0 ELSE step[f[n \div 2]]

\* Halving ends at zero.
LEMMA ByHalvesExists ==
  ASSUME NEW V, NEW s0 \in V, NEW step \in [V -> V]
  PROVE  \E f \in [Nat -> V] : GoesByHalves(f, s0, step)
<1> DEFINE first == [n \in Nat |-> s0]
           more == [j \in Nat |-> [h \in [Nat -> V] |->
                      [n \in Nat |-> IF n = 0 THEN s0 ELSE step[h[n \div 2]]]]]
<1>1. \A n \in Nat : n \div 2 \in Nat /\ (n # 0 => n \div 2 < n)
  OBVIOUS
<1>2. first \in [Nat -> V]
  OBVIOUS
<1>3. more \in [Nat -> [[Nat -> V] -> [Nat -> V]]]
  <2> SUFFICES ASSUME NEW h \in [Nat -> V]
               PROVE  [n \in Nat |-> IF n = 0 THEN s0 ELSE step[h[n \div 2]]] \in [Nat -> V]
    OBVIOUS
  <2>1. \A n \in Nat : (IF n = 0 THEN s0 ELSE step[h[n \div 2]]) \in V
    BY <1>1
  <2> QED
    BY <2>1
<1>4. \A j \in Nat : \A h \in [Nat -> V] : \A n \in Nat :
        more[j][h][n] = IF n = 0 THEN s0 ELSE step[h[n \div 2]]
  OBVIOUS
<1> HIDE DEF more
<1>5. PICK it \in [Nat -> [Nat -> V]] : IsIteration(it, first, more)
  BY <1>2, <1>3, StepByStep
<1>6. ASSUME NEW j \in Nat, NEW n \in Nat
      PROVE  it[j + 1][n] = IF n = 0 THEN s0 ELSE step[it[j][n \div 2]]
  <2>1. it[j] \in [Nat -> V] /\ it[j + 1] = more[j][it[j]]
    BY <1>5 DEF IsIteration
  <2> QED
    BY <1>4, <2>1
<1> DEFINE T == {j \in Nat : \A n \in Nat : n <= j => it[j + 1][n] = it[n][n]}
<1>7. it[0][0] = s0
  BY <1>5 DEF IsIteration
<1>8. ASSUME NEW j \in Nat, \A i \in Nat : i < j => i \in T
      PROVE  j \in T
  <2> SUFFICES ASSUME NEW n \in Nat, n <= j
               PROVE  it[j + 1][n] = it[n][n]
    OBVIOUS
  <2>1. CASE n = 0
    BY <1>6, <1>7, <2>1
  <2>2. CASE n # 0
    <3>1. PICK i \in Nat, k \in Nat : j = i + 1 /\ n = k + 1
      <4>1. j - 1 \in Nat /\ n - 1 \in Nat /\ j = (j - 1) + 1 /\ n = (n - 1) + 1
        BY <2>2
      <4> QED
        BY <4>1
    <3>2. PICK half \in Nat : half = n \div 2 /\ half <= k /\ half <= i
      BY <1>1, <2>2, <3>1
    <3>3. it[i + 1][half] = it[half][half]
      BY <1>8, <3>1, <3>2
    <3>4. it[k + 1][half] = it[half][half] /\ it[j + 1][n] = step[it[i + 1][half]] /\ it[k + 1][n] = step[it[k][half]]
      <4>1. k < j
        BY <3>1
      <4> QED
        BY <1>6, <1>8, <2>2, <3>1, <3>2, <4>1
    <3>5. it[k][half] = it[half][half]
      <4>1. CASE k = half
        BY <4>1
      <4>2. CASE k # half
        <5>1. PICK l \in Nat : k = l + 1
          <6>1. k - 1 \in Nat /\ k = (k - 1) + 1
            BY <3>2, <4>2
          <6> QED
            BY <6>1
        <5>2. half <= l /\ l < j
          BY <3>1, <3>2, <4>2, <5>1
        <5> QED
          BY <1>8, <5>1, <5>2
      <4> QED
        BY <4>1, <4>2
    <3> QED
      BY <3>1, <3>3, <3>4, <3>5
  <2> QED
    BY <2>1, <2>2
<1> HIDE DEF T
<1>9. \A j \in Nat : j \in T
  BY <1>8, ByPredecessors
<1> DEFINE f == [n \in Nat |-> it[n][n]]
<1>10. f \in [Nat -> V]
  BY <1>5
<1>11. ASSUME NEW n \in Nat
       PROVE  it[n][n] = IF n = 0 THEN s0 ELSE step[it[n \div 2][n \div 2]]
  <2>1. CASE n = 0
    BY <1>7, <2>1
  <2>2. CASE n # 0
    <3>1. PICK k \in Nat : n = k + 1
      <4>1. n - 1 \in Nat /\ n = (n - 1) + 1
        BY <2>2
      <4> QED
        BY <4>1
    <3>2. PICK half \in Nat : half = n \div 2 /\ half <= k
      BY <1>1, <2>2, <3>1
    <3>3. it[n][n] = step[it[k][half]]
      BY <1>6, <2>2, <3>1, <3>2
    <3>4. it[k][half] = it[half][half]
      <4>1. CASE k = half
        BY <4>1
      <4>2. CASE k # half
        <5>1. PICK l \in Nat : k = l + 1
          <6>1. k - 1 \in Nat /\ k = (k - 1) + 1
            BY <3>2, <4>2
          <6> QED
            BY <6>1
        <5>2. half <= l
          BY <3>2, <4>2, <5>1
        <5> QED
          BY <1>9, <5>1, <5>2 DEF T
      <4> QED
        BY <4>1, <4>2
    <3> QED
      BY <2>2, <3>2, <3>3, <3>4
  <2> QED
    BY <2>1, <2>2
<1> QED
  <2>1. \A n \in Nat : f[n] = IF n = 0 THEN s0 ELSE step[f[n \div 2]]
    BY <1>1, <1>11
  <2> QED
    BY <1>10, <2>1 DEF GoesByHalves

\* `it` folds values of V over the subsets of 1 .. n, with a step for each number.
IsFold(it, V, n, s0, step) ==
  /\ n \in Nat /\ s0 \in V /\ step \in [1 .. n -> [V -> V]] /\ it[{}] = s0
  /\ \A s \in SUBSET (1 .. n) :
       s # {} /\ it[s \ {Max(s)}] \in V => it[s] = step[Max(s)][it[s \ {Max(s)}]]

\* What such a fold is, step by step.
StepsOfFold(it, V, n, s0, step) ==
  \E p \in [0 .. n -> V] :
    /\ p[0] = s0 /\ p[n] = it[1 .. n]
    /\ \A k \in 1 .. n : p[k] = step[k][p[k - 1]]

\* The fold of a run of numbers, one number after the other.
LEMMA FoldStepByStep ==
  ASSUME NEW V, NEW n, NEW s0, NEW step, NEW it, IsFold(it, V, n, s0, step)
  PROVE  StepsOfFold(it, V, n, s0, step)
<1>0. n \in Nat /\ s0 \in V /\ step \in [1 .. n -> [V -> V]] /\ it[{}] = s0
  BY DEF IsFold
<1>1. ASSUME NEW k \in 1 .. n, it[1 .. k - 1] \in V
      PROVE  it[1 .. k] = step[k][it[1 .. k - 1]]
  <2>1. k \in Nat /\ k # 0 /\ k <= n /\ 1 \in 1 .. k
    BY <1>0
  <2>2. 1 .. k \in SUBSET (1 .. n) /\ 1 .. k # {}
    <3>1. \A x \in 1 .. k : x \in 1 .. n
      BY <1>0, <2>1
    <3>2. 1 \in 1 .. k
      BY <2>1
    <3> QED
      BY <3>1, <3>2, Zenon
  <2>3. Max(1 .. k) = k /\ (1 .. k) \ {k} = 1 .. k - 1
    BY <2>1, LastOfRun
  <2> QED
    BY <1>1, <2>2, <2>3 DEF IsFold
<1>2. \A k \in 1 .. n : it[1 .. k - 1] \in V => it[1 .. k] \in V
  BY <1>0, <1>1
<1> DEFINE p == [k \in 0 .. n |-> it[1 .. k]]
<1>3. p \in [0 .. n -> V]
  BY <1>0, <1>2, FoldOfRuns
<1>4. p[0] = s0 /\ p[n] = it[1 .. n]
  <2>1. 1 .. 0 = {}
    OBVIOUS
  <2> QED
    BY <1>0, <2>1
<1>5. \A k \in 1 .. n : p[k] = step[k][p[k - 1]]
  <2> SUFFICES ASSUME NEW k \in 1 .. n PROVE p[k] = step[k][p[k - 1]]
    OBVIOUS
  <2>1. k - 1 \in 0 .. n /\ k \in 0 .. n
    BY <1>0
  <2>2. p[k] = it[1 .. k] /\ p[k - 1] = it[1 .. k - 1]
    BY <2>1
  <2> HIDE DEF p
  <2> QED
    BY <1>1, <1>3, <2>1, <2>2
<1> QED
  BY <1>3, <1>4, <1>5 DEF StepsOfFold

-----------------------------------------------------------------------------
(* Sequences: parts, words one behind the other, and joined sequences. *)

\* A part of a sequence, entry by entry.
LEMMA PartOfSequence ==
  ASSUME NEW S, NEW s \in Seq(S), NEW a \in Nat, NEW m \in Nat, a + m <= Len(s)
  PROVE  /\ SubSeq(s, a + 1, a + m) \in Seq(S) /\ Len(SubSeq(s, a + 1, a + m)) = m
         /\ SubSeq(s, a + 1, a + m) = [i \in 1 .. m |-> s[a + i]]
<1> DEFINE part == SubSeq(s, a + 1, a + m)
<1>1. /\ Len(s) \in Nat /\ a + 1 \in 1 .. Len(s) + 1 /\ a + m \in a + 1 - 1 .. Len(s)
  OBVIOUS
<1>2. /\ part \in Seq(S) /\ Len(part) = (a + m) - (a + 1) + 1
      /\ \A i \in 1 .. (a + m) - (a + 1) + 1 : part[i] = s[a + 1 + i - 1]
  BY <1>1, SubSeqProperties
<1> HIDE DEF part
<1>3. Len(part) = m /\ (a + m) - (a + 1) + 1 = m /\ \A i \in 1 .. m : a + 1 + i - 1 = a + i
  BY <1>2
<1>4. \A i \in 1 .. m : part[i] = s[a + i]
  BY <1>2, <1>3
<1>5. part \in [1 .. m -> S]
  BY <1>2, <1>3, LenProperties
<1>6. part = [i \in 1 .. m |-> s[a + i]]
  BY <1>4, <1>5
<1> QED
  BY <1>2, <1>3, <1>6 DEF part

\* A function of the numbers up to n is a sequence of length n.
LEMMA SequenceOfNumbered ==
  ASSUME NEW S, NEW n \in Nat, NEW f \in [1 .. n -> S]
  PROVE  f \in Seq(S) /\ Len(f) = n
OBVIOUS

\* Two sequences one behind the other.
TwoWords(S, m, a, n, b) == m \in Nat /\ a \in [1 .. m -> S] /\ n \in Nat /\ b \in [1 .. n -> S]

\* What they are as one.
OneWord(c, S, m, a, n, b) ==
  /\ c \in Seq(S) /\ Len(c) = m + n /\ c \in [1 .. m + n -> S]
  /\ \A i \in 1 .. m : c[i] = a[i]
  /\ \A i \in 1 .. n : c[m + i] = b[i]

\* The first keeps its places, the second follows.
LEMMA OneBehindTheOther ==
  ASSUME NEW S, NEW m, NEW a, NEW n, NEW b, TwoWords(S, m, a, n, b)
  PROVE  OneWord(a \o b, S, m, a, n, b)
<1>0. m \in Nat /\ a \in [1 .. m -> S] /\ n \in Nat /\ b \in [1 .. n -> S]
  BY DEF TwoWords
<1>1. a \in Seq(S) /\ Len(a) = m /\ b \in Seq(S) /\ Len(b) = n
  BY <1>0
<1>2. /\ a \o b \in Seq(S) /\ Len(a \o b) = Len(a) + Len(b)
      /\ \A i \in 1 .. Len(a) : (a \o b)[i] = a[i]
      /\ \A j \in 1 .. Len(b) : (a \o b)[Len(a) + j] = b[j]
  BY <1>1
<1>3. a \o b \in [1 .. Len(a \o b) -> S]
  BY <1>2, LenProperties
<1> QED
  BY <1>1, <1>2, <1>3 DEF OneWord

\* A place in n parts of length m: its part and its place there.
LEMMA PlaceInParts ==
  ASSUME NEW n \in Nat, NEW m \in Nat, NEW i \in 1 .. n * m
  PROVE  /\ m # 0 /\ (i - 1) \div m + 1 \in 1 .. n /\ ((i - 1) % m) + 1 \in 1 .. m
         /\ i = (((i - 1) \div m + 1) - 1) * m + (((i - 1) % m) + 1)
<1>1. m # 0
  <2>1. n * 0 = 0
    OBVIOUS
  <2> QED
    BY <2>1
<1> DEFINE q == (i - 1) \div m
           r == (i - 1) % m
<1>2. q \in Nat /\ r \in 0 .. m - 1 /\ i - 1 = m * q + r
  BY <1>1
<1> HIDE DEF q, r
<1>3. q < n
  <2>1. CASE q >= n
    <3>1. m * q >= m * n
      BY <1>2, <2>1
    <3>2. m * n = n * m
      OBVIOUS
    <3> QED
      BY <1>2, <3>1, <3>2
  <2> QED
    BY <1>2, <2>1
<1>4. (q + 1) - 1 = q /\ q * m = m * q
  BY <1>2
<1> QED
  BY <1>1, <1>2, <1>3, <1>4 DEF q, r

\* What makes a function the joining of sequences, part after part.
FlattenEquation(f, seqs) ==
  f = [i \in 1 .. Len(seqs) |-> IF i = 1 THEN seqs[i] ELSE f[i - 1] \o seqs[i]]

\* Joining is well defined.
LEMMA FlattenExists ==
  ASSUME NEW S, NEW seqs \in Seq(Seq(S)), Len(seqs) # 0
  PROVE  \E f : FlattenEquation(f, seqs) /\ FlattenSeq(seqs) = f[Len(seqs)]
<1> DEFINE part == [n \in Nat |-> IF n + 1 \in 1 .. Len(seqs) THEN seqs[n + 1] ELSE <<>>]
           step == [n \in Nat |-> [h \in Seq(S) |-> h \o part[n]]]
<1>1. Len(seqs) \in Nat /\ \A i \in 1 .. Len(seqs) : seqs[i] \in Seq(S)
  OBVIOUS
<1>2. <<>> \in Seq(S)
  OBVIOUS
<1>3. \A n \in Nat : part[n] \in Seq(S)
  BY <1>1, <1>2
<1>4. \A n \in Nat : n + 1 \in 1 .. Len(seqs) => part[n] = seqs[n + 1]
  OBVIOUS
<1> HIDE DEF part
<1>5. step \in [Nat -> [Seq(S) -> Seq(S)]]
  BY <1>3
<1>6. \A n \in Nat : \A h \in Seq(S) : step[n][h] = h \o part[n]
  OBVIOUS
<1> HIDE DEF step
<1>7. PICK it \in [Nat -> Seq(S)] : IsIteration(it, <<>>, step)
  BY <1>2, <1>5, StepByStep
<1> DEFINE g == [i \in 1 .. Len(seqs) |-> it[i]]
<1>8. ASSUME NEW i \in 1 .. Len(seqs)
      PROVE  g[i] = IF i = 1 THEN seqs[i] ELSE g[i - 1] \o seqs[i]
  <2>1. PICK n \in Nat : i = n + 1 /\ n = i - 1
    BY <1>1
  <2>2. it[n + 1] = it[n] \o seqs[n + 1]
    <3>1. it[n] \in Seq(S) /\ it[n + 1] = step[n][it[n]]
      BY <1>7 DEF IsIteration
    <3> QED
      BY <1>4, <1>6, <2>1, <3>1
  <2>3. CASE i = 1
    <3>1. n = 0 /\ it[0] = <<>>
      BY <1>7, <2>1, <2>3 DEF IsIteration
    <3>2. <<>> \o seqs[1] = seqs[1]
      BY <1>1, <2>3
    <3> QED
      BY <2>1, <2>2, <2>3, <3>1, <3>2
  <2>4. CASE i # 1
    <3>1. i - 1 \in 1 .. Len(seqs)
      BY <1>1, <2>4
    <3> QED
      BY <2>1, <2>2, <2>4, <3>1
  <2> QED
    BY <2>3, <2>4
<1>9. FlattenEquation(g, seqs)
  <2>1. g = [i \in 1 .. Len(seqs) |-> g[i]]
    OBVIOUS
  <2> HIDE DEF g
  <2> QED
    BY <1>8, <2>1 DEF FlattenEquation
<1> HIDE DEF g
<1> DEFINE flatten == CHOOSE f : f = [i \in 1 .. Len(seqs) |->
                                       IF i = 1 THEN seqs[i] ELSE f[i - 1] \o seqs[i]]
<1>10. FlattenEquation(flatten, seqs)
  BY <1>9 DEF FlattenEquation
<1>11. FlattenSeq(seqs) = flatten[Len(seqs)]
  BY DEF FlattenSeq
<1> HIDE DEF flatten
<1> QED
  BY <1>10, <1>11

\* A part behind a sequence leaves its entries where they are.
LEMMA OnePartMore ==
  ASSUME NEW S, NEW a \in Seq(S), NEW b \in Seq(S)
  PROVE  /\ a \o b \in Seq(S) /\ Len(a \o b) = Len(a) + Len(b)
         /\ \A i \in 1 .. Len(a) : (a \o b)[i] = a[i]
         /\ \A j \in 1 .. Len(b) : (a \o b)[Len(a) + j] = b[j]
OBVIOUS

\* Where each part of a sequence of sequences ends when they are joined.
EndsOfParts(ends, seqs) ==
  /\ ends \in [0 .. Len(seqs) -> Nat] /\ ends[0] = 0
  /\ \A i \in 1 .. Len(seqs) : ends[i] = ends[i - 1] + Len(seqs[i])

\* s is the first n parts joined.
Joint(s, S, seqs, ends, n) ==
  /\ s \in Seq(S) /\ Len(s) = ends[n]
  /\ \A i \in 1 .. n : ends[i] <= ends[n] /\ \A j \in 1 .. Len(seqs[i]) : s[ends[i - 1] + j] = seqs[i][j]

\* Each part lies behind the ones before it.
LEMMA JoinedParts ==
  ASSUME NEW S, NEW seqs \in Seq(Seq(S)), NEW ends, EndsOfParts(ends, seqs)
  PROVE  Joint(FlattenSeq(seqs), S, seqs, ends, Len(seqs))
<1>1. Len(seqs) \in Nat /\ \A i \in 1 .. Len(seqs) : seqs[i] \in Seq(S)
  OBVIOUS
<1>2. /\ ends \in [0 .. Len(seqs) -> Nat] /\ ends[0] = 0
      /\ \A i \in 1 .. Len(seqs) : ends[i] = ends[i - 1] + Len(seqs[i])
  BY DEF EndsOfParts
<1>3. CASE Len(seqs) = 0
  <2>1. FlattenSeq(seqs) = seqs /\ seqs = <<>>
    BY <1>3 DEF FlattenSeq
  <2>2. Len(seqs) = ends[Len(seqs)] /\ 1 .. Len(seqs) = {}
    BY <1>2, <1>3
  <2>3. seqs \in Seq(S)
    BY <2>1
  <2> QED
    BY <2>1, <2>2, <2>3 DEF Joint
<1>4. CASE Len(seqs) # 0
  <2>1. PICK f : FlattenEquation(f, seqs) /\ FlattenSeq(seqs) = f[Len(seqs)]
    BY <1>4, FlattenExists
  <2>2. \A i \in 1 .. Len(seqs) : f[i] = IF i = 1 THEN seqs[i] ELSE f[i - 1] \o seqs[i]
    <3> DEFINE F(i) == IF i = 1 THEN seqs[i] ELSE f[i - 1] \o seqs[i]
    <3>1. f = [i \in 1 .. Len(seqs) |-> F(i)]
      BY <2>1 DEF FlattenEquation
    <3> HIDE DEF F
    <3>2. \A i \in 1 .. Len(seqs) : f[i] = F(i)
      BY <3>1
    <3> QED
      BY <3>2 DEF F
  <2> DEFINE T == {n \in Nat : n + 1 \in 1 .. Len(seqs) => Joint(f[n + 1], S, seqs, ends, n + 1)}
  <2>3. 0 \in T
    <3>1. 1 \in 1 .. Len(seqs) /\ f[1] = seqs[1] /\ ends[1] = 0 + Len(seqs[1]) /\ ends[1 - 1] = 0
      BY <1>1, <1>2, <1>4, <2>2
    <3>2. f[1] \in Seq(S) /\ Len(f[1]) = ends[1] /\ ends[1] \in Nat
      BY <1>1, <1>2, <3>1
    <3>3. \A i \in 1 .. 1 : ends[i] <= ends[1] /\ \A j \in 1 .. Len(seqs[i]) : f[1][ends[i - 1] + j] = seqs[i][j]
      BY <3>1, <3>2
    <3> QED
      BY <3>2, <3>3 DEF Joint
  <2>4. ASSUME NEW n \in Nat, n \in T
        PROVE  n + 1 \in T
    <3> SUFFICES ASSUME (n + 1) + 1 \in 1 .. Len(seqs)
                 PROVE  Joint(f[(n + 1) + 1], S, seqs, ends, (n + 1) + 1)
      OBVIOUS
    <3>1. PICK k \in Nat : k = n + 1
      OBVIOUS
    <3>2. k \in 1 .. Len(seqs) /\ k + 1 \in 1 .. Len(seqs) /\ k + 1 # 1 /\ (k + 1) - 1 = k
      BY <1>1, <3>1
    <3>3. Joint(f[k], S, seqs, ends, k)
      BY <2>4, <3>1, <3>2
    <3>4. f[k + 1] = f[k] \o seqs[k + 1]
      BY <2>2, <3>2
    <3>5. PICK m \in Nat, l \in Nat : m = ends[k] /\ l = Len(seqs[k + 1]) /\ ends[k + 1] = m + l
      <4>1. ends[k] \in Nat /\ Len(seqs[k + 1]) \in Nat /\ ends[k + 1] = ends[k] + Len(seqs[k + 1])
        <5>1. k \in 0 .. Len(seqs) /\ seqs[k + 1] \in Seq(S)
          BY <1>1, <3>2
        <5>2. ends[k + 1] = ends[(k + 1) - 1] + Len(seqs[k + 1])
          BY <1>2, <3>2
        <5>3. ends[k] \in Nat
          BY <1>2, <5>1
        <5>4. Len(seqs[k + 1]) \in Nat
          BY <5>1
        <5> QED
          BY <3>2, <5>2, <5>3, <5>4
      <4> QED
        BY <4>1
    <3>6. /\ f[k + 1] \in Seq(S) /\ Len(f[k + 1]) = m + l
          /\ \A p \in 1 .. m : f[k + 1][p] = f[k][p]
          /\ \A j \in 1 .. l : f[k + 1][m + j] = seqs[k + 1][j]
      <4>1. PICK a \in Seq(S), b \in Seq(S) :
              a = f[k] /\ b = seqs[k + 1] /\ Len(a) = m /\ Len(b) = l
        BY <1>1, <3>2, <3>3, <3>5 DEF Joint
      <4>2. /\ a \o b \in Seq(S) /\ Len(a \o b) = Len(a) + Len(b)
            /\ \A i \in 1 .. Len(a) : (a \o b)[i] = a[i]
            /\ \A j \in 1 .. Len(b) : (a \o b)[Len(a) + j] = b[j]
        BY OnePartMore
      <4> QED
        BY <3>4, <4>1, <4>2
    <3>7. ASSUME NEW i \in 1 .. k + 1
          PROVE  ends[i] <= ends[k + 1] /\ \A j \in 1 .. Len(seqs[i]) : f[k + 1][ends[i - 1] + j] = seqs[i][j]
      <4>1. CASE i = k + 1
        <5>1. ends[i - 1] = m /\ Len(seqs[i]) = l
          BY <3>2, <3>5, <4>1
        <5> QED
          BY <3>5, <3>6, <4>1, <5>1
      <4>2. CASE i # k + 1
        <5>1. i \in 1 .. k /\ i \in 1 .. Len(seqs) /\ i - 1 \in 0 .. Len(seqs)
          BY <1>1, <3>2, <4>2
        <5>2. PICK first \in Nat, last \in Nat, size \in Nat :
                first = ends[i - 1] /\ last = ends[i] /\ size = Len(seqs[i]) /\ last = first + size
          <6>1. ends[i - 1] \in Nat /\ ends[i] = ends[i - 1] + Len(seqs[i])
            BY <1>2, <5>1
          <6>2. Len(seqs[i]) \in Nat
            BY <1>1, <5>1
          <6> QED
            BY <6>1, <6>2
        <5>3. last <= m /\ \A j \in 1 .. size : f[k][first + j] = seqs[i][j]
          BY <3>3, <3>5, <5>1, <5>2 DEF Joint
        <5>4. last <= ends[k + 1]
          BY <3>5, <5>3
        <5>5. ASSUME NEW j \in 1 .. size
              PROVE  f[k + 1][first + j] = seqs[i][j]
          <6>1. first + j \in 1 .. m
            <7>1. last <= m
              BY <5>3
            <7>2. last = first + size
              BY <5>2
            <7> QED
              BY <7>1, <7>2
          <6> QED
            BY <3>6, <5>3, <6>1
        <5> QED
          BY <5>2, <5>4, <5>5
      <4> QED
        BY <4>1, <4>2
    <3>8. Joint(f[k + 1], S, seqs, ends, k + 1)
      BY <3>5, <3>6, <3>7 DEF Joint
    <3> QED
      BY <3>1, <3>8
  <2> HIDE DEF T
  <2>5. \A n \in Nat : n \in T
    BY <2>3, <2>4, NumberByNumber
  <2>6. PICK n \in Nat : n + 1 = Len(seqs)
    <3>1. Len(seqs) - 1 \in Nat /\ (Len(seqs) - 1) + 1 = Len(seqs)
      BY <1>1, <1>4
    <3> QED
      BY <3>1
  <2>7. n \in T /\ n + 1 \in 1 .. Len(seqs)
    BY <1>1, <2>5, <2>6
  <2>8. Joint(f[n + 1], S, seqs, ends, n + 1)
    BY <2>7 DEF T
  <2> QED
    BY <2>1, <2>6, <2>8
<1> QED
  BY <1>3, <1>4

\* Parts of one length m make a sequence as long as their number times m.
LEMMA FlattenedParts ==
  ASSUME NEW S, NEW seqs \in Seq(Seq(S)), NEW m \in Nat,
         \A i \in 1 .. Len(seqs) : Len(seqs[i]) = m
  PROVE  /\ FlattenSeq(seqs) \in Seq(S) /\ Len(FlattenSeq(seqs)) = Len(seqs) * m
         /\ \A i \in 1 .. Len(seqs) : \A j \in 1 .. m :
              FlattenSeq(seqs)[(i - 1) * m + j] = seqs[i][j]
<1> DEFINE ends == [i \in 0 .. Len(seqs) |-> i * m]
<1>1. Len(seqs) \in Nat
  OBVIOUS
<1>2. \A i \in 0 .. Len(seqs) : ends[i] = i * m
  OBVIOUS
<1>3. ends \in [0 .. Len(seqs) -> Nat]
  <2>1. \A i \in Nat : i * m \in Nat
    OBVIOUS
  <2>2. \A i \in 0 .. Len(seqs) : i \in Nat
    OBVIOUS
  <2> QED
    BY <2>1, <2>2
<1> HIDE DEF ends
<1>4. ends[0] = 0
  <2>1. 0 * m = 0 /\ 0 \in 0 .. Len(seqs)
    BY <1>1
  <2> QED
    BY <1>2, <2>1
<1>5. ASSUME NEW i \in 1 .. Len(seqs)
      PROVE  ends[i] = ends[i - 1] + Len(seqs[i])
  <2>1. PICK k \in Nat : i = k + 1 /\ k = i - 1
    <3>1. i - 1 \in Nat /\ i = (i - 1) + 1
      BY <1>1
    <3> QED
      BY <3>1
  <2>2. (k + 1) * m = k * m + m
    BY <2>1
  <2>3. i \in 0 .. Len(seqs) /\ k \in 0 .. Len(seqs)
    BY <1>1, <2>1
  <2> QED
    BY <1>2, <2>1, <2>2, <2>3
<1>6. EndsOfParts(ends, seqs)
  BY <1>3, <1>4, <1>5 DEF EndsOfParts
<1>7. Joint(FlattenSeq(seqs), S, seqs, ends, Len(seqs))
  BY <1>6, JoinedParts
<1>8. \A i \in 1 .. Len(seqs) : i - 1 \in 0 .. Len(seqs) /\ ends[i - 1] = (i - 1) * m
  BY <1>1, <1>2
<1>9. Len(seqs) \in 0 .. Len(seqs)
  BY <1>1
<1> QED
  BY <1>2, <1>7, <1>8, <1>9 DEF Joint

-----------------------------------------------------------------------------
(* Sequences without repetition, and division with rest. *)

\* A sequence has each member of a set, once.
Lists(s, S, M) ==
  /\ s \in Seq(S)
  /\ \A i, j \in 1 .. Len(s) : s[i] = s[j] => i = j
  /\ \A x : x \in M <=> \E i \in 1 .. Len(s) : s[i] = x

\* Lists without a common member, one behind the other, are a list.
LEMMA ListBehindList ==
  ASSUME NEW S, NEW a, NEW b, NEW M, NEW N, Lists(a, S, M), Lists(b, S, N), M \cap N = {}
  PROVE  Lists(a \o b, S, M \cup N)
<1>1. a \in Seq(S) /\ b \in Seq(S)
  BY DEF Lists
<1>2. PICK m \in Nat, n \in Nat : m = Len(a) /\ n = Len(b)
  BY <1>1
<1>3. /\ a \o b \in Seq(S) /\ Len(a \o b) = m + n
      /\ \A i \in 1 .. m : (a \o b)[i] = a[i]
      /\ \A j \in 1 .. n : (a \o b)[m + j] = b[j]
  BY <1>1, <1>2
<1> DEFINE c == a \o b
<1>4. \A i \in 1 .. m : c[i] = a[i] /\ c[i] \in M
  BY <1>2, <1>3, Zenon DEF Lists
<1>5. \A j \in 1 .. n : c[m + j] = b[j] /\ c[m + j] \in N
  BY <1>2, <1>3, Zenon DEF Lists
<1>6. /\ \A i, j \in 1 .. m : a[i] = a[j] => i = j
      /\ \A i, j \in 1 .. n : b[i] = b[j] => i = j
      /\ \A x : x \in M => \E i \in 1 .. m : a[i] = x
      /\ \A x : x \in N => \E i \in 1 .. n : b[i] = x
  BY <1>2, Zenon DEF Lists
<1>7. \A i \in 1 .. m + n : i \in 1 .. m \/ \E j \in 1 .. n : i = m + j
  <2> SUFFICES ASSUME NEW i \in 1 .. m + n, ~(i \in 1 .. m) PROVE \E j \in 1 .. n : i = m + j
    OBVIOUS
  <2>1. i - m \in 1 .. n /\ i = m + (i - m)
    OBVIOUS
  <2> QED
    BY <2>1
<1>8. \A j \in 1 .. n : m + j \in 1 .. m + n
  OBVIOUS
<1>9. \A i \in 1 .. m : i \in 1 .. m + n
  OBVIOUS
<1>10. c \in Seq(S) /\ Len(c) = m + n
  BY <1>3
<1> HIDE DEF c
<1>11. ASSUME NEW i \in 1 .. m + n, NEW k \in 1 .. m + n, c[i] = c[k]
       PROVE  i = k
  <2>1. CASE i \in 1 .. m /\ k \in 1 .. m
    BY <1>4, <1>6, <1>11, <2>1, Zenon
  <2>2. CASE i \in 1 .. m /\ ~(k \in 1 .. m)
    <3>1. PICK l \in 1 .. n : k = m + l
      BY <1>7, <2>2
    <3>2. c[k] \in N /\ c[i] \in M
      BY <1>4, <1>5, <2>2, <3>1
    <3> QED
      BY <1>11, <3>2
  <2>3. CASE ~(i \in 1 .. m) /\ k \in 1 .. m
    <3>1. PICK j \in 1 .. n : i = m + j
      BY <1>7, <2>3
    <3>2. c[i] \in N /\ c[k] \in M
      BY <1>4, <1>5, <2>3, <3>1
    <3> QED
      BY <1>11, <3>2
  <2>4. CASE ~(i \in 1 .. m) /\ ~(k \in 1 .. m)
    <3>1. PICK j \in 1 .. n : i = m + j
      BY <1>7, <2>4
    <3>2. PICK l \in 1 .. n : k = m + l
      BY <1>7, <2>4
    <3>3. b[j] = b[l]
      BY <1>5, <1>11, <3>1, <3>2
    <3> QED
      BY <1>6, <3>1, <3>2, <3>3
  <2> QED
    BY <2>1, <2>2, <2>3, <2>4
<1>12. ASSUME NEW x
       PROVE  x \in M \cup N <=> \E i \in 1 .. m + n : c[i] = x
  <2>1. ASSUME x \in M PROVE \E i \in 1 .. m + n : c[i] = x
    BY <1>4, <1>6, <1>9, <2>1, Zenon
  <2>2. ASSUME x \in N PROVE \E i \in 1 .. m + n : c[i] = x
    <3>1. PICK j \in 1 .. n : b[j] = x
      BY <1>6, <2>2
    <3> QED
      BY <1>5, <1>8, <3>1
  <2>3. ASSUME NEW i \in 1 .. m + n, c[i] = x PROVE x \in M \cup N
    BY <1>4, <1>5, <1>7, <2>3, Zenon
  <2> QED
    BY <2>1, <2>2, <2>3
<1> QED
  BY <1>10, <1>11, <1>12 DEF Lists, c

\* The members of the first n sets.
AllOf(M, n) == UNION {M[i] : i \in 1 .. n}

\* So are many.
LEMMA JoinedLists ==
  ASSUME NEW S, NEW seqs \in Seq(Seq(S)), NEW M,
         \A i \in 1 .. Len(seqs) : Lists(seqs[i], S, M[i]),
         \A i, j \in 1 .. Len(seqs) : i # j => M[i] \cap M[j] = {}
  PROVE  Lists(FlattenSeq(seqs), S, AllOf(M, Len(seqs)))
<1>1. Len(seqs) \in Nat /\ \A i \in 1 .. Len(seqs) : seqs[i] \in Seq(S)
  OBVIOUS
<1>2. CASE Len(seqs) = 0
  <2>1. FlattenSeq(seqs) = <<>>
    <3>1. FlattenSeq(seqs) = seqs /\ seqs = <<>>
      BY <1>2 DEF FlattenSeq
    <3> QED
      BY <3>1
  <2>2. AllOf(M, Len(seqs)) = {}
    BY <1>2 DEF AllOf
  <2>3. Lists(<<>>, S, {})
    BY DEF Lists
  <2> QED
    BY <2>1, <2>2, <2>3
<1>3. CASE Len(seqs) # 0
  <2>1. PICK f : FlattenEquation(f, seqs) /\ FlattenSeq(seqs) = f[Len(seqs)]
    BY <1>3, FlattenExists
  <2>2. \A i \in 1 .. Len(seqs) : f[i] = IF i = 1 THEN seqs[i] ELSE f[i - 1] \o seqs[i]
    <3> DEFINE F(i) == IF i = 1 THEN seqs[i] ELSE f[i - 1] \o seqs[i]
    <3>1. f = [i \in 1 .. Len(seqs) |-> F(i)]
      BY <2>1 DEF FlattenEquation
    <3> HIDE DEF F
    <3>2. \A i \in 1 .. Len(seqs) : f[i] = F(i)
      BY <3>1
    <3> QED
      BY <3>2 DEF F
  <2> DEFINE T == {n \in Nat : n + 1 \in 1 .. Len(seqs) => Lists(f[n + 1], S, UNION {M[i] : i \in 1 .. n + 1})}
  <2>3. 0 \in T
    <3>1. 1 \in 1 .. Len(seqs) /\ f[1] = seqs[1]
      BY <1>1, <1>3, <2>2
    <3>2. UNION {M[i] : i \in 1 .. 1} = M[1]
      <4>1. 1 .. 1 = {1}
        OBVIOUS
      <4> QED
        BY <4>1
    <3>3. Lists(f[1], S, M[1])
      BY <3>1
    <3>4. 0 + 1 = 1 /\ 0 \in Nat
      OBVIOUS
    <3>5. Lists(f[0 + 1], S, UNION {M[i] : i \in 1 .. 0 + 1})
      BY <3>2, <3>3, <3>4, Zenon
    <3> QED
      BY <3>4, <3>5
  <2>4. ASSUME NEW n \in Nat, n \in T
        PROVE  n + 1 \in T
    <3> SUFFICES ASSUME (n + 1) + 1 \in 1 .. Len(seqs)
                 PROVE  Lists(f[(n + 1) + 1], S, UNION {M[i] : i \in 1 .. (n + 1) + 1})
      OBVIOUS
    <3>1. PICK k \in Nat : k = n + 1
      OBVIOUS
    <3>2. k \in 1 .. Len(seqs) /\ k + 1 \in 1 .. Len(seqs) /\ k + 1 # 1 /\ (k + 1) - 1 = k
      BY <1>1, <3>1
    <3>3. Lists(f[k], S, UNION {M[i] : i \in 1 .. k})
      BY <2>4, <3>1, <3>2
    <3>4. f[k + 1] = f[k] \o seqs[k + 1]
      BY <2>2, <3>2
    <3>5. (UNION {M[i] : i \in 1 .. k}) \cap M[k + 1] = {}
      <4>1. \A i \in 1 .. k : i \in 1 .. Len(seqs) /\ i # k + 1
        BY <1>1, <3>2
      <4>2. \A i \in 1 .. k : M[i] \cap M[k + 1] = {}
        BY <3>2, <4>1
      <4> QED
        BY <4>2
    <3>6. (UNION {M[i] : i \in 1 .. k}) \cup M[k + 1] = UNION {M[i] : i \in 1 .. k + 1}
      <4>1. 1 .. k + 1 = (1 .. k) \cup {k + 1}
        OBVIOUS
      <4> QED
        BY <4>1
    <3>7. Lists(f[k] \o seqs[k + 1], S, (UNION {M[i] : i \in 1 .. k}) \cup M[k + 1])
      BY <3>2, <3>3, <3>5, ListBehindList
    <3> QED
      BY <3>1, <3>4, <3>6, <3>7
  <2> HIDE DEF T
  <2>5. \A n \in Nat : n \in T
    BY <2>3, <2>4, NumberByNumber
  <2>6. PICK n \in Nat : n + 1 = Len(seqs)
    <3>1. Len(seqs) - 1 \in Nat /\ (Len(seqs) - 1) + 1 = Len(seqs)
      BY <1>1, <1>3
    <3> QED
      BY <3>1
  <2>7. n \in T /\ n + 1 \in 1 .. Len(seqs)
    BY <1>1, <2>5, <2>6
  <2>8. Lists(f[n + 1], S, AllOf(M, n + 1))
    BY <2>7 DEF T, AllOf
  <2> QED
    BY <2>1, <2>6, <2>8
<1> QED
  BY <1>2, <1>3

\* A list is as long as there are members.
LEMMA LengthOfList ==
  ASSUME NEW S, NEW s, NEW M, Lists(s, S, M)
  PROVE  IsFiniteSet(M) /\ Cardinality(M) = Len(s)
<1>1. s \in Seq(S) /\ Len(s) \in Nat
  BY DEF Lists
<1>2. s \in [1 .. Len(s) -> M]
  <2>1. s \in [1 .. Len(s) -> S]
    BY <1>1, LenProperties
  <2>2. \A i \in 1 .. Len(s) : s[i] \in M
    BY DEF Lists
  <2> QED
    BY <2>1, <2>2
<1>3. s \in Bijection(1 .. Len(s), M)
  BY <1>2, Zenon DEF Lists, Bijection, Injection, Surjection, IsInjective
<1>4. IsFiniteSet(1 .. Len(s)) /\ Cardinality(1 .. Len(s)) = Len(s)
  BY <1>1, FS_Interval
<1> QED
  BY <1>3, <1>4, FS_Bijection DEF ExistsBijection

\* What a list has is its range.
LEMMA RangeOfList ==
  ASSUME NEW S, NEW s, NEW M, Lists(s, S, M)
  PROVE  Range(s) = M /\ M \subseteq S
<1>1. s \in Seq(S) /\ \A x : x \in M <=> \E i \in 1 .. Len(s) : s[i] = x
  BY DEF Lists
<1>2. DOMAIN s = 1 .. Len(s) /\ \A i \in 1 .. Len(s) : s[i] \in S
  BY <1>1
<1>3. Range(s) = {s[i] : i \in 1 .. Len(s)}
  BY <1>2 DEF Range
<1>4. Range(s) = M
  BY <1>1, <1>3
<1> QED
  BY <1>1, <1>2, <1>4

\* The rest of a division is the one that is less than the divisor.
LEMMA RestIsUnique ==
  ASSUME NEW n \in Nat \ {0}, NEW q \in Nat, NEW r \in 0 .. n - 1
  PROVE  (n * q + r) % n = r
<1>1. PICK x \in Nat : x = n * q + r
  <2>1. n * q \in Nat
    OBVIOUS
  <2> QED
    BY <2>1
<1>2. PICK p \in Nat, s \in 0 .. n - 1 : x = n * p + s /\ s = x % n
  <2>1. x \div n \in Nat /\ x % n \in 0 .. n - 1 /\ x = n * (x \div n) + (x % n)
    OBVIOUS
  <2> QED
    BY <2>1
<1>3. n * q + r = n * p + s
  BY <1>1, <1>2
<1>4. ASSUME NEW a \in Nat, NEW b \in Nat, a < b
      PROVE  n * b >= n * a + n
  <2>1. PICK t \in Nat : b = a + 1 + t
    <3>1. b - a - 1 \in Nat /\ b = a + 1 + (b - a - 1)
      BY <1>4
    <3> QED
      BY <3>1
  <2>2. n * b = n * a + n + n * t
    BY <2>1
  <2>3. n * t >= 0 /\ n * a \in Nat /\ n * t \in Nat
    OBVIOUS
  <2> QED
    BY <2>2, <2>3
<1>5. n * p \in Nat /\ n * q \in Nat
  OBVIOUS
<1>6. ~(p < q)
  <2> SUFFICES ASSUME p < q PROVE FALSE
    OBVIOUS
  <2>1. n * q >= n * p + n
    BY <1>4
  <2> QED
    BY <1>3, <1>5, <2>1
<1>7. ~(q < p)
  <2> SUFFICES ASSUME q < p PROVE FALSE
    OBVIOUS
  <2>1. n * p >= n * q + n
    BY <1>4
  <2> QED
    BY <1>3, <1>5, <2>1
<1>8. p = q
  BY <1>6, <1>7
<1>9. n * p = n * q
  BY <1>8
<1>10. s = r
  BY <1>3, <1>5, <1>9
<1>11. (n * q + r) % n = x % n
  BY <1>1
<1> QED
  BY <1>2, <1>10, <1>11

\* Going around at most once.
LEMMA AroundOnce ==
  ASSUME NEW n \in Nat \ {0}, NEW y \in Nat, y < 2 * n
  PROVE  y % n = IF y < n THEN y ELSE y - n
<1>1. CASE y < n
  <2>1. n * 0 + y = y /\ y \in 0 .. n - 1
    BY <1>1
  <2>2. (n * 0 + y) % n = y
    BY <2>1, RestIsUnique
  <2> QED
    BY <1>1, <2>1, <2>2
<1>2. CASE y >= n
  <2>1. n * 1 + (y - n) = y /\ y - n \in 0 .. n - 1
    BY <1>2
  <2>2. (n * 1 + (y - n)) % n = y - n
    BY <2>1, RestIsUnique
  <2> QED
    BY <1>2, <2>1, <2>2
<1> QED
  BY <1>1, <1>2

\* A shift by more than once around is one by its rest.
LEMMA ShiftedAround ==
  ASSUME NEW n \in Nat \ {0}, NEW i \in 0 .. n - 1, NEW cell \in Nat
  PROVE  (i + cell) % n = (i + (cell % n)) % n
<1>1. PICK q \in Nat, d \in 0 .. n - 1 : cell = n * q + d /\ d = cell % n
  <2>1. cell \div n \in Nat /\ cell % n \in 0 .. n - 1 /\ cell = n * (cell \div n) + (cell % n)
    OBVIOUS
  <2> QED
    BY <2>1
<1>2. (i + d) % n = IF i + d < n THEN i + d ELSE i + d - n
  <2>1. PICK y \in Nat : y = i + d /\ y < 2 * n
    OBVIOUS
  <2>2. y % n = IF y < n THEN y ELSE y - n
    BY <2>1, AroundOnce
  <2> QED
    BY <2>1, <2>2
<1>3. n * q \in Nat /\ n * (q + 1) = n * q + n /\ q + 1 \in Nat
  OBVIOUS
<1>4. CASE i + d < n
  <2>1. (n * q + (i + d)) % n = i + d
    BY <1>4, RestIsUnique
  <2>2. i + cell = n * q + (i + d)
    BY <1>1, <1>3
  <2> QED
    BY <1>1, <1>2, <1>4, <2>1, <2>2
<1>5. CASE i + d >= n
  <2>1. (n * (q + 1) + (i + d - n)) % n = i + d - n
    <3>1. i + d - n \in 0 .. n - 1
      BY <1>5
    <3> QED
      BY <1>3, <3>1, RestIsUnique
  <2>2. i + cell = n * (q + 1) + (i + d - n)
    BY <1>1, <1>3
  <2> QED
    BY <1>1, <1>2, <1>5, <2>1, <2>2
<1> QED
  BY <1>4, <1>5

\* A part of a sequence without repetition has as many members as it is long.
LEMMA CountOfPart ==
  ASSUME NEW S, NEW s \in Seq(S), \A i, j \in 1 .. Len(s) : s[i] = s[j] => i = j,
         NEW a \in Nat, NEW m \in Nat, a + m <= Len(s)
  PROVE  LET part == SubSeq(s, a + 1, a + m)
         IN  Cardinality({part[i] : i \in DOMAIN part}) = m
<1> DEFINE part == SubSeq(s, a + 1, a + m)
<1>1. part \in Seq(S) /\ Len(part) = m /\ part = [i \in 1 .. m |-> s[a + i]]
  BY PartOfSequence
<1> HIDE DEF part
<1>2. \A i \in 1 .. m : part[i] = s[a + i] /\ a + i \in 1 .. Len(s)
  BY <1>1
<1>3. \A i, j \in 1 .. m : part[i] = part[j] => i = j
  <2> SUFFICES ASSUME NEW i \in 1 .. m, NEW j \in 1 .. m, part[i] = part[j] PROVE i = j
    OBVIOUS
  <2>1. a + i = a + j
    BY <1>2
  <2> QED
    BY <2>1
<1> DEFINE M == {part[i] : i \in DOMAIN part}
<1>4. DOMAIN part = 1 .. m
  BY <1>1
<1>5. \A x : x \in M <=> \E i \in 1 .. m : part[i] = x
  BY <1>4
<1> HIDE DEF M
<1>6. Lists(part, S, M)
  BY <1>1, <1>3, <1>5 DEF Lists
<1>7. Cardinality(M) = m
  BY <1>1, <1>6, LengthOfList
<1> QED
  BY <1>7 DEF M, part

\* Places in parts of length m are in the order of the parts, then of the
\* places in them.
LEMMA PlacesInOrder ==
  ASSUME NEW m \in Nat, NEW p \in Nat, NEW q \in Nat, NEW a \in 1 .. m, NEW b \in 1 .. m,
         p * m + a < q * m + b
  PROVE  p < q \/ (p = q /\ a < b)
<1>1. CASE p = q
  <2>1. PICK z \in Nat : z = p * m
    OBVIOUS
  <2>2. z + a < z + b
    BY <1>1, <2>1
  <2> QED
    BY <1>1, <2>2
<1>2. CASE q < p
  <2>1. PICK d \in Nat : p = q + 1 + d
    <3>1. p - q - 1 \in Nat /\ p = q + 1 + (p - q - 1)
      BY <1>2
    <3> QED
      BY <3>1
  <2>2. PICK x \in Nat, y \in Nat : x = d * m /\ y = q * m
    OBVIOUS
  <2>3. p * m = y + m + x
    BY <2>1, <2>2
  <2>4. y + m + x + a < y + b
    BY <2>2, <2>3
  <2> QED
    BY <2>4
<1> QED
  BY <1>1, <1>2

\* A rest is less than the divisor.
LEMMA RestInRange ==
  ASSUME NEW n \in Nat \ {0}, NEW s \in Nat
  PROVE  s % n \in 0 .. n - 1
OBVIOUS

\* A number plus one of several offsets around a ring: different offsets below
\* the ring's length lead to different places.
LEMMA OffsetsApart ==
  ASSUME NEW n \in Nat \ {0}, NEW s \in Nat, NEW a \in 0 .. n - 1, NEW b \in 0 .. n - 1,
         (s + a) % n = (s + b) % n
  PROVE  a = b
<1>1. PICK d \in 0 .. n - 1 : d = s % n
  BY RestInRange
<1>2. (a + s) % n = (a + d) % n /\ (b + s) % n = (b + d) % n
  BY <1>1, ShiftedAround
<1>3. a + s = s + a /\ b + s = s + b
  OBVIOUS
<1>4. (a + d) % n = (b + d) % n
  BY <1>2, <1>3
<1>5. PICK y \in Nat : y = a + d /\ y < 2 * n
  OBVIOUS
<1>6. PICK z \in Nat : z = b + d /\ z < 2 * n
  OBVIOUS
<1>7. y % n = IF y < n THEN y ELSE y - n
  BY <1>5, AroundOnce
<1>8. z % n = IF z < n THEN z ELSE z - n
  BY <1>6, AroundOnce
<1>9. (IF y < n THEN y ELSE y - n) = (IF z < n THEN z ELSE z - n)
  BY <1>4, <1>5, <1>6, <1>7, <1>8
<1> QED
  BY <1>5, <1>6, <1>9

\* A set whose members are numbered by a finite set has as many.
LEMMA CountByNames ==
  ASSUME NEW S, IsFiniteSet(S), NEW f, NEW M, f \in [S -> M],
         \A x, y \in S : f[x] = f[y] => x = y,
         \A z \in M : \E x \in S : f[x] = z
  PROVE  IsFiniteSet(M) /\ Cardinality(M) = Cardinality(S)
<1>1. f \in Bijection(S, M)
  BY Zenon DEF Bijection, Injection, Surjection, IsInjective
<1> QED
  BY <1>1, FS_Bijection DEF ExistsBijection

\* The numbers below n.
LEMMA CountBelow ==
  ASSUME NEW n \in Nat
  PROVE  IsFiniteSet(0 .. n - 1) /\ Cardinality(0 .. n - 1) = n
<1>1. 0 \in Int /\ n - 1 \in Int
  OBVIOUS
<1>2. IsFiniteSet(0 .. n - 1) /\ Cardinality(0 .. n - 1) = IF 0 > n - 1 THEN 0 ELSE n - 1 - 0 + 1
  BY <1>1, FS_Interval
<1> QED
  BY <1>2

\* Two disjoint parts of a finite set, taken out of it.
LEMMA TwoPartsLess ==
  ASSUME NEW A, NEW P, NEW Q, IsFiniteSet(A), P \subseteq A, Q \subseteq A, P \cap Q = {},
         NEW p \in Nat, NEW q \in Nat, Cardinality(P) = p, Cardinality(Q) = q
  PROVE  Cardinality(A) - Cardinality(A \ (P \cup Q)) = p + q
<1>1. IsFiniteSet(P) /\ IsFiniteSet(Q)
  BY FS_Subset
<1>2. Cardinality({}) = 0
  BY FS_EmptySet
<1>3. Cardinality(P \cup Q) = Cardinality(P) + Cardinality(Q) - Cardinality(P \cap Q)
  BY <1>1, FS_Union
<1>4. Cardinality(P \cup Q) = p + q
  <2>1. Cardinality(P \cap Q) = 0
    BY <1>2
  <2>2. Cardinality(P \cup Q) = p + q - 0
    BY <1>3, <2>1
  <2> QED
    BY <2>2
<1>5. A \cap (P \cup Q) = P \cup Q
  OBVIOUS
<1>6. Cardinality(A \ (P \cup Q)) = Cardinality(A) - Cardinality(A \cap (P \cup Q))
  BY FS_Difference
<1>7. PICK n \in Nat : n = Cardinality(A)
  BY FS_CardinalityType
<1>8. Cardinality(A \ (P \cup Q)) = n - (p + q)
  BY <1>4, <1>5, <1>6, <1>7
<1>9. n - (n - (p + q)) = p + q
  OBVIOUS
<1> QED
  BY <1>7, <1>8, <1>9

=============================================================================
