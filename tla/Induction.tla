----------------------------- MODULE Induction -----------------------------
(***************************************************************************)
(* Induction over data, stated with sets: the principles of the library    *)
(* take an operator, these a set or a function, which the provers can      *)
(* instantiate.  They are what the proofs about folds, sums and recursive  *)
(* functions rest on.                                                      *)
(***************************************************************************)
EXTENDS Integers, WellFoundedInduction, TLAPS

(* A set of natural numbers has a least element.                            *)
LEMMA LeastNatural ==
  ASSUME NEW S, S \subseteq Nat, S # {}
  PROVE  \E m \in S : \A k \in S : m <= k
<1> DEFINE R == OpToRel(<, Nat)
<1>1. IsWellFoundedOn(R, Nat)
  BY NatLessThanWellFounded
<1> HIDE DEF R
<1>2. PICK m \in S : \A k \in S : ~ (<<k, m>> \in R)
  BY <1>1, WFMin
<1>3. \A k \in S : ~ (k < m)
  BY <1>2 DEF R, OpToRel
<1> QED
  BY <1>2, <1>3

(* A property holds of all natural numbers if it holds of 0 and passes from *)
(* each number to the next.                                                 *)
THEOREM SetInduction ==
  ASSUME NEW S, 0 \in S, \A n \in Nat : n \in S => n + 1 \in S
  PROVE  \A n \in Nat : n \in S
<1> SUFFICES ASSUME NEW n \in Nat, n \notin S PROVE FALSE
  OBVIOUS
<1> DEFINE T == {k \in Nat : k \notin S}
<1>1. T \subseteq Nat /\ T # {}
  OBVIOUS
<1>2. \E m \in T : \A k \in T : m <= k
  <2> HIDE DEF T
  <2> QED
    BY <1>1, LeastNatural
<1>3. PICK m \in T : \A k \in T : m <= k
  BY <1>2
<1>4. m \in Nat \ {0} /\ m \notin S
  BY <1>3
<1>5. m - 1 \in Nat /\ m - 1 \notin T
  BY <1>3, <1>4
<1> QED
  BY <1>4, <1>5

(* So do the values of a function, if its first one is in V and no step     *)
(* leaves V.                                                                *)
StaysIn(V, g) == g[0] \in V /\ \A n \in Nat : g[n] \in V => g[n + 1] \in V
LEMMA ValuesIn ==
  ASSUME NEW V, NEW g, StaysIn(V, g)
  PROVE  \A n \in Nat : g[n] \in V
<1> USE DEF StaysIn
<1> DEFINE S == {n \in Nat : g[n] \in V}
<1>1. 0 \in S /\ \A n \in Nat : n \in S => n + 1 \in S
  OBVIOUS
<1> HIDE DEF S
<1>2. \A n \in Nat : n \in S
  BY <1>1, SetInduction
<1> QED
  BY <1>2 DEF S

-----------------------------------------------------------------------------
(* A function on the natural numbers that is given by its first value and   *)
(* a step from each value to the next exists.                               *)
StepsIn(V, step) == \A n \in Nat, v \in V : step[<<n, v>>] \in V
Iterates(f, V, first, step) ==
  /\ f \in [Nat -> V] /\ f[0] = first
  /\ \A n \in Nat : f[n + 1] = step[<<n, f[n]>>]
Recursive(f, n, first, step) ==
  f[0] = first /\ \A i \in 0..(n - 1) : f[i + 1] = step[<<i, f[i]>>]

LEMMA RecursiveUpTo ==
  ASSUME NEW V, NEW step, StepsIn(V, step), NEW first \in V
  PROVE  \A n \in Nat : \E f \in [0..n -> V] : Recursive(f, n, first, step)
<1> DEFINE S == {n \in Nat : \E f \in [0..n -> V] : Recursive(f, n, first, step)}
<1>1. 0 \in S
  <2>1. [i \in 0..0 |-> first] \in [0..0 -> V]
    OBVIOUS
  <2>2. Recursive([i \in 0..0 |-> first], 0, first, step)
    BY DEF Recursive
  <2> QED
    BY <2>1, <2>2
<1>2. ASSUME NEW n \in Nat, n \in S PROVE n + 1 \in S
  <2>1. PICK f \in [0..n -> V] : Recursive(f, n, first, step)
    BY <1>2
  <2> DEFINE g == [i \in 0..(n + 1) |-> IF i = n + 1 THEN step[<<n, f[n]>>] ELSE f[i]]
  <2>2. \A i \in 0..n : f[i] \in V
    BY <2>1
  <2>3. step[<<n, f[n]>>] \in V
    BY <2>2 DEF StepsIn
  <2>4. g \in [0..(n + 1) -> V]
    BY <2>2, <2>3
  <2>5. g[0] = first
    BY <2>1 DEF Recursive
  <2>6. ASSUME NEW i \in 0..n PROVE g[i + 1] = step[<<i, g[i]>>]
    <3>1. g[i] = f[i] /\ i + 1 \in 0..(n + 1)
      OBVIOUS
    <3>2. CASE i = n
      BY <3>1, <3>2
    <3>3. CASE i # n
      <4>1. i \in 0..(n - 1) /\ g[i + 1] = f[i + 1]
        BY <3>3
      <4>2. f[i + 1] = step[<<i, f[i]>>]
        BY <2>1, <4>1 DEF Recursive
      <4> QED
        BY <3>1, <4>1, <4>2
    <3> QED
      BY <3>2, <3>3
  <2>7. Recursive(g, n + 1, first, step)
    <3> HIDE DEF g
    <3>1. 0..(n + 1 - 1) = 0..n
      OBVIOUS
    <3> QED
      BY <2>5, <2>6, <3>1 DEF Recursive
  <2>8. \E h \in [0..(n + 1) -> V] : Recursive(h, n + 1, first, step)
    <3> HIDE DEF g
    <3> QED
      BY <2>4, <2>7
  <2>9. n + 1 \in Nat
    OBVIOUS
  <2> QED
    BY <2>8, <2>9
<1> HIDE DEF S
<1>3. \A n \in Nat : n \in S
  BY <1>1, <1>2, SetInduction
<1> QED
  BY <1>3 DEF S

(* Two functions agree up to n if they agree at 0 and each step keeps it.   *)
StepsAgree(f, g, n) ==
  f[0] = g[0] /\ \A i \in 0..(n - 1) : f[i] = g[i] => f[i + 1] = g[i + 1]
LEMMA AgreeUpTo ==
  ASSUME NEW n \in Nat, NEW f, NEW g, StepsAgree(f, g, n)
  PROVE  \A i \in 0..n : f[i] = g[i]
<1> USE DEF StepsAgree
<1> DEFINE S == {i \in Nat : i <= n => f[i] = g[i]}
<1>1. 0 \in S
  OBVIOUS
<1>2. ASSUME NEW i \in Nat, i \in S PROVE i + 1 \in S
  <2> SUFFICES ASSUME i + 1 <= n PROVE f[i + 1] = g[i + 1]
    OBVIOUS
  <2>1. f[i] = g[i] /\ i \in 0..(n - 1)
    BY <1>2
  <2> QED
    BY <2>1
<1> HIDE DEF S
<1>3. \A i \in Nat : i \in S
  BY <1>1, <1>2, SetInduction
<1> QED
  BY <1>3 DEF S

THEOREM RecursionExists ==
  ASSUME NEW V, NEW step, StepsIn(V, step), NEW first \in V
  PROVE  \E f : Iterates(f, V, first, step)
<1> DEFINE part(n) == CHOOSE f \in [0..n -> V] : Recursive(f, n, first, step)
           whole == [n \in Nat |-> part(n)[n]]
<1>1. \A n \in Nat : part(n) \in [0..n -> V] /\ Recursive(part(n), n, first, step)
  BY RecursiveUpTo
<1> HIDE DEF part
<1>2. whole \in [Nat -> V]
  BY <1>1
<1>3. whole[0] = first
  BY <1>1 DEF Recursive
<1>4. ASSUME NEW n \in Nat PROVE whole[n + 1] = step[<<n, whole[n]>>]
  <2>1. \A i \in 0..n : part(n)[i] = part(n + 1)[i]
    <3>1. n + 1 \in Nat
      OBVIOUS
    <3>2. PICK g, h : /\ g = part(n) /\ h = part(n + 1)
                      /\ Recursive(g, n, first, step) /\ Recursive(h, n + 1, first, step)
      BY <1>1, <3>1
    <3>3. g[0] = h[0]
      BY <3>2 DEF Recursive
    <3>4. \A i \in 0..(n - 1) : g[i] = h[i] => g[i + 1] = h[i + 1]
      <4> SUFFICES ASSUME NEW i \in 0..(n - 1), g[i] = h[i] PROVE g[i + 1] = h[i + 1]
        OBVIOUS
      <4>1. g[i + 1] = step[<<i, g[i]>>]
        BY <3>2 DEF Recursive
      <4>2. h[i + 1] = step[<<i, h[i]>>]
        <5>1. i \in 0..(n + 1 - 1)
          OBVIOUS
        <5> QED
          BY <3>2, <5>1 DEF Recursive
      <4> QED
        BY <4>1, <4>2
    <3>5. \A i \in 0..n : g[i] = h[i]
      <4> HIDE DEF whole
      <4> QED
        BY <3>3, <3>4, AgreeUpTo DEF StepsAgree
    <3> QED
      BY <3>2, <3>5
  <2>2. part(n + 1)[n + 1] = step[<<n, part(n + 1)[n]>>]
    <3>1. Recursive(part(n + 1), n + 1, first, step) /\ n \in 0..(n + 1 - 1)
      BY <1>1
    <3> QED
      BY <3>1 DEF Recursive
  <2> QED
    BY <2>1, <2>2
<1> HIDE DEF whole
<1> QED
  BY <1>2, <1>3, <1>4 DEF Iterates
-----------------------------------------------------------------------------
(* Division and remainders: a number has one quotient and one remainder,    *)
(* and a sum can be reduced as often as one likes.                          *)
LEMMA Division ==
  ASSUME NEW w \in Nat \ {0}, NEW a \in Nat
  PROVE  a = w * (a \div w) + (a % w) /\ a % w \in 0..(w - 1) /\ a \div w \in Nat
BY SMTT(30)

LEMMA RemainderUnique ==
  ASSUME NEW w \in Nat \ {0}, NEW p \in Int, NEW q \in Int,
         NEW r \in 0..(w - 1), NEW s \in 0..(w - 1), w * p + r = w * q + s
  PROVE  r = s
BY SMTT(30)

LEMMA RemainderOfSum ==
  ASSUME NEW w \in Nat \ {0}, NEW a \in Nat, NEW b \in Nat
  PROVE  ((a % w) + b) % w = (a + b) % w
<1>1. PICK q1 \in Nat, r1 \in 0..(w - 1) : a = w * q1 + r1 /\ r1 = a % w
  BY Division
<1>2. r1 + b \in Nat /\ a + b \in Nat
  OBVIOUS
<1>3. PICK q2 \in Nat, r2 \in 0..(w - 1) : r1 + b = w * q2 + r2 /\ r2 = (r1 + b) % w
  BY <1>2, Division
<1>4. PICK q3 \in Nat, r3 \in 0..(w - 1) : a + b = w * q3 + r3 /\ r3 = (a + b) % w
  BY <1>2, Division
<1>5. w * (q1 + q2) = w * q1 + w * q2
  OBVIOUS
<1>6. w * (q1 + q2) + r2 = w * q3 + r3
  BY <1>1, <1>3, <1>4, <1>5
<1>7. r2 = r3
  BY <1>6, RemainderUnique
<1> QED
  BY <1>1, <1>3, <1>4, <1>7
=============================================================================
