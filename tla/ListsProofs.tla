----------------------------- MODULE ListsProofs ----------------------------
(***************************************************************************)
(* Facts about sets of numbers and lists that proofs of several modules    *)
(* need.                                                                   *)
(***************************************************************************)
EXTENDS Lists, FiniteSetTheorems, SequenceTheorems, WellFoundedInduction, TLAPS

\* A set of natural numbers has a smallest element.
LEMMA NatMin ==
    ASSUME NEW S \in SUBSET Nat, S # {}
    PROVE  \E x \in S : \A y \in S : x <= y
<1>1. PICK n \in S : TRUE
  OBVIOUS
<1> DEFINE T == {0..k : k \in {j \in S : j <= n}}
<1>2. IsFiniteSet(0..n)
  BY FS_Interval
<1>3. T \subseteq SUBSET (0..n) /\ T # {}
  BY <1>1
<1>4. T \subseteq FiniteSubsetsOf(0..n)
  BY <1>2, <1>3, FS_FiniteSubsetsOfFinite
<1>5. PICK x \in T : \A y \in T : ~(<<y, x>> \in StrictSubsetOrdering(0..n))
  <2> HIDE DEF T
  <2> QED BY <1>2, <1>3, <1>4, FS_StrictSubsetOrderingWellFounded, WFMin
<1>6. PICK k \in S : k <= n /\ x = 0..k
  BY <1>5
<1>7. ASSUME NEW y \in S, y < k PROVE FALSE
  <2>1. 0..y \in T
    BY <1>6, <1>7
  <2>2. /\ 0..y \in SUBSET (0..n) /\ 0..k \in SUBSET (0..n)
        /\ 0..y \subseteq 0..k /\ k \notin 0..y /\ k \in 0..k
    BY <1>7, <1>6
  <2>3. <<0..y, 0..k>> \in StrictSubsetOrdering(0..n)
    BY <2>2 DEF StrictSubsetOrdering
  <2> QED BY <2>1, <2>3, <1>5, <1>6
<1> QED BY <1>6, <1>7


-----------------------------------------------------------------------------
\* What is kept of the first i elements: those that are not in D, each once
\* if it was there once.
Once(list) == \A a, b \in 1..Len(list) : list[a] = list[b] => a = b

Retains(list, D, left, S, i) ==
    /\ left \in Seq(S)
    /\ \A a \in 1..Len(left) : \E k \in 1..i : left[a] = list[k] /\ list[k] \notin D
    /\ \A k \in 1..i : list[k] \notin D => \E a \in 1..Len(left) : left[a] = list[k]
    /\ Once(list) => Once(left)

Remains(list, D, left, S) == Retains(list, D, left, S, Len(list))

LEMMA NothingKept ==
    ASSUME NEW S, NEW list, NEW D
    PROVE  Retains(list, D, <<>>, S, 0)
<1>1. <<>> \in Seq(S)
  OBVIOUS
<1> QED BY <1>1 DEF Retains, Once

LEMMA OneMoreKept ==
    ASSUME NEW S, NEW list \in Seq(S), NEW D, NEW m \in 1..Len(list), NEW left,
           Retains(list, D, left, S, m - 1)
    PROVE  Retains(list, D, IF list[m] \in D THEN left ELSE Append(left, list[m]), S, m)
<1>0. /\ Len(list) \in Nat /\ m \in Nat /\ m > 0 /\ list[m] \in S
      /\ left \in Seq(S) /\ Len(left) \in Nat
      /\ \A k \in 1..m : k = m \/ k \in 1..(m - 1)
      /\ \A k \in 1..(m - 1) : k \in 1..m /\ k \in 1..Len(list) /\ k # m
  BY DEF Retains
<1>1. CASE list[m] \in D
  BY <1>0, <1>1 DEF Retains
<1>2. CASE list[m] \notin D
  <2> DEFINE x == Append(left, list[m])
  <2>1. /\ x \in Seq(S) /\ Len(x) = Len(left) + 1
        /\ x[Len(left) + 1] = list[m]
        /\ \A a \in 1..Len(left) : x[a] = left[a]
    BY <1>0, AppendProperties
  <2>2. \A a \in 1..Len(x) : a = Len(left) + 1 \/ a \in 1..Len(left)
    BY <1>0, <2>1
  <2>3. /\ \A a \in 1..Len(left) : a \in 1..Len(x)
        /\ Len(left) + 1 \in 1..Len(x)
    BY <1>0, <2>1
  <2> HIDE DEF x
  <2>4. ASSUME NEW a \in 1..Len(x) PROVE \E k \in 1..m : x[a] = list[k] /\ list[k] \notin D
    <3>1. CASE a = Len(left) + 1
      BY <3>1, <1>0, <1>2, <2>1
    <3>2. CASE a \in 1..Len(left)
      <4>1. PICK k \in 1..(m - 1) : left[a] = list[k] /\ list[k] \notin D
        BY <3>2 DEF Retains
      <4> QED BY <3>2, <4>1, <2>1, <1>0
    <3> QED BY <3>1, <3>2, <2>2
  <2>5. \A k \in 1..m : list[k] \notin D => \E a \in 1..Len(x) : x[a] = list[k]
    <3> SUFFICES ASSUME NEW k \in 1..m, list[k] \notin D PROVE \E a \in 1..Len(x) : x[a] = list[k]
      OBVIOUS
    <3>1. CASE k = m
      BY <3>1, <2>1, <2>3
    <3>2. CASE k \in 1..(m - 1)
      <4>1. PICK a \in 1..Len(left) : left[a] = list[k]
        BY <3>2 DEF Retains
      <4> QED BY <4>1, <2>1, <2>3
    <3> QED BY <3>1, <3>2, <1>0
  <2>6. ASSUME Once(list) PROVE Once(x)
    <3> SUFFICES ASSUME NEW a \in 1..Len(x), NEW b \in 1..Len(x), x[a] = x[b], a # b PROVE FALSE
      BY DEF Once
    <3>1. \A c \in 1..Len(left) : x[c] # list[m]
      <4> SUFFICES ASSUME NEW c \in 1..Len(left), left[c] = list[m] PROVE FALSE
        BY <2>1
      <4>1. PICK k \in 1..(m - 1) : left[c] = list[k]
        BY DEF Retains
      <4>2. k = m
        BY <4>1, <1>0, <2>6 DEF Once
      <4> QED BY <4>1, <4>2, <1>0
    <3>2. \A c, d \in 1..Len(left) : x[c] = x[d] => c = d
      BY <2>1, <2>6 DEF Retains, Once
    <3> QED BY <2>1, <2>2, <3>1, <3>2
  <2>7. Retains(list, D, x, S, m)
    BY <2>1, <2>4, <2>5, <2>6 DEF Retains
  <2> QED BY <1>2, <2>7 DEF x
<1> QED BY <1>1, <1>2

\* A walk over a list that unlinks what is in D keeps the rest, and nothing
\* else (htable_locate() and dns_rr_remove(), QMGR_LIST_UNLINK).
LEMMA Unlinked ==
    ASSUME NEW S, NEW list \in Seq(S), NEW D
    PROVE  Remains(list, D, Without(list, D), S)
<1> DEFINE n == Len(list)
           Step(f, i) == IF i = 0 THEN <<>>
                         ELSE IF list[i] \in D THEN f[i - 1]
                         ELSE Append(f[i - 1], list[i])
           F == CHOOSE f : f = [i \in 0..n |-> Step(f, i)]
           Upto(k, f) == f \in [0..k -> Seq(S)] /\ \A i \in 0..k : f[i] = Step(f, i)
<1>0. n \in Nat /\ (\A i \in 1..n : list[i] \in S)
  OBVIOUS
<1>1. Without(list, D) = F[n]
  BY DEF Without
<1>2. ASSUME NEW k \in Nat, k <= n PROVE \E f : Upto(k, f)
  <2> DEFINE Bad == {j \in 0..n : ~\E f : Upto(j, f)}
  <2>1. SUFFICES ASSUME Bad # {} PROVE FALSE
    <3>1. k \in 0..n
      BY <1>0, <1>2
    <3> QED BY <3>1
  <2>2. PICK m \in Bad : \A y \in Bad : m <= y
    <3>1. Bad \in SUBSET Nat
      BY <1>0
    <3> HIDE DEF Bad
    <3> QED BY <2>1, <3>1, NatMin
  <2>3. m \in 0..n /\ ~\E f : Upto(m, f)
    BY <2>2
  <2>4. CASE m = 0
    <3> DEFINE g == [i \in 0..0 |-> <<>>]
    <3>0. <<>> \in Seq(S)
      OBVIOUS
    <3>1. g \in [0..0 -> Seq(S)]
      BY <3>0
    <3>2. \A i \in 0..0 : g[i] = Step(g, i)
      OBVIOUS
    <3>3. Upto(0, g)
      BY <3>1, <3>2
    <3> QED BY <3>3, <2>3, <2>4
  <2>5. CASE m # 0
    <3>1. m - 1 \in 0..n /\ m - 1 < m /\ m \in 1..n
      BY <2>3, <2>5, <1>0
    <3>2. m - 1 \notin Bad
      <4>1. ~(m <= m - 1)
        BY <2>3, <1>0
      <4> HIDE DEF Bad
      <4> QED BY <2>2, <4>1
    <3>3. PICK f : Upto(m - 1, f)
      BY <3>1, <3>2
    <3>4. f \in [0..(m - 1) -> Seq(S)] /\ \A i \in 0..(m - 1) : f[i] = Step(f, i)
      BY <3>3
    <3>5. f[m - 1] \in Seq(S)
      <4>1. m - 1 \in 0..(m - 1)
        BY <3>1
      <4> QED BY <4>1, <3>4
    <3>6. PICK x \in Seq(S) : x = Step(f, m)
      <4>1. list[m] \in S
        BY <3>1, <1>0
      <4>2. Append(f[m - 1], list[m]) \in Seq(S)
        BY <4>1, <3>5
      <4>3. Step(f, m) \in Seq(S)
        BY <4>2, <3>5, <2>5
      <4> QED BY <4>3
    <3> DEFINE g == [i \in 0..m |-> IF i = m THEN x ELSE f[i]]
    <3>7. ASSUME NEW i \in 0..m PROVE g[i] \in Seq(S) /\ (i < m => g[i] = f[i]) /\ (i = m => g[i] = x)
      <4>1. CASE i = m
        BY <4>1, <3>6
      <4>2. CASE i # m
        <5>1. i \in 0..(m - 1)
          BY <4>2, <3>1
        <5>2. f[i] \in Seq(S)
          BY <5>1, <3>4
        <5> QED BY <4>2, <5>2
      <4> QED BY <4>1, <4>2
    <3>8. g \in [0..m -> Seq(S)]
      BY <3>7
    <3>9. ASSUME NEW i \in 0..m PROVE g[i] = Step(g, i)
      <4>1. CASE i = m
        <5>1. m - 1 \in 0..m /\ g[m - 1] = f[m - 1]
          BY <3>1, <3>7
        <5>2. g[m] = x
          BY <3>7, <3>1
        <5> HIDE DEF g
        <5> QED BY <4>1, <5>1, <5>2, <3>6
      <4>2. CASE i # m
        <5>1. i \in 0..(m - 1) /\ g[i] = f[i]
          BY <4>2, <3>1, <3>7
        <5>2. i # 0 => g[i - 1] = f[i - 1]
          <6>1. i # 0 => i - 1 \in 0..m /\ i - 1 < m
            BY <5>1, <3>1
          <6> QED BY <6>1, <3>7
        <5>3. f[i] = Step(f, i)
          BY <5>1, <3>4
        <5> HIDE DEF g
        <5> QED BY <5>1, <5>2, <5>3
      <4> QED BY <4>1, <4>2
    <3>10. Upto(m, g)
      <4> HIDE DEF g
      <4> QED BY <3>8, <3>9
    <3> QED BY <3>10, <2>3
  <2> QED BY <2>4, <2>5
<1>9. n <= n
  BY <1>0
<1>3. PICK f : Upto(n, f)
  BY <1>0, <1>2, <1>9
<1>4. f = [i \in 0..n |-> Step(f, i)]
  BY <1>3
<1>5. F = [i \in 0..n |-> Step(F, i)]
  <2> DEFINE P(g) == g = [i \in 0..n |-> Step(g, i)]
  <2>1. P(f)
    BY <1>4
  <2>2. P(CHOOSE g : P(g))
    <3> HIDE DEF P
    <3> QED BY <2>1
  <2> QED BY <2>2
<1>6. ASSUME NEW i \in 0..n PROVE F[i] = Step(F, i)
  <2> HIDE DEF F
  <2> QED BY <1>5
<1> HIDE DEF F
<1> DEFINE Good(i, x) == Retains(list, D, x, S, i)
<1>7. ASSUME NEW i \in 0..n PROVE Good(i, F[i])
  <2> DEFINE Bad == {j \in 0..n : ~Good(j, F[j])}
  <2>1. SUFFICES ASSUME Bad # {} PROVE FALSE
    OBVIOUS
  <2>2. PICK m \in Bad : \A y \in Bad : m <= y
    <3>1. Bad \in SUBSET Nat
      BY <1>0
    <3> HIDE DEF Bad
    <3> QED BY <2>1, <3>1, NatMin
  <2>3. m \in 0..n /\ ~Good(m, F[m])
    BY <2>2
  <2>4. CASE m = 0
    <3>1. F[0] = <<>>
      BY <1>6, <2>3, <2>4
    <3> QED BY <3>1, <2>3, <2>4, NothingKept
  <2>5. CASE m # 0
    <3>1. m - 1 \in 0..n /\ m \in 1..n
      BY <2>3, <2>5, <1>0
    <3>2. m - 1 \notin Bad
      <4>1. ~(m <= m - 1)
        BY <2>3, <1>0
      <4> HIDE DEF Bad
      <4> QED BY <2>2, <4>1
    <3>3. Good(m - 1, F[m - 1])
      BY <3>1, <3>2
    <3>4. F[m] = IF list[m] \in D THEN F[m - 1] ELSE Append(F[m - 1], list[m])
      BY <1>6, <2>3, <2>5
    <3>5. Retains(list, D, IF list[m] \in D THEN F[m - 1] ELSE Append(F[m - 1], list[m]), S, m)
      BY <3>1, <3>3, OneMoreKept
    <3> QED BY <2>3, <3>4, <3>5
  <2> QED BY <2>4, <2>5
<1>8. Retains(list, D, F[n], S, n)
  <2>1. n \in 0..n
    BY <1>0
  <2> QED BY <1>7, <2>1
<1> QED BY <1>1, <1>8 DEF Remains

=============================================================================
