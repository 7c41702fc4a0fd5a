---------------------------- MODULE SequenceLemmas ----------------------------
(***************************************************************************)
(* Facts about numbers, finite sets and sequences that the proofs of several *)
(* components need and the library does not state. Induction over the length *)
(* of a list is an argument about the shortest counterexample (LeastNumber). *)
(***************************************************************************)
EXTENDS Integers, SequencesExt, SequenceTheorems, FiniteSetTheorems, WellFoundedInduction, TLAPS

Earlier == {pair \in Nat \X Nat : pair[1] < pair[2]}

(* A set of numbers has a least one.                                          *)
LEMMA LeastNumber ==
  ASSUME NEW T, T \subseteq Nat, T # {}
  PROVE  \E x \in T : \A y \in T : x <= y
<1>1. IsWellFoundedOn(Earlier, Nat)
  BY NatLessThanWellFounded DEF OpToRel, Earlier
<1>2. PICK x \in T : \A y \in T : <<y, x>> \notin Earlier
  BY <1>1, WFMin
<1>3. ASSUME NEW y \in T PROVE x <= y
  <2>1. <<y, x>> \in Nat \X Nat /\ <<y, x>> \notin Earlier
    BY <1>2
  <2>2. ~(y < x)
    BY <2>1 DEF Earlier
  <2> QED
    BY <2>2
<1> QED
  BY <1>3

\* A step from each number's value to the next one's, and what it makes of a
\* value for zero.
StepsWithin(step, S) == \A n \in Nat, v \in S : step[<<n, v>>] \in S
IsRecursion(f, S, a, step) ==
  f \in [Nat -> S] /\ f[0] = a /\ \A n \in Nat : f[n + 1] = step[<<n, f[n]>>]

(* They define a function.                                                    *)
LEMMA RecursionExists ==
  ASSUME NEW S, NEW a \in S, NEW step, StepsWithin(step, S)
  PROVE  \E f : IsRecursion(f, S, a, step)
<1> USE DEF StepsWithin
<1> DEFINE Begins(h, n) ==
             /\ h \in [0..n -> S] /\ h[0] = a
             /\ \A i \in 0..(n - 1) : h[i + 1] = step[<<i, h[i]>>]
           missing == {n \in Nat : ~\E h : Begins(h, n)}
           part == [n \in Nat |-> CHOOSE h : Begins(h, n)]
           f == [n \in Nat |-> part[n][n]]
<1>1. ASSUME NEW n \in Nat, NEW h, Begins(h, n) PROVE \E k : Begins(k, n + 1)
  <2> DEFINE k == [i \in 0..(n + 1) |-> IF i <= n THEN h[i] ELSE step[<<n, h[n]>>]]
  <2>1. h[n] \in S /\ step[<<n, h[n]>>] \in S
    BY <1>1
  <2>2. k \in [0..(n + 1) -> S] /\ k[0] = a
    BY <1>1, <2>1
  <2>3. ASSUME NEW i \in 0..n PROVE k[i + 1] = step[<<i, k[i]>>]
    <3>1. CASE i < n
      <4>1. i \in 0..(n - 1) /\ i + 1 \in 0..n
        BY <3>1
      <4> QED
        BY <4>1, <1>1
    <3>2. CASE i = n
      BY <3>2
    <3> QED
      BY <3>1, <3>2
  <2>4. (n + 1) - 1 = n
    OBVIOUS
  <2> HIDE DEF k
  <2> QED
    BY <2>2, <2>3, <2>4
<1>2. missing = {}
  <2> SUFFICES ASSUME missing # {} PROVE FALSE
    OBVIOUS
  <2>1. PICK n \in missing : \A m \in missing : n <= m
    BY LeastNumber
  <2>2. Begins([i \in 0..0 |-> a], 0)
    OBVIOUS
  <2>3. n # 0
    BY <2>1, <2>2
  <2>4. n - 1 \in Nat /\ n - 1 \notin missing /\ (n - 1) + 1 = n
    BY <2>1, <2>3
  <2>5. \E h : Begins(h, n - 1)
    BY <2>4
  <2> HIDE DEF Begins
  <2> QED
    BY <2>1, <2>4, <2>5, <1>1
<1>3. \A n \in Nat : Begins(part[n], n)
  <2> HIDE DEF Begins
  <2> QED
    BY <1>2
<1>4. ASSUME NEW n \in Nat, NEW h, NEW m \in Nat, NEW k, Begins(h, n), Begins(k, m), n <= m
      PROVE  \A i \in 0..n : h[i] = k[i]
  <2> DEFINE apart == {i \in 0..n : h[i] # k[i]}
  <2> SUFFICES ASSUME apart # {} PROVE FALSE
    OBVIOUS
  <2>0. apart \subseteq Nat
    OBVIOUS
  <2>1. PICK i \in apart : \A j \in apart : i <= j
    <3> HIDE DEF apart
    <3> QED
      BY <2>0, LeastNumber
  <2>2. i # 0
    BY <1>4, <2>1
  <2>3. i - 1 \in 0..(n - 1) /\ i - 1 \in 0..(m - 1) /\ i - 1 \in 0..n /\ (i - 1) + 1 = i /\ i - 1 \notin apart
    BY <1>4, <2>1, <2>2
  <2>4. h[i - 1] = k[i - 1]
    BY <2>3
  <2>5. h[i] = step[<<i - 1, h[i - 1]>>]
    BY <1>4, <2>3
  <2>6. k[i] = step[<<i - 1, k[i - 1]>>]
    BY <1>4, <2>3
  <2> QED
    BY <2>1, <2>4, <2>5, <2>6
<1>5. \A n \in Nat : f[n] = part[n][n] /\ f[n] \in S
  <2> TAKE n \in Nat
  <2>1. part[n] \in [0..n -> S] /\ n \in 0..n
    <3> HIDE DEF part
    <3> QED
      BY <1>3
  <2> HIDE DEF part
  <2> QED
    BY <2>1
<1>6. f[0] = a
  BY <1>3, <1>5
<1>7. ASSUME NEW n \in Nat PROVE f[n + 1] = step[<<n, f[n]>>]
  <2>1. Begins(part[n], n) /\ Begins(part[n + 1], n + 1)
    <3> HIDE DEF Begins, part
    <3> QED
      BY <1>3
  <2>2. n \in 0..n /\ n <= n + 1 /\ n + 1 \in Nat /\ n \in 0..((n + 1) - 1)
    OBVIOUS
  <2>3. part[n][n] = part[n + 1][n]
    <3> HIDE DEF Begins, part
    <3> QED
      BY <2>1, <2>2, <1>4
  <2>4. part[n + 1][n + 1] = step[<<n, part[n + 1][n]>>]
    <3> HIDE DEF part
    <3> QED
      BY <2>1, <2>2
  <2> QED
    BY <1>5, <2>2, <2>3, <2>4
<1>8. f \in [Nat -> S]
  BY <1>5
<1> HIDE DEF f
<1> QED
  BY <1>6, <1>7, <1>8 DEF IsRecursion

\* The powers of a number, defined by recursion.
LEMMA PowersExist ==
  ASSUME NEW b \in Nat \ {0}, NEW power,
         power = CHOOSE f : f = [n \in Nat |-> IF n = 0 THEN 1 ELSE b * f[n - 1]]
  PROVE  /\ power \in [Nat -> Nat \ {0}] /\ power[0] = 1
         /\ \A n \in Nat : power[n + 1] = b * power[n]
<1> DEFINE positive == Nat \ {0}
           step == [pair \in Nat \X positive |-> b * pair[2]]
<1>1. ASSUME NEW x \in Nat \ {0} PROVE b * x \in Nat \ {0}
  OBVIOUS
<1>2. StepsWithin(step, positive)
  BY <1>1 DEF StepsWithin
<1>3. 1 \in positive
  OBVIOUS
<1>4. PICK f : IsRecursion(f, positive, 1, step)
  <2> HIDE DEF step, positive
  <2> QED
    BY <1>2, <1>3, RecursionExists
<1>5. ASSUME NEW n \in Nat PROVE f[n + 1] = b * f[n]
  BY <1>4 DEF IsRecursion
<1>6. ASSUME NEW n \in Nat PROVE f[n] = IF n = 0 THEN 1 ELSE b * f[n - 1]
  <2>1. CASE n = 0
    BY <1>4, <2>1 DEF IsRecursion
  <2>2. CASE n # 0
    <3>1. n - 1 \in Nat /\ (n - 1) + 1 = n
      BY <2>2
    <3> QED
      BY <2>2, <3>1, <1>5
  <2> QED
    BY <2>1, <2>2
<1>7. f = [n \in Nat |-> IF n = 0 THEN 1 ELSE b * f[n - 1]]
  BY <1>4, <1>6 DEF IsRecursion
<1>8. power = [n \in Nat |-> IF n = 0 THEN 1 ELSE b * power[n - 1]]
  BY <1>7
<1>9. ASSUME NEW n \in Nat PROVE power[n] = IF n = 0 THEN 1 ELSE b * power[n - 1]
  BY <1>8
<1>10. power[0] = 1
  BY <1>9
<1>11. ASSUME NEW n \in Nat PROVE power[n + 1] = b * power[n]
  <2>1. n + 1 \in Nat /\ n + 1 # 0 /\ (n + 1) - 1 = n
    OBVIOUS
  <2> QED
    BY <2>1, <1>9
<1>12. ASSUME NEW n \in Nat PROVE power[n] \in Nat \ {0}
  <2> DEFINE odd == {m \in Nat : power[m] \notin Nat \ {0}}
  <2> SUFFICES ASSUME odd # {} PROVE FALSE
    OBVIOUS
  <2>1. PICK m \in odd : \A k \in odd : m <= k
    BY LeastNumber
  <2>2. m \in Nat /\ m # 0
    BY <2>1, <1>10
  <2>3. m - 1 \in Nat /\ m - 1 \notin odd
    BY <2>1, <2>2
  <2>4. power[m] = b * power[m - 1]
    BY <2>2, <1>9
  <2> QED
    BY <2>1, <2>3, <2>4, <1>1
<1> QED
  BY <1>8, <1>10, <1>11, <1>12

(* Division by a positive number.                                            *)
LEMMA QuotientIs ==
  ASSUME NEW a \in Int, NEW b \in Nat \ {0}, NEW q \in Int, NEW r \in Int, a = b * q + r, 0 <= r, r < b
  PROVE  a \div b = q /\ a % b = r
OBVIOUS

LEMMA QuotientHas ==
  ASSUME NEW a \in Int, NEW b \in Nat \ {0}
  PROVE  /\ a \div b \in Int /\ a % b \in Int /\ a = b * (a \div b) + (a % b)
         /\ 0 <= a % b /\ a % b < b
OBVIOUS

(* Dividing by two numbers is dividing by their product.                      *)
LEMMA QuotientTwice ==
  ASSUME NEW a \in Int, NEW b \in Nat \ {0}, NEW c \in Nat \ {0}
  PROVE  a \div (b * c) = (a \div b) \div c
<1> DEFINE q == a \div b
           r == a % b
           t == q \div c
           s == q % c
<1>1. q \in Int /\ r \in Int /\ a = b * q + r /\ 0 <= r /\ r < b
  BY QuotientHas
<1>2. t \in Int /\ s \in Int /\ q = c * t + s /\ 0 <= s /\ s < c
  BY <1>1, QuotientHas
<1> HIDE DEF q, r, s, t
<1>3. a = (b * c) * t + (b * s + r)
  BY <1>1, <1>2
<1>4. 0 <= b * s + r 
  BY <1>1, <1>2
<1>5. b * s + r < b * c
  <2>1. b * s <= b * (c - 1)
    BY <1>2
  <2>2. b * (c - 1) = b * c - b
    OBVIOUS
  <2> QED BY <2>1, <2>2, <1>1, <1>2
<1>6. b * c \in Nat \ {0} /\ b * s + r \in Int
  BY <1>1, <1>2
<1>7. a \div (b * c) = t
  BY <1>1, <1>2, <1>3, <1>4, <1>5, <1>6, QuotientIs
<1> QED
  BY <1>7 DEF t, q

(* RemoveFirst closes the gap that the first h leaves.                        *)
LEMMA RemoveFirstEffect ==
  ASSUME NEW S, NEW s \in Seq(S), NEW h, \E i \in 1..Len(s) : s[i] = h
  PROVE  \E p \in 1..Len(s) :
           /\ s[p] = h
           /\ RemoveFirst(s, h) \in Seq(S)
           /\ Len(RemoveFirst(s, h)) = Len(s) - 1
           /\ \A i \in 1..(Len(s) - 1) :
                RemoveFirst(s, h)[i] = IF i < p THEN s[i] ELSE s[i + 1]
<1> DEFINE places == {i \in 1..Len(s) : s[i] = h}
           place == SelectInSeq(s, LAMBDA v : v = h)
           before == SubSeq(s, 1, place - 1)
           after == SubSeq(s, place + 1, Len(s))
<1>0. Len(s) \in Nat
  BY LenProperties
<1>1. places # {}
  OBVIOUS
<1>2. PICK x \in places : \A y \in places : x <= y
  <2>1. places \subseteq Nat
    BY <1>0
  <2> QED
    BY <2>1, <1>1, LeastNumber
<1>3. place = CHOOSE x0 \in places : \A y \in places : x0 <= y
  BY <1>1 DEF SelectInSeq, Min
<1>4. place \in places
  BY <1>2, <1>3
<1>5. place \in Nat /\ place >= 1 /\ place <= Len(s) /\ s[place] = h
  BY <1>0, <1>4
<1>6. RemoveFirst(s, h) = before \o after
  BY DEF RemoveFirst, RemoveAt
<1> HIDE DEF place, places
<1>7. /\ before \in Seq(S) /\ Len(before) = place - 1
      /\ \A i \in 1..(place - 1) : before[i] = s[i]
  <2>1. 1 \in 1..(Len(s) + 1) /\ place - 1 \in 0..Len(s)
    BY <1>0, <1>5
  <2> QED
    BY <1>5, <2>1, SubSeqProperties
<1>8. /\ after \in Seq(S) /\ Len(after) = Len(s) - place
      /\ \A i \in 1..(Len(s) - place) : after[i] = s[place + i]
  <2>1. place + 1 \in 1..(Len(s) + 1) /\ Len(s) \in 0..Len(s)
    BY <1>0, <1>5
  <2> QED
    BY <1>0, <1>5, <2>1, SubSeqProperties
<1> HIDE DEF before, after
<1>9. /\ before \o after \in Seq(S)
      /\ Len(before \o after) = Len(before) + Len(after)
      /\ \A i \in 1..(Len(before) + Len(after)) :
           (before \o after)[i] = IF i <= Len(before) THEN before[i] ELSE after[i - Len(before)]
  BY <1>7, <1>8, ConcatProperties
<1>10. Len(before) + Len(after) = Len(s) - 1
  BY <1>0, <1>5, <1>7, <1>8
<1>11. ASSUME NEW i \in 1..(Len(s) - 1)
       PROVE  (before \o after)[i] = IF i < place THEN s[i] ELSE s[i + 1]
  <2>1. CASE i < place
    <3>1. i \in 1..(place - 1) /\ i <= Len(before)
      BY <1>0, <1>5, <1>7, <2>1
    <3> QED
      BY <1>7, <1>9, <1>10, <2>1, <3>1
  <2>2. CASE ~(i < place)
    <3>1. /\ i - (place - 1) \in 1..(Len(s) - place) /\ ~(i <= Len(before))
          /\ place + (i - (place - 1)) = i + 1
      BY <1>0, <1>5, <1>7, <2>2
    <3>2. after[i - (place - 1)] = s[i + 1]
      BY <1>8, <3>1
    <3> QED
      BY <1>7, <1>9, <1>10, <2>2, <3>1, <3>2
  <2> QED
    BY <2>1, <2>2
<1>12. place \in 1..Len(s)
  BY <1>0, <1>5
<1>13. /\ s[place] = h
       /\ before \o after \in Seq(S)
       /\ Len(before \o after) = Len(s) - 1
       /\ \A i \in 1..(Len(s) - 1) :
            (before \o after)[i] = IF i < place THEN s[i] ELSE s[i + 1]
  BY <1>5, <1>9, <1>10, <1>11
<1> QED
  BY ONLY <1>6, <1>12, <1>13, Zenon

LEMMA RemoveFirstAbsent ==
  ASSUME NEW s, NEW h, \A i \in 1..Len(s) : s[i] # h
  PROVE  RemoveFirst(s, h) = s
  BY DEF RemoveFirst

(* Elements that are all different stay so, and h is not among them any more. *)
LEMMA RemoveFirstInjective ==
  ASSUME NEW S, NEW s \in Seq(S), IsInjective(s), NEW h
  PROVE  /\ IsInjective(RemoveFirst(s, h))
         /\ \A i \in 1..Len(RemoveFirst(s, h)) :
              /\ RemoveFirst(s, h)[i] # h
              /\ \E j \in 1..Len(s) : RemoveFirst(s, h)[i] = s[j]
<1> DEFINE left == RemoveFirst(s, h)
<1>0. Len(s) \in Nat /\ DOMAIN s = 1..Len(s)
  BY LenProperties
<1>1. CASE \A i \in 1..Len(s) : s[i] # h
  BY <1>1, RemoveFirstAbsent
<1>2. CASE \E i \in 1..Len(s) : s[i] = h
  <2>1. PICK r \in 1..Len(s) :
          /\ s[r] = h /\ left \in Seq(S) /\ Len(left) = Len(s) - 1
          /\ \A i \in 1..(Len(s) - 1) : left[i] = IF i < r THEN s[i] ELSE s[i + 1]
    BY <1>2, RemoveFirstEffect
  <2>2. DOMAIN left = 1..(Len(s) - 1)
    BY <2>1, LenProperties
  <2> HIDE DEF left
  <2>3. ASSUME NEW i \in 1..(Len(s) - 1)
        PROVE  left[i] # h /\ \E j \in 1..Len(s) : left[i] = s[j]
    <3>1. PICK j \in 1..Len(s) : j # r /\ left[i] = s[j]
      <4>1. CASE i < r
        <5>1. i \in 1..Len(s) /\ i # r /\ left[i] = s[i]
          BY <1>0, <2>1, <4>1
        <5> QED
          BY <5>1
      <4>2. CASE ~(i < r)
        <5>1. i + 1 \in 1..Len(s) /\ i + 1 # r /\ left[i] = s[i + 1]
          BY <1>0, <2>1, <4>2
        <5> QED
          BY <5>1
      <4> QED
        BY <4>1, <4>2
    <3>2. s[j] # s[r]
      BY <1>0, <3>1 DEF IsInjective
    <3> QED
      BY <2>1, <3>1, <3>2
  <2>4. IsInjective(left)
    BY <1>0, <2>1, <2>2, SMTT(30) DEF IsInjective
  <2> QED
    BY <2>1, <2>3, <2>4 DEF left
<1> QED
  BY <1>1, <1>2

(* What is left of a list is of its elements.                                 *)
LEMMA RemoveFirstTyped ==
  ASSUME NEW S, NEW s \in Seq(S), NEW h
  PROVE  RemoveFirst(s, h) \in Seq(S)
  BY RemoveFirstEffect, RemoveFirstAbsent

(* Of elements that are all different, RemoveFirst leaves all but h.          *)
LEMMA RemoveFirstElements ==
  ASSUME NEW S, NEW s \in Seq(S), IsInjective(s), NEW h
  PROVE  ToSet(RemoveFirst(s, h)) = ToSet(s) \ {h}
<1> DEFINE left == RemoveFirst(s, h)
<1>0. Len(s) \in Nat /\ DOMAIN s = 1..Len(s)
  BY LenProperties
<1>1. left \in Seq(S) /\ DOMAIN left = 1..Len(left)
  BY RemoveFirstTyped, LenProperties
<1>2. ToSet(left) \subseteq ToSet(s) \ {h}
  BY <1>0, <1>1, RemoveFirstInjective DEF ToSet
<1>3. ASSUME NEW j \in 1..Len(s), s[j] # h
      PROVE  \E i \in 1..Len(left) : left[i] = s[j]
  <2>1. CASE \A i \in 1..Len(s) : s[i] # h
    BY <2>1, RemoveFirstAbsent
  <2>2. CASE \E i \in 1..Len(s) : s[i] = h
    <3>1. PICK r \in 1..Len(s) :
            /\ s[r] = h /\ Len(left) = Len(s) - 1
            /\ \A i \in 1..(Len(s) - 1) : left[i] = IF i < r THEN s[i] ELSE s[i + 1]
      BY <2>2, RemoveFirstEffect
    <3> HIDE DEF left
    <3>2. j # r
      BY <1>3, <3>1
    <3>3. CASE j < r
      <4>1. j \in 1..(Len(s) - 1) /\ left[j] = s[j]
        BY <1>0, <3>1, <3>3
      <4> QED
        BY <3>1, <4>1
    <3>4. CASE ~(j < r)
      <4>1. j - 1 \in 1..(Len(s) - 1) /\ ~(j - 1 < r) /\ (j - 1) + 1 = j
        BY <1>0, <3>2, <3>4
      <4>2. left[j - 1] = s[j]
        BY <3>1, <4>1
      <4> QED
        BY <3>1, <4>1, <4>2
    <3> QED
      BY <3>3, <3>4
  <2> QED
    BY <2>1, <2>2
<1>4. ToSet(s) \ {h} \subseteq ToSet(left)
  BY <1>0, <1>1, <1>3 DEF ToSet
<1> QED
  BY <1>2, <1>4

(* Numbers can be put in order: the shortest list that cannot would be one     *)
(* whose least number is taken out.                                           *)
LEMMA OrderExists ==
  ASSUME NEW s \in Seq(Nat)
  PROVE  \E p \in [DOMAIN s -> DOMAIN s] :
           /\ IsInjective(p)
           /\ \A i, j \in DOMAIN s : i < j => s[p[i]] <= s[p[j]]
<1> DEFINE Orders(p, t) == /\ IsInjective(p)
                           /\ \A i, j \in DOMAIN t : i < j => t[p[i]] <= t[p[j]]
           CanOrder(t) == \E p \in [DOMAIN t -> DOMAIN t] : Orders(p, t)
           T == {n \in Nat : \E t \in Seq(Nat) : Len(t) = n /\ ~CanOrder(t)}
<1>1. SUFFICES ASSUME ~CanOrder(s) PROVE FALSE
  OBVIOUS
<1>2. Len(s) \in T /\ T \subseteq Nat
  BY <1>1, LenProperties
<1>3. PICK n \in T : \A m \in T : n <= m
  BY <1>2, LeastNumber
<1>4. PICK t \in Seq(Nat) : Len(t) = n /\ ~CanOrder(t)
  BY <1>3
<1>5. n \in Nat /\ DOMAIN t = 1..n /\ t \in [1..n -> Nat]
  BY <1>4, LenProperties
<1>6. n - 1 \notin T
  <2> HIDE DEF T
  <2> QED
    BY <1>3, <1>5
<1>7. CASE n = 0
  <2>1. [i \in 1..0 |-> i] \in [DOMAIN t -> DOMAIN t]
    BY <1>5, <1>7
  <2>2. Orders([i \in 1..0 |-> i], t)
    BY <1>5, <1>7 DEF IsInjective
  <2> QED
    BY <1>4, <2>1, <2>2
<1>8. CASE n # 0
  <2>1. PICK m \in 1..n : \A i \in 1..n : t[m] <= t[i]
    <3> DEFINE V == {t[i] : i \in 1..n}
    <3>1. V \subseteq Nat /\ V # {}
      BY <1>5, <1>8
    <3>2. PICK v \in V : \A w \in V : v <= w
      BY <3>1, LeastNumber
    <3> QED
      BY <3>2
  <2> DEFINE skip == [i \in 1..(n - 1) |-> IF i < m THEN i ELSE i + 1]
             rest == [i \in 1..(n - 1) |-> t[skip[i]]]
  <2>2. /\ skip \in [1..(n - 1) -> 1..n]
        /\ \A i \in 1..(n - 1) : skip[i] # m
        /\ \A i, j \in 1..(n - 1) : skip[i] = skip[j] => i = j
    BY <1>5, <1>8
  <2> HIDE DEF skip
  <2>3. rest \in Seq(Nat) /\ Len(rest) = n - 1 /\ DOMAIN rest = 1..(n - 1)
    <3>1. n - 1 \in Nat
      BY <1>5, <1>8
    <3>2. \A i \in 1..(n - 1) : t[skip[i]] \in Nat
      BY <1>5, <2>2
    <3> DEFINE k == n - 1
    <3> HIDE DEF k
    <3>3. [i \in 1..k |-> t[skip[i]]] \in Seq(Nat)
      BY <3>1, <3>2, IsASeq DEF k
    <3>4. rest \in Seq(Nat) /\ DOMAIN rest = 1..k
      BY <3>3 DEF k
    <3>5. Len(rest) = k
      BY <3>1, <3>4, LenProperties DEF k
    <3> QED
      BY <3>4, <3>5 DEF k
  <2> HIDE DEF rest
  <2>4. CanOrder(rest)
    <3>1. n - 1 \in Nat
      BY <1>5, <1>8
    <3> HIDE DEF CanOrder
    <3> QED
      BY <1>6, <2>3, <3>1
  <2>5. PICK q \in [1..(n - 1) -> 1..(n - 1)] : Orders(q, rest)
    BY <2>3, <2>4
  <2>6. /\ \A i, j \in 1..(n - 1) : q[i] = q[j] => i = j
        /\ \A i, j \in 1..(n - 1) : i < j => t[skip[q[i]]] <= t[skip[q[j]]]
    BY <2>3, <2>5 DEF IsInjective, rest
  <2> DEFINE p == [i \in 1..n |-> IF i = 1 THEN m ELSE skip[q[i - 1]]]
  <2>7. \A i \in 2..n : i - 1 \in 1..(n - 1) /\ p[i] = skip[q[i - 1]]
    BY <1>5
  <2>8. p \in [1..n -> 1..n] /\ p[1] = m /\ 1 \in 1..n
    <3>1. \A i \in 2..n : skip[q[i - 1]] \in 1..n
      BY <2>2, <2>5, <2>7
    <3>2. \A i \in 1..n : i = 1 \/ i \in 2..n
      BY <1>5
    <3>3. \A i \in 1..n : (IF i = 1 THEN m ELSE skip[q[i - 1]]) \in 1..n
      BY <3>1, <3>2
    <3>4. 1 \in 1..n
      BY <1>5, <1>8
    <3> QED
      BY <3>3, <3>4
  <2> HIDE DEF p
  <2>9. ASSUME NEW i \in 1..n, NEW j \in 1..n, i < j PROVE t[p[i]] <= t[p[j]]
    <3>1. CASE i = 1
      BY <2>1, <2>8, <3>1
    <3>2. CASE i # 1
      <4>1. i \in 2..n /\ j \in 2..n /\ i - 1 < j - 1
        BY <1>5, <2>9, <3>2
      <4>2. t[skip[q[i - 1]]] <= t[skip[q[j - 1]]]
        BY <2>6, <2>7, <4>1
      <4> QED
        BY <2>7, <4>1, <4>2
    <3> QED
      BY <3>1, <3>2
  <2>10. ASSUME NEW i \in 1..n, NEW j \in 1..n, p[i] = p[j] PROVE i = j
    <3>1. \A k \in 2..n : p[k] # m
      <4>1. \A k \in 2..n : q[k - 1] \in 1..(n - 1)
        BY <2>5, <2>7
      <4> QED
        BY <2>2, <2>7, <4>1
    <3>2. CASE i \in 2..n /\ j \in 2..n
      <4>1. q[i - 1] = q[j - 1]
        BY <2>2, <2>5, <2>7, <2>10, <3>2
      <4>2. i - 1 = j - 1
        BY <2>6, <2>7, <3>2, <4>1
      <4> QED
        BY <3>2, <4>2
    <3>3. CASE i = 1 \/ j = 1
      <4>1. i \notin 2..n /\ j \notin 2..n
        BY <2>8, <2>10, <3>1, <3>3
      <4> QED
        BY <1>5, <4>1
    <3> QED
      BY <1>5, <3>2, <3>3
  <2>11. Orders(p, t)
    BY <1>5, <2>8, <2>9, <2>10 DEF IsInjective
  <2> QED
    BY <1>4, <1>5, <2>8, <2>11
<1> QED
  BY <1>7, <1>8

(* An element appended is one more.                                           *)
LEMMA AppendNew ==
  ASSUME NEW S, NEW s \in Seq(S), IsInjective(s), NEW e \in S,
         \A i \in 1..Len(s) : s[i] # e
  PROVE  /\ Append(s, e) \in Seq(S) /\ IsInjective(Append(s, e))
         /\ ToSet(Append(s, e)) = ToSet(s) \cup {e}
<1> DEFINE longer == Append(s, e)
<1>1. Len(s) \in Nat /\ DOMAIN s = 1..Len(s)
  BY LenProperties
<1>2. /\ longer \in Seq(S) /\ DOMAIN longer = 1..(Len(s) + 1)
      /\ \A i \in 1..Len(s) : longer[i] = s[i]
      /\ longer[Len(s) + 1] = e
  BY <1>1, AppendProperties, LenProperties
<1> HIDE DEF longer
<1>3. \A i \in DOMAIN longer : i \in DOMAIN s \/ i = Len(s) + 1
  BY <1>1, <1>2
<1>4. IsInjective(longer)
  <2>1. ASSUME NEW i \in DOMAIN longer, NEW j \in DOMAIN longer, longer[i] = longer[j]
        PROVE  i = j
    BY <1>1, <1>2, <1>3, <2>1 DEF IsInjective
  <2> QED
    BY <2>1 DEF IsInjective
<1>5. ToSet(longer) = ToSet(s) \cup {e}
  BY <1>1, <1>2, <1>3 DEF ToSet
<1> QED
  BY <1>2, <1>4, <1>5 DEF longer

-----------------------------------------------------------------------------
(* A set of places with all before each of its members is the first of them.   *)
LEMMA FirstPlaces ==
  ASSUME NEW m \in Nat, NEW P, P \subseteq 1..m, \A i \in P : \A j \in 1..m : j < i => j \in P
  PROVE  Cardinality(P) \in 0..m /\ P = 1..Cardinality(P)
<1> DEFINE missing == {j \in 1..(m + 1) : j \notin P}
<1>1. missing \subseteq Nat /\ m + 1 \in missing
  OBVIOUS
<1>2. PICK x \in missing : \A y \in missing : x <= y
  <2> HIDE DEF missing
  <2> QED
    BY <1>1, LeastNumber
<1>3. x \in 1..(m + 1) /\ x \notin P /\ \A y \in 1..(m + 1) : y < x => y \in P
  BY <1>2
<1>4. P = 1..(x - 1)
  <2>1. ASSUME NEW i \in P PROVE i \in 1..(x - 1)
    <3>1. i \in 1..m
      OBVIOUS
    <3>2. CASE i > x
      <4>1. x \in 1..m /\ x < i
        BY <1>3, <3>1, <3>2
      <4> QED
        BY <1>3, <4>1
    <3>3. i # x
      BY <1>3
    <3> QED
      BY <1>3, <3>1, <3>2, <3>3
  <2>2. ASSUME NEW i \in 1..(x - 1) PROVE i \in P
    BY <1>3
  <2> QED
    BY <2>1, <2>2
<1>5. Cardinality(1..(x - 1)) = x - 1
  BY <1>3, FS_Interval
<1> QED
  BY <1>3, <1>4, <1>5

(* The sizes of two finite sets with nothing in common add up.                *)
LEMMA CountingApart ==
  ASSUME NEW S, NEW T, IsFiniteSet(S), IsFiniteSet(T), S \cap T = {}
  PROVE  /\ IsFiniteSet(S \cup T)
         /\ Cardinality(S) \in Nat /\ Cardinality(T) \in Nat
         /\ Cardinality(S \cup T) = Cardinality(S) + Cardinality(T)
<1>1. Cardinality(S) \in Nat /\ Cardinality(T) \in Nat
  BY FS_CardinalityType
<1>2. Cardinality({}) = 0
  BY FS_EmptySet
<1>3. /\ IsFiniteSet(S \cup T)
      /\ Cardinality(S \cup T) = Cardinality(S) + Cardinality(T) - Cardinality(S \cap T)
  BY FS_Union
<1>4. Cardinality(S \cap T) = 0
  BY <1>2
<1> QED
  BY <1>1, <1>3, <1>4

(* The size of a span of numbers.                                             *)
LEMMA SpanSize ==
  ASSUME NEW n \in Nat
  PROVE  IsFiniteSet(1..n) /\ Cardinality(1..n) = n
BY FS_Interval

(* The size of an interval.                                                   *)
LEMMA IntervalSize ==
  ASSUME NEW a \in Int, NEW b \in Int, a <= b + 1
  PROVE  Cardinality(a..b) = b - a + 1
BY FS_Interval

(* The greatest and the least of a set of numbers.                            *)
LEMMA MaxEffect ==
  ASSUME NEW S, S \subseteq Nat, S # {}, NEW m \in Nat, \A y \in S : y <= m
  PROVE  Max(S) \in S /\ \A y \in S : y <= Max(S)
<1> DEFINE bounds == {x \in Nat : \A y \in S : y <= x}
<1>1. bounds \subseteq Nat /\ m \in bounds
  OBVIOUS
<1>2. PICK u \in bounds : \A x \in bounds : u <= x
  <2> HIDE DEF bounds
  <2> QED
    BY <1>1, LeastNumber
<1>3. u \in S
  <2> SUFFICES ASSUME u \notin S PROVE FALSE
    OBVIOUS
  <2>1. \A y \in S : y \in Nat /\ y <= u /\ y # u
    OBVIOUS
  <2>5. PICK one \in S : TRUE
    OBVIOUS
  <2>3. u \in Nat /\ \E z \in S : z < u
    BY <2>1, <2>5
  <2>4. u - 1 \in Nat
    BY <2>1, <2>3
  <2>2. u - 1 \in Nat /\ \A y \in S : y <= u - 1
    BY <2>1, <2>3, <2>4
  <2> QED
    BY <1>2, <2>2
<1>4. \E x \in S : \A y \in S : x >= y
  BY <1>3
<1>5. Max(S) \in S /\ \A y \in S : Max(S) >= y
  BY <1>4 DEF Max
<1> QED
  BY <1>5

(* The least of a set of numbers.                                             *)
LEMMA MinEffect ==
  ASSUME NEW S, S \subseteq Nat, S # {}
  PROVE  Min(S) \in S /\ \A y \in S : Min(S) <= y
<1>1. \E x \in S : \A y \in S : x <= y
  BY LeastNumber
<1> QED
  BY <1>1 DEF Min

(* Numbers moved by a constant, round the sixteen, are as many.               *)
LEMMA ShiftCount ==
  ASSUME NEW S, S \subseteq 0..15, NEW c \in Nat, IsFiniteSet(S)
  PROVE  /\ IsFiniteSet({(i + c) % 16 : i \in S})
         /\ Cardinality({(i + c) % 16 : i \in S}) = Cardinality(S)
         /\ IsFiniteSet({(c - i) % 16 : i \in S})
         /\ Cardinality({(c - i) % 16 : i \in S}) = Cardinality(S)
<1> DEFINE U == {(i + c) % 16 : i \in S}
           D == {(c - i) % 16 : i \in S}
           f == [i \in S |-> (i + c) % 16]
           g == [i \in S |-> (c - i) % 16]
<1>1. \A i, j \in 0..15 : (i + c) % 16 = (j + c) % 16 => i = j
  OBVIOUS
<1>2. \A i, j \in 0..15 : (c - i) % 16 = (c - j) % 16 => i = j
  OBVIOUS
<1>3. f \in Bijection(S, U)
  BY <1>1 DEF Bijection, Injection, IsInjective, Surjection
<1>4. g \in Bijection(S, D)
  BY <1>2 DEF Bijection, Injection, IsInjective, Surjection
<1> HIDE DEF f, g, U, D
<1>5. IsFiniteSet(U) /\ Cardinality(U) = Cardinality(S)
  BY <1>3, FS_Bijection DEF ExistsBijection
<1>6. IsFiniteSet(D) /\ Cardinality(D) = Cardinality(S)
  BY <1>4, FS_Bijection DEF ExistsBijection
<1> QED
  BY <1>5, <1>6 DEF U, D

===============================================================================
