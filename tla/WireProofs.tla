----------------------------- MODULE WireProofs -----------------------------
(***************************************************************************)
(* WireExact of Packets, for every size of a byte above nine, all lengths  *)
(* of lists and all values that fit their fields: what is read is what was *)
(* written, from a datagram, from its beginning, and from shards.          *)
(***************************************************************************)
EXTENDS Packets, TLAPS, WellFoundedInduction

LEMMA LeastIndex ==
  ASSUME NEW T \in SUBSET Nat, T # {}
  PROVE  \E m \in T : \A k \in T : m =< k
<1> DEFINE less == {ss \in Nat \X Nat : ss[1] < ss[2]}
<1>1. IsWellFoundedOn(less, Nat)
  BY NatLessThanWellFounded, Zenon DEF OpToRel
<1> HIDE DEF less
<1>2. PICK m \in T : \A k \in T : ~(<<k, m>> \in less)
  BY <1>1, WFMin
<1>3. SUFFICES ASSUME NEW k \in T PROVE m =< k
  BY <1>2
<1>4. m \in Nat /\ k \in Nat /\ ~(m =< k) => <<k, m>> \in Nat \X Nat /\ k < m
  BY SMT
<1>5. <<k, m>> \in Nat \X Nat /\ k < m => <<k, m>> \in less
  BY Zenon DEF less
<1> QED BY <1>2, <1>4, <1>5

-----------------------------------------------------------------------------
(* Numbers.                                                                *)

LEMMA PositiveProduct ==
  ASSUME NEW a \in Nat \ {0}, NEW b \in Nat \ {0} PROVE a * b \in Nat \ {0}
OBVIOUS

\* Power is the function that its definition asks for.
LEMMA PowerIs ==
  /\ Base \in Nat \ {0} /\ Base > 9 /\ Power[0] = 1
  /\ \A n \in 0 .. 8 : Power[n] \in Nat \ {0}
  /\ \A n \in 1 .. 8 : Power[n] = Base * Power[n - 1]
<1>1. Base \in Nat \ {0} /\ Base > 9
  BY BaseAssumption
<1> DEFINE b2 == Base * Base
           b3 == Base * b2
           b4 == Base * b3
           b5 == Base * b4
           b6 == Base * b5
           b7 == Base * b6
           b8 == Base * b7
           value == <<1, Base, b2, b3, b4, b5, b6, b7, b8>>
           f == [n \in 0 .. 8 |-> value[n + 1]]
<1>2. b2 \in Nat \ {0}
  BY <1>1, PositiveProduct
<1> HIDE DEF b2
<1>3. b3 \in Nat \ {0}
  BY <1>1, <1>2, PositiveProduct
<1> HIDE DEF b3
<1>4. b4 \in Nat \ {0}
  BY <1>1, <1>3, PositiveProduct
<1> HIDE DEF b4
<1>5. b5 \in Nat \ {0}
  BY <1>1, <1>4, PositiveProduct
<1> HIDE DEF b5
<1>6. b6 \in Nat \ {0}
  BY <1>1, <1>5, PositiveProduct
<1> HIDE DEF b6
<1>7. b7 \in Nat \ {0}
  BY <1>1, <1>6, PositiveProduct
<1> HIDE DEF b7
<1>8. b8 \in Nat \ {0}
  BY <1>1, <1>7, PositiveProduct
<1>9. /\ f[0] = 1 /\ f[1] = Base /\ f[2] = b2 /\ f[3] = b3 /\ f[4] = b4
      /\ f[5] = b5 /\ f[6] = b6 /\ f[7] = b7 /\ f[8] = b8
  <2> HIDE DEF b8
  <2> QED OBVIOUS
<1>10. /\ b2 = Base * Base /\ b3 = Base * b2 /\ b4 = Base * b3 /\ b5 = Base * b4
       /\ b6 = Base * b5 /\ b7 = Base * b6 /\ b8 = Base * b7
  BY DEF b2, b3, b4, b5, b6, b7, b8
<1> HIDE DEF b8
<1>11. f = [n \in 0 .. 8 |-> f[n]]
  OBVIOUS
<1> HIDE DEF f
<1>12. \A n \in 1 .. 8 : f[n] = Base * f[n - 1]
  <2> SUFFICES ASSUME NEW n \in 1 .. 8 PROVE f[n] = Base * f[n - 1]
    OBVIOUS
  <2>1. n = 1 \/ n = 2 \/ n = 3 \/ n = 4 \/ n = 5 \/ n = 6 \/ n = 7 \/ n = 8
    OBVIOUS
  <2>2. Base * 1 = Base
    BY <1>1
  <2> QED BY <1>9, <1>10, <2>1, <2>2
<1>13. f = [n \in 0 .. 8 |-> IF n = 0 THEN 1 ELSE Base * f[n - 1]]
  <2>1. ASSUME NEW n \in 0 .. 8 PROVE f[n] = IF n = 0 THEN 1 ELSE Base * f[n - 1]
    BY <1>9, <1>12
  <2> QED BY <1>11, <2>1
<1>14. Power = [n \in 0 .. 8 |-> IF n = 0 THEN 1 ELSE Base * Power[n - 1]]
  BY <1>13 DEF Power
<1>15. \A n \in 1 .. 8 : Power[n] = Base * Power[n - 1]
  BY <1>14
<1>16. Power[0] = 1
  BY <1>14
<1>17. \A n \in 0 .. 8 : Power[n] \in Nat \ {0}
  <2> DEFINE bad == {n \in 0 .. 8 : Power[n] \notin Nat \ {0}}
  <2> SUFFICES ASSUME bad # {} PROVE FALSE
    OBVIOUS
  <2>1. bad \in SUBSET Nat
    OBVIOUS
  <2> HIDE DEF bad
  <2>2. PICK n \in bad : \A k \in bad : n =< k
    BY <2>1, LeastIndex
  <2>3. n \in 0 .. 8 /\ Power[n] \notin Nat \ {0}
    BY <2>2 DEF bad
  <2>4. n # 0
    BY <1>16, <2>3
  <2>5. n - 1 \in 0 .. 8 /\ ~(n =< n - 1) /\ n \in 1 .. 8
    BY <2>3, <2>4
  <2>6. Power[n - 1] \in Nat \ {0}
    BY <2>2, <2>5 DEF bad
  <2> QED BY <1>1, <1>15, <2>3, <2>5, <2>6, PositiveProduct
<1> QED BY <1>1, <1>15, <1>16, <1>17

LEMMA QuotientIs ==
  ASSUME NEW a \in Int, NEW d \in Nat \ {0}
  PROVE  /\ a \div d \in Int /\ a % d \in Int /\ 0 =< a % d /\ a % d < d
         /\ a = d * (a \div d) + (a % d)
OBVIOUS

\* A remainder is what is left of a multiple.
LEMMA RemainderIs ==
  ASSUME NEW n \in Nat \ {0}, NEW e \in Int, NEW s \in Int, 0 =< s, s < n
  PROVE  (n * e + s) % n = s
<1> DEFINE v == n * e + s
           q == v \div n
           r == v % n
<1>1. v \in Int
  OBVIOUS
<1>2. v = n * e + s
  OBVIOUS
<1> HIDE DEF v
<1>3. q \in Int /\ r \in Int /\ 0 =< r /\ r < n /\ v = n * q + r
  BY <1>1, QuotientIs
<1> HIDE DEF q, r
<1>4. n * (q - e) = s - r
  BY <1>2, <1>3
<1>5. q - e < 1
  <2>1. SUFFICES ASSUME q - e >= 1 PROVE FALSE
    BY <1>3
  <2>2. n * (q - e) >= n
    BY <1>3, <2>1
  <2> QED BY <1>3, <1>4, <2>2
<1>6. e - q < 1
  <2>1. SUFFICES ASSUME e - q >= 1 PROVE FALSE
    BY <1>3
  <2>2. n * (e - q) >= n
    BY <1>3, <2>1
  <2>3. n * (e - q) = r - s
    BY <1>2, <1>3
  <2> QED BY <1>3, <2>2, <2>3
<1>7. q = e
  BY <1>3, <1>5, <1>6
<1>8. r = s
  BY <1>2, <1>3, <1>7
<1> QED BY <1>8 DEF r, v

\* The next digit.
LEMMA NextDigit ==
  ASSUME NEW v \in Nat, NEW p \in Nat \ {0}, NEW b \in Nat \ {0}
  PROVE  /\ v % (b * p) = (v % p) + ((v \div p) % b) * p
         /\ (v \div p) % b \in Int
<1> DEFINE q == v \div p
           r == v % p
           e == q \div b
           d == q % b
<1>1. q \in Int /\ r \in Int /\ 0 =< r /\ r < p /\ v = p * q + r
  BY QuotientIs
<1> HIDE DEF q, r
<1>2. e \in Int /\ d \in Int /\ 0 =< d /\ d < b /\ q = b * e + d
  BY <1>1, QuotientIs
<1> HIDE DEF e, d
<1>3. v = (b * p) * e + (r + d * p)
  <2>1. p * (b * e + d) = (b * p) * e + d * p
    BY <1>1, <1>2
  <2>2. v = (b * p) * e + d * p + r
    BY <1>1, <1>2, <2>1
  <2>3. (b * p) * e \in Int /\ d * p \in Int
    BY <1>2
  <2> QED BY <1>1, <2>2, <2>3
<1>4. r + d * p \in Int /\ 0 =< r + d * p /\ r + d * p < b * p
  <2>1. d * p >= 0 /\ d * p \in Int /\ b * p \in Int
    BY <1>2
  <2>2. (b - 1 - d) * p >= 0
    BY <1>2
  <2>3. (b - 1 - d) * p = b * p - p - d * p
    BY <1>2
  <2> QED BY <1>1, <2>1, <2>2, <2>3
<1>5. b * p \in Nat \ {0}
  BY PositiveProduct
<1> DEFINE m == b * p
           s == r + d * p
<1> HIDE DEF m, s
<1>6. (m * e + s) % m = s
  BY <1>2, <1>4, <1>5, RemainderIs DEF m, s
<1> QED BY <1>2, <1>3, <1>6 DEF m, s, q, r, d

\* What is written in little-endian order is read back.
LEMMA FromToLE ==
  ASSUME NEW data, NEW at \in Int, NEW width \in 0 .. 8, NEW v \in Nat, v < Power[width],
         \A i \in 1 .. width : data[at + i] = ToLE(v, width)[i]
  PROVE  FromLE(data, at, width) = v
<1> DEFINE upto[i \in 0 .. width] ==
             IF i = 0 THEN 0 ELSE upto[i - 1] + data[at + i] * Power[i - 1]
           part == [i \in 0 .. width |-> v % Power[i]]
<1>1. \A i \in 1 .. width :
        v % Power[i] = (v % Power[i - 1]) + data[at + i] * Power[i - 1]
  <2> SUFFICES ASSUME NEW i \in 1 .. width
               PROVE  v % Power[i] = (v % Power[i - 1]) + data[at + i] * Power[i - 1]
    OBVIOUS
  <2>1. i \in 1 .. 8 /\ i - 1 \in 0 .. 8
    OBVIOUS
  <2>2. data[at + i] = (v \div Power[i - 1]) % Base
    BY DEF ToLE
  <2>3. Power[i] = Base * Power[i - 1] /\ Power[i - 1] \in Nat \ {0} /\ Base \in Nat \ {0}
    BY <2>1, PowerIs
  <2> DEFINE p == Power[i - 1]
             d == (v \div p) % Base
  <2> HIDE DEF p
  <2>4. v % (Base * p) = (v % p) + d * p
    BY <2>3, NextDigit DEF p
  <2>5. data[at + i] = d /\ Power[i] = Base * p
    BY <2>2, <2>3 DEF p
  <2> HIDE DEF d
  <2> QED BY <2>4, <2>5, Zenon DEF p
<1>2. v % Power[0] = 0
  BY PowerIs
<1>3. part = [i \in 0 .. width |->
                IF i = 0 THEN 0 ELSE part[i - 1] + data[at + i] * Power[i - 1]]
  <2>1. \A i \in 0 .. width : part[i] = v % Power[i]
    OBVIOUS
  <2>2. part = [i \in 0 .. width |-> part[i]]
    OBVIOUS
  <2> HIDE DEF part
  <2>3. ASSUME NEW i \in 0 .. width
        PROVE  part[i] = IF i = 0 THEN 0 ELSE part[i - 1] + data[at + i] * Power[i - 1]
    <3>1. CASE i = 0
      BY <1>2, <2>1, <3>1
    <3>2. CASE i # 0
      <4>1. i \in 1 .. width /\ i - 1 \in 0 .. width
        BY <3>2
      <4>2. part[i] = v % Power[i] /\ part[i - 1] = v % Power[i - 1]
        BY <2>1, <4>1
      <4>3. part[i] = part[i - 1] + data[at + i] * Power[i - 1]
        BY <1>1, <4>1, <4>2
      <4> QED BY <3>2, <4>3
    <3> QED BY <3>1, <3>2
  <2> QED BY <2>2, <2>3
<1>4. \E f : f = [i \in 0 .. width |->
                    IF i = 0 THEN 0 ELSE f[i - 1] + data[at + i] * Power[i - 1]]
  <2> HIDE DEF part
  <2> QED BY <1>3
<1>5. upto = [i \in 0 .. width |->
                IF i = 0 THEN 0 ELSE upto[i - 1] + data[at + i] * Power[i - 1]]
  BY <1>4
<1>6. FromLE(data, at, width) = upto[width]
  BY DEF FromLE
<1> HIDE DEF upto
<1>7. \A i \in 0 .. width : upto[i] = v % Power[i]
  <2> DEFINE bad == {i \in 0 .. width : upto[i] # v % Power[i]}
  <2> SUFFICES ASSUME bad # {} PROVE FALSE
    OBVIOUS
  <2>1. bad \in SUBSET Nat
    OBVIOUS
  <2> HIDE DEF bad
  <2>2. PICK i \in bad : \A k \in bad : i =< k
    BY <2>1, LeastIndex
  <2>3. i \in 0 .. width /\ upto[i] # v % Power[i]
    BY <2>2 DEF bad
  <2>4. upto[i] = IF i = 0 THEN 0 ELSE upto[i - 1] + data[at + i] * Power[i - 1]
    BY <1>5, <2>3
  <2>5. i # 0
    BY <1>2, <2>3, <2>4
  <2>6. i - 1 \in 0 .. width /\ ~(i =< i - 1) /\ i \in 1 .. width
    BY <2>3, <2>5
  <2>7. upto[i - 1] = v % Power[i - 1]
    BY <2>2, <2>6 DEF bad
  <2> QED BY <1>1, <2>3, <2>4, <2>5, <2>6, <2>7
<1>8. v % Power[width] = v
  <2>1. Power[width] \in Nat \ {0}
    BY PowerIs
  <2>2. \A n \in Nat \ {0} : v < n => v % n = v
    OBVIOUS
  <2> QED BY <2>1, <2>2
<1> QED BY <1>6, <1>7, <1>8

LEMMA ToLEType ==
  ASSUME NEW v \in Nat, NEW width \in 0 .. 8
  PROVE  ToLE(v, width) \in Seq(Int) /\ Len(ToLE(v, width)) = width
<1>1. ASSUME NEW i \in 1 .. width PROVE (v \div Power[i - 1]) % Base \in Int
  <2>1. Power[i - 1] \in Nat \ {0} /\ Base \in Nat \ {0}
    BY PowerIs
  <2> QED BY <2>1, NextDigit
<1> QED BY <1>1 DEF ToLE

-----------------------------------------------------------------------------
(* Sequences of bytes in a row.                                            *)

LEMMA RowsExist ==
  ASSUME NEW s
  PROVE  \A n \in Nat : \E f : f = [i \in 1 .. n |-> IF i = 1 THEN s[i] ELSE f[i - 1] \o s[i]]
<1> DEFINE Rows(f, n) == f = [i \in 1 .. n |-> IF i = 1 THEN s[i] ELSE f[i - 1] \o s[i]]
           bad == {n \in Nat : ~ \E f : Rows(f, n)}
<1> SUFFICES ASSUME bad # {} PROVE FALSE
  OBVIOUS
<1>1. PICK n \in bad : \A k \in bad : n =< k
  BY LeastIndex
<1>2. n # 0
  <2>1. Rows([i \in 1 .. 0 |-> s[i]], 0)
    OBVIOUS
  <2> QED BY <1>1, <2>1
<1>3. n \in Nat /\ n - 1 \in Nat /\ ~(n =< n - 1)
  BY <1>1, <1>2
<1>4. n - 1 \notin bad
  <2> HIDE DEF bad
  <2> QED BY <1>1, <1>3
<1>5. PICK g : Rows(g, n - 1)
  BY <1>3, <1>4
<1> DEFINE f == [i \in 1 .. n |-> IF i = 1 THEN s[1] ELSE IF i = n THEN g[n - 1] \o s[n] ELSE g[i]]
<1>6. ASSUME NEW i \in 1 .. n PROVE f[i] = IF i = 1 THEN s[i] ELSE f[i - 1] \o s[i]
  <2>1. CASE i = 1
    BY <2>1
  <2>2. CASE i # 1 /\ i = n
    <3>1. n - 1 \in 1 .. n /\ n - 1 \in 1 .. n - 1 /\ n - 1 # n
      BY <1>3, <2>2
    <3>2. f[n - 1] = g[n - 1]
      BY <1>5, <3>1
    <3> QED BY <2>2, <3>2
  <2>3. CASE i # 1 /\ i # n
    <3>1. i \in 1 .. n - 1 /\ i - 1 \in 1 .. n /\ i - 1 \in 1 .. n - 1 /\ i - 1 # n
      BY <1>3, <2>3
    <3>2. f[i] = g[i] /\ g[i] = g[i - 1] \o s[i]
      BY <1>5, <2>3, <3>1
    <3>3. f[i - 1] = g[i - 1]
      BY <1>5, <3>1
    <3> QED BY <2>3, <3>2, <3>3
  <2> QED BY <2>1, <2>2, <2>3
<1>7. Rows(f, n)
  <2>1. f = [i \in 1 .. n |-> f[i]]
    OBVIOUS
  <2> HIDE DEF f
  <2> QED BY <1>6, <2>1
<1> QED BY <1>1, <1>7

LEMMA Appended ==
  ASSUME NEW S, NEW left \in Seq(S), NEW right \in Seq(S)
  PROVE  /\ left \o right \in Seq(S) /\ Len(left \o right) = Len(left) + Len(right)
         /\ Len(left) \in Nat /\ Len(right) \in Nat
         /\ \A k \in 1 .. Len(left) : (left \o right)[k] = left[k]
         /\ \A k \in 1 .. Len(right) : (left \o right)[Len(left) + k] = right[k]
OBVIOUS

LEMMA PartIs ==
  ASSUME NEW S, NEW s \in Seq(S), NEW a \in Nat, NEW n \in Nat, a + n =< Len(s)
  PROVE  SubSeq(s, a + 1, a + n) = [k \in 1 .. n |-> s[a + k]]
OBVIOUS

LEMMA ElementsAre ==
  ASSUME NEW T, NEW x \in Seq(T)
  PROVE  Len(x) \in Nat /\ \A i \in 1 .. Len(x) : x[i] \in T
OBVIOUS

\* A flattened sequence holds each of its parts where the ones before it end.
LEMMA FlattenIs ==
  ASSUME NEW S, NEW s \in Seq(Seq(S)), NEW off \in [0 .. Len(s) -> Nat], off[0] = 0,
         \A i \in 1 .. Len(s) : off[i] = off[i - 1] + Len(s[i])
  PROVE  /\ FlattenSeq(s) \in Seq(S) /\ Len(FlattenSeq(s)) = off[Len(s)]
         /\ \A i \in 1 .. Len(s) : \A k \in 1 .. Len(s[i]) :
              FlattenSeq(s)[off[i - 1] + k] = s[i][k]
<1> DEFINE n == Len(s)
           flatten[i \in 1 .. Len(s)] == IF i = 1 THEN s[i] ELSE flatten[i - 1] \o s[i]
<1>1. CASE n = 0
  <2>1. s = <<>> /\ FlattenSeq(s) = s
    BY <1>1 DEF FlattenSeq
  <2> QED BY <1>1, <2>1
<1>2. CASE n # 0
  <2>1. n \in Nat /\ n \in 1 .. n
    BY <1>2
  <2>2. FlattenSeq(s) = flatten[n]
    BY <1>2 DEF FlattenSeq
  <2>3. \E f : f = [i \in 1 .. Len(s) |-> IF i = 1 THEN s[i] ELSE f[i - 1] \o s[i]]
    BY <2>1, RowsExist
  <2>4. flatten = [i \in 1 .. Len(s) |-> IF i = 1 THEN s[i] ELSE flatten[i - 1] \o s[i]]
    BY <2>3
  <2> HIDE DEF flatten
  <2> DEFINE Row(i) ==
        /\ flatten[i] \in Seq(S) /\ Len(flatten[i]) = off[i]
        /\ \A j \in 1 .. i : /\ off[j] =< off[i]
                             /\ \A k \in 1 .. Len(s[j]) : flatten[i][off[j - 1] + k] = s[j][k]
  <2>5. \A i \in 1 .. n : /\ s[i] \in Seq(S) /\ Len(s[i]) \in Nat /\ off[i] \in Nat
                          /\ off[i - 1] \in Nat /\ off[i] = off[i - 1] + Len(s[i])
    <3> SUFFICES ASSUME NEW i \in 1 .. n
                 PROVE  /\ s[i] \in Seq(S) /\ Len(s[i]) \in Nat /\ off[i] \in Nat
                        /\ off[i - 1] \in Nat /\ off[i] = off[i - 1] + Len(s[i])
      OBVIOUS
    <3>1. s[i] \in Seq(S)
      BY ElementsAre, Zenon
    <3>2. Len(s[i]) \in Nat
      BY <3>1, ElementsAre, Zenon
    <3>3. i \in 0 .. n /\ i - 1 \in 0 .. n
      BY <2>1
    <3>4. off[i] \in Nat /\ off[i - 1] \in Nat
      BY <3>3, Zenon
    <3> QED BY <3>1, <3>2, <3>4, Zenon
  <2>52. ASSUME NEW i \in 1 .. n, i = 1 \/ Row(i - 1) PROVE Row(i)
    <3> DEFINE left == flatten[i - 1]
               right == s[i]
    <3>1. right \in Seq(S) /\ Len(right) \in Nat /\ off[i] \in Nat /\ off[i - 1] \in Nat
          /\ off[i] = off[i - 1] + Len(right)
      BY <2>5
    <3>2. CASE i = 1
      <4>1. flatten[i] = right
        BY <2>4, <3>2
      <4>2. off[i - 1] = 0 /\ \A j \in 1 .. i : j = i
        BY <3>2
      <4>3. Len(flatten[i]) = off[i] /\ flatten[i] \in Seq(S)
        BY <3>1, <4>1, <4>2
      <4>4. \A k \in 1 .. Len(s[i]) : flatten[i][off[i - 1] + k] = s[i][k]
        BY <4>1, <4>2
      <4>5. off[i] =< off[i]
        BY <3>1
      <4>6. \A j \in 1 .. i : /\ off[j] =< off[i]
              /\ \A k \in 1 .. Len(s[j]) : flatten[i][off[j - 1] + k] = s[j][k]
        BY <4>2, <4>4, <4>5, Zenon
      <4> QED BY <4>3, <4>6
    <3>3. CASE i # 1
      <4>1. flatten[i] = left \o right
        BY <2>4, <3>3
      <4>2. i - 1 \in 1 .. n /\ Row(i - 1)
        BY <2>1, <2>52, <3>3
      <4>3. left \in Seq(S) /\ Len(left) = off[i - 1]
        BY <4>2
      <4>4. \A j \in 1 .. i - 1 : /\ off[j] =< off[i - 1]
              /\ \A k \in 1 .. Len(s[j]) : left[off[j - 1] + k] = s[j][k]
        BY <4>2
      <4> HIDE DEF left, right, Row, n
      <4>5. /\ left \o right \in Seq(S) /\ Len(left \o right) = Len(left) + Len(right)
            /\ \A k \in 1 .. Len(left) : (left \o right)[k] = left[k]
            /\ \A k \in 1 .. Len(right) : (left \o right)[Len(left) + k] = right[k]
        <5>1. left \in Seq(S) /\ right \in Seq(S)
          BY <3>1, <4>3
        <5> QED BY <5>1, Appended
      <4>6. ASSUME NEW j \in 1 .. i, j # i
            PROVE  /\ off[j] =< off[i]
                   /\ \A k \in 1 .. Len(s[j]) : flatten[i][off[j - 1] + k] = s[j][k]
        <5>1. j \in 1 .. i - 1 /\ j \in 1 .. n
          BY <2>1, <4>2, <4>6
        <5>2. off[j] \in Nat /\ off[j - 1] \in Nat
              /\ off[j] = off[j - 1] + Len(s[j]) /\ Len(s[j]) \in Nat
          BY <2>5, <5>1
        <5>3. off[j] =< off[i - 1] /\ \A k \in 1 .. Len(s[j]) : left[off[j - 1] + k] = s[j][k]
          BY <4>4, <5>1
        <5>4. ASSUME NEW k \in 1 .. Len(s[j]) PROVE flatten[i][off[j - 1] + k] = s[j][k]
          <6> DEFINE a == off[j - 1]
                     l == Len(s[j])
                     e == Len(left)
                     o == off[j]
          <6>1. a \in Nat /\ l \in Nat /\ k \in 1 .. l /\ o = a + l /\ o =< e /\ e \in Nat
            BY <3>1, <4>3, <5>2, <5>3
          <6> HIDE DEF a, l, e, o
          <6>2. a + k \in 1 .. e
            BY <6>1
          <6>3. (left \o right)[a + k] = left[a + k]
            BY <4>5, <6>2 DEF e
          <6> QED BY <4>1, <5>3, <6>3 DEF a
        <5> QED BY <3>1, <5>2, <5>3, <5>4
      <4>7. \A k \in 1 .. Len(right) : flatten[i][off[i - 1] + k] = right[k]
        <5> SUFFICES ASSUME NEW k \in 1 .. Len(right) PROVE flatten[i][off[i - 1] + k] = right[k]
          OBVIOUS
        <5>1. (left \o right)[Len(left) + k] = right[k]
          BY <4>5
        <5> QED BY <4>1, <4>3, <5>1
      <4>8. \A j \in 1 .. i : /\ off[j] =< off[i]
              /\ \A k \in 1 .. Len(s[j]) : flatten[i][off[j - 1] + k] = s[j][k]
        <5> SUFFICES ASSUME NEW j \in 1 .. i
                     PROVE  /\ off[j] =< off[i]
                            /\ \A k \in 1 .. Len(s[j]) : flatten[i][off[j - 1] + k] = s[j][k]
          OBVIOUS
        <5>1. CASE j # i
          BY <4>6, <5>1, Zenon
        <5>2. CASE j = i
          <6>1. off[i] =< off[i]
            BY <3>1
          <6> QED BY <4>7, <5>2, <6>1, Zenon DEF right
        <5> QED BY <5>1, <5>2
      <4>9. flatten[i] \in Seq(S) /\ Len(flatten[i]) = off[i]
        BY <3>1, <4>1, <4>3, <4>5
      <4> QED BY <4>8, <4>9 DEF Row
    <3> QED BY <3>2, <3>3
  <2>6. \A i \in 1 .. n : Row(i)
    <3> HIDE DEF Row
    <3> DEFINE bad == {i \in 1 .. n : ~Row(i)}
    <3> SUFFICES ASSUME bad # {} PROVE FALSE
      OBVIOUS
    <3>1. bad \in SUBSET Nat
      OBVIOUS
    <3> HIDE DEF bad
    <3>2. PICK i \in bad : \A k \in bad : i =< k
      BY <3>1, LeastIndex
    <3>3. i \in 1 .. n /\ ~Row(i)
      BY <3>2 DEF bad
    <3>4. i # 1
      BY <2>52, <3>3
    <3>5. i - 1 \in 1 .. n /\ ~(i =< i - 1)
      BY <2>1, <3>3, <3>4
    <3>6. Row(i - 1)
      BY <3>2, <3>5 DEF bad
    <3> QED BY <2>52, <3>3, <3>6
  <2> QED BY <2>1, <2>2, <2>6
<1> QED BY <1>1, <1>2

-----------------------------------------------------------------------------
(* Layouts.                                                                *)

\* The reader's fields lie where the writer puts them, from offset from to end.
Aligned(w, r, from, end) ==
  /\ w \in Seq(1 .. 8) /\ Len(w) \in Nat \ {0} /\ Len(r) = Len(w)
  /\ \A i \in 1 .. Len(w) :
       /\ r[i][1] \in Nat /\ r[i][2] = w[i]
       /\ from =< r[i][1] /\ r[i][1] + w[i] =< end
       /\ r[i][1] = IF i = 1 THEN from ELSE r[i - 1][1] + w[i - 1]
  /\ end = r[Len(w)][1] + w[Len(w)]

\* The offset of the first byte after the fields.
FieldsEnd(layout) ==
  layout.reads[Len(layout.writes)][1] + layout.writes[Len(layout.writes)]

\* What the two readings of a layout have to agree on.
Consistent(kind, layout, head) ==
  /\ Aligned(layout.writes, layout.reads, 1, head)
  /\ layout.tag \in Nat /\ layout.least \in Nat \ {0} /\ layout.pad \in Nat
  /\ head =< layout.least
  /\ \A i \in 1 .. Len(layout.writes) :
       layout.most[i] \in Nat /\ layout.most[i] < Power[layout.writes[i]]
  /\ layout.strict \in BOOLEAN
  /\ kind = "PREPARE" <=> layout.count # 0 /\ ~layout.strict
  /\ layout.count = 0 => layout.least =< head \/ layout.least =< layout.pad
  /\ layout.count # 0 =>
       /\ layout.count \in 1 .. Len(layout.writes)
       /\ layout.most[layout.count] = Base - 1
       /\ layout.pad = 0 /\ layout.from = head /\ layout.item = WireWaypoint
       /\ IF layout.strict THEN layout.least =< head ELSE head = 15 /\ layout.least = 16

\* A field's largest value, unless its type has fewer.
LEMMA MostOf ==
  ASSUME NEW w \in Seq(1 .. 8)
  PROVE  \A i \in 1 .. Len(w) : Power[w[i]] \in Nat /\ 9 < Power[w[i]]
<1> SUFFICES ASSUME NEW i \in 1 .. Len(w)
             PROVE  Power[w[i]] \in Nat /\ 9 < Power[w[i]]
  OBVIOUS
<1>1. w[i] \in 1 .. 8
  BY ElementsAre, Zenon
<1> DEFINE n == w[i]
<1> HIDE DEF n
<1>2. n \in 1 .. 8 /\ n - 1 \in 0 .. 8
  BY <1>1 DEF n
<1> DEFINE rest == Power[n - 1]
<1>3. Power[n] = Base * rest /\ rest \in Nat \ {0} /\ Base \in Nat \ {0} /\ Base > 9
  BY <1>2, PowerIs
<1> HIDE DEF rest
<1>4. Base * rest >= Base
  BY <1>3
<1> QED BY <1>3, <1>4 DEF n

LEMMA KindIs ==
  Kind = {"INTENT", "TASK_CFP", "TASK_BID", "EDGE_BLOCKED", "TASK_AWARD", "INTENT_BRAKE",
          "PREPARE", "ACK_PROMISE", "COMMIT", "ABORT", "TELEMETRY"}
BY DEF Kind, Layouts

LEMMA LayoutsConsistent ==
  ASSUME NEW kind \in Kind PROVE Consistent(kind, Layouts[kind], FieldsEnd(Layouts[kind]))
<1>1. ASSUME kind = "INTENT" PROVE Consistent(kind, Layouts[kind], FieldsEnd(Layouts[kind]))
  <2> DEFINE layout == IntentPayload
  <2>1. Layouts[kind] = layout
    BY <1>1 DEF Layouts
  <2>2. Aligned(layout.writes, layout.reads, 1, 5)
    BY DEF Aligned, Plain, IntentPayload, Listed
  <2>3. FieldsEnd(layout) = 5
    BY <2>2 DEF Aligned, FieldsEnd
  <2>4. \A i \in 1 .. Len(layout.writes) :
          Power[layout.writes[i]] \in Nat /\ 9 < Power[layout.writes[i]]
    BY <2>2, MostOf DEF Aligned
  <2>5. \A i \in 1 .. Len(layout.writes) :
          layout.most[i] \in Nat /\ layout.most[i] < Power[layout.writes[i]]
    BY <2>4 DEF Plain, IntentPayload, Listed
  <2> QED BY <1>1, <2>1, <2>2, <2>3, <2>5, PowerIs
         DEF Consistent, Plain, IntentPayload, Listed, WireWaypoint, CellLockRequest
<1>2. ASSUME kind = "TASK_CFP" PROVE Consistent(kind, Layouts[kind], FieldsEnd(Layouts[kind]))
  <2> DEFINE layout == TaskCfpPayload
  <2>1. Layouts[kind] = layout
    BY <1>2 DEF Layouts
  <2>2. Aligned(layout.writes, layout.reads, 1, 15)
    BY SMTT(20) DEF Aligned, Plain, TaskCfpPayload
  <2>3. FieldsEnd(layout) = 15
    BY <2>2 DEF Aligned, FieldsEnd
  <2>4. \A i \in 1 .. Len(layout.writes) :
          Power[layout.writes[i]] \in Nat /\ 9 < Power[layout.writes[i]]
    BY <2>2, MostOf DEF Aligned
  <2>5. \A i \in 1 .. Len(layout.writes) :
          layout.most[i] \in Nat /\ layout.most[i] < Power[layout.writes[i]]
    BY <2>4 DEF Plain, TaskCfpPayload
  <2> QED BY <1>2, <2>1, <2>2, <2>3, <2>5, PowerIs DEF Consistent, Plain, TaskCfpPayload
<1>3. ASSUME kind = "TASK_BID" PROVE Consistent(kind, Layouts[kind], FieldsEnd(Layouts[kind]))
  <2> DEFINE layout == TaskBidPayload
  <2>1. Layouts[kind] = layout
    BY <1>3 DEF Layouts
  <2>2. Aligned(layout.writes, layout.reads, 1, 10)
    BY DEF Aligned, Plain, TaskBidPayload
  <2>3. FieldsEnd(layout) = 10
    BY <2>2 DEF Aligned, FieldsEnd
  <2>4. \A i \in 1 .. Len(layout.writes) :
          Power[layout.writes[i]] \in Nat /\ 9 < Power[layout.writes[i]]
    BY <2>2, MostOf DEF Aligned
  <2>5. \A i \in 1 .. Len(layout.writes) :
          layout.most[i] \in Nat /\ layout.most[i] < Power[layout.writes[i]]
    BY <2>4 DEF Plain, TaskBidPayload
  <2> QED BY <1>3, <2>1, <2>2, <2>3, <2>5, PowerIs DEF Consistent, Plain, TaskBidPayload
<1>4. ASSUME kind = "EDGE_BLOCKED" PROVE Consistent(kind, Layouts[kind], FieldsEnd(Layouts[kind]))
  <2> DEFINE layout == EdgeBlockedPayload
  <2>1. Layouts[kind] = layout
    BY <1>4 DEF Layouts
  <2>2. Aligned(layout.writes, layout.reads, 1, 8)
    BY DEF Aligned, Plain, EdgeBlockedPayload
  <2>3. FieldsEnd(layout) = 8
    BY <2>2 DEF Aligned, FieldsEnd
  <2>4. \A i \in 1 .. Len(layout.writes) :
          Power[layout.writes[i]] \in Nat /\ 9 < Power[layout.writes[i]]
    BY <2>2, MostOf DEF Aligned
  <2>5. \A i \in 1 .. Len(layout.writes) :
          layout.most[i] \in Nat /\ layout.most[i] < Power[layout.writes[i]]
    BY <2>4 DEF Plain, EdgeBlockedPayload
  <2> QED BY <1>4, <2>1, <2>2, <2>3, <2>5, PowerIs DEF Consistent, Plain, EdgeBlockedPayload
<1>5. ASSUME kind = "TASK_AWARD" PROVE Consistent(kind, Layouts[kind], FieldsEnd(Layouts[kind]))
  <2> DEFINE layout == TaskAwardPayload
  <2>1. Layouts[kind] = layout
    BY <1>5 DEF Layouts
  <2>2. Aligned(layout.writes, layout.reads, 1, 8)
    BY DEF Aligned, Plain, TaskAwardPayload
  <2>3. FieldsEnd(layout) = 8
    BY <2>2 DEF Aligned, FieldsEnd
  <2>4. \A i \in 1 .. Len(layout.writes) :
          Power[layout.writes[i]] \in Nat /\ 9 < Power[layout.writes[i]]
    BY <2>2, MostOf DEF Aligned
  <2>5. \A i \in 1 .. Len(layout.writes) :
          layout.most[i] \in Nat /\ layout.most[i] < Power[layout.writes[i]]
    BY <2>4 DEF Plain, TaskAwardPayload
  <2> QED BY <1>5, <2>1, <2>2, <2>3, <2>5, PowerIs DEF Consistent, Plain, TaskAwardPayload
<1>6. ASSUME kind = "INTENT_BRAKE" PROVE Consistent(kind, Layouts[kind], FieldsEnd(Layouts[kind]))
  <2> DEFINE layout == IntentBrakePayload
  <2>1. Layouts[kind] = layout
    BY <1>6 DEF Layouts
  <2>2. Aligned(layout.writes, layout.reads, 1, 11)
    BY DEF Aligned, Plain, IntentBrakePayload
  <2>3. FieldsEnd(layout) = 11
    BY <2>2 DEF Aligned, FieldsEnd
  <2>4. \A i \in 1 .. Len(layout.writes) :
          Power[layout.writes[i]] \in Nat /\ 9 < Power[layout.writes[i]]
    BY <2>2, MostOf DEF Aligned
  <2>5. \A i \in 1 .. Len(layout.writes) :
          layout.most[i] \in Nat /\ layout.most[i] < Power[layout.writes[i]]
    BY <2>4 DEF Plain, IntentBrakePayload
  <2> QED BY <1>6, <2>1, <2>2, <2>3, <2>5, PowerIs DEF Consistent, Plain, IntentBrakePayload
<1>7. ASSUME kind = "PREPARE" PROVE Consistent(kind, Layouts[kind], FieldsEnd(Layouts[kind]))
  <2> DEFINE layout == PreparePayload
  <2>1. Layouts[kind] = layout
    BY <1>7 DEF Layouts
  <2>2. Aligned(layout.writes, layout.reads, 1, 15)
    BY DEF Aligned, Plain, PreparePayload, Listed
  <2>3. FieldsEnd(layout) = 15
    BY <2>2 DEF Aligned, FieldsEnd
  <2>4. \A i \in 1 .. Len(layout.writes) :
          Power[layout.writes[i]] \in Nat /\ 9 < Power[layout.writes[i]]
    BY <2>2, MostOf DEF Aligned
  <2>5. \A i \in 1 .. Len(layout.writes) :
          layout.most[i] \in Nat /\ layout.most[i] < Power[layout.writes[i]]
    BY <2>4 DEF Plain, PreparePayload, Listed
  <2> QED BY <1>7, <2>1, <2>2, <2>3, <2>5, PowerIs
         DEF Consistent, Plain, PreparePayload, Listed, WireWaypoint, CellLockRequest
<1>8. ASSUME kind = "ACK_PROMISE" PROVE Consistent(kind, Layouts[kind], FieldsEnd(Layouts[kind]))
  <2> DEFINE layout == AckPromise
  <2>1. Layouts[kind] = layout
    BY <1>8 DEF Layouts
  <2>2. Aligned(layout.writes, layout.reads, 1, 20)
    BY DEF Aligned, Plain, AckPromise
  <2>3. FieldsEnd(layout) = 20
    BY <2>2 DEF Aligned, FieldsEnd
  <2>4. \A i \in 1 .. Len(layout.writes) :
          Power[layout.writes[i]] \in Nat /\ 9 < Power[layout.writes[i]]
    BY <2>2, MostOf DEF Aligned
  <2>5. \A i \in 1 .. Len(layout.writes) :
          layout.most[i] \in Nat /\ layout.most[i] < Power[layout.writes[i]]
    <3>1. \A i \in 1 .. Len(layout.writes) :
            layout.most[i] = Power[layout.writes[i]] - 1 \/ layout.most[i] \in {1, 3, 9}
      BY DEF Plain, AckPromise
    <3> HIDE DEF layout
    <3> QED BY <2>4, <3>1
  <2> QED BY <1>8, <2>1, <2>2, <2>3, <2>5, PowerIs DEF Consistent, Plain, AckPromise
<1>9. ASSUME kind = "COMMIT" PROVE Consistent(kind, Layouts[kind], FieldsEnd(Layouts[kind]))
  <2> DEFINE layout == CommitPayload
  <2>1. Layouts[kind] = layout
    BY <1>9 DEF Layouts
  <2>2. Aligned(layout.writes, layout.reads, 1, 18)
    BY DEF Aligned, Plain, CommitPayload
  <2>3. FieldsEnd(layout) = 18
    BY <2>2 DEF Aligned, FieldsEnd
  <2>4. \A i \in 1 .. Len(layout.writes) :
          Power[layout.writes[i]] \in Nat /\ 9 < Power[layout.writes[i]]
    BY <2>2, MostOf DEF Aligned
  <2>5. \A i \in 1 .. Len(layout.writes) :
          layout.most[i] \in Nat /\ layout.most[i] < Power[layout.writes[i]]
    BY <2>4 DEF Plain, CommitPayload
  <2> QED BY <1>9, <2>1, <2>2, <2>3, <2>5, PowerIs DEF Consistent, Plain, CommitPayload
<1>10. ASSUME kind = "ABORT" PROVE Consistent(kind, Layouts[kind], FieldsEnd(Layouts[kind]))
  <2> DEFINE layout == AbortPayload
  <2>1. Layouts[kind] = layout
    BY <1>10 DEF Layouts
  <2>2. Aligned(layout.writes, layout.reads, 1, 18)
    BY DEF Aligned, Plain, AbortPayload
  <2>3. FieldsEnd(layout) = 18
    BY <2>2 DEF Aligned, FieldsEnd
  <2>4. \A i \in 1 .. Len(layout.writes) :
          Power[layout.writes[i]] \in Nat /\ 9 < Power[layout.writes[i]]
    BY <2>2, MostOf DEF Aligned
  <2>5. \A i \in 1 .. Len(layout.writes) :
          layout.most[i] \in Nat /\ layout.most[i] < Power[layout.writes[i]]
    BY <2>4 DEF Plain, AbortPayload
  <2> QED BY <1>10, <2>1, <2>2, <2>3, <2>5, PowerIs DEF Consistent, Plain, AbortPayload
<1>11. ASSUME kind = "TELEMETRY" PROVE Consistent(kind, Layouts[kind], FieldsEnd(Layouts[kind]))
  <2> DEFINE layout == TelemetrySnapshot
  <2>1. Layouts[kind] = layout
    BY <1>11 DEF Layouts
  <2>2. Aligned(layout.writes, layout.reads, 1, 27)
    BY SMTT(20) DEF Aligned, Plain, TelemetrySnapshot
  <2>3. FieldsEnd(layout) = 27
    BY <2>2 DEF Aligned, FieldsEnd
  <2>4. \A i \in 1 .. Len(layout.writes) :
          Power[layout.writes[i]] \in Nat /\ 9 < Power[layout.writes[i]]
    BY <2>2, MostOf DEF Aligned
  <2>5. \A i \in 1 .. Len(layout.writes) :
          layout.most[i] \in Nat /\ layout.most[i] < Power[layout.writes[i]]
    <3>1. \A i \in 1 .. Len(layout.writes) :
            layout.most[i] = Power[layout.writes[i]] - 1 \/ layout.most[i] \in {1, 3, 9}
      BY DEF Plain, TelemetrySnapshot
    <3> HIDE DEF layout
    <3> QED BY <2>4, <3>1
  <2> QED BY <1>11, <2>1, <2>2, <2>3, <2>5, PowerIs DEF Consistent, Plain, TelemetrySnapshot
<1> QED BY <1>1, <1>2, <1>3, <1>4, <1>5, <1>6, <1>7, <1>8, <1>9, <1>10, <1>11, KindIs

-----------------------------------------------------------------------------
(* Fields.                                                                 *)

\* Values that fit their fields.
Fitting(values, w) == \A i \in 1 .. Len(w) : values[i] \in Nat /\ values[i] < Power[w[i]]

\* The values' bytes, at their offsets from at.
Lies(data, at, values, w, r) ==
  \A i \in 1 .. Len(w) : \A k \in 1 .. w[i] : data[at + r[i][1] + k] = ToLE(values[i], w[i])[k]

LEMMA WidthIs ==
  ASSUME NEW w \in Seq(1 .. 8), NEW i \in 1 .. Len(w) PROVE w[i] \in 0 .. 8 /\ w[i] \in Nat
<1>1. w[i] \in 1 .. 8
  BY ElementsAre, Zenon
<1> QED BY <1>1

\* What is put into fields lies at their offsets.
LEMMA PutIs ==
  ASSUME NEW w, NEW r, NEW from \in Nat, NEW end \in Nat, Aligned(w, r, from, end),
         NEW values, Fitting(values, w)
  PROVE  /\ Put(values, w) \in Seq(Int) /\ Len(Put(values, w)) = end - from
         /\ Lies(Put(values, w), 0 - from, values, w, r)
<1> DEFINE s == [i \in 1 .. Len(w) |-> ToLE(values[i], w[i])]
           off == [i \in 0 .. Len(w) |-> IF i = 0 THEN 0 ELSE r[i][1] + w[i] - from]
<1>1. w \in Seq(1 .. 8) /\ Len(w) \in Nat /\ Len(w) # 0
  BY DEF Aligned
<1>2. ASSUME NEW i \in 1 .. Len(w)
      PROVE  ToLE(values[i], w[i]) \in Seq(Int) /\ Len(ToLE(values[i], w[i])) = w[i]
  <2>1. values[i] \in Nat /\ w[i] \in 0 .. 8
    BY <1>1, WidthIs DEF Fitting
  <2> QED BY <2>1, ToLEType
<1>3. s \in Seq(Seq(Int)) /\ Len(s) = Len(w)
  <2> DEFINE n == Len(w)
  <2>1. \A i \in 1 .. n : s[i] \in Seq(Int)
    BY <1>2
  <2>2. s = [i \in 1 .. n |-> s[i]] /\ n \in Nat
    BY <1>1
  <2> HIDE DEF s, n
  <2>3. s \in Seq(Seq(Int)) /\ Len(s) = n
    BY <2>1, <2>2
  <2> QED BY <2>3 DEF n
<1>4. ASSUME NEW i \in 1 .. Len(w)
      PROVE  /\ r[i][1] \in Nat /\ w[i] \in Nat /\ from =< r[i][1]
             /\ r[i][1] = IF i = 1 THEN from ELSE r[i - 1][1] + w[i - 1]
  BY <1>1, WidthIs DEF Aligned
<1>5. off \in [0 .. Len(w) -> Nat] /\ off[0] = 0
  BY <1>4
<1>6. ASSUME NEW i \in 1 .. Len(w) PROVE off[i] = off[i - 1] + w[i] /\ off[i - 1] = r[i][1] - from
  <2>1. i \in 0 .. Len(w) /\ i - 1 \in 0 .. Len(w) /\ (i # 1 => i - 1 \in 1 .. Len(w))
    BY <1>1
  <2>2. off[i - 1] = IF i = 1 THEN 0 ELSE r[i - 1][1] + w[i - 1] - from
    BY <2>1
  <2>3. off[i] = r[i][1] + w[i] - from
    BY <2>1
  <2>4. i # 1 => r[i - 1][1] \in Nat /\ w[i - 1] \in Nat
    BY <1>4, <2>1
  <2>5. CASE i = 1
    BY <1>4, <2>2, <2>3, <2>5
  <2>6. CASE i # 1
    <3> DEFINE a == r[i - 1][1]
               b == w[i - 1]
               c == r[i][1]
               d == w[i]
    <3>1. a \in Nat /\ b \in Nat /\ c = a + b /\ d \in Nat
      BY <1>4, <2>4, <2>6
    <3>2. off[i - 1] = a + b - from /\ off[i] = c + d - from
      BY <2>2, <2>3, <2>6
    <3> HIDE DEF a, b, c, d, off
    <3>3. off[i] = off[i - 1] + d /\ off[i - 1] = c - from
      BY <3>1, <3>2
    <3> QED BY <3>3 DEF c, d
  <2> QED BY <2>5, <2>6
<1>7. off[Len(w)] = end - from
  <2> DEFINE n == Len(w)
             a == r[n][1]
             b == w[n]
  <2>1. n \in 0 .. Len(w) /\ n \in 1 .. Len(w) /\ n # 0
    BY <1>1
  <2>2. off[n] = a + b - from
    BY <2>1
  <2>3. end = a + b /\ a \in Nat /\ b \in Nat
    BY <1>4, <2>1 DEF Aligned
  <2> HIDE DEF a, b, n, off
  <2>4. off[n] = end - from
    BY <2>2, <2>3
  <2> QED BY <2>4 DEF n
<1>8. Put(values, w) = FlattenSeq(s)
  BY DEF Put
<1>9. \A i \in 1 .. Len(w) : s[i] = ToLE(values[i], w[i])
  OBVIOUS
<1> HIDE DEF s, off
<1>10. /\ FlattenSeq(s) \in Seq(Int) /\ Len(FlattenSeq(s)) = off[Len(s)]
       /\ \A i \in 1 .. Len(s) : \A k \in 1 .. Len(s[i]) :
            FlattenSeq(s)[off[i - 1] + k] = s[i][k]
  <2>1. off \in [0 .. Len(s) -> Nat] /\ off[0] = 0
    BY <1>3, <1>5
  <2>2. \A i \in 1 .. Len(s) : off[i] = off[i - 1] + Len(s[i])
    BY <1>2, <1>3, <1>6, <1>9
  <2> QED BY <1>3, <2>1, <2>2, FlattenIs
<1>11. ASSUME NEW i \in 1 .. Len(w), NEW k \in 1 .. w[i]
       PROVE  Put(values, w)[0 - from + r[i][1] + k] = ToLE(values[i], w[i])[k]
  <2>1. 0 - from + r[i][1] + k = off[i - 1] + k
    BY <1>4, <1>6
  <2>2. k \in 1 .. Len(s[i]) /\ i \in 1 .. Len(s) /\ s[i] = ToLE(values[i], w[i])
    BY <1>2, <1>3, <1>9
  <2> QED BY <1>8, <1>10, <2>1, <2>2
<1> QED BY <1>3, <1>7, <1>8, <1>10, <1>11 DEF Lies

Leading(values, n) == [i \in 1 .. n |-> values[i]]

\* What lies at the fields' offsets is read back.
LEMMA GetIs ==
  ASSUME NEW w, NEW r, NEW from \in Nat, NEW end \in Nat, Aligned(w, r, from, end),
         NEW values, Fitting(values, w), NEW data, NEW at \in Int, Lies(data, at, values, w, r)
  PROVE  Get(data, at, r) = Leading(values, Len(w))
<1>1. w \in Seq(1 .. 8) /\ Len(r) = Len(w)
  BY DEF Aligned
<1>2. ASSUME NEW i \in 1 .. Len(w) PROVE FromLE(data, at + r[i][1], r[i][2]) = values[i]
  <2>1. w[i] \in 0 .. 8 /\ values[i] \in Nat /\ values[i] < Power[w[i]]
    BY <1>1, WidthIs DEF Fitting
  <2>2. r[i][2] = w[i] /\ at + r[i][1] \in Int
    BY DEF Aligned
  <2>3. \A k \in 1 .. w[i] : data[at + r[i][1] + k] = ToLE(values[i], w[i])[k]
    BY DEF Lies
  <2> DEFINE width == w[i]
             v == values[i]
             a == at + r[i][1]
  <2> HIDE DEF width, v, a
  <2>4. width \in 0 .. 8 /\ v \in Nat /\ v < Power[width] /\ a \in Int
    BY <2>1, <2>2 DEF width, v, a
  <2>5. \A k \in 1 .. width : data[a + k] = ToLE(v, width)[k]
    BY <2>3 DEF width, v, a
  <2>6. FromLE(data, a, width) = v
    BY <2>4, <2>5, FromToLE
  <2> QED BY <2>2, <2>6 DEF width, v, a
<1> QED BY <1>1, <1>2 DEF Get, Leading

-----------------------------------------------------------------------------
(* Packets and their bytes.                                                *)

\* The packets an agent sends: their values fit their fields, their lists are
\* rows of items, and the count announces them.
WellFormed(p) ==
  LET layout == Layouts[p.kind]
  IN  /\ p.kind \in Kind /\ p = [kind |-> p.kind, fields |-> p.fields, items |-> p.items]
      /\ p.fields = [i \in 1 .. Len(layout.writes) |-> p.fields[i]]
      /\ \A i \in 1 .. Len(layout.writes) : p.fields[i] \in Nat /\ p.fields[i] =< layout.most[i]
      /\ Len(p.items) \in Nat /\ p.items = [j \in 1 .. Len(p.items) |-> p.items[j]]
      /\ \A j \in 1 .. Len(p.items) :
           /\ p.items[j] = [i \in 1 .. 3 |-> p.items[j][i]]
           /\ Fitting(p.items[j], WireWaypoint.writes)
      /\ layout.count = 0 => p.items = <<>>
      /\ layout.count # 0 => p.fields[layout.count] = Count(layout, Len(p.items))

LEMMA ItemAligned == Aligned(WireWaypoint.writes, WireWaypoint.reads, 0, 10)
BY DEF Aligned, WireWaypoint

LEMMA ItemLength == Len(WireWaypoint.writes) = 3 /\ WireWaypoint.size = 10
BY DEF WireWaypoint

LEMMA SampleIs ==
  ASSUME NEW seed \in Nat, NEW i \in Nat, NEW most \in Nat
  PROVE  Sample(seed, i, most) \in Nat /\ Sample(seed, i, most) =< most
<1> DEFINE v == seed * 101 + seed * i * 7
           m == most + 1
<1>1. v \in Int /\ m \in Nat \ {0}
  OBVIOUS
<1>2. Sample(seed, i, most) = IF seed = 1 THEN most ELSE v % m
  BY DEF Sample
<1> HIDE DEF v
<1>3. v % m \in Int /\ 0 =< v % m /\ v % m < m
  <2> HIDE DEF m
  <2> QED BY <1>1, QuotientIs
<1> QED BY <1>2, <1>3

\* The count is a byte, and at most what is written.
LEMMA CountIs ==
  ASSUME NEW layout, NEW n \in Nat
  PROVE  /\ Written(layout, n) \in Nat /\ Written(layout, n) =< n
         /\ n < Base => Written(layout, n) = n
         /\ ~layout.strict /\ n # 0 => Written(layout, n) # 0
         /\ layout.strict => Written(layout, n) = n
         /\ Count(layout, n) \in Nat /\ Count(layout, n) =< Base - 1
         /\ Count(layout, n) =< Written(layout, n)
         /\ n < Base => Count(layout, n) = n
<1>1. Base \in Nat \ {0} /\ Base > 9
  BY PowerIs
<1> DEFINE m == Written(layout, n)
<1>2. /\ m \in Nat /\ m =< n /\ (n < Base => m = n) /\ (layout.strict => m = n)
      /\ ~layout.strict /\ n # 0 => m # 0
  BY <1>1 DEF Written
<1> HIDE DEF m
<1>3. Count(layout, n) = m % Base
  BY DEF Count, m
<1>4. m % Base \in Int /\ 0 =< m % Base /\ m % Base < Base /\ m % Base =< m
      /\ (m < Base => m % Base = m)
  BY <1>1, <1>2
<1> QED BY <1>1, <1>2, <1>3, <1>4 DEF m

LEMMA PacketWellFormed ==
  ASSUME NEW kind \in Kind, NEW seed \in Nat, NEW n \in Nat,
         Layouts[kind].count = 0 => n = 0
  PROVE  WellFormed(PacketOf(kind, seed, n))
<1> DEFINE layout == Layouts[kind]
           p == PacketOf(kind, seed, n)
           fields == [i \in 1 .. Len(layout.writes) |->
                        IF i = layout.count THEN Count(layout, n)
                        ELSE Sample(seed, i, layout.most[i])]
           item(j) == [i \in 1 .. Len(layout.item.writes) |->
                         Sample(seed, i + j, Power[layout.item.writes[i]] - 1)]
           items == [j \in 1 .. n |-> item(j)]
<1>1. p = [kind |-> kind, fields |-> fields, items |-> items]
  BY DEF PacketOf
<1>2. p.kind = kind /\ p.fields = fields /\ p.items = items
  BY <1>1
<1>3. Consistent(kind, layout, FieldsEnd(layout))
  BY LayoutsConsistent
<1>4. Len(items) = n
  OBVIOUS
<1>5. ASSUME NEW i \in 1 .. Len(layout.writes)
      PROVE  fields[i] \in Nat /\ fields[i] =< layout.most[i]
  <2>1. layout.most[i] \in Nat /\ i \in Nat /\ (layout.count = i => layout.most[i] = Base - 1)
    BY <1>3 DEF Consistent, Aligned
  <2>2. Sample(seed, i, layout.most[i]) \in Nat /\ Sample(seed, i, layout.most[i]) =< layout.most[i]
    BY <2>1, SampleIs
  <2>3. Count(layout, n) \in Nat /\ Count(layout, n) =< Base - 1
    BY CountIs
  <2> QED BY <2>1, <2>2, <2>3
<1>6. ASSUME NEW j \in 1 .. n
      PROVE  items[j] = [i \in 1 .. 3 |-> items[j][i]] /\ Fitting(items[j], WireWaypoint.writes)
  <2>1. layout.count # 0
    BY <1>6
  <2>2. layout.item = WireWaypoint
    BY <1>3, <2>1 DEF Consistent
  <2>3. Len(layout.item.writes) = 3 /\ WireWaypoint.writes \in Seq(1 .. 8)
    BY <2>2, ItemLength, ItemAligned DEF Aligned
  <2>4. items[j] = item(j) /\ item(j) = [i \in 1 .. 3 |-> item(j)[i]]
    BY <2>3
  <2>5. ASSUME NEW i \in 1 .. 3
        PROVE  item(j)[i] \in Nat /\ item(j)[i] < Power[WireWaypoint.writes[i]]
    <3> DEFINE w == WireWaypoint.writes
    <3>1. item(j)[i] = Sample(seed, i + j, Power[w[i]] - 1)
      BY <2>2, <2>3
    <3>2. Power[w[i]] - 1 \in Nat /\ Power[w[i]] \in Nat /\ i + j \in Nat
      <4>1. Power[w[i]] \in Nat /\ 9 < Power[w[i]]
        BY <2>3, ItemLength, MostOf
      <4> QED BY <4>1
    <3> DEFINE most == Power[w[i]] - 1
               k == i + j
    <3> HIDE DEF w
    <3>3. Sample(seed, k, most) \in Nat /\ Sample(seed, k, most) =< most
      <4> HIDE DEF most, k
      <4> QED BY <3>2, SampleIs DEF most, k
    <3> HIDE DEF item
    <3> QED BY <3>1, <3>2, <3>3 DEF w
  <2> HIDE DEF item, items
  <2>6. Fitting(items[j], WireWaypoint.writes)
    BY <2>4, <2>5, ItemLength DEF Fitting
  <2> QED BY <2>4, <2>6
<1>7. items = [j \in 1 .. n |-> items[j]]
  OBVIOUS
<1>8. layout.count = 0 => items = <<>>
  <2>1. n = 0 => items = <<>>
    OBVIOUS
  <2> QED BY <2>1
<1>9. layout.count # 0 => fields[layout.count] = Count(layout, n)
  <2>1. layout.count # 0 => layout.count \in 1 .. Len(layout.writes)
    BY <1>3 DEF Consistent
  <2> QED BY <2>1
<1>10. fields = [i \in 1 .. Len(layout.writes) |-> fields[i]]
  OBVIOUS
<1> HIDE DEF p, fields, items
<1> QED BY <1>1, <1>2, <1>4, <1>5, <1>6, <1>7, <1>8, <1>9, <1>10 DEF WellFormed, p

-----------------------------------------------------------------------------
\* A tag, the fields, the items.
LEMMA InARow ==
  ASSUME NEW tag \in Int, NEW f \in Seq(Int), NEW g \in Seq(Int)
  PROVE  LET data == <<tag>> \o f \o g
         IN /\ data \in Seq(Int) /\ Len(data) = 1 + Len(f) + Len(g)
            /\ Len(f) \in Nat /\ Len(g) \in Nat /\ data[1] = tag
            /\ \A k \in 1 .. Len(f) : data[1 + k] = f[k]
            /\ \A k \in 1 .. Len(g) : data[1 + Len(f) + k] = g[k]
<1> DEFINE a == <<tag>> \o f
<1>1. <<tag>> \in Seq(Int) /\ Len(<<tag>>) = 1 /\ <<tag>>[1] = tag
  OBVIOUS
<1>2. /\ a \in Seq(Int) /\ Len(a) = 1 + Len(f) /\ a[1] = tag
      /\ \A k \in 1 .. Len(f) : a[1 + k] = f[k]
  OBVIOUS
<1> HIDE DEF a
<1>3. /\ a \o g \in Seq(Int) /\ Len(a \o g) = Len(a) + Len(g) /\ Len(f) \in Nat /\ Len(g) \in Nat
      /\ \A k \in 1 .. Len(a) : (a \o g)[k] = a[k]
      /\ \A k \in 1 .. Len(g) : (a \o g)[Len(a) + k] = g[k]
  <2>1. Len(f) \in Nat /\ Len(g) \in Nat /\ a \in Seq(Int) /\ g \in Seq(Int)
    BY <1>2
  <2>2. /\ a \o g \in Seq(Int) /\ Len(a \o g) = Len(a) + Len(g)
        /\ \A k \in 1 .. Len(a) : (a \o g)[k] = a[k]
        /\ \A k \in 1 .. Len(g) : (a \o g)[Len(a) + k] = g[k]
    BY <2>1, Appended
  <2> QED BY <2>1, <2>2
<1>4. (a \o g)[1] = tag
  BY <1>2, <1>3
<1>5. \A k \in 1 .. Len(f) : (a \o g)[1 + k] = f[k]
  BY <1>2, <1>3
<1> QED BY <1>2, <1>3, <1>4, <1>5 DEF a

LEMMA PaddedIs ==
  ASSUME NEW data \in Seq(Int), NEW length \in Nat, Len(data) =< length
  PROVE  /\ Padded(data, length) \in Seq(Int) /\ Len(Padded(data, length)) = length
         /\ \A k \in 1 .. Len(data) : Padded(data, length)[k] = data[k]
<1>1. Len(data) \in Nat /\ length - Len(data) \in Nat
  OBVIOUS
<1> DEFINE n == length - Len(data)
<1> HIDE DEF n
<1>2. Zeros(n) \in Seq(Int) /\ Len(Zeros(n)) = n
  BY <1>1 DEF Zeros, n
<1>3. /\ data \o Zeros(n) \in Seq(Int) /\ Len(data \o Zeros(n)) = Len(data) + n
      /\ \A k \in 1 .. Len(data) : (data \o Zeros(n))[k] = data[k]
  BY <1>2, Appended
<1> QED BY <1>1, <1>3 DEF Padded, n

\* The items in a row, ten bytes each.
LEMMA ItemsInARow ==
  ASSUME NEW m \in Nat, NEW items,
         \A j \in 1 .. m : Fitting(items[j], WireWaypoint.writes)
  PROVE  LET g == FlattenSeq([j \in 1 .. m |-> Put(items[j], WireWaypoint.writes)])
         IN /\ g \in Seq(Int) /\ Len(g) = 10 * m
            /\ \A j \in 1 .. m : \A k \in 1 .. 10 :
                 g[(j - 1) * 10 + k] = Put(items[j], WireWaypoint.writes)[k]
<1> DEFINE put(j) == Put(items[j], WireWaypoint.writes)
           s == [j \in 1 .. m |-> put(j)]
           off == [j \in 0 .. m |-> 10 * j]
<1>1. ASSUME NEW j \in 1 .. m PROVE put(j) \in Seq(Int) /\ Len(put(j)) = 10
  <2>1. Fitting(items[j], WireWaypoint.writes)
    OBVIOUS
  <2>2. /\ put(j) \in Seq(Int) /\ Len(put(j)) = 10 - 0
        /\ Lies(put(j), 0 - 0, items[j], WireWaypoint.writes, WireWaypoint.reads)
    BY <2>1, ItemAligned, PutIs
  <2> QED BY <2>2
<1> HIDE DEF put
<1>2. s \in Seq(Seq(Int)) /\ Len(s) = m /\ \A j \in 1 .. m : s[j] = put(j)
  BY <1>1
<1>3. off \in [0 .. m -> Nat] /\ off[0] = 0 /\ off[m] = 10 * m
      /\ \A j \in 1 .. m : off[j] = off[j - 1] + 10 /\ off[j - 1] = (j - 1) * 10
  <2>1. ASSUME NEW j \in 1 .. m PROVE off[j] = off[j - 1] + 10 /\ off[j - 1] = (j - 1) * 10
    <3>1. j \in 0 .. m /\ j - 1 \in 0 .. m
      OBVIOUS
    <3>2. off[j] = 10 * j /\ off[j - 1] = 10 * (j - 1)
      BY <3>1
    <3> QED BY <3>2
  <2> QED BY <2>1
<1> HIDE DEF s, off
<1>4. /\ FlattenSeq(s) \in Seq(Int) /\ Len(FlattenSeq(s)) = off[Len(s)]
      /\ \A i \in 1 .. Len(s) : \A k \in 1 .. Len(s[i]) :
           FlattenSeq(s)[off[i - 1] + k] = s[i][k]
  <2>1. off \in [0 .. Len(s) -> Nat]
    BY <1>2, <1>3
  <2>2. \A j \in 1 .. Len(s) : off[j] = off[j - 1] + Len(s[j])
    BY <1>1, <1>2, <1>3
  <2> QED BY <1>2, <1>3, <2>1, <2>2, FlattenIs
<1>5. ASSUME NEW j \in 1 .. m, NEW k \in 1 .. 10 PROVE FlattenSeq(s)[(j - 1) * 10 + k] = put(j)[k]
  <2>1. j \in 1 .. Len(s) /\ k \in 1 .. Len(s[j]) /\ s[j] = put(j) /\ off[j - 1] = (j - 1) * 10
    BY <1>1, <1>2, <1>3
  <2> QED BY <1>4, <2>1
<1>6. Len(FlattenSeq(s)) = 10 * m
  BY <1>2, <1>3, <1>4
<1> QED BY <1>4, <1>5, <1>6 DEF s, put

\* What a packet's bytes hold, and where.
Carries(data, p) ==
  LET layout == Layouts[p.kind]
      m == Written(layout, Len(p.items))
      head == FieldsEnd(layout)
  IN  /\ data \in Seq(Int) /\ Len(data) \in Nat /\ head =< Len(data) /\ data[1] = layout.tag
      /\ Lies(data, 0, p.fields, layout.writes, layout.reads)
      /\ layout.count = 0 => layout.least =< Len(data)
      /\ layout.count # 0 =>
           /\ Len(data) = head + 10 * m
           /\ \A j \in 1 .. m : Lies(data, head + (j - 1) * 10, p.items[j],
                                      WireWaypoint.writes, WireWaypoint.reads)

LEMMA FieldsEndIs ==
  ASSUME NEW kind \in Kind
  PROVE  FieldsEnd(Layouts[kind]) \in Nat \ {0}
<1> DEFINE layout == Layouts[kind]
           w == layout.writes
           r == layout.reads
           n == Len(w)
<1>1. Aligned(w, r, 1, FieldsEnd(layout))
  BY LayoutsConsistent DEF Consistent
<1>2. FieldsEnd(layout) = r[n][1] + w[n]
  BY DEF FieldsEnd
<1> HIDE DEF w, r, layout
<1>3. n \in 1 .. n /\ w \in Seq(1 .. 8)
  BY <1>1 DEF Aligned
<1>4. w[n] \in Nat
  BY <1>3, WidthIs
<1>5. r[n][1] \in Nat /\ 1 =< r[n][1]
  BY <1>1, <1>3 DEF Aligned
<1>6. FieldsEnd(layout) \in Nat \ {0}
  BY <1>2, <1>4, <1>5
<1> QED BY <1>6 DEF layout

LEMMA FieldsFit ==
  ASSUME NEW p, WellFormed(p)
  PROVE  Fitting(p.fields, Layouts[p.kind].writes)
<1> DEFINE layout == Layouts[p.kind]
<1>1. \A i \in 1 .. Len(layout.writes) :
        /\ p.fields[i] \in Nat /\ p.fields[i] =< layout.most[i]
        /\ layout.most[i] \in Nat /\ layout.most[i] < Power[layout.writes[i]]
        /\ Power[layout.writes[i]] \in Nat
  BY LayoutsConsistent, MostOf DEF WellFormed, Consistent, Aligned
<1> HIDE DEF layout
<1>2. Fitting(p.fields, layout.writes)
  BY <1>1 DEF Fitting
<1> QED BY <1>2 DEF layout

LEMMA BytesHold ==
  ASSUME NEW p, WellFormed(p)
  PROVE  Carries(ToBytes(p), p)
<1> DEFINE layout == Layouts[p.kind]
           n == Len(p.items)
           m == Written(layout, n)
           head == FieldsEnd(layout)
           f == Put(p.fields, layout.writes)
           items == [i \in 1 .. m |-> Put(p.items[i], layout.item.writes)]
           g == FlattenSeq(items)
           data == <<layout.tag>> \o f \o g
<1>1. Consistent(p.kind, layout, head) /\ p.kind \in Kind
  BY LayoutsConsistent DEF WellFormed
<1>2. n \in Nat /\ m \in Nat /\ m =< n /\ (n = 0 => m = 0)
  BY CountIs DEF WellFormed
<1>3. head \in Nat /\ Aligned(layout.writes, layout.reads, 1, head)
  BY <1>1, FieldsEndIs DEF Consistent
<1>4. p.fields = (IF layout.count = 0 THEN p.fields
                  ELSE [p.fields EXCEPT ![layout.count] = Count(layout, n)])
  BY DEF WellFormed
<1>5. ToBytes(p) = IF Len(data) < layout.pad THEN Padded(data, layout.pad) ELSE data
  BY <1>4 DEF ToBytes
<1>6. Fitting(p.fields, layout.writes)
  BY FieldsFit
<1>7. f \in Seq(Int) /\ Len(f) = head - 1 /\ Lies(f, 0 - 1, p.fields, layout.writes, layout.reads)
  BY <1>3, <1>6, PutIs
<1>8. layout.count = 0 => g = <<>> /\ m = 0
  <2> SUFFICES ASSUME layout.count = 0 PROVE g = <<>> /\ m = 0
    OBVIOUS
  <2>1. n = 0 /\ m = 0
    BY <1>2 DEF WellFormed
  <2>2. items = <<>>
    BY <2>1
  <2> QED BY <2>1, <2>2 DEF FlattenSeq
<1>9. layout.count # 0 =>
        /\ g \in Seq(Int) /\ Len(g) = 10 * m
        /\ \A j \in 1 .. m : \A k \in 1 .. 10 :
             g[(j - 1) * 10 + k] = Put(p.items[j], WireWaypoint.writes)[k]
  <2> SUFFICES ASSUME layout.count # 0
               PROVE  /\ g \in Seq(Int) /\ Len(g) = 10 * m
                      /\ \A j \in 1 .. m : \A k \in 1 .. 10 :
                           g[(j - 1) * 10 + k] = Put(p.items[j], WireWaypoint.writes)[k]
    OBVIOUS
  <2>1. layout.item = WireWaypoint
    BY <1>1 DEF Consistent
  <2>2. \A j \in 1 .. m : Fitting(p.items[j], WireWaypoint.writes)
    <3> SUFFICES ASSUME NEW j \in 1 .. m PROVE Fitting(p.items[j], WireWaypoint.writes)
      OBVIOUS
    <3> HIDE DEF m
    <3>1. j \in 1 .. Len(p.items)
      BY <1>2
    <3> QED BY <3>1 DEF WellFormed
  <2>3. items = [i \in 1 .. m |-> Put(p.items[i], WireWaypoint.writes)]
    BY <2>1
  <2> HIDE DEF items, m
  <2> QED BY <1>2, <2>2, <2>3, ItemsInARow
<1>10. g \in Seq(Int)
  BY <1>8, <1>9
<1>11. layout.tag \in Int
  BY <1>1 DEF Consistent
<1> DEFINE d == ToBytes(p)
<1>12. /\ data \in Seq(Int) /\ Len(data) = 1 + Len(f) + Len(g) /\ Len(g) \in Nat
       /\ data[1] = layout.tag
       /\ \A k \in 1 .. Len(f) : data[1 + k] = f[k]
       /\ \A k \in 1 .. Len(g) : data[1 + Len(f) + k] = g[k]
  <2> DEFINE tag == layout.tag
  <2> HIDE DEF f, g, layout
  <2>1. tag \in Int /\ f \in Seq(Int) /\ g \in Seq(Int)
    BY <1>7, <1>10, <1>11
  <2> HIDE DEF tag
  <2>2. LET row == <<tag>> \o f \o g
        IN /\ row \in Seq(Int) /\ Len(row) = 1 + Len(f) + Len(g)
           /\ Len(f) \in Nat /\ Len(g) \in Nat /\ row[1] = tag
           /\ \A k \in 1 .. Len(f) : row[1 + k] = f[k]
           /\ \A k \in 1 .. Len(g) : row[1 + Len(f) + k] = g[k]
    BY <2>1, InARow, SMTT(20)
  <2> QED BY <2>2, Zenon DEF tag
<1>13. layout.pad \in Nat /\ (layout.count # 0 => layout.pad = 0)
  BY <1>1 DEF Consistent
<1> HIDE DEF data, f, g, items, m, n, head, layout
<1>14. Len(data) \in Nat /\ Len(data) = head + Len(g)
  BY <1>3, <1>7, <1>12
<1>15. /\ d \in Seq(Int) /\ Len(d) \in Nat /\ \A k \in 1 .. Len(data) : d[k] = data[k]
       /\ Len(d) = IF Len(data) < layout.pad THEN layout.pad ELSE Len(data)
  <2>1. CASE Len(data) < layout.pad
    <3>1. Len(data) =< layout.pad
      BY <1>13, <1>14, <2>1
    <3>2. /\ Padded(data, layout.pad) \in Seq(Int) /\ Len(Padded(data, layout.pad)) = layout.pad
          /\ \A k \in 1 .. Len(data) : Padded(data, layout.pad)[k] = data[k]
      BY <1>12, <1>13, <3>1, PaddedIs
    <3> QED BY <1>5, <1>13, <2>1, <3>2
  <2>2. CASE ~(Len(data) < layout.pad)
    BY <1>5, <1>12, <1>14, <2>2
  <2> QED BY <2>1, <2>2
<1> HIDE DEF d
<1>16. head =< Len(d) /\ d[1] = layout.tag /\ head >= 1
  <2>1. head >= 1
    <3>1. Len(f) \in Nat
      BY <1>7
    <3> QED BY <1>3, <1>7, <3>1
  <2>2. Len(data) =< Len(d)
    BY <1>13, <1>14, <1>15
  <2> QED BY <1>3, <1>12, <1>14, <1>15, <2>1, <2>2
<1>17. Lies(d, 0, p.fields, layout.writes, layout.reads)
  <2> SUFFICES ASSUME NEW i \in 1 .. Len(layout.writes), NEW k \in 1 .. layout.writes[i]
               PROVE  d[0 + layout.reads[i][1] + k] = ToLE(p.fields[i], layout.writes[i])[k]
    BY DEF Lies
  <2> DEFINE a == layout.reads[i][1]
             b == layout.writes[i]
  <2>1. f[0 - 1 + a + k] = ToLE(p.fields[i], layout.writes[i])[k]
    BY <1>7 DEF Lies
  <2>2. a \in Nat /\ 1 =< a /\ b \in Nat /\ a + b =< head /\ k \in 1 .. b
    BY <1>3, WidthIs DEF Aligned
  <2> HIDE DEF a, b
  <2>3. /\ 0 - 1 + a + k \in 1 .. Len(f) /\ 1 + (0 - 1 + a + k) = 0 + a + k
        /\ 0 + a + k \in 1 .. Len(data)
    BY <1>3, <1>7, <1>12, <1>14, <2>2
  <2>4. d[0 + a + k] = data[0 + a + k] /\ data[0 + a + k] = f[0 - 1 + a + k]
    BY <1>12, <1>15, <2>3
  <2> QED BY <2>1, <2>4 DEF a
<1>18. layout.count = 0 => layout.least =< Len(d)
  <2>1. layout.count = 0 => Len(data) = head
    BY <1>3, <1>8, <1>14
  <2>2. layout.count = 0 => layout.least =< head \/ layout.least =< layout.pad
    BY <1>1 DEF Consistent
  <2>3. layout.least \in Nat
    BY <1>1 DEF Consistent
  <2> QED BY <1>3, <1>13, <1>15, <2>1, <2>2, <2>3
<1>19. layout.count # 0 => Len(d) = head + 10 * m
  <2> SUFFICES ASSUME layout.count # 0 PROVE Len(d) = head + 10 * m
    OBVIOUS
  <2>1. Len(g) = 10 * m /\ layout.pad = 0
    BY <1>9, <1>13
  <2>2. Len(data) = head + 10 * m /\ ~(Len(data) < layout.pad)
    BY <1>2, <1>3, <1>14, <2>1
  <2> QED BY <1>15, <2>2
<1>20. ASSUME layout.count # 0, NEW j \in 1 .. m
       PROVE  Lies(d, head + (j - 1) * 10, p.items[j], WireWaypoint.writes, WireWaypoint.reads)
  <2> DEFINE w == WireWaypoint.writes
             r == WireWaypoint.reads
             put == Put(p.items[j], w)
  <2>1. j \in 1 .. Len(p.items) /\ m \in Nat
    BY <1>2 DEF n
  <2>2. Fitting(p.items[j], w)
    BY <2>1 DEF WellFormed
  <2>3. Lies(put, 0 - 0, p.items[j], w, r)
    BY <2>2, ItemAligned, PutIs
  <2> HIDE DEF put
  <2> SUFFICES ASSUME NEW i \in 1 .. Len(w), NEW k \in 1 .. w[i]
               PROVE  d[head + (j - 1) * 10 + r[i][1] + k] = ToLE(p.items[j][i], w[i])[k]
    BY DEF Lies
  <2> DEFINE a == r[i][1]
             b == w[i]
             c == (j - 1) * 10
  <2>4. a \in Nat /\ b \in Nat /\ a + b =< 10 /\ k \in 1 .. b
    BY ItemAligned, WidthIs DEF Aligned
  <2>5. put[0 - 0 + a + k] = ToLE(p.items[j][i], w[i])[k]
    BY <2>3 DEF Lies
  <2> HIDE DEF w, r, a, b
  <2>6. a + k \in 1 .. 10 /\ 0 - 0 + a + k = a + k
    BY <2>4
  <2>7. g[c + (a + k)] = put[a + k]
    BY <1>9, <1>20, <2>6 DEF put, w
  <2>8. c \in Nat /\ c + 10 =< 10 * m
    BY <2>1
  <2> HIDE DEF c
  <2>9. c + (a + k) \in 1 .. Len(g) /\ 1 + Len(f) + (c + (a + k)) = head + c + a + k
        /\ head + c + a + k \in 1 .. Len(data)
    <3> DEFINE x == a + k
               lf == Len(f)
               lg == Len(g)
               ld == Len(data)
    <3>1. /\ x \in 1 .. 10 /\ lf = head - 1 /\ lg = 10 * m /\ ld = head + lg
          /\ head \in Nat /\ m \in Nat
      BY <1>3, <1>7, <1>9, <1>14, <1>20, <2>1, <2>6
    <3>2. head + c + a + k = head + c + x
      BY <1>3, <2>4, <2>8
    <3>3. 1 =< head
      BY <1>16
    <3> HIDE DEF x, lf, lg, ld
    <3>4. c + x \in 1 .. lg /\ 1 + lf + (c + x) = head + c + x /\ head + c + x \in 1 .. ld
      BY <2>8, <3>1, <3>3
    <3> QED BY <3>2, <3>4 DEF x, lf, lg, ld
  <2>10. d[head + c + a + k] = data[head + c + a + k] /\ data[head + c + a + k] = g[c + (a + k)]
    BY <1>12, <1>15, <2>9
  <2> QED BY <2>5, <2>6, <2>7, <2>10 DEF a, c
<1> QED BY <1>15, <1>16, <1>17, <1>18, <1>19, <1>20 DEF Carries, d, layout, m, n, head

\* The fields of a packet are read from any data that hold its first bytes.
LEMMA FieldsRead ==
  ASSUME NEW p, WellFormed(p), NEW bytes, Carries(bytes, p), NEW data \in Seq(Int),
         \A k \in 1 .. Len(bytes) : k =< Len(data) => data[k] = bytes[k],
         Layouts[p.kind].least =< Len(data)
  PROVE  Get(data, 0, Layouts[p.kind].reads) = p.fields
<1> DEFINE layout == Layouts[p.kind]
           head == FieldsEnd(layout)
           w == layout.writes
           r == layout.reads
<1>1. Consistent(p.kind, layout, head) /\ p.kind \in Kind
  BY LayoutsConsistent DEF WellFormed
<1>2. Aligned(w, r, 1, head) /\ head \in Nat /\ w \in Seq(1 .. 8)
  BY <1>1, FieldsEndIs DEF Consistent, Aligned
<1>3. head =< Len(data) /\ head =< Len(bytes) /\ Len(data) \in Nat /\ Len(bytes) \in Nat
  BY <1>1, <1>2 DEF Consistent, Carries
<1>4. Fitting(p.fields, w)
  BY FieldsFit
<1>5. Lies(data, 0, p.fields, w, r)
  <2> SUFFICES ASSUME NEW i \in 1 .. Len(w), NEW k \in 1 .. w[i]
               PROVE  data[0 + r[i][1] + k] = ToLE(p.fields[i], w[i])[k]
    BY DEF Lies
  <2> DEFINE a == r[i][1]
             b == w[i]
  <2>1. bytes[0 + a + k] = ToLE(p.fields[i], w[i])[k]
    BY DEF Carries, Lies
  <2>2. a \in Nat /\ 1 =< a /\ b \in Nat /\ a + b =< head /\ k \in 1 .. b
    BY <1>2, WidthIs DEF Aligned
  <2> HIDE DEF a, b, head
  <2>3. 0 + a + k \in 1 .. Len(bytes) /\ 0 + a + k =< Len(data)
    <3> DEFINE x == Len(bytes)
               y == Len(data)
    <3>1. head =< x /\ head =< y /\ x \in Nat /\ y \in Nat /\ head \in Nat
      BY <1>2, <1>3
    <3> HIDE DEF x, y
    <3>2. 0 + a + k \in 1 .. x /\ 0 + a + k =< y
      BY <2>2, <3>1
    <3> QED BY <3>2 DEF x, y
  <2> QED BY <2>1, <2>3 DEF a
<1>6. Get(data, 0, r) = Leading(p.fields, Len(w))
  <2> HIDE DEF w, r, head, layout
  <2> QED BY <1>2, <1>4, <1>5, GetIs
<1> QED BY <1>6 DEF WellFormed, Leading

\* So are its items, as far as the data reach.
LEMMA ItemsRead ==
  ASSUME NEW p, WellFormed(p), NEW bytes, Carries(bytes, p), NEW data \in Seq(Int),
         \A k \in 1 .. Len(bytes) : k =< Len(data) => data[k] = bytes[k],
         Layouts[p.kind].count # 0, FieldsEnd(Layouts[p.kind]) =< Len(data)
  PROVE  LET layout == Layouts[p.kind]
             count == Count(layout, Len(p.items))
         IN \E m \in 0 .. count :
              /\ ItemsIn(layout, data, count) = [j \in 1 .. m |-> p.items[j]]
              /\ Len(bytes) =< Len(data) => m = count
<1> DEFINE layout == Layouts[p.kind]
           head == FieldsEnd(layout)
           n == Len(p.items)
           count == Count(layout, n)
           written == Written(layout, n)
           held == (Len(data) - head) \div 10
           m == IF count < held THEN count ELSE held
           w == WireWaypoint.writes
           r == WireWaypoint.reads
<1>1. Consistent(p.kind, layout, head) /\ p.kind \in Kind
  BY LayoutsConsistent DEF WellFormed
<1>2. head \in Nat /\ Len(data) \in Nat /\ head =< Len(data) /\ Len(bytes) \in Nat
  BY <1>1, FieldsEndIs DEF Carries
<1>3. /\ layout.from = head /\ layout.item.size = 10 /\ layout.item.reads = r
  BY <1>1, ItemLength DEF Consistent
<1>4. /\ n \in Nat /\ count \in Nat /\ written \in Nat /\ count =< written /\ written =< n
      /\ Len(bytes) = head + 10 * written
      /\ \A j \in 1 .. written : Lies(bytes, head + (j - 1) * 10, p.items[j], w, r)
  BY CountIs DEF WellFormed, Carries
<1>5. ItemsIn(layout, data, count) = [j \in 1 .. m |-> Get(data, head + (j - 1) * 10, r)]
  <2>1. ~(Len(data) < head) /\ layout.count # 0
    BY <1>2
  <2> HIDE DEF layout, r, count, head
  <2> QED BY <1>3, <2>1 DEF ItemsIn
<1> HIDE DEF layout, head, count, written, n
<1>6. /\ held \in Nat /\ 10 * held =< Len(data) - head
      /\ Len(bytes) =< Len(data) => count =< held
  BY <1>2, <1>4
<1> HIDE DEF held
<1>7. m \in Nat /\ m =< count /\ m =< held /\ (Len(bytes) =< Len(data) => m = count)
  BY <1>4, <1>6
<1> HIDE DEF m
<1>8. ASSUME NEW j \in 1 .. m PROVE Get(data, head + (j - 1) * 10, r) = p.items[j]
  <2> DEFINE at == head + (j - 1) * 10
             values == p.items[j]
  <2>1. j \in 1 .. written /\ j \in 1 .. n
    BY <1>4, <1>7
  <2>2. at \in Nat /\ at + 10 =< Len(data) /\ at + 10 =< Len(bytes)
    BY <1>2, <1>4, <1>6, <1>7, <2>1
  <2>3. Lies(bytes, at, values, w, r)
    BY <1>4, <2>1
  <2>4. Fitting(values, w) /\ values = [i \in 1 .. 3 |-> values[i]]
    BY <2>1 DEF WellFormed, n
  <2> HIDE DEF at, values, w, r
  <2>5. Aligned(w, r, 0, 10) /\ w \in Seq(1 .. 8) /\ Len(w) = 3
    BY ItemAligned, ItemLength DEF Aligned, w, r
  <2>6. Lies(data, at, values, w, r)
    <3> SUFFICES ASSUME NEW i \in 1 .. Len(w), NEW k \in 1 .. w[i]
                 PROVE  data[at + r[i][1] + k] = ToLE(values[i], w[i])[k]
      BY DEF Lies
    <3> DEFINE a == r[i][1]
               b == w[i]
    <3>1. bytes[at + a + k] = ToLE(values[i], w[i])[k]
      BY <2>3 DEF Lies
    <3>2. a \in Nat /\ b \in Nat /\ a + b =< 10 /\ k \in 1 .. b
      BY <2>5, WidthIs DEF Aligned
    <3> HIDE DEF a, b
    <3>3. at + a + k \in 1 .. Len(bytes) /\ at + a + k =< Len(data)
      <4> DEFINE x == Len(bytes)
                 y == Len(data)
      <4>1. at \in Nat /\ at + 10 =< x /\ at + 10 =< y /\ x \in Nat /\ y \in Nat
        BY <1>2, <2>2
      <4> HIDE DEF x, y
      <4>2. at + a + k \in 1 .. x /\ at + a + k =< y
        BY <3>2, <4>1
      <4> QED BY <4>2 DEF x, y
    <3> QED BY <3>1, <3>3 DEF a
  <2>7. Get(data, at, r) = Leading(values, Len(w))
    <3> DEFINE from == 0
               end == 10
    <3>1. Aligned(w, r, from, end) /\ from \in Nat /\ end \in Nat /\ at \in Int
      BY <2>2, <2>5
    <3> HIDE DEF from, end
    <3> QED BY <2>4, <2>6, <3>1, GetIs, Zenon
  <2> QED BY <2>4, <2>5, <2>7 DEF at, values, Leading
<1>9. ItemsIn(layout, data, count) = [j \in 1 .. m |-> p.items[j]]
  BY <1>5, <1>8
<1> QED BY <1>4, <1>7, <1>9 DEF count, layout, n

-----------------------------------------------------------------------------
\* What is read is what was sent, or its beginning, or nothing.
LEMMA ReadBack ==
  ASSUME NEW p, WellFormed(p), NEW bytes, Carries(bytes, p), NEW data \in Seq(Int),
         \A k \in 1 .. Len(bytes) : k =< Len(data) => data[k] = bytes[k]
  PROVE  LET layout == Layouts[p.kind]
             count == Count(layout, Len(p.items))
             q == FromBytes(p.kind, data)
         IN /\ q = None \/
               \E m \in 0 .. Len(p.items) :
                 /\ q = [p EXCEPT !.items = [j \in 1 .. m |-> p.items[j]]]
                 /\ (layout.strict \/ layout.count = 0) /\ Fits(p) => m = Len(p.items)
            /\ Fits(p) /\ layout.least =< Len(data) /\ Len(bytes) =< Len(data) => q = p
<1> DEFINE layout == Layouts[p.kind]
           head == FieldsEnd(layout)
           n == Len(p.items)
           count == Count(layout, n)
           q == FromBytes(p.kind, data)
<1>1. Consistent(p.kind, layout, head) /\ p.kind \in Kind
  BY LayoutsConsistent DEF WellFormed
<1>2. /\ n \in Nat /\ count \in Nat /\ count =< n /\ (Fits(p) => count = n)
  <2>1. n \in Nat
    BY DEF WellFormed
  <2> QED BY <2>1, CountIs DEF Fits
<1>3. head \in Nat /\ Len(data) \in Nat /\ Len(bytes) \in Nat /\ head =< layout.least
      /\ layout.least \in Nat \ {0} /\ head =< Len(bytes) /\ 1 =< head
  <2>1. head \in Nat /\ 1 =< head
    BY <1>1, FieldsEndIs
  <2> QED BY <1>1, <2>1 DEF Consistent, Carries
<1>4. CASE Len(data) < layout.least
  <2>1. q = None
    BY <1>4 DEF FromBytes
  <2>2. ~(layout.least =< Len(data))
    BY <1>3, <1>4
  <2> QED BY <2>1, <2>2
<1>5. CASE ~(Len(data) < layout.least)
  <2>1. layout.least =< Len(data) /\ 1 =< Len(data) /\ head =< Len(data)
    <3> HIDE DEF head, layout
    <3> QED BY <1>3, <1>5
  <2>2. data[1] = layout.tag
    <3>1. 1 \in 1 .. Len(bytes)
      BY <1>3
    <3> QED BY <2>1, <3>1 DEF Carries
  <2>3. Get(data, 0, layout.reads) = p.fields
    BY <2>1, FieldsRead
  <2> DEFINE c == IF layout.count = 0 THEN 0 ELSE p.fields[layout.count]
             items == ItemsIn(layout, data, c)
  <2>4. q = IF \/ \E i \in DOMAIN p.fields : p.fields[i] > layout.most[i]
               \/ layout.strict /\ Len(items) < c
            THEN None
            ELSE [kind |-> p.kind, fields |-> p.fields, items |-> items]
    BY <1>5, <2>2, <2>3 DEF FromBytes
  <2>5. ~ \E i \in DOMAIN p.fields : p.fields[i] > layout.most[i]
    <3>1. DOMAIN p.fields = 1 .. Len(layout.writes)
      BY DEF WellFormed
    <3>2. \A i \in 1 .. Len(layout.writes) :
            p.fields[i] \in Nat /\ p.fields[i] =< layout.most[i] /\ layout.most[i] \in Nat
      BY <1>1 DEF WellFormed, Consistent
    <3> QED BY <3>1, <3>2
  <2>6. \E m \in 0 .. n : /\ items = [j \in 1 .. m |-> p.items[j]] /\ m =< c
                          /\ Len(bytes) =< Len(data) => m = c
                          /\ layout.count = 0 => m = n
                          /\ Fits(p) => c = n
                          /\ c \in Nat
    <3>1. CASE layout.count = 0
      <4>1. c = 0 /\ items = <<>>
        BY <3>1 DEF ItemsIn
      <4>2. n = 0
        BY <3>1 DEF WellFormed
      <4>3. items = [j \in 1 .. 0 |-> p.items[j]]
        BY <4>1
      <4> HIDE DEF items, c, n
      <4> QED BY <4>1, <4>2, <4>3
    <3>2. CASE layout.count # 0
      <4>1. c = count
        BY <3>2 DEF WellFormed
      <4>2. \E m \in 0 .. count : /\ ItemsIn(layout, data, count) = [j \in 1 .. m |-> p.items[j]]
                                  /\ Len(bytes) =< Len(data) => m = count
        BY <2>1, <3>2, ItemsRead
      <4> HIDE DEF count, c, n, layout
      <4> QED BY <1>2, <3>2, <4>1, <4>2
    <3> QED BY <3>1, <3>2
  <2>7. PICK m \in 0 .. n : /\ items = [j \in 1 .. m |-> p.items[j]] /\ m =< c
                            /\ Len(bytes) =< Len(data) => m = c
                            /\ layout.count = 0 => m = n
                            /\ Fits(p) => c = n
                            /\ c \in Nat
    BY <2>6
  <2>8. Len(items) = m
    BY <1>2, <2>7
  <2>9. p.items = [j \in 1 .. n |-> p.items[j]]
        /\ p = [kind |-> p.kind, fields |-> p.fields, items |-> p.items]
    BY DEF WellFormed
  <2> HIDE DEF items, c, q, layout, n, head, count
  <2>10. [p EXCEPT !.items = items] = [kind |-> p.kind, fields |-> p.fields, items |-> items]
    BY <2>9
  <2>11. m = c => q = [p EXCEPT !.items = items]
    BY <2>4, <2>5, <2>7, <2>8, <2>10
  <2>12. q # None => q = [p EXCEPT !.items = items]
    BY <2>4, <2>10
  <2>13. q # None /\ layout.strict => m = c
    BY <1>2, <2>4, <2>7, <2>8
  <2>14. m = n => [p EXCEPT !.items = items] = p
    BY <2>7, <2>9
  <2>15. q = None \/
         \E k \in 0 .. n : /\ q = [p EXCEPT !.items = [j \in 1 .. k |-> p.items[j]]]
                           /\ (layout.strict \/ layout.count = 0) /\ Fits(p) => k = n
    BY <2>7, <2>12, <2>13
  <2>16. Fits(p) /\ Len(bytes) =< Len(data) => q = p
    BY <2>7, <2>11, <2>14
  <2> QED BY <2>15, <2>16 DEF q, n, layout
<1> QED BY <1>4, <1>5

LEMMA TagsAre ==
  /\ Layouts["INTENT"].tag = 1 /\ Layouts["TASK_CFP"].tag = 2 /\ Layouts["TASK_BID"].tag = 3
  /\ Layouts["EDGE_BLOCKED"].tag = 4 /\ Layouts["TASK_AWARD"].tag = 5
  /\ Layouts["INTENT_BRAKE"].tag = 6 /\ Layouts["PREPARE"].tag = 16
  /\ Layouts["ACK_PROMISE"].tag = 17 /\ Layouts["COMMIT"].tag = 18
  /\ Layouts["ABORT"].tag = 19 /\ Layouts["TELEMETRY"].tag = 16
BY DEF Layouts, Plain, Listed, IntentPayload, TaskCfpPayload, TaskBidPayload,
       EdgeBlockedPayload, TaskAwardPayload, IntentBrakePayload, PreparePayload, AckPromise,
       CommitPayload, AbortPayload, TelemetrySnapshot

\* No decoder but the one with the same tag takes another kind's bytes.
LEMMA OthersRefuse ==
  ASSUME NEW p, WellFormed(p), NEW kind \in Kind \ {p.kind}, FromBytes(kind, ToBytes(p)) # None
  PROVE  {kind, p.kind} = SameTag
<1>1. ToBytes(p)[1] = Layouts[p.kind].tag
  BY BytesHold DEF Carries
<1>2. ToBytes(p)[1] = Layouts[kind].tag
  BY DEF FromBytes
<1>3. p.kind \in Kind
  BY DEF WellFormed
<1> DEFINE k == p.kind
<1>4. k \in Kind /\ kind \in Kind /\ k # kind /\ Layouts[k].tag = Layouts[kind].tag
  BY <1>1, <1>2, <1>3
<1> HIDE DEF k
<1>5. {kind, k} = {"PREPARE", "TELEMETRY"}
  BY <1>4, TagsAre, KindIs
<1> QED BY <1>5 DEF k, SameTag

-----------------------------------------------------------------------------
\* A datagram cut off is its beginning.
LEMMA CutIs ==
  ASSUME NEW data \in Seq(Int), NEW room \in 0 .. Len(data)
  PROVE  /\ SubSeq(data, 1, room) \in Seq(Int) /\ Len(SubSeq(data, 1, room)) = room
         /\ \A k \in 1 .. Len(data) : k =< room => SubSeq(data, 1, room)[k] = data[k]
<1>1. Len(data) \in Nat /\ room \in Nat /\ room =< Len(data)
  OBVIOUS
<1>2. SubSeq(data, 1, room) = [k \in 1 .. room |-> data[k]]
  BY <1>1
<1>3. \A k \in 1 .. room : data[k] \in Int
  BY <1>1
<1> QED BY <1>1, <1>2, <1>3

\* Shards restore the data, up to a multiple of their number.
LEMMA ShardsRestore ==
  ASSUME NEW data \in Seq(Int)
  PROVE  LET restored == FecDecode(FecEncode(data))
         IN /\ restored \in Seq(Int) /\ Len(data) =< Len(restored)
            /\ Len(data) = 15 => Len(restored) = 16
            /\ \A k \in 1 .. Len(data) : restored[k] = data[k]
<1> DEFINE size == ShardSize(data)
           all == Padded(data, 4 * size)
           s == FecEncode(data)
           off == [i \in 0 .. 4 |-> i * size]
<1>1. Len(data) \in Nat
  OBVIOUS
<1>2. size \in Nat /\ Len(data) =< 4 * size /\ (Len(data) = 15 => size = 4)
  <2> DEFINE n == Len(data)
  <2>1. n \in Nat /\ size = (n + 4 - 1) \div 4
    BY <1>1 DEF ShardSize, DataShards
  <2> HIDE DEF n, size
  <2>2. size \in Nat /\ n =< 4 * size /\ (n = 15 => size = 4)
    BY <2>1
  <2> QED BY <2>2 DEF n
<1> HIDE DEF size
<1>3. /\ all \in Seq(Int) /\ Len(all) = 4 * size
      /\ \A k \in 1 .. Len(data) : all[k] = data[k]
  BY <1>2, PaddedIs
<1>4. s = [i \in 1 .. 4 |-> SubSeq(all, (i - 1) * size + 1, i * size)]
  BY DEF FecEncode, DataShards, size
<1> HIDE DEF all, s
<1>5. ASSUME NEW i \in 1 .. 4
      PROVE  /\ s[i] \in Seq(Int) /\ Len(s[i]) = size
             /\ \A k \in 1 .. size : s[i][k] = all[(i - 1) * size + k]
  <2> DEFINE a == (i - 1) * size
             b == i * size
  <2>1. a \in Nat /\ b = a + size /\ b =< Len(all)
    <3>1. i = 1 \/ i = 2 \/ i = 3 \/ i = 4
      OBVIOUS
    <3> QED BY <1>2, <1>3, <3>1
  <2>2. s[i] = SubSeq(all, a + 1, b)
    BY <1>4
  <2> HIDE DEF a, b
  <2>3. SubSeq(all, a + 1, b) = [k \in 1 .. size |-> all[a + k]]
    <3>1. all \in Seq(Int) /\ a \in Nat /\ size \in Nat /\ a + size =< Len(all)
      BY <1>2, <1>3, <2>1
    <3>2. SubSeq(all, a + 1, a + size) = [k \in 1 .. size |-> all[a + k]]
      BY <3>1, PartIs
    <3> QED BY <2>1, <3>2
  <2>4. \A k \in 1 .. size : all[a + k] \in Int
    BY <1>2, <1>3, <2>1
  <2> DEFINE part == [k \in 1 .. size |-> all[a + k]]
  <2>5. part \in Seq(Int) /\ Len(part) = size
    BY <1>2, <2>4
  <2>6. \A k \in 1 .. size : part[k] = all[a + k]
    OBVIOUS
  <2> HIDE DEF part
  <2>7. s[i] = part
    BY <2>2, <2>3 DEF part
  <2> QED BY <2>5, <2>6, <2>7 DEF a
<1>6. /\ off \in [0 .. 4 -> Nat] /\ off[0] = 0 /\ off[4] = 4 * size
      /\ \A i \in 1 .. 4 : off[i] = off[i - 1] + size /\ off[i - 1] = (i - 1) * size
  <2>1. off[0] = 0 /\ off[1] = size /\ off[2] = 2 * size /\ off[3] = 3 * size /\ off[4] = 4 * size
    BY <1>2
  <2>2. off = [i \in 0 .. 4 |-> off[i]]
    OBVIOUS
  <2> HIDE DEF off
  <2>3. \A i \in 0 .. 4 : off[i] \in Nat
    BY <1>2, <2>1
  <2>4. ASSUME NEW i \in 1 .. 4 PROVE off[i] = off[i - 1] + size /\ off[i - 1] = (i - 1) * size
    <3>1. CASE i = 1
      BY <1>2, <2>1, <3>1
    <3>2. CASE i = 2
      BY <1>2, <2>1, <3>2
    <3>3. CASE i = 3
      BY <1>2, <2>1, <3>3
    <3>4. CASE i = 4
      BY <1>2, <2>1, <3>4
    <3> QED BY <3>1, <3>2, <3>3, <3>4
  <2> QED BY <2>1, <2>2, <2>3, <2>4
<1> HIDE DEF off
<1>7. s \in Seq(Seq(Int)) /\ Len(s) = 4
  <2>1. s = [i \in 1 .. 4 |-> s[i]]
    BY <1>4
  <2> QED BY <1>5, <2>1
<1>8. /\ FlattenSeq(s) \in Seq(Int) /\ Len(FlattenSeq(s)) = 4 * size
      /\ \A i \in 1 .. 4 : \A k \in 1 .. size : FlattenSeq(s)[(i - 1) * size + k] = s[i][k]
  <2>1. off \in [0 .. Len(s) -> Nat] /\ \A i \in 1 .. Len(s) : off[i] = off[i - 1] + Len(s[i])
    BY <1>5, <1>6, <1>7
  <2>2. /\ FlattenSeq(s) \in Seq(Int) /\ Len(FlattenSeq(s)) = off[Len(s)]
        /\ \A i \in 1 .. Len(s) : \A k \in 1 .. Len(s[i]) : FlattenSeq(s)[off[i - 1] + k] = s[i][k]
    <3>1. off[0] = 0 /\ off \in [0 .. Len(s) -> Nat] /\ s \in Seq(Seq(Int))
      BY <1>6, <1>7, <2>1
    <3>2. \A i \in 1 .. Len(s) : off[i] = off[i - 1] + Len(s[i])
      BY <2>1
    <3> QED BY <3>1, <3>2, FlattenIs, ZenonT(30)
  <2>3. ASSUME NEW i \in 1 .. 4, NEW k \in 1 .. size
        PROVE  FlattenSeq(s)[(i - 1) * size + k] = s[i][k]
    <3>1. i \in 1 .. Len(s) /\ k \in 1 .. Len(s[i]) /\ off[i - 1] = (i - 1) * size
      BY <1>5, <1>6, <1>7
    <3> QED BY <2>2, <3>1
  <2> QED BY <1>6, <1>7, <2>2, <2>3
<1>9. ASSUME NEW q \in 1 .. Len(data) PROVE FlattenSeq(s)[q] = data[q]
  <2>1. \E i \in 1 .. 4 : \E k \in 1 .. size : q = (i - 1) * size + k
    <3>1. q \in Nat /\ 1 =< q /\ q =< 4 * size
      BY <1>1, <1>2
    <3>2. CASE q =< size
      <4>1. q \in 1 .. size /\ q = (1 - 1) * size + q
        BY <1>2, <3>1, <3>2
      <4> QED BY <4>1
    <3>3. CASE size < q /\ q =< 2 * size
      <4>1. q - size \in 1 .. size /\ q = (2 - 1) * size + (q - size)
        BY <1>2, <3>1, <3>3
      <4> QED BY <4>1
    <3>4. CASE 2 * size < q /\ q =< 3 * size
      <4>1. q - 2 * size \in 1 .. size /\ q = (3 - 1) * size + (q - 2 * size)
        BY <1>2, <3>1, <3>4
      <4> QED BY <4>1
    <3>5. CASE 3 * size < q
      <4>1. q - 3 * size \in 1 .. size /\ q = (4 - 1) * size + (q - 3 * size)
        BY <1>2, <3>1, <3>5
      <4> QED BY <4>1
    <3> QED BY <1>2, <3>1, <3>2, <3>3, <3>4, <3>5
  <2>2. PICK i \in 1 .. 4, k \in 1 .. size : q = (i - 1) * size + k
    BY <2>1
  <2>3. FlattenSeq(s)[q] = s[i][k] /\ s[i][k] = all[q]
    BY <1>5, <1>8, <2>2
  <2> QED BY <1>3, <2>3
<1> QED BY <1>2, <1>8, <1>9 DEF FecDecode, s

-----------------------------------------------------------------------------
\* What arrives is what was sent, its beginning, or nothing.
LEMMA Arrives ==
  ASSUME NEW p, WellFormed(p), NEW data \in Seq(Int),
         \A k \in 1 .. Len(ToBytes(p)) : k =< Len(data) => data[k] = ToBytes(p)[k]
  PROVE  LET q == FromBytes(p.kind, data)
         IN /\ q # None =>
                 /\ q.kind = p.kind /\ q.fields = p.fields /\ IsPrefix(q.items, p.items)
                 /\ p.kind # "PREPARE" /\ Fits(p) => q = p
            /\ Fits(p) /\ Layouts[p.kind].least =< Len(data) /\ Len(ToBytes(p)) =< Len(data)
                 => q = p
<1> DEFINE layout == Layouts[p.kind]
           q == FromBytes(p.kind, data)
           n == Len(p.items)
<1>1. Carries(ToBytes(p), p)
  BY BytesHold
<1>2. /\ q = None \/
           \E m \in 0 .. n :
             /\ q = [p EXCEPT !.items = [j \in 1 .. m |-> p.items[j]]]
             /\ (layout.strict \/ layout.count = 0) /\ Fits(p) => m = n
      /\ Fits(p) /\ layout.least =< Len(data) /\ Len(ToBytes(p)) =< Len(data) => q = p
  BY <1>1, ReadBack
<1>3. p.kind # "PREPARE" => layout.strict \/ layout.count = 0
  BY LayoutsConsistent DEF WellFormed, Consistent
<1>4. /\ p = [kind |-> p.kind, fields |-> p.fields, items |-> p.items]
      /\ n \in Nat /\ p.items = [j \in 1 .. n |-> p.items[j]]
  BY DEF WellFormed
<1> HIDE DEF layout, q, n
<1>5. ASSUME q # None
      PROVE  /\ q.kind = p.kind /\ q.fields = p.fields /\ IsPrefix(q.items, p.items)
             /\ p.kind # "PREPARE" /\ Fits(p) => q = p
  <2>1. PICK m \in 0 .. n :
          /\ q = [p EXCEPT !.items = [j \in 1 .. m |-> p.items[j]]]
          /\ (layout.strict \/ layout.count = 0) /\ Fits(p) => m = n
    BY <1>2, <1>5
  <2> DEFINE items == [j \in 1 .. m |-> p.items[j]]
  <2>2. q = [kind |-> p.kind, fields |-> p.fields, items |-> items]
    <3> HIDE DEF items
    <3> QED BY <1>4, <2>1 DEF items
  <2>3. m = n => items = p.items
    BY <1>4
  <2>4. IsPrefix(items, p.items)
    <3>1. Len(items) = m /\ m =< n /\ m \in Nat
      BY <1>4
    <3>2. SubSeq(items, 1, m) = SubSeq(p.items, 1, m)
      <4>1. \A j \in 1 .. m : items[j] = p.items[j]
        OBVIOUS
      <4> DEFINE T == {p.items[j] : j \in 1 .. n}
                 long == p.items
      <4>2. long = [j \in 1 .. n |-> long[j]] /\ (\A j \in 1 .. n : long[j] \in T) /\ n \in Nat
        BY <1>4
      <4>3. \A j \in 1 .. m : items[j] \in T
        <5> SUFFICES ASSUME NEW j \in 1 .. m PROVE items[j] \in T
          OBVIOUS
        <5>1. j \in 1 .. n /\ items[j] = p.items[j]
          BY <1>4, <3>1
        <5> HIDE DEF items
        <5> QED BY <5>1
      <4>4. items = [j \in 1 .. m |-> items[j]]
        OBVIOUS
      <4> HIDE DEF items, long, T
      <4>5. long \in Seq(T) /\ Len(long) = n
        BY <4>2
      <4>6. items \in Seq(T)
        BY <3>1, <4>3, <4>4
      <4>7. SubSeq(items, 1, m) = [j \in 1 .. m |-> items[j]]
        BY <3>1, <4>6
      <4>8. SubSeq(long, 1, m) = [j \in 1 .. m |-> long[j]]
        BY <3>1, <4>5
      <4> QED BY <4>1, <4>7, <4>8 DEF long
    <3> HIDE DEF items
    <3> QED BY <3>1, <3>2 DEF IsPrefix, n
  <2> HIDE DEF items
  <2>5. q.kind = p.kind /\ q.fields = p.fields /\ q.items = items
    BY <2>2
  <2>6. m = n => q = p
    BY <1>4, <2>2, <2>3
  <2>7. p.kind # "PREPARE" /\ Fits(p) => q = p
    BY <1>3, <2>1, <2>6
  <2> QED BY <2>4, <2>5, <2>7
<1> QED BY <1>2, <1>5 DEF q, layout

-----------------------------------------------------------------------------
(* Along a run.                                                            *)

\* What holds of a packet on its way: it is one that an agent can send, nothing
\* has been made of it before it arrives, and what is made of it is exact.
WireInv ==
  /\ packet = None \/ WellFormed(packet)
  /\ carrier = "none" => received = None
  /\ packet = None => carrier = "none"
  /\ WireExact

\* The bytes of a packet are numbers, and enough of them for its decoder.
LEMMA EnoughBytes ==
  ASSUME NEW p, WellFormed(p)
  PROVE  /\ ToBytes(p) \in Seq(Int) /\ Len(ToBytes(p)) \in Nat
         /\ Layouts[p.kind].least =< Len(ToBytes(p))
            \/ (Bare(p) /\ Len(ToBytes(p)) = 15 /\ Layouts[p.kind].least = 16)
<1> DEFINE layout == Layouts[p.kind]
           head == FieldsEnd(layout)
           n == Len(p.items)
           m == Written(layout, n)
           d == ToBytes(p)
<1>1. Carries(d, p) /\ p.kind \in Kind /\ Consistent(p.kind, layout, head)
  BY BytesHold, LayoutsConsistent DEF WellFormed
<1>2. d \in Seq(Int) /\ Len(d) \in Nat /\ head =< Len(d)
      /\ (layout.count = 0 => layout.least =< Len(d))
      /\ (layout.count # 0 => Len(d) = head + 10 * m)
  BY <1>1 DEF Carries
<1>3. /\ layout.count # 0 =>
           IF layout.strict THEN layout.least =< head ELSE head = 15 /\ layout.least = 16
      /\ layout.least \in Nat /\ head \in Nat
      /\ layout.count # 0 /\ ~layout.strict => p.kind = "PREPARE"
  BY <1>1, FieldsEndIs DEF Consistent
<1>4. n \in Nat /\ m \in Nat /\ (~layout.strict /\ n # 0 => m # 0) /\ m =< n
      /\ p.items = [j \in 1 .. n |-> p.items[j]]
  BY CountIs DEF WellFormed
<1>5. n = 0 => p.items = <<>>
  BY <1>4
<1> DEFINE length == Len(d)
           least == layout.least
<1>6. /\ length \in Nat /\ least \in Nat /\ head \in Nat /\ m \in Nat /\ head =< length
      /\ layout.count = 0 => least =< length
      /\ layout.count # 0 => length = head + 10 * m
      /\ layout.count # 0 /\ layout.strict => least =< head
      /\ layout.count # 0 /\ ~layout.strict => head = 15 /\ least = 16
  BY <1>2, <1>3, <1>4
<1>10. ToBytes(p) \in Seq(Int) /\ Len(ToBytes(p)) \in Nat
  BY <1>2
<1> HIDE DEF layout, head, n, m, d, length, least
<1>7. CASE layout.count = 0 \/ layout.strict
  <2>1. least =< length
    BY <1>6, <1>7
  <2>2. Layouts[p.kind].least =< Len(ToBytes(p))
    BY <2>1 DEF d, layout, least, length
  <2> QED BY <1>10, <2>2, Zenon
<1>8. CASE layout.count # 0 /\ ~layout.strict
  <2>1. CASE n = 0
    <3>1. m = 0
      BY <1>4, <2>1
    <3>2. length = 15 /\ least = 16
      BY <1>6, <1>8, <3>1
    <3>3. Bare(p)
      BY <1>3, <1>5, <1>8, <2>1 DEF Bare
    <3>4. Len(ToBytes(p)) = 15 /\ Layouts[p.kind].least = 16
      BY <3>2 DEF d, layout, length, least
    <3> QED BY <1>10, <3>3, <3>4, Zenon
  <2>2. CASE n # 0
    <3>1. m # 0
      BY <1>4, <1>8, <2>2
    <3>2. least =< length
      BY <1>6, <1>8, <3>1
    <3>3. Layouts[p.kind].least =< Len(ToBytes(p))
      BY <3>2 DEF d, layout, length, least
    <3> QED BY <1>10, <3>3, Zenon
  <2> QED BY <2>1, <2>2
<1> QED BY <1>7, <1>8

\* A packet is a packet, and none is none.
LEMMA SomePacket ==
  ASSUME NEW p, WellFormed(p) PROVE p # None
<1>1. p.kind \in Kind
  BY DEF WellFormed
<1>2. None.kind = "none" /\ "none" \notin Kind
  BY KindIs DEF None
<1> QED BY <1>1, <1>2

LEMMA WireInit == PacketsInit => WireInv
BY DEF PacketsInit, WireInv, WireExact

LEMMA WireEmit == WireInv /\ (\E kind \in Kind : Emit(kind)) => WireInv'
<1> SUFFICES ASSUME WireInv, NEW kind \in Kind, Emit(kind) PROVE WireInv'
  OBVIOUS
<1>1. carrier = "none" /\ received = None /\ carrier' = "none" /\ received' = None
  BY DEF WireInv, Emit
<1>2. PICK seed \in Seeds, n \in IF Layouts[kind].count = 0 THEN {0} ELSE Lengths :
        packet' = PacketOf(kind, seed, n)
  BY DEF Emit
<1>3. seed \in Nat /\ n \in Nat /\ (Layouts[kind].count = 0 => n = 0)
  BY BaseAssumption
<1>4. WellFormed(packet')
  BY <1>2, <1>3, PacketWellFormed
<1>5. \A other \in Kind \ {packet'.kind} :
        FromBytes(other, ToBytes(packet')) # None => {other, packet'.kind} = SameTag
  BY <1>4, OthersRefuse
<1>6. WireExact'
  BY <1>1, <1>5 DEF WireExact
<1> QED BY <1>1, <1>4, <1>6, SomePacket DEF WireInv

LEMMA WireDatagram == WireInv /\ ReceiveDatagram => WireInv'
<1> SUFFICES ASSUME WireInv, ReceiveDatagram PROVE WireInv'
  OBVIOUS
<1> DEFINE bytes == ToBytes(packet)
<1>1. packet # None /\ packet' = packet /\ WellFormed(packet)
  BY DEF WireInv, ReceiveDatagram
<1>2. PICK room \in 0 .. Len(bytes) :
        /\ carrier' = IF room = Len(bytes) THEN "udp" ELSE "cut"
        /\ received' = FromBytes(packet.kind, SubSeq(bytes, 1, room))
  BY DEF ReceiveDatagram
<1> DEFINE data == SubSeq(bytes, 1, room)
<1>3. /\ bytes \in Seq(Int) /\ Len(bytes) \in Nat
      /\ Layouts[packet.kind].least =< Len(bytes)
         \/ (Bare(packet) /\ Len(bytes) = 15 /\ Layouts[packet.kind].least = 16)
  BY <1>1, EnoughBytes
<1>4. /\ data \in Seq(Int) /\ Len(data) = room
      /\ \A k \in 1 .. Len(bytes) : k =< room => data[k] = bytes[k]
  BY <1>3, CutIs
<1> HIDE DEF data
<1>5. /\ received' # None =>
           /\ received'.kind = packet.kind /\ received'.fields = packet.fields
           /\ IsPrefix(received'.items, packet.items)
           /\ packet.kind # "PREPARE" /\ Fits(packet) => received' = packet
      /\ Fits(packet) /\ Layouts[packet.kind].least =< Len(data) /\ Len(bytes) =< Len(data)
           => received' = packet
  <2>1. received' = FromBytes(packet.kind, data)
    BY <1>2 DEF data
  <2>2. \A k \in 1 .. Len(bytes) : k =< Len(data) => data[k] = bytes[k]
    BY <1>4
  <2> QED BY <1>1, <1>4, <2>1, <2>2, Arrives
<1>6. carrier' \in {"udp", "fec"} => Len(data) = Len(bytes)
  BY <1>2, <1>4
<1>7. carrier' # "none" /\ carrier' # "fec"
  BY <1>2
<1> HIDE DEF bytes
<1>8. carrier' \in {"udp", "fec"} /\ Fits(packet) /\ ~(carrier' = "udp" /\ Bare(packet))
        => received' = packet
  BY <1>3, <1>5, <1>6, <1>7
<1>9. WireExact'
  BY <1>1, <1>5, <1>8 DEF WireExact, WireInv, Fits, Bare
<1> QED BY <1>1, <1>7, <1>9 DEF WireInv

LEMMA WireShards == WireInv /\ ReceiveShards => WireInv'
<1> SUFFICES ASSUME WireInv, ReceiveShards PROVE WireInv'
  OBVIOUS
<1> DEFINE bytes == ToBytes(packet)
           data == FecDecode(FecEncode(bytes))
<1>1. packet # None /\ packet' = packet /\ WellFormed(packet)
  BY DEF WireInv, ReceiveShards
<1>2. \/ carrier' = "fec" /\ received' = FromBytes(packet.kind, data)
      \/ carrier' = "cut" /\ received' = None
  BY DEF ReceiveShards
<1>3. /\ bytes \in Seq(Int) /\ Len(bytes) \in Nat
      /\ Layouts[packet.kind].least =< Len(bytes)
         \/ (Bare(packet) /\ Len(bytes) = 15 /\ Layouts[packet.kind].least = 16)
  BY <1>1, EnoughBytes
<1>4. /\ data \in Seq(Int) /\ Len(bytes) =< Len(data) /\ (Len(bytes) = 15 => Len(data) = 16)
      /\ \A k \in 1 .. Len(bytes) : data[k] = bytes[k]
  BY <1>3, ShardsRestore
<1>5. Layouts[packet.kind].least =< Len(data)
  <2>1. Layouts[packet.kind].least \in Nat
    BY <1>1, LayoutsConsistent DEF WellFormed, Consistent
  <2>2. Len(data) \in Nat
    BY <1>4
  <2> DEFINE a == Len(bytes)
             b == Len(data)
             least == Layouts[packet.kind].least
  <2>3. /\ a \in Nat /\ b \in Nat /\ least \in Nat /\ a =< b /\ (a = 15 => b = 16)
        /\ least =< a \/ (a = 15 /\ least = 16)
    BY <1>3, <1>4, <2>1, <2>2
  <2> HIDE DEF a, b, least
  <2>4. least =< b
    BY <2>3
  <2> QED BY <2>4 DEF b, least
<1> HIDE DEF data
<1>6. LET q == FromBytes(packet.kind, data)
      IN /\ q # None =>
              /\ q.kind = packet.kind /\ q.fields = packet.fields
              /\ IsPrefix(q.items, packet.items)
              /\ packet.kind # "PREPARE" /\ Fits(packet) => q = packet
         /\ Fits(packet) /\ Layouts[packet.kind].least =< Len(data) /\ Len(bytes) =< Len(data)
              => q = packet
  <2>1. \A k \in 1 .. Len(bytes) : k =< Len(data) => data[k] = bytes[k]
    BY <1>4
  <2> QED BY <1>1, <1>4, <2>1, Arrives
<1> HIDE DEF bytes
<1>7. WireExact'
  BY <1>1, <1>2, <1>4, <1>5, <1>6 DEF WireExact, WireInv, Fits, Bare
<1> QED BY <1>1, <1>2, <1>7 DEF WireInv

\* Along every run of the wire, what is read is what was written.
THEOREM WireIsExact == PacketsSpec => []WireExact
<1>1. WireInv /\ [PacketsNext]_packetVars => WireInv'
  <2>1. WireInv /\ PacketsNext => WireInv'
    BY WireEmit, WireDatagram, WireShards DEF PacketsNext
  <2>2. WireInv /\ UNCHANGED packetVars => WireInv'
    BY DEF WireInv, WireExact, packetVars, Fits, Bare
  <2> QED BY <2>1, <2>2
<1>2. WireInv => WireExact
  BY DEF WireInv
<1> QED BY <1>1, <1>2, WireInit, PTL DEF PacketsSpec
=============================================================================
