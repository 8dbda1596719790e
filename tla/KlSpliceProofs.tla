--------------------------- MODULE KlSpliceProofs ---------------------------
(***************************************************************************)
(* Proofs about the message list of KlSplice, for seeds, buffers and queues *)
(* of any size.  The cells of the list, its sentinel included, are a       *)
(* sequence without repetition, in which M1, M2, M3 and what is being      *)
(* pushed are segments: each step moves segments or takes cells away.      *)
(* First the loops that the model writes as recursive functions, then the  *)
(* files and their regions, then the list and the steps.                   *)
(***************************************************************************)
EXTENDS KlSplice, SequenceTheorems, FiniteSetTheorems, NaturalsInduction,
        WellFoundedInduction, TLAPS

\* Induction over the natural numbers, for a set instead of a predicate.
LEMMA NatSet ==
  ASSUME NEW T, 0 \in T, \A n \in Nat : n \in T => n + 1 \in T
  PROVE  \A n \in Nat : n \in T
  <1> DEFINE R == OpToRel(<, Nat)
  <1>1. IsWellFoundedOn(R, Nat)
    BY NatLessThanWellFounded
  <1>2. \A x, y : <<x, y>> \in R <=> x \in Nat /\ y \in Nat /\ x < y
    BY DEF OpToRel
  <1> HIDE DEF R
  <1> SUFFICES ASSUME Nat \ T # {} PROVE FALSE
    OBVIOUS
  <1>3. PICK m \in Nat \ T : \A y \in Nat \ T : ~(<<y, m>> \in R)
    BY <1>1, WFMin
  <1>4. m # 0 /\ m - 1 \in Nat /\ m - 1 < m /\ m - 1 + 1 = m
    BY <1>3
  <1>5. <<m - 1, m>> \in R
    BY <1>2, <1>3, <1>4
  <1>6. m - 1 \in T
    BY <1>3, <1>4, <1>5
  <1> QED
    BY <1>3, <1>4, <1>6

\* A loop that stays in a set S, as the function from the turn to the value.
Turns(f, n, start, step) ==
  /\ f = [i \in 0 .. n |-> IF i = 0 THEN start ELSE step[<<f[i - 1], i>>]]

LEMMA Loop ==
  ASSUME NEW S, NEW start \in S, NEW step \in [S \X Nat -> S]
  PROVE  \A n \in Nat : \E f \in [0 .. n -> S] : Turns(f, n, start, step)
  <1> DEFINE T == {n \in Nat : \E f \in [0 .. n -> S] : Turns(f, n, start, step)}
  <1>1. 0 \in T
    <2> DEFINE f == [i \in 0 .. 0 |-> start]
    <2>1. f \in [0 .. 0 -> S]
      OBVIOUS
    <2>2. Turns(f, 0, start, step)
      BY DEF Turns
    <2> QED
      BY <2>1, <2>2
  <1>2. ASSUME NEW n \in Nat, n \in T
        PROVE  n + 1 \in T
    <2>1. PICK f \in [0 .. n -> S] : Turns(f, n, start, step)
      BY <1>2
    <2> DEFINE v == step[<<f[n], n + 1>>]
               g == [i \in 0 .. n + 1 |-> IF i = n + 1 THEN v ELSE f[i]]
    <2>2. v \in S
      <3>1. f[n] \in S
        BY <2>1
      <3> QED
        BY <3>1
    <2>3. g \in [0 .. n + 1 -> S]
      BY <2>1, <2>2
    <2>4. ASSUME NEW i \in 0 .. n + 1
          PROVE  g[i] = IF i = 0 THEN start ELSE step[<<g[i - 1], i>>]
      <3>1. CASE i = n + 1
        <4>1. n \in 0 .. n + 1 /\ n # n + 1 /\ i # 0 /\ i - 1 = n
          BY <3>1
        <4>2. g[n] = f[n]
          BY <4>1
        <4> QED
          BY <3>1, <4>1, <4>2
      <3>2. CASE i # n + 1
        <4>1. i \in 0 .. n /\ g[i] = f[i]
          BY <3>2
        <4>2. f[i] = IF i = 0 THEN start ELSE step[<<f[i - 1], i>>]
          BY <2>1, <4>1 DEF Turns
        <4>3. i # 0 => i - 1 \in 0 .. n + 1 /\ i - 1 # n + 1
          BY <4>1
        <4>4. i # 0 => g[i - 1] = f[i - 1]
          BY <4>3
        <4> QED
          BY <4>1, <4>2, <4>4
      <3> QED
        BY <3>1, <3>2
    <2>5. Turns(g, n + 1, start, step)
      <3> HIDE DEF v
      <3>1. g = [i \in 0 .. n + 1 |-> g[i]]
        OBVIOUS
      <3> HIDE DEF g
      <3>2. g = [i \in 0 .. n + 1 |-> IF i = 0 THEN start ELSE step[<<g[i - 1], i>>]]
        BY <2>4, <3>1
      <3> QED
        BY <3>2 DEF Turns
    <2> HIDE DEF g, v
    <2> QED
      BY <2>3, <2>5
  <1>3. \A n \in Nat : n \in T
    <2> HIDE DEF T
    <2> QED
      BY <1>1, <1>2, NatSet
  <1> QED
    BY <1>3
-----------------------------------------------------------------------------
(* Loops                                                                     *)

\* The sum of the lengths is that of the last turn of its loop.
Sums(f, lens) ==
  /\ f \in [0 .. Len(lens) -> Nat]
  /\ f[0] = 0
  /\ \A i \in 1 .. Len(lens) : f[i] = f[i - 1] + lens[i]

LEMMA BytesIs ==
  ASSUME NEW lens \in Seq(Nat)
  PROVE  \E f : Sums(f, lens) /\ Bytes(lens) = f[Len(lens)]
  <1> DEFINE n == Len(lens)
             step == [x \in Nat \X Nat |-> IF x[2] \in 1 .. n THEN x[1] + lens[x[2]] ELSE 0]
  <1>1. n \in Nat /\ \A i \in 1 .. n : lens[i] \in Nat
    OBVIOUS
  <1>2. step \in [Nat \X Nat -> Nat]
    <2> SUFFICES ASSUME NEW x \in Nat \X Nat
                 PROVE  (IF x[2] \in 1 .. n THEN x[1] + lens[x[2]] ELSE 0) \in Nat
      BY Zenon
    <2>1. x[1] \in Nat
      OBVIOUS
    <2> QED
      BY <1>1, <2>1
  <1>3. \A v \in Nat, i \in 1 .. n : step[<<v, i>>] = v + lens[i]
    <2> SUFFICES ASSUME NEW v \in Nat, NEW i \in 1 .. n
                 PROVE  step[<<v, i>>] = v + lens[i]
      OBVIOUS
    <2>1. <<v, i>> \in Nat \X Nat /\ <<v, i>>[1] = v /\ <<v, i>>[2] = i
      BY <1>1
    <2> QED
      BY <2>1
  <1> HIDE DEF step
  <1>4. PICK f \in [0 .. n -> Nat] : Turns(f, n, 0, step)
    BY <1>1, <1>2, Loop
  <1>5. \A i \in 0 .. n : f[i] = IF i = 0 THEN 0 ELSE f[i - 1] + lens[i]
    <2>1. \A i \in 0 .. n : f[i] = IF i = 0 THEN 0 ELSE step[<<f[i - 1], i>>]
      BY <1>4 DEF Turns
    <2> SUFFICES ASSUME NEW i \in 0 .. n, i # 0
                 PROVE  f[i] = f[i - 1] + lens[i]
      BY <2>1
    <2>2. i \in 1 .. n /\ i - 1 \in 0 .. n
      BY <1>1
    <2>3. f[i - 1] \in Nat
      BY <2>2
    <2> QED
      BY <1>3, <2>1, <2>2, <2>3
  <1>6. f = [i \in 0 .. n |-> IF i = 0 THEN 0 ELSE f[i - 1] + lens[i]]
    <2>1. f = [i \in 0 .. n |-> f[i]]
      OBVIOUS
    <2> QED
      BY <1>5, <2>1
  <1> DEFINE g == CHOOSE f2 : f2 = [i \in 0 .. n |->
                                      IF i = 0 THEN 0 ELSE f2[i - 1] + lens[i]]
  <1>7. g = [i \in 0 .. n |-> IF i = 0 THEN 0 ELSE g[i - 1] + lens[i]]
    BY <1>6, Zenon
  <1>8. Bytes(lens) = g[n]
    BY Zenon DEF Bytes
  <1> HIDE DEF g
  <1>9. \A i \in 0 .. n : g[i] = IF i = 0 THEN 0 ELSE g[i - 1] + lens[i]
    BY <1>7
  <1> DEFINE T == {i \in Nat : i <= n => g[i] \in Nat}
  <1>10. 0 \in T
    BY <1>1, <1>9
  <1>11. ASSUME NEW i \in Nat, i \in T
         PROVE  i + 1 \in T
    <2> SUFFICES ASSUME i + 1 <= n
                 PROVE  g[i + 1] \in Nat
      OBVIOUS
    <2>1. i + 1 \in 0 .. n /\ i + 1 # 0 /\ i + 1 - 1 = i /\ i + 1 \in 1 .. n
      BY <1>1
    <2>2. g[i + 1] = g[i] + lens[i + 1]
      BY <1>9, <2>1
    <2> QED
      BY <1>1, <1>11, <2>1, <2>2
  <1>12. \A i \in Nat : i \in T
    <2> HIDE DEF T
    <2> QED
      BY <1>10, <1>11, NatSet
  <1>13. g \in [0 .. n -> Nat]
    <2>1. \A i \in 0 .. n : g[i] \in Nat
      BY <1>1, <1>12
    <2> DEFINE e(i) == IF i = 0 THEN 0 ELSE g[i - 1] + lens[i]
    <2>2. g = [i \in 0 .. n |-> e(i)] /\ \A i \in 0 .. n : e(i) = g[i]
      BY <1>7, <1>9
    <2> HIDE DEF e
    <2> QED
      BY <2>1, <2>2
  <1>14. g[0] = 0
    BY <1>1, <1>9
  <1>15. \A i \in 1 .. n : g[i] = g[i - 1] + lens[i]
    BY <1>1, <1>9
  <1>16. Sums(g, lens)
    BY <1>13, <1>14, <1>15 DEF Sums
  <1> QED
    BY <1>8, <1>16

\* A file is what the last turn of the loop over the messages made.
Joins(f, msgs, S) ==
  /\ f \in [0 .. Len(msgs) -> Seq(S)]
  /\ f[0] = <<>>
  /\ \A i \in 1 .. Len(msgs) : f[i] = f[i - 1] \o msgs[i]

LEMMA FlattenIs ==
  ASSUME NEW S, NEW msgs \in Seq(Seq(S))
  PROVE  \E f : Joins(f, msgs, S) /\ FlattenSeq(msgs) = f[Len(msgs)]
  <1> DEFINE n == Len(msgs)
             step == [x \in Seq(S) \X Nat |-> IF x[2] \in 1 .. n THEN x[1] \o msgs[x[2]] ELSE <<>>]
  <1>1. n \in Nat /\ \A i \in 1 .. n : msgs[i] \in Seq(S)
    OBVIOUS
  <1>2. step \in [Seq(S) \X Nat -> Seq(S)]
    <2> SUFFICES ASSUME NEW x \in Seq(S) \X Nat
                 PROVE  (IF x[2] \in 1 .. n THEN x[1] \o msgs[x[2]] ELSE <<>>) \in Seq(S)
      BY Zenon
    <2>1. x[1] \in Seq(S)
      OBVIOUS
    <2>2. x[2] \in 1 .. n => x[1] \o msgs[x[2]] \in Seq(S)
      BY <1>1, <2>1, ConcatProperties
    <2> QED
      BY <2>2, EmptySeq
  <1>3. \A v \in Seq(S), i \in 1 .. n : step[<<v, i>>] = v \o msgs[i]
    <2> SUFFICES ASSUME NEW v \in Seq(S), NEW i \in 1 .. n
                 PROVE  step[<<v, i>>] = v \o msgs[i]
      OBVIOUS
    <2>1. <<v, i>> \in Seq(S) \X Nat /\ <<v, i>>[1] = v /\ <<v, i>>[2] = i
      BY <1>1
    <2> QED
      BY <2>1
  <1> HIDE DEF step
  <1>4. PICK f \in [0 .. n -> Seq(S)] : Turns(f, n, <<>>, step)
    BY <1>1, <1>2, EmptySeq, Loop
  <1>5. f[0] = <<>> /\ \A i \in 1 .. n : f[i] = f[i - 1] \o msgs[i]
    <2>1. \A i \in 0 .. n : f[i] = IF i = 0 THEN <<>> ELSE step[<<f[i - 1], i>>]
      BY <1>4 DEF Turns
    <2>2. ASSUME NEW i \in 1 .. n
          PROVE  f[i] = f[i - 1] \o msgs[i]
      <3>1. i \in 0 .. n /\ i # 0 /\ i - 1 \in 0 .. n
        BY <1>1
      <3>2. f[i - 1] \in Seq(S)
        BY <3>1
      <3> QED
        BY <1>3, <2>1, <3>1, <3>2
    <2>3. 0 \in 0 .. n
      BY <1>1
    <2> QED
      BY <2>1, <2>2, <2>3
  <1>6. Joins(f, msgs, S)
    BY <1>4, <1>5 DEF Joins
  <1>7. CASE n = 0
    <2>1. msgs = <<>>
      BY <1>7
    <2>2. FlattenSeq(msgs) = <<>>
      BY <1>7, <2>1 DEF FlattenSeq
    <2> QED
      BY <1>5, <1>6, <1>7, <2>2
  <1>8. CASE n # 0
    <2> DEFINE h == [i \in 1 .. n |-> f[i]]
               g == CHOOSE f2 : f2 = [i \in 1 .. n |->
                                        IF i = 1 THEN msgs[i] ELSE f2[i - 1] \o msgs[i]]
    <2>1. \A i \in 1 .. n : h[i] = IF i = 1 THEN msgs[i] ELSE h[i - 1] \o msgs[i]
      <3> SUFFICES ASSUME NEW i \in 1 .. n
                   PROVE  f[i] = IF i = 1 THEN msgs[i] ELSE h[i - 1] \o msgs[i]
        OBVIOUS
      <3>1. CASE i = 1
        <4>1. f[1] = f[0] \o msgs[1] /\ msgs[1] \in Seq(S)
          <5>1. 1 \in 1 .. n /\ 1 - 1 = 0
            BY <3>1
          <5> QED
            BY <1>1, <1>5, <5>1
        <4>2. <<>> \o msgs[1] = msgs[1]
          BY <4>1
        <4> QED
          BY <1>5, <3>1, <4>1, <4>2
      <3>2. CASE i # 1
        <4>1. i - 1 \in 1 .. n
          BY <1>1, <3>2
        <4> QED
          BY <1>5, <3>2, <4>1
      <3> QED
        BY <3>1, <3>2
    <2>2. h = [i \in 1 .. n |-> IF i = 1 THEN msgs[i] ELSE h[i - 1] \o msgs[i]]
      <3>1. h = [i \in 1 .. n |-> h[i]]
        OBVIOUS
      <3> HIDE DEF h
      <3> QED
        BY <2>1, <3>1
    <2> HIDE DEF h
    <2>3. g = [i \in 1 .. n |-> IF i = 1 THEN msgs[i] ELSE g[i - 1] \o msgs[i]]
      BY <2>2, Zenon
    <2>4. FlattenSeq(msgs) = g[n]
      BY <1>8, Zenon DEF FlattenSeq
    <2> HIDE DEF g
    <2> DEFINE T == {i \in Nat : i + 1 <= n => g[i + 1] = f[i + 1]}
    <2>5. \A i \in 1 .. n : g[i] = IF i = 1 THEN msgs[i] ELSE g[i - 1] \o msgs[i]
      BY <2>3
    <2>6. \A i \in 1 .. n : f[i] = IF i = 1 THEN msgs[i] ELSE f[i - 1] \o msgs[i]
      <3> SUFFICES ASSUME NEW i \in 1 .. n
                   PROVE  f[i] = IF i = 1 THEN msgs[i] ELSE f[i - 1] \o msgs[i]
        OBVIOUS
      <3>1. i - 1 \in 1 .. n \/ i = 1
        BY <1>1
      <3>2. h[i] = f[i] /\ (i # 1 => h[i - 1] = f[i - 1])
        BY <3>1 DEF h
      <3> QED
        BY <2>1, <3>2
    <2>7. 0 \in T
      <3>1. 1 \in 1 .. n /\ 0 + 1 = 1
        BY <1>1, <1>8
      <3> QED
        BY <2>5, <2>6, <3>1
    <2>8. ASSUME NEW i \in Nat, i \in T
          PROVE  i + 1 \in T
      <3> SUFFICES ASSUME i + 1 + 1 <= n
                   PROVE  g[i + 1 + 1] = f[i + 1 + 1]
        OBVIOUS
      <3>1. i + 1 + 1 \in 1 .. n /\ i + 1 + 1 # 1 /\ i + 1 + 1 - 1 = i + 1 /\ i + 1 <= n
        BY <1>1
      <3>2. g[i + 1] = f[i + 1]
        BY <2>8, <3>1
      <3> QED
        BY <2>5, <2>6, <3>1, <3>2
    <2>9. \A i \in Nat : i \in T
      <3> HIDE DEF T
      <3> QED
        BY <2>7, <2>8, NatSet
    <2>10. n - 1 \in Nat /\ n - 1 + 1 = n
      BY <1>1, <1>8
    <2>11. g[n] = f[n]
      <3> DEFINE k == n - 1
      <3>1. k \in T
        BY <2>9, <2>10
      <3>2. k + 1 = n /\ n <= n
        BY <1>1
      <3> HIDE DEF k
      <3>3. k + 1 <= n => g[k + 1] = f[k + 1]
        BY <3>1
      <3> QED
        BY <3>2, <3>3
    <2> QED
      BY <1>6, <2>4, <2>11
  <1> QED
    BY <1>7, <1>8

-----------------------------------------------------------------------------
(* Files and their regions                                                   *)

LEMMA SubSeqFacts ==
  ASSUME NEW S, NEW s \in Seq(S), NEW i \in 1 .. Len(s) + 1, NEW j \in i - 1 .. Len(s)
  PROVE  /\ SubSeq(s, i, j) \in Seq(S)
         /\ Len(SubSeq(s, i, j)) = j - i + 1
         /\ \A k \in 1 .. j - i + 1 : SubSeq(s, i, j)[k] = s[i + k - 1]
  <1>1. Len(s) \in Nat /\ i \in Nat /\ j \in Nat /\ i - 1 <= j
    OBVIOUS
  <1>2. \A k \in i .. j : s[k] \in S
    BY <1>1
  <1>3. SubSeq(s, i, j) \in Seq(S) /\ Len(SubSeq(s, i, j)) = IF i <= j THEN j - i + 1 ELSE 0
    BY <1>1, <1>2, SubSeqProperties
  <1>4. SubSeq(s, i, j) = [k \in 1 .. j - i + 1 |-> s[i + k - 1]]
    BY <1>1
  <1>5. IF i <= j THEN TRUE ELSE j - i + 1 = 0
    BY <1>1
  <1> QED
    BY <1>3, <1>4, <1>5

\* A sequence is known by its length and its elements.
LEMMA SameSeq ==
  ASSUME NEW S, NEW s \in Seq(S), NEW T, NEW t \in Seq(T), Len(s) = Len(t),
         \A i \in 1 .. Len(s) : s[i] = t[i]
  PROVE  s = t
  OBVIOUS

\* One message more.
LEMMA PrefixAppend ==
  ASSUME NEW S, NEW s \in Seq(S), NEW i \in Nat, i < Len(s)
  PROVE  /\ SubSeq(s, 1, i + 1) = Append(SubSeq(s, 1, i), s[i + 1])
         /\ SubSeq(s, 1, i) \in Seq(S) /\ s[i + 1] \in S
  <1>1. Len(s) \in Nat /\ i + 1 \in 1 .. Len(s)
    OBVIOUS
  <1>2. SubSeq(s, 1, i) \in Seq(S) /\ Len(SubSeq(s, 1, i)) = i - 1 + 1
        /\ \A k \in 1 .. i - 1 + 1 : SubSeq(s, 1, i)[k] = s[1 + k - 1]
    <2>1. 1 \in 1 .. Len(s) + 1 /\ i \in 1 - 1 .. Len(s)
      BY <1>1
    <2> QED
      BY <2>1, SubSeqFacts
  <1>3. SubSeq(s, 1, i + 1) \in Seq(S) /\ Len(SubSeq(s, 1, i + 1)) = i + 1 - 1 + 1
        /\ \A k \in 1 .. i + 1 - 1 + 1 : SubSeq(s, 1, i + 1)[k] = s[1 + k - 1]
    <2>1. 1 \in 1 .. Len(s) + 1 /\ i + 1 \in 1 - 1 .. Len(s)
      BY <1>1
    <2> QED
      BY <2>1, SubSeqFacts
  <1>4. s[i + 1] \in S
    BY <1>1
  <1> DEFINE a == SubSeq(s, 1, i)
             b == SubSeq(s, 1, i + 1)
             x == s[i + 1]
  <1>5. a \in Seq(S) /\ Len(a) = i /\ \A k \in 1 .. i : a[k] = s[k]
    BY <1>2
  <1>6. b \in Seq(S) /\ Len(b) = i + 1 /\ \A k \in 1 .. i + 1 : b[k] = s[k]
    BY <1>3
  <1> HIDE DEF a, b
  <1>7. Append(a, x) \in Seq(S) /\ Len(Append(a, x)) = i + 1 /\ Append(a, x)[i + 1] = x
        /\ \A k \in 1 .. i : Append(a, x)[k] = a[k]
    BY <1>4, <1>5, AppendProperties
  <1>8. \A k \in 1 .. i + 1 : b[k] = Append(a, x)[k]
    <2> SUFFICES ASSUME NEW k \in 1 .. i + 1
                 PROVE  b[k] = Append(a, x)[k]
      OBVIOUS
    <2>1. k \in 1 .. i \/ k = i + 1
      OBVIOUS
    <2> QED
      BY <1>5, <1>6, <1>7, <2>1
  <1>9. b = Append(a, x)
    BY <1>6, <1>7, <1>8, SameSeq
  <1> QED
    BY <1>4, <1>5, <1>9 DEF a, b

LEMMA BytesAppend ==
  ASSUME NEW lens \in Seq(Nat), NEW m \in Nat
  PROVE  Bytes(Append(lens, m)) = Bytes(lens) + m
  <1> DEFINE l2 == Append(lens, m)
             n == Len(lens)
  <1>1. n \in Nat /\ l2 \in Seq(Nat) /\ Len(l2) = n + 1 /\ l2[n + 1] = m
        /\ \A i \in 1 .. n : l2[i] = lens[i]
    BY AppendProperties
  <1> HIDE DEF l2
  <1>2. PICK f : Sums(f, lens) /\ Bytes(lens) = f[n]
    BY BytesIs
  <1>3. PICK g : Sums(g, l2) /\ Bytes(l2) = g[n + 1]
    BY <1>1, BytesIs
  <1> DEFINE T == {i \in Nat : i <= n => f[i] = g[i]}
  <1>4. \A i \in 1 .. n : f[i] = f[i - 1] + lens[i]
    BY <1>2 DEF Sums
  <1>5. \A i \in 1 .. n + 1 : g[i] = g[i - 1] + l2[i]
    BY <1>1, <1>3 DEF Sums
  <1>6. 0 \in T
    BY <1>2, <1>3 DEF Sums
  <1>7. ASSUME NEW i \in Nat, i \in T
        PROVE  i + 1 \in T
    <2> SUFFICES ASSUME i + 1 <= n
                 PROVE  f[i + 1] = g[i + 1]
      OBVIOUS
    <2>1. i <= n /\ i + 1 \in 1 .. n /\ i + 1 \in 1 .. n + 1 /\ i + 1 - 1 = i
      BY <1>1
    <2> QED
      BY <1>1, <1>4, <1>5, <1>7, <2>1
  <1>8. \A i \in Nat : i \in T
    <2> HIDE DEF T
    <2> QED
      BY <1>6, <1>7, NatSet
  <1>9. f[n] = g[n]
    BY <1>1, <1>8
  <1>10. n + 1 \in 1 .. n + 1 /\ n + 1 - 1 = n
    BY <1>1
  <1>11. g[n + 1] = g[n] + m
    BY <1>1, <1>5, <1>10
  <1> QED
    BY <1>2, <1>3, <1>9, <1>11 DEF l2

LEMMA FlattenAppend ==
  ASSUME NEW S, NEW msgs \in Seq(Seq(S)), NEW m \in Seq(S)
  PROVE  FlattenSeq(Append(msgs, m)) = FlattenSeq(msgs) \o m
  <1> DEFINE l2 == Append(msgs, m)
             n == Len(msgs)
  <1>1. n \in Nat /\ l2 \in Seq(Seq(S)) /\ Len(l2) = n + 1 /\ l2[n + 1] = m
        /\ \A i \in 1 .. n : l2[i] = msgs[i]
    BY AppendProperties
  <1> HIDE DEF l2
  <1>2. PICK f : Joins(f, msgs, S) /\ FlattenSeq(msgs) = f[n]
    BY FlattenIs
  <1>3. PICK g : Joins(g, l2, S) /\ FlattenSeq(l2) = g[n + 1]
    BY <1>1, FlattenIs
  <1> DEFINE T == {i \in Nat : i <= n => f[i] = g[i]}
  <1>4. \A i \in 1 .. n : f[i] = f[i - 1] \o msgs[i]
    BY <1>2 DEF Joins
  <1>5. \A i \in 1 .. n + 1 : g[i] = g[i - 1] \o l2[i]
    BY <1>1, <1>3 DEF Joins
  <1>6. 0 \in T
    BY <1>2, <1>3 DEF Joins
  <1>7. ASSUME NEW i \in Nat, i \in T
        PROVE  i + 1 \in T
    <2> SUFFICES ASSUME i + 1 <= n
                 PROVE  f[i + 1] = g[i + 1]
      OBVIOUS
    <2>1. i <= n /\ i + 1 \in 1 .. n /\ i + 1 \in 1 .. n + 1 /\ i + 1 - 1 = i
      BY <1>1
    <2>2. f[i + 1] = f[i] \o msgs[i + 1]
      <3> DEFINE k == i + 1
      <3>1. k \in 1 .. n /\ k - 1 = i
        BY <2>1
      <3> HIDE DEF k
      <3>2. f[k] = f[k - 1] \o msgs[k]
        BY <1>4, <3>1, Zenon
      <3> QED
        BY <3>1, <3>2, Zenon DEF k
    <2>3. g[i + 1] = g[i] \o l2[i + 1]
      <3> DEFINE k == i + 1
      <3>1. k \in 1 .. n + 1 /\ k - 1 = i
        BY <2>1
      <3> HIDE DEF k
      <3>2. g[k] = g[k - 1] \o l2[k]
        BY <1>5, <3>1, Zenon
      <3> QED
        BY <3>1, <3>2, Zenon DEF k
    <2>4. f[i] = g[i] /\ l2[i + 1] = msgs[i + 1]
      BY <1>1, <1>7, <2>1
    <2> QED
      BY <2>2, <2>3, <2>4, Zenon
  <1>8. \A i \in Nat : i \in T
    <2> HIDE DEF T
    <2> QED
      BY <1>6, <1>7, NatSet
  <1>9. f[n] = g[n]
    BY <1>1, <1>8
  <1>10. n + 1 \in 1 .. n + 1 /\ n + 1 - 1 = n
    BY <1>1
  <1>11. g[n + 1] = g[n] \o m
    <2> DEFINE k == n + 1
    <2>1. k \in 1 .. n + 1 /\ k - 1 = n /\ l2[k] = m
      BY <1>1, <1>10
    <2> HIDE DEF k
    <2>2. g[k] = g[k - 1] \o l2[k]
      BY <1>5, <2>1, Zenon
    <2> QED
      BY <2>1, <2>2, Zenon DEF k
  <1> QED
    BY <1>2, <1>3, <1>9, <1>11 DEF l2

LEMMA FlattenType ==
  ASSUME NEW S, NEW msgs \in Seq(Seq(S))
  PROVE  /\ FlattenSeq(msgs) \in Seq(S)
         /\ FlattenSeq(<<>>) = <<>>
  <1>1. PICK f : Joins(f, msgs, S) /\ FlattenSeq(msgs) = f[Len(msgs)]
    BY FlattenIs
  <1>2. Len(msgs) \in 0 .. Len(msgs)
    OBVIOUS
  <1>3. FlattenSeq(msgs) \in Seq(S)
    BY <1>1, <1>2 DEF Joins
  <1>4. FlattenSeq(<<>>) = <<>>
    BY DEF FlattenSeq
  <1> QED
    BY <1>3, <1>4

\* The file of two parts is that of the one followed by that of the other.
LEMMA FlattenConcat ==
  ASSUME NEW S, NEW a \in Seq(Seq(S)), NEW b \in Seq(Seq(S))
  PROVE  FlattenSeq(a \o b) = FlattenSeq(a) \o FlattenSeq(b)
  <1> DEFINE T == {i \in Nat : i <= Len(b) =>
                     FlattenSeq(a \o SubSeq(b, 1, i)) = FlattenSeq(a) \o FlattenSeq(SubSeq(b, 1, i))}
  <1>1. Len(b) \in Nat
    OBVIOUS
  <1>2. 0 \in T
    <2>1. SubSeq(b, 1, 0) = <<>> /\ a \o <<>> = a
      OBVIOUS
    <2>2. FlattenSeq(a) \in Seq(S) /\ FlattenSeq(<<>>) = <<>>
      BY FlattenType
    <2>3. FlattenSeq(a) \o <<>> = FlattenSeq(a)
      BY <2>2
    <2> QED
      BY <2>1, <2>2, <2>3
  <1>3. ASSUME NEW i \in Nat, i \in T
        PROVE  i + 1 \in T
    <2> SUFFICES ASSUME i + 1 <= Len(b)
                 PROVE  FlattenSeq(a \o SubSeq(b, 1, i + 1))
                          = FlattenSeq(a) \o FlattenSeq(SubSeq(b, 1, i + 1))
      OBVIOUS
    <2> DEFINE c == SubSeq(b, 1, i)
               m == b[i + 1]
    <2>1. i < Len(b) /\ i <= Len(b)
      BY <1>1
    <2>2. SubSeq(b, 1, i + 1) = Append(c, m) /\ c \in Seq(Seq(S)) /\ m \in Seq(S)
      BY <2>1, PrefixAppend
    <2>3. FlattenSeq(a \o c) = FlattenSeq(a) \o FlattenSeq(c)
      BY <1>3, <2>1
    <2> HIDE DEF c, m
    <2>4. a \o Append(c, m) = Append(a \o c, m) /\ a \o c \in Seq(Seq(S))
      <3>1. Append(c, m) = c \o <<m>> /\ <<m>> \in Seq(Seq(S))
        BY <2>2, AppendIsConcat, SMTT(20)
      <3>2. a \o c \in Seq(Seq(S))
        BY <2>2, ConcatProperties
      <3>3. Append(a \o c, m) = (a \o c) \o <<m>>
        BY <2>2, <3>2, AppendIsConcat
      <3> DEFINE e == <<m>>
                 X == Seq(S)
      <3>4. a \in Seq(X) /\ c \in Seq(X) /\ e \in Seq(X)
        BY <2>2, <3>1
      <3> HIDE DEF e, X
      <3>5. (a \o c) \o e = a \o (c \o e)
        BY <3>4, ConcatAssociative, SMTT(30)
      <3> QED
        BY <3>1, <3>2, <3>3, <3>5, Zenon DEF e
    <2>5. FlattenSeq(Append(a \o c, m)) = FlattenSeq(a \o c) \o m
      BY <2>2, <2>4, FlattenAppend
    <2>6. FlattenSeq(Append(c, m)) = FlattenSeq(c) \o m
      BY <2>2, FlattenAppend
    <2>7. FlattenSeq(a) \in Seq(S) /\ FlattenSeq(c) \in Seq(S)
      BY <2>2, FlattenType
    <2>8. (FlattenSeq(a) \o FlattenSeq(c)) \o m = FlattenSeq(a) \o (FlattenSeq(c) \o m)
      <3> DEFINE x == FlattenSeq(a)
                 y == FlattenSeq(c)
      <3>1. x \in Seq(S) /\ y \in Seq(S) /\ m \in Seq(S)
        BY <2>2, <2>7
      <3> HIDE DEF x, y
      <3>2. (x \o y) \o m = x \o (y \o m)
        BY <3>1, ConcatAssociative, SMTT(30)
      <3> QED
        BY <3>2 DEF x, y
    <2> QED
      BY <2>2, <2>3, <2>4, <2>5, <2>6, <2>8, Zenon
  <1>4. \A i \in Nat : i \in T
    <2> HIDE DEF T
    <2> QED
      BY <1>2, <1>3, NatSet
  <1>5. SubSeq(b, 1, Len(b)) = b
    BY SubSeqFull
  <1>6. FlattenSeq(a \o SubSeq(b, 1, Len(b))) = FlattenSeq(a) \o FlattenSeq(SubSeq(b, 1, Len(b)))
    BY <1>1, <1>4
  <1> QED
    BY <1>5, <1>6, Zenon

LEMMA MessagesOf ==
  ASSUME NEW msgs \in Seq(Message)
  PROVE  /\ msgs \in Seq(Seq(Pieces))
         /\ Len(msgs) \in Nat
         /\ \A i \in 1 .. Len(msgs) : msgs[i] \in Seq(Pieces) /\ Len(msgs[i]) \in Nat \ {0}
         /\ \A i \in 1 .. Len(msgs) : msgs[i] \in Message
  <1>1. Message \subseteq Seq(Pieces) /\ \A m \in Message : Len(m) \in Nat \ {0}
    BY DEF Message
  <1>2. msgs \in Seq(Seq(Pieces))
    BY <1>1, SeqMonotonic
  <1>3. \A i \in 1 .. Len(msgs) : msgs[i] \in Message
    OBVIOUS
  <1> QED
    BY <1>1, <1>2, <1>3

LEMMA LengthsIs ==
  ASSUME NEW msgs \in Seq(Message)
  PROVE  /\ Lengths(msgs) \in Seq(Nat)
         /\ Len(Lengths(msgs)) = Len(msgs)
         /\ DOMAIN Lengths(msgs) = 1 .. Len(msgs)
         /\ \A i \in 1 .. Len(msgs) : Lengths(msgs)[i] = Len(msgs[i])
         /\ \A i \in 1 .. Len(msgs) : Lengths(msgs)[i] \in Nat \ {0}
  <1> DEFINE n == Len(msgs)
             l(i) == Len(msgs[i])
  <1>1. n \in Nat /\ DOMAIN msgs = 1 .. n /\ \A i \in 1 .. n : l(i) \in Nat \ {0}
    BY MessagesOf
  <1>2. Lengths(msgs) = [i \in 1 .. n |-> l(i)]
    BY <1>1 DEF Lengths
  <1>3. [i \in 1 .. n |-> l(i)] \in Seq(Nat)
    <2> HIDE DEF l, n
    <2> QED
      BY <1>1, IsASeq
  <1> HIDE DEF l
  <1>4. \A i \in 1 .. n : Lengths(msgs)[i] = l(i)
    BY <1>2
  <1>5. Len(Lengths(msgs)) = n /\ DOMAIN Lengths(msgs) = 1 .. n
    BY <1>1, <1>2, <1>3
  <1> QED
    BY <1>1, <1>2, <1>3, <1>4, <1>5 DEF l

\* The first i of the regions are those of the first i messages.
LEMMA LengthsPrefix ==
  ASSUME NEW msgs \in Seq(Message), NEW i \in 0 .. Len(msgs)
  PROVE  /\ SubSeq(Lengths(msgs), 1, i) = Lengths(SubSeq(msgs, 1, i))
         /\ SubSeq(msgs, 1, i) \in Seq(Message)
         /\ Len(SubSeq(msgs, 1, i)) = i
  <1> DEFINE a == SubSeq(msgs, 1, i)
             L == Lengths(msgs)
  <1>1. Len(msgs) \in Nat /\ 1 \in 1 .. Len(msgs) + 1 /\ i \in 1 - 1 .. Len(msgs)
    OBVIOUS
  <1>2. a \in Seq(Message) /\ Len(a) = i /\ \A k \in 1 .. i : a[k] = msgs[k]
    <2>1. a \in Seq(Message) /\ Len(a) = i - 1 + 1 /\ \A k \in 1 .. i - 1 + 1 : a[k] = msgs[1 + k - 1]
      BY <1>1, SubSeqFacts
    <2> QED
      BY <2>1
  <1>3. L \in Seq(Nat) /\ Len(L) = Len(msgs) /\ \A k \in 1 .. Len(msgs) : L[k] = Len(msgs[k])
    BY LengthsIs
  <1> HIDE DEF L
  <1>4. SubSeq(L, 1, i) \in Seq(Nat) /\ Len(SubSeq(L, 1, i)) = i
        /\ \A k \in 1 .. i : SubSeq(L, 1, i)[k] = L[k]
    <2>1. i \in 1 - 1 .. Len(L) /\ 1 \in 1 .. Len(L) + 1
      BY <1>1, <1>3
    <2>2. SubSeq(L, 1, i) \in Seq(Nat) /\ Len(SubSeq(L, 1, i)) = i - 1 + 1
          /\ \A k \in 1 .. i - 1 + 1 : SubSeq(L, 1, i)[k] = L[1 + k - 1]
      BY <1>3, <2>1, SubSeqFacts
    <2> QED
      BY <2>2
  <1> HIDE DEF a
  <1>5. Lengths(a) \in Seq(Nat) /\ Len(Lengths(a)) = i /\ \A k \in 1 .. i : Lengths(a)[k] = Len(a[k])
    BY <1>2, LengthsIs
  <1>6. \A k \in 1 .. i : SubSeq(L, 1, i)[k] = Lengths(a)[k]
    <2> SUFFICES ASSUME NEW k \in 1 .. i
                 PROVE  SubSeq(L, 1, i)[k] = Lengths(a)[k]
      OBVIOUS
    <2>1. k \in 1 .. Len(msgs)
      BY <1>1
    <2> QED
      BY <1>2, <1>3, <1>4, <1>5, <2>1
  <1>7. SubSeq(L, 1, i) = Lengths(a)
    BY <1>4, <1>5, <1>6, SeqEqual
  <1> QED
    BY <1>2, <1>7 DEF a, L

LEMMA NoBytes == Bytes(<<>>) = 0
  <1>1. <<>> \in Seq(Nat) /\ Len(<<>>) = 0
    OBVIOUS
  <1>2. PICK f : Sums(f, <<>>) /\ Bytes(<<>>) = f[Len(<<>>)]
    BY <1>1, BytesIs
  <1> QED
    BY <1>1, <1>2 DEF Sums

\* The regions add up to the file.
LEMMA FlattenLen ==
  ASSUME NEW msgs \in Seq(Message)
  PROVE  Len(FlattenSeq(msgs)) = Bytes(Lengths(msgs))
  <1> DEFINE T == {i \in Nat : i <= Len(msgs) =>
                     Len(FlattenSeq(SubSeq(msgs, 1, i))) = Bytes(Lengths(SubSeq(msgs, 1, i)))}
  <1>1. Len(msgs) \in Nat /\ msgs \in Seq(Seq(Pieces))
    BY MessagesOf
  <1>2. 0 \in T
    <2>1. SubSeq(msgs, 1, 0) = <<>>
      BY SubSeqEmpty
    <2>2. FlattenSeq(<<>>) = <<>>
      BY DEF FlattenSeq
    <2>3. Lengths(<<>>) = <<>>
      BY DEF Lengths
    <2>4. Len(<<>>) = 0
      OBVIOUS
    <2>5. Len(FlattenSeq(SubSeq(msgs, 1, 0))) = Bytes(Lengths(SubSeq(msgs, 1, 0)))
      BY <2>1, <2>2, <2>3, <2>4, NoBytes, Zenon
    <2> QED
      BY <2>5
  <1>3. ASSUME NEW i \in Nat, i \in T
        PROVE  i + 1 \in T
    <2> SUFFICES ASSUME i + 1 <= Len(msgs)
                 PROVE  Len(FlattenSeq(SubSeq(msgs, 1, i + 1))) = Bytes(Lengths(SubSeq(msgs, 1, i + 1)))
      OBVIOUS
    <2> DEFINE c == SubSeq(msgs, 1, i)
               m == msgs[i + 1]
               L == Lengths(msgs)
               lc == SubSeq(L, 1, i)
               k == L[i + 1]
    <2>1. i < Len(msgs) /\ i <= Len(msgs) /\ i \in 0 .. Len(msgs) /\ i + 1 \in 0 .. Len(msgs)
          /\ i + 1 \in 1 .. Len(msgs)
      BY <1>1
    <2>2. SubSeq(msgs, 1, i + 1) = Append(c, m) /\ c \in Seq(Seq(Pieces)) /\ m \in Seq(Pieces)
      BY <1>1, <2>1, PrefixAppend
    <2>3. L \in Seq(Nat) /\ Len(L) = Len(msgs) /\ k = Len(m)
      BY <2>1, LengthsIs
    <2>4. lc = Lengths(c)
      BY <2>1, LengthsPrefix
    <2>5. SubSeq(L, 1, i + 1) = Lengths(SubSeq(msgs, 1, i + 1))
      BY <2>1, LengthsPrefix
    <2>6. Len(FlattenSeq(c)) = Bytes(Lengths(c))
      BY <1>3, <2>1
    <2> HIDE DEF c, m, L, k
    <2>7. SubSeq(L, 1, i + 1) = Append(lc, k) /\ lc \in Seq(Nat) /\ k \in Nat
      <3>1. i < Len(L)
        BY <2>1, <2>3
      <3> QED
        BY <2>3, <3>1, PrefixAppend DEF k
    <2> HIDE DEF lc
    <2>8. Bytes(Append(lc, k)) = Bytes(lc) + k
      BY <2>7, BytesAppend
    <2>9. FlattenSeq(Append(c, m)) = FlattenSeq(c) \o m
      BY <2>2, FlattenAppend
    <2>10. FlattenSeq(c) \in Seq(Pieces)
      BY <2>2, FlattenType
    <2> DEFINE x == FlattenSeq(c)
    <2> HIDE DEF x
    <2>11. Len(x \o m) = Len(x) + Len(m)
      BY <2>2, <2>10, ConcatProperties DEF x
    <2> QED
      <3>1. Len(FlattenSeq(Append(c, m))) = Len(x) + Len(m)
        BY <2>9, <2>11 DEF x
      <3>2. Len(x) = Bytes(lc)
        BY <2>4, <2>6 DEF x
      <3>3. Bytes(Lengths(SubSeq(msgs, 1, i + 1))) = Bytes(lc) + Len(m)
        BY <2>3, <2>5, <2>7, <2>8
      <3> QED
        BY <2>2, <3>1, <3>2, <3>3
  <1>4. \A i \in Nat : i \in T
    <2> HIDE DEF T
    <2> QED
      BY <1>2, <1>3, NatSet
  <1>5. SubSeq(msgs, 1, Len(msgs)) = msgs
    BY SubSeqFull
  <1>6. Len(FlattenSeq(SubSeq(msgs, 1, Len(msgs)))) = Bytes(Lengths(SubSeq(msgs, 1, Len(msgs))))
    BY <1>1, <1>4
  <1> QED
    BY <1>5, <1>6, Zenon

\* A piece in the middle of a file.
LEMMA Middle ==
  ASSUME NEW S, NEW a \in Seq(S), NEW b \in Seq(S), NEW c \in Seq(S)
  PROVE  SubSeq((a \o b) \o c, Len(a) + 1, Len(a) + Len(b)) = b
  <1> DEFINE ab == a \o b
             abc == ab \o c
             p == Len(a)
             q == Len(b)
  <1>1. p \in Nat /\ q \in Nat /\ Len(c) \in Nat
    OBVIOUS
  <1>2. ab \in Seq(S) /\ Len(ab) = p + q
        /\ \A i \in 1 .. p + q : ab[i] = IF i <= p THEN a[i] ELSE b[i - p]
    BY ConcatProperties
  <1> HIDE DEF ab
  <1>3. abc \in Seq(S) /\ Len(abc) = p + q + Len(c)
        /\ \A i \in 1 .. p + q + Len(c) : abc[i] = IF i <= p + q THEN ab[i] ELSE c[i - (p + q)]
    <2>1. abc \in Seq(S) /\ Len(abc) = Len(ab) + Len(c)
          /\ \A i \in 1 .. Len(ab) + Len(c) :
               abc[i] = IF i <= Len(ab) THEN ab[i] ELSE c[i - Len(ab)]
      <3>1. ab \in Seq(S)
        BY <1>2
      <3> QED
        BY <3>1, ConcatProperties, Zenon
    <2> HIDE DEF abc
    <2> QED
      BY <1>2, <2>1
  <1> HIDE DEF abc
  <1>4. p + 1 \in 1 .. Len(abc) + 1 /\ p + q \in p + 1 - 1 .. Len(abc)
    BY <1>1, <1>3
  <1> DEFINE s == SubSeq(abc, p + 1, p + q)
  <1>5. s \in Seq(S) /\ Len(s) = p + q - (p + 1) + 1
        /\ \A k \in 1 .. p + q - (p + 1) + 1 : s[k] = abc[p + 1 + k - 1]
    BY <1>3, <1>4, SubSeqFacts
  <1> HIDE DEF s
  <1>6. Len(s) = q
    BY <1>1, <1>5
  <1>7. \A k \in 1 .. q : s[k] = b[k]
    <2> SUFFICES ASSUME NEW k \in 1 .. q
                 PROVE  s[k] = b[k]
      OBVIOUS
    <2>1. k \in 1 .. p + q - (p + 1) + 1 /\ p + 1 + k - 1 = p + k
      BY <1>1
    <2>2. s[k] = abc[p + k]
      BY <1>5, <2>1
    <2>3. p + k \in 1 .. p + q /\ p + k \in 1 .. p + q + Len(c) /\ p + k <= p + q /\ ~(p + k <= p)
          /\ p + k - p = k
      BY <1>1
    <2>4. abc[p + k] = ab[p + k]
      BY <1>3, <2>3
    <2>5. ab[p + k] = b[k]
      BY <1>2, <2>3
    <2> QED
      BY <2>2, <2>4, <2>5
  <1>8. s = b
    BY <1>5, <1>6, <1>7, SeqEqual
  <1> QED
    BY <1>8 DEF s, abc, ab

\* Cutting a file by its regions gives back the messages it was made of.
LEMMA CutEntry ==
  ASSUME NEW msgs \in Seq(Message)
  PROVE  Cut(Entry(msgs)) = msgs
  <1> DEFINE n == Len(msgs)
             L == Lengths(msgs)
             F == FlattenSeq(msgs)
             cut(i) == SubSeq(F, Bytes(SubSeq(L, 1, i - 1)) + 1,
                              Bytes(SubSeq(L, 1, i - 1)) + L[i])
  <1>1. n \in Nat /\ msgs \in Seq(Seq(Pieces)) /\ DOMAIN msgs = 1 .. n
        /\ \A i \in 1 .. n : msgs[i] \in Seq(Pieces)
    BY MessagesOf
  <1>2. L \in Seq(Nat) /\ DOMAIN L = 1 .. n /\ \A i \in 1 .. n : L[i] = Len(msgs[i])
    BY LengthsIs
  <1>3. Entry(msgs).lens = L /\ Entry(msgs).file = F
    BY DEF Entry
  <1>4. Cut(Entry(msgs)) = [i \in 1 .. n |-> cut(i)]
    BY <1>2, <1>3, Zenon DEF Cut
  <1>5. ASSUME NEW i \in 1 .. n
        PROVE  cut(i) = msgs[i]
    <2> DEFINE pre == SubSeq(msgs, 1, i - 1)
               upto == SubSeq(msgs, 1, i)
               rest == SubSeq(msgs, i + 1, n)
               a == FlattenSeq(pre)
               b == msgs[i]
               c == FlattenSeq(rest)
    <2>1. i - 1 \in Nat /\ i - 1 \in 0 .. n /\ i - 1 < n /\ i - 1 + 1 = i /\ i \in 0 .. n
      BY <1>1
    <2>2. upto = Append(pre, b) /\ pre \in Seq(Seq(Pieces)) /\ b \in Seq(Pieces)
      <3> DEFINE k == i - 1
      <3>1. k \in Nat /\ k < Len(msgs) /\ k + 1 = i
        BY <2>1
      <3> HIDE DEF k
      <3>2. SubSeq(msgs, 1, k + 1) = Append(SubSeq(msgs, 1, k), msgs[k + 1])
            /\ SubSeq(msgs, 1, k) \in Seq(Seq(Pieces)) /\ msgs[k + 1] \in Seq(Pieces)
        BY <1>1, <3>1, PrefixAppend
      <3> QED
        BY <3>1, <3>2, Zenon DEF k
    <2>3. upto \o rest = msgs /\ upto \in Seq(Seq(Pieces)) /\ rest \in Seq(Seq(Pieces))
      <3>1. 1 \in 1 .. Len(msgs) + 1 /\ i \in 1 - 1 .. Len(msgs) /\ n \in i .. Len(msgs)
            /\ i + 1 \in 1 .. Len(msgs) + 1 /\ n \in i + 1 - 1 .. Len(msgs)
        BY <1>1
      <3>2. upto \o rest = SubSeq(msgs, 1, n)
        BY <1>1, <3>1, ConcatAdjacentSubSeq
      <3>3. SubSeq(msgs, 1, n) = msgs
        BY SubSeqFull
      <3>4. upto \in Seq(Seq(Pieces)) /\ rest \in Seq(Seq(Pieces))
        BY <1>1, <3>1, SubSeqFacts
      <3> QED
        BY <3>2, <3>3, <3>4, Zenon
    <2>4. SubSeq(L, 1, i - 1) = Lengths(pre) /\ pre \in Seq(Message)
      BY <2>1, LengthsPrefix
    <2> HIDE DEF pre, upto, rest
    <2>5. F = FlattenSeq(upto) \o c
      <3>1. FlattenSeq(upto \o rest) = FlattenSeq(upto) \o FlattenSeq(rest)
        BY <2>3, FlattenConcat
      <3> QED
        BY <2>3, <3>1, Zenon
    <2>6. FlattenSeq(Append(pre, b)) = a \o b
      BY <2>2, FlattenAppend
    <2>7. F = (a \o b) \o c
      BY <2>2, <2>5, <2>6, Zenon
    <2>8. Len(a) = Bytes(SubSeq(L, 1, i - 1))
      BY <2>4, FlattenLen
    <2>9. a \in Seq(Pieces) /\ c \in Seq(Pieces)
      BY <2>2, <2>3, FlattenType
    <2> HIDE DEF a, b, c, F
    <2>10. SubSeq((a \o b) \o c, Len(a) + 1, Len(a) + Len(b)) = b
      BY <2>2, <2>9, Middle
    <2>11. L[i] = Len(b)
      BY <1>2 DEF b
    <2>12. cut(i) = b
      BY <2>7, <2>8, <2>10, <2>11, Zenon
    <2> QED
      BY <2>12 DEF b
  <1> HIDE DEF cut
  <1>6. msgs = [i \in 1 .. n |-> msgs[i]]
    BY <1>1
  <1> QED
    BY <1>4, <1>5, <1>6

\* The seeds are finitely many, so that one of them has the most messages.
LEMMA MaxCount == max_seed_region_count \in Nat
  <1> DEFINE lens == {Len(s) : s \in Seeds}
  <1>1. Seeds # {} /\ IsFiniteSet(Seeds) /\ \A s \in Seeds : Len(s) \in Nat
    BY KlAssumption
  <1>1a. PICK n \in Nat : ExistsSurjection(1 .. n, Seeds)
    BY <1>1, FS_NatSurjection
  <1>2. PICK f \in [1 .. n -> Seeds] : \A s \in Seeds : \E i \in 1 .. n : f[i] = s
    BY <1>1a DEF ExistsSurjection, Surjection
  <1> DEFINE T == {k \in Nat : k + 1 <= n =>
                     \E b \in 1 .. k + 1 : \A i \in 1 .. k + 1 : Len(f[i]) <= Len(f[b])}
  <1>3. 0 \in T
    <2> SUFFICES ASSUME 0 + 1 <= n
                 PROVE  \A i \in 1 .. 0 + 1 : Len(f[i]) <= Len(f[1])
      OBVIOUS
    <2>1. f[1] \in Seeds
      OBVIOUS
    <2>2. Len(f[1]) \in Nat
      BY <1>1, <2>1
    <2>3. \A i \in 1 .. 0 + 1 : i = 1
      OBVIOUS
    <2> QED
      BY <2>2, <2>3
  <1>4. ASSUME NEW k \in Nat, k \in T
        PROVE  k + 1 \in T
    <2> SUFFICES ASSUME k + 1 + 1 <= n
                 PROVE  \E b \in 1 .. k + 1 + 1 : \A i \in 1 .. k + 1 + 1 : Len(f[i]) <= Len(f[b])
      OBVIOUS
    <2>1. PICK b \in 1 .. k + 1 : \A i \in 1 .. k + 1 : Len(f[i]) <= Len(f[b])
      BY <1>4
    <2> DEFINE t == k + 1 + 1
    <2>2. t \in 1 .. n /\ b \in 1 .. n /\ b \in 1 .. t
      OBVIOUS
    <2>3. \A i \in 1 .. t : i \in 1 .. n /\ (i \in 1 .. k + 1 \/ i = t)
      OBVIOUS
    <2> HIDE DEF t
    <2>4. \A i \in 1 .. n : Len(f[i]) \in Nat
      BY <1>1
    <2>5. CASE Len(f[t]) <= Len(f[b])
      <3>1. \A i \in 1 .. t : Len(f[i]) <= Len(f[b])
        BY <2>1, <2>3, <2>5
      <3> QED
        BY <2>2, <3>1 DEF t
    <2>6. CASE ~(Len(f[t]) <= Len(f[b]))
      <3>1. Len(f[b]) <= Len(f[t]) /\ Len(f[t]) \in Nat /\ Len(f[b]) \in Nat
        BY <2>2, <2>4, <2>6
      <3>2. ASSUME NEW i \in 1 .. t
            PROVE  Len(f[i]) <= Len(f[t])
        <4>1. CASE i = t
          BY <3>1, <4>1
        <4>2. CASE i # t
          <5>1. Len(f[i]) <= Len(f[b]) /\ Len(f[i]) \in Nat
            BY <2>1, <2>3, <2>4, <4>2
          <5> QED
            BY <3>1, <5>1
        <4> QED
          BY <4>1, <4>2
      <3>3. t \in 1 .. t
        BY <2>2
      <3> QED
        BY <3>2, <3>3 DEF t
    <2> QED
      BY <2>5, <2>6
  <1>5. \A k \in Nat : k \in T
    <2> HIDE DEF T
    <2> QED
      BY <1>3, <1>4, NatSet
  <1>6. n > 0
    BY <1>1, <1>2
  <1>7. PICK b \in 1 .. n : \A i \in 1 .. n : Len(f[i]) <= Len(f[b])
    <2> DEFINE k == n - 1
    <2>1. k \in Nat /\ k + 1 = n /\ n <= n
      BY <1>6
    <2>2. k \in T
      BY <1>5, <2>1
    <2> HIDE DEF k
    <2>3. \E b \in 1 .. k + 1 : \A i \in 1 .. k + 1 : Len(f[i]) <= Len(f[b])
      BY <2>1, <2>2
    <2> QED
      BY <2>1, <2>3
  <1>8. Len(f[b]) \in lens /\ \A s \in Seeds : Len(s) <= Len(f[b])
    BY <1>2, <1>7
  <1>9. max_seed_region_count \in lens
    <2>1. max_seed_region_count = CHOOSE m \in lens : \A s \in Seeds : Len(s) <= m
      BY DEF max_seed_region_count
    <2> HIDE DEF lens
    <2> QED
      BY <1>8, <2>1
  <1> QED
    BY <1>1, <1>9

LEMMA FlattenMessage ==
  ASSUME NEW msgs \in Seq(Message), msgs # <<>>
  PROVE  FlattenSeq(msgs) \in Message
  <1>1. PICK s \in Seq(Message), m \in Message : msgs = Append(s, m)
    BY SequenceEmptyOrAppend
  <1>2. s \in Seq(Seq(Pieces)) /\ m \in Seq(Pieces) /\ m # <<>>
    BY MessagesOf DEF Message
  <1>3. FlattenSeq(msgs) = FlattenSeq(s) \o m
    BY <1>1, <1>2, FlattenAppend
  <1>4. FlattenSeq(s) \in Seq(Pieces)
    BY <1>2, FlattenType
  <1> DEFINE x == FlattenSeq(s)
  <1> HIDE DEF x
  <1>5. x \in Seq(Pieces)
    BY <1>4 DEF x
  <1>6. x \o m \in Seq(Pieces) /\ x \o m # <<>>
    BY <1>2, <1>5, ConcatProperties, ConcatEqualIffEmpty
  <1> QED
    BY <1>3, <1>6 DEF x, Message

\* What is pushed is the mutated buffer, in at most one message more than any seed
\* has.
LEMMA LimitedIs ==
  ASSUME NEW m \in Mutated
  PROVE  /\ m \in Seq(Message) /\ Limited(m) \in Seq(Message)
         /\ Limited(m) # <<>>
         /\ Len(Limited(m)) <= max_seed_region_count + 1
         /\ FlattenSeq(Limited(m)) = FlattenSeq(m)
  <1> DEFINE k == max_seed_region_count
             n == Len(m)
             front == SubSeq(m, 1, k)
             rest == SubSeq(m, k + 1, n)
  <1>1. m \in Seq(Message) /\ m # <<>> /\ n \in Nat /\ k \in Nat
    BY KlAssumption, MaxCount
  <1>2. CASE n <= k
    <2>1. Limited(m) = m
      BY <1>2 DEF Limited
    <2> QED
      BY <1>1, <1>2, <2>1
  <1>3. CASE ~(n <= k)
    <2>1. Limited(m) = Append(front, FlattenSeq(rest))
      BY <1>3 DEF Limited
    <2>2. 1 \in 1 .. n + 1 /\ k \in 1 - 1 .. n /\ n \in k .. n /\ k + 1 \in 1 .. n + 1
          /\ n \in k + 1 - 1 .. n
      BY <1>1, <1>3
    <2> HIDE DEF k, n
    <2>3. front \in Seq(Message) /\ Len(front) = k
      <3>1. front \in Seq(Message) /\ Len(front) = k - 1 + 1
        BY <1>1, <2>2, SubSeqFacts DEF n
      <3> QED
        BY <1>1, <3>1
    <2>4. rest \in Seq(Message) /\ Len(rest) > 0
      <3>1. rest \in Seq(Message) /\ Len(rest) = n - (k + 1) + 1
        BY <1>1, <2>2, SubSeqFacts DEF n
      <3> QED
        BY <1>1, <1>3, <3>1
    <2>5. front \o rest = m
      <3>1. front \o rest = SubSeq(m, 1, n)
        BY <1>1, <2>2, ConcatAdjacentSubSeq DEF n
      <3>2. SubSeq(m, 1, n) = m
        BY <1>1, SubSeqFull DEF n
      <3> QED
        BY <3>1, <3>2, Zenon
    <2> HIDE DEF front, rest
    <2>6. FlattenSeq(rest) \in Message
      <3>1. rest # <<>>
        BY <2>4
      <3> QED
        BY <2>4, <3>1, FlattenMessage
    <2> DEFINE l == FlattenSeq(rest)
    <2> HIDE DEF l
    <2>7. l \in Message /\ l \in Seq(Pieces)
      BY <2>6 DEF l, Message
    <2>8. /\ Append(front, l) \in Seq(Message)
          /\ Append(front, l) # <<>>
          /\ Len(Append(front, l)) = k + 1
      BY <2>3, <2>7, AppendProperties
    <2>9. front \in Seq(Seq(Pieces)) /\ rest \in Seq(Seq(Pieces))
      BY <2>3, <2>4, MessagesOf
    <2>10. FlattenSeq(Append(front, l)) = FlattenSeq(front) \o l
      BY <2>7, <2>9, FlattenAppend
    <2>11. FlattenSeq(front \o rest) = FlattenSeq(front) \o FlattenSeq(rest)
      BY <2>9, FlattenConcat
    <2>12. FlattenSeq(Append(front, l)) = FlattenSeq(m)
      BY <2>5, <2>10, <2>11, Zenon DEF l
    <2>13. Limited(m) = Append(front, l)
      BY <2>1 DEF l
    <2>14. Len(Append(front, l)) <= k + 1
      BY <1>1, <2>8
    <2> QED
      BY <1>1, <2>8, <2>12, <2>13, <2>14, Zenon DEF k
  <1> QED
    BY <1>2, <1>3

\* An entry made of messages is one that can be cut, and has its type.
LEMMA EntryOf ==
  ASSUME NEW msgs \in Seq(Message)
  PROVE  /\ Entry(msgs) \in [file : Seq(Pieces), lens : Seq(Nat)]
         /\ Cut(Entry(msgs)) \in Seq(Message)
         /\ Entry(msgs) = Entry(Cut(Entry(msgs)))
  <1>1. Cut(Entry(msgs)) = msgs
    BY CutEntry
  <1>2. FlattenSeq(msgs) \in Seq(Pieces)
    BY MessagesOf, FlattenType
  <1>3. Lengths(msgs) \in Seq(Nat)
    BY LengthsIs
  <1>4. Entry(msgs) \in [file : Seq(Pieces), lens : Seq(Nat)]
    BY <1>2, <1>3 DEF Entry
  <1> QED
    BY <1>1, <1>4

-----------------------------------------------------------------------------
(* The list of cells                                                         *)

\* The way from a to b goes through the cells of list.
Follows(list, a, b) ==
  /\ list \in Seq(Cell) /\ Len(list) <= NCells
  /\ b \in Cell \cup {NULL}
  /\ a = IF Len(list) = 0 THEN b ELSE list[1]
  /\ \A i \in 1 .. Len(list) :
       list[i] # b /\ next[list[i]] = IF i = Len(list) THEN b ELSE list[i + 1]

LEMMA PathIs ==
  ASSUME next \in [Cell -> Cell \cup {NULL}], NEW list, NEW a, NEW b, Follows(list, a, b)
  PROVE  Path(a, b) = list
  <1> DEFINE C == Cell \cup {NULL}
             n == Len(list)
             step == [c \in C |-> IF c \in {b, NULL} THEN c ELSE next[c]]
             turn == [x \in C \X Nat |-> step[x[1]]]
             place(i) == IF i < n THEN list[i + 1] ELSE b
  <1>1. /\ n \in Nat /\ n <= NCells /\ NCells \in Nat
        /\ \A i \in 1 .. n : list[i] \in Cell /\ list[i] # NULL
    BY KlAssumption DEF Follows, Cell, NULL
  <1>2. /\ b \in C /\ a \in C
    BY <1>1 DEF Follows
  <1>3. step \in [C -> C]
    <2>1. \A c \in C : c \notin {b, NULL} => next[c] \in C
      OBVIOUS
    <2> QED
      BY <2>1
  <1>4. turn \in [C \X Nat -> C]
    <2> HIDE DEF step
    <2> SUFFICES ASSUME NEW x \in C \X Nat
                 PROVE  step[x[1]] \in C
      BY Zenon
    <2>1. x[1] \in C
      OBVIOUS
    <2> QED
      BY <1>3, <2>1
  <1>5. \A c \in C, i \in Nat : turn[<<c, i>>] = step[c]
    OBVIOUS
  <1>6. \A i \in Nat : step[place(i)] = place(i + 1)
    <2> SUFFICES ASSUME NEW i \in Nat
                 PROVE  step[place(i)] = place(i + 1)
      OBVIOUS
    <2>1. CASE i < n
      <3>1. i + 1 \in 1 .. n /\ (i + 1 = n <=> ~(i + 1 < n))
        BY <1>1, <2>1
      <3>2. list[i + 1] # b /\ list[i + 1] # NULL /\ list[i + 1] \in C
            /\ next[list[i + 1]] = IF i + 1 = n THEN b ELSE list[i + 1 + 1]
        BY <1>1, <3>1 DEF Follows
      <3> QED
        BY <2>1, <3>1, <3>2
    <2>2. CASE ~(i < n)
      <3>1. ~(i + 1 < n)
        BY <1>1, <2>2
      <3> QED
        BY <1>2, <2>2, <3>1
    <2> QED
      BY <2>1, <2>2
  <1> HIDE DEF turn
  <1>7. PICK f \in [0 .. NCells -> C] : Turns(f, NCells, a, turn)
    BY <1>1, <1>2, <1>4, Loop
  <1>8. f = [i \in 0 .. NCells |-> IF i = 0 THEN a ELSE step[f[i - 1]]]
    <2>1. \A i \in 0 .. NCells : f[i] = IF i = 0 THEN a ELSE turn[<<f[i - 1], i>>]
      BY <1>7 DEF Turns
    <2> HIDE DEF step
    <2>2. \A i \in 0 .. NCells : f[i] = IF i = 0 THEN a ELSE step[f[i - 1]]
      <3> SUFFICES ASSUME NEW i \in 0 .. NCells, i # 0
                   PROVE  f[i] = step[f[i - 1]]
        BY <2>1
      <3>1. i - 1 \in 0 .. NCells /\ i \in Nat
        BY <1>1
      <3>2. f[i - 1] \in C
        BY <3>1
      <3> QED
        BY <1>5, <2>1, <3>1, <3>2
    <2>3. f = [i \in 0 .. NCells |-> f[i]]
      OBVIOUS
    <2> QED
      BY <2>2, <2>3
  <1> DEFINE at == CHOOSE g : g = [i \in 0 .. NCells |-> IF i = 0 THEN a ELSE step[g[i - 1]]]
             passed == {i \in 0 .. NCells : at[i] \notin {b, NULL}}
  <1>9. at = [i \in 0 .. NCells |-> IF i = 0 THEN a ELSE step[at[i - 1]]]
    <2> HIDE DEF step
    <2> QED
      BY <1>8, Zenon
  <1>10. Path(a, b) = [i \in 1 .. Cardinality(passed) |-> at[i - 1]]
    BY Zenon DEF Path
  <1> HIDE DEF at, step
  <1> DEFINE T == {i \in Nat : i <= NCells => at[i] = place(i)}
  <1>11. \A i \in 0 .. NCells : at[i] = IF i = 0 THEN a ELSE step[at[i - 1]]
    BY <1>9
  <1>12. 0 \in T
    <2>1. at[0] = a
      BY <1>1, <1>11
    <2>2. a = place(0)
      BY <1>1 DEF Follows
    <2> QED
      BY <2>1, <2>2
  <1>13. ASSUME NEW i \in Nat, i \in T
         PROVE  i + 1 \in T
    <2> HIDE DEF place
    <2> SUFFICES ASSUME i + 1 <= NCells
                 PROVE  at[i + 1] = place(i + 1)
      OBVIOUS
    <2>1. i <= NCells /\ i + 1 \in 0 .. NCells /\ i + 1 # 0 /\ i + 1 - 1 = i
      BY <1>1
    <2>2. at[i + 1] = step[at[i]]
      BY <1>11, <2>1
    <2> QED
      BY <1>6, <1>13, <2>1, <2>2
  <1>14. \A i \in Nat : i \in T
    <2> HIDE DEF T
    <2> QED
      BY <1>12, <1>13, NatSet
  <1>15. \A i \in 0 .. NCells : at[i] = IF i < n THEN list[i + 1] ELSE b
    BY <1>1, <1>14
  <1>16. passed = 0 .. n - 1
    <2>1. ASSUME NEW i \in 0 .. NCells
          PROVE  at[i] \notin {b, NULL} <=> i < n
      <3>1. i < n => i + 1 \in 1 .. n
        BY <1>1
      <3> QED
        BY <1>1, <1>15, <3>1 DEF Follows
    <2>2. \A i \in 0 .. NCells : i < n <=> i \in 0 .. n - 1
      BY <1>1
    <2>3. 0 .. n - 1 \subseteq 0 .. NCells
      BY <1>1
    <2> QED
      BY <2>1, <2>2, <2>3
  <1>17. Cardinality(passed) = n
    <2>1. 0 \in Int /\ n - 1 \in Int
      BY <1>1
    <2>2. Cardinality(0 .. n - 1) = IF 0 > n - 1 THEN 0 ELSE n - 1 - 0 + 1
      BY <2>1, FS_Interval
    <2>3. (IF 0 > n - 1 THEN 0 ELSE n - 1 - 0 + 1) = n
      BY <1>1
    <2> QED
      BY <1>16, <2>2, <2>3
  <1>18. \A i \in 1 .. n : at[i - 1] = list[i]
    <2> SUFFICES ASSUME NEW i \in 1 .. n
                 PROVE  at[i - 1] = list[i]
      OBVIOUS
    <2>1. i - 1 \in 0 .. NCells /\ i - 1 < n /\ i - 1 + 1 = i
      BY <1>1
    <2> QED
      BY <1>15, <2>1
  <1>19. list = [i \in 1 .. n |-> list[i]]
    BY DEF Follows
  <1> QED
    BY <1>10, <1>17, <1>18, <1>19

LEMMA InjectiveSeq ==
  ASSUME NEW S, NEW s \in Seq(S)
  PROVE  IsInjective(s) <=> \A i, j \in 1 .. Len(s) : s[i] = s[j] => i = j
  <1>1. DOMAIN s = 1 .. Len(s)
    OBVIOUS
  <1> QED
    BY <1>1 DEF IsInjective

LEMMA ToSetIs ==
  ASSUME NEW S, NEW s \in Seq(S)
  PROVE  ToSet(s) = {s[i] : i \in 1 .. Len(s)}
  <1>1. DOMAIN s = 1 .. Len(s)
    OBVIOUS
  <1> QED
    BY <1>1 DEF ToSet

LEMMA CellFacts ==
  /\ NCells \in Nat /\ NULL = 0 /\ Cell = 1 .. NCells /\ NULL \notin Cell
  /\ TypeOK => cells \in Nat /\ cells <= NCells /\ 1 .. cells \subseteq Cell
               /\ NULL \notin 1 .. cells
  <1>1. NCells \in Nat
    BY KlAssumption
  <1>2. TypeOK => cells \in 0 .. NCells
    BY DEF TypeOK
  <1> QED
    BY <1>1, <1>2 DEF Cell, NULL

\* What the parts of the invariant say of single cells.
LEMMA ListFacts ==
  ASSUME TypeOK, NEW list, NEW p, NEW q, NEW r, NEW old, Linking(list, p, q, r, old)
  PROVE  /\ list \in Seq(1 .. cells) /\ list \in Seq(Cell)
         /\ Len(list) \in Nat /\ Len(list) > 1 /\ Len(list) <= NCells
         /\ \A i \in 1 .. Len(list) : list[i] \in 1 .. cells /\ list[i] \in Cell /\ list[i] # NULL
         /\ \A i, j \in 1 .. Len(list) : list[i] = list[j] => i = j
         /\ head = list[1] /\ tail = list[Len(list)]
         /\ \A i \in 1 .. Len(list) - 1 : next[list[i]] = list[i + 1] /\ data[list[i]] # <<>>
         /\ p \in Nat /\ q \in Nat /\ r \in Nat /\ p < q /\ q <= r /\ r < Len(list)
         /\ old \in Seq(1 .. cells) /\ Len(old) \in Nat
         /\ old \in Seq(Cell) /\ Len(old) <= NCells
         /\ \A i \in 1 .. Len(old) : old[i] \in 1 .. cells /\ old[i] \in Cell /\ old[i] # NULL
         /\ \A i, j \in 1 .. Len(old) : old[i] = old[j] => i = j
         /\ \A i \in 1 .. Len(list), j \in 1 .. Len(old) : list[i] # old[j]
  <1>1. /\ NCells \in Nat /\ NULL \notin Cell
        /\ cells \in Nat /\ cells <= NCells /\ 1 .. cells \subseteq Cell
    BY CellFacts
  <1>2. list \in Seq(1 .. cells) /\ old \in Seq(1 .. cells) /\ pool \in Seq(1 .. cells)
        /\ IsInjective(list) /\ IsInjective(old)
    BY DEF Linking, Listed, Loose, TypeOK
  <1>3. list \in Seq(Cell) /\ old \in Seq(Cell)
    BY <1>1, <1>2, SeqMonotonic
  <1>4. Len(list) \in Nat /\ Len(old) \in Nat /\ Len(pool) \in Nat
    BY <1>2
  <1>5. Len(list) + Len(old) + Len(pool) = cells
    BY DEF Linking, Counted
  <1>6. Len(list) <= NCells /\ Len(old) <= NCells
    BY <1>1, <1>4, <1>5
  <1>7. /\ \A i \in 1 .. Len(list) : list[i] \in 1 .. cells /\ list[i] \in Cell /\ list[i] # NULL
        /\ \A i \in 1 .. Len(old) : old[i] \in 1 .. cells /\ old[i] \in Cell /\ old[i] # NULL
    <2>1. \A i \in 1 .. Len(list) : list[i] \in 1 .. cells
      BY <1>2, ElementOfSeq
    <2>2. \A i \in 1 .. Len(old) : old[i] \in 1 .. cells
      BY <1>2, ElementOfSeq
    <2> QED
      BY <1>1, <2>1, <2>2
  <1>8. /\ \A i, j \in 1 .. Len(list) : list[i] = list[j] => i = j
        /\ \A i, j \in 1 .. Len(old) : old[i] = old[j] => i = j
    BY <1>2, InjectiveSeq
  <1>9. \A i \in 1 .. Len(list), j \in 1 .. Len(old) : list[i] # old[j]
    <2>1. ToSet(list) = {list[i] : i \in 1 .. Len(list)}
          /\ ToSet(old) = {old[i] : i \in 1 .. Len(old)}
      BY <1>2, ToSetIs
    <2>2. ToSet(list) \cap ToSet(old) = {}
      BY DEF Linking, Counted
    <2> QED
      BY <2>1, <2>2
  <1>10. Len(list) > 1 /\ head = list[1] /\ tail = list[Len(list)]
         /\ \A i \in 1 .. Len(list) - 1 : next[list[i]] = list[i + 1] /\ data[list[i]] # <<>>
    BY DEF Linking, Listed, Last
  <1>11. p \in Nat /\ q \in Nat /\ r \in Nat /\ p < q /\ q <= r /\ r < Len(list)
    BY DEF Linking, Marked
  <1> QED
    BY <1>1, <1>2, <1>3, <1>4, <1>6, <1>7, <1>8, <1>9, <1>10, <1>11

\* From one cell of the list to another lies what is between them.
LEMMA Segment ==
  ASSUME TypeOK, NEW list, NEW p, NEW q, NEW r, NEW old, Linking(list, p, q, r, old),
         NEW i \in Nat, NEW j \in Nat, i <= j, j < Len(list)
  PROVE  Path(list[i + 1], list[j + 1]) = SubSeq(list, i + 1, j)
  <1> DEFINE n == Len(list)
             s == SubSeq(list, i + 1, j)
             m == j - i
  <1>1. /\ list \in Seq(Cell) /\ n \in Nat /\ n <= NCells /\ NCells \in Nat
        /\ \A k, l \in 1 .. n : list[k] = list[l] => k = l
        /\ \A k \in 1 .. n : list[k] \in Cell
        /\ \A k \in 1 .. n - 1 : next[list[k]] = list[k + 1]
    BY ListFacts, CellFacts
  <1> HIDE DEF n
  <1>2. i + 1 \in 1 .. n + 1 /\ j \in i + 1 - 1 .. n /\ m \in Nat /\ j - (i + 1) + 1 = m
        /\ m <= n /\ j < n
    BY <1>1 DEF n
  <1>3. s \in Seq(Cell) /\ Len(s) = m /\ \A k \in 1 .. m : s[k] = list[i + k]
    <2>1. s \in Seq(Cell) /\ Len(s) = j - (i + 1) + 1
          /\ \A k \in 1 .. j - (i + 1) + 1 : s[k] = list[i + 1 + k - 1]
      BY <1>1, <1>2, SubSeqFacts DEF n
    <2> HIDE DEF s
    <2>2. ASSUME NEW k \in 1 .. m
          PROVE  s[k] = list[i + k]
      <3>1. i + 1 + k - 1 = i + k
        OBVIOUS
      <3> QED
        BY <1>2, <2>1, <3>1
    <2> QED
      BY <1>2, <2>1, <2>2
  <1> HIDE DEF s
  <1>4. Follows(s, list[i + 1], list[j + 1])
    <2>1. j + 1 \in 1 .. n /\ list[j + 1] \in Cell
      BY <1>1, <1>2
    <2>2. list[i + 1] = IF Len(s) = 0 THEN list[j + 1] ELSE s[1]
      <3>1. m = 0 => i = j
        BY <1>2
      <3>2. m # 0 => 1 \in 1 .. m
        BY <1>2
      <3> QED
        BY <1>3, <3>1, <3>2
    <2>3. ASSUME NEW k \in 1 .. Len(s)
          PROVE  s[k] # list[j + 1] /\ next[s[k]] = IF k = Len(s) THEN list[j + 1] ELSE s[k + 1]
      <3>1. k \in 1 .. m /\ s[k] = list[i + k] /\ i + k \in 1 .. n - 1 /\ i + k \in 1 .. n
            /\ i + k # j + 1
        <4>1. k \in 1 .. m
          BY <1>3
        <4>2. i + k \in 1 .. n - 1 /\ i + k \in 1 .. n /\ i + k # j + 1
          BY <1>1, <1>2, <4>1
        <4> QED
          BY <1>3, <4>1, <4>2
      <3>2. s[k] # list[j + 1]
        BY <1>1, <2>1, <3>1
      <3>3. next[s[k]] = list[i + k + 1]
        BY <1>1, <3>1
      <3>4. CASE k = m
        <4>1. i + k + 1 = j + 1
          BY <3>4
        <4> QED
          BY <1>3, <3>2, <3>3, <3>4, <4>1
      <3>5. CASE k # m
        <4>1. k + 1 \in 1 .. m /\ i + (k + 1) = i + k + 1
          BY <1>2, <3>1, <3>5
        <4>2. s[k + 1] = list[i + k + 1]
          BY <1>3, <4>1
        <4> QED
          BY <1>3, <3>2, <3>3, <3>5, <4>2
      <3> QED
        BY <3>4, <3>5
    <2>4. Len(s) <= NCells
      BY <1>1, <1>2, <1>3
    <2> QED
      BY <1>3, <2>1, <2>2, <2>3, <2>4 DEF Follows
  <1>5. next \in [Cell -> Cell \cup {NULL}]
    BY DEF TypeOK
  <1> QED
    BY <1>4, <1>5, PathIs DEF s

\* The beginnings of the segments, as the program finds them.
LEMMA Places ==
  ASSUME TypeOK, NEW list, NEW p, NEW q, NEW r, NEW old, Linking(list, p, q, r, old),
         pc # "select"
  PROVE  /\ head = list[0 + 1] /\ tail = list[Len(list) - 1 + 1]
         /\ Start2 = list[p + 1] /\ Start3 = list[q + 1] /\ End = list[r + 1]
  <1>1. /\ Len(list) \in Nat /\ Len(list) > 1
        /\ \A i \in 1 .. Len(list) : list[i] # NULL
        /\ \A i, j \in 1 .. Len(list) : list[i] = list[j] => i = j
        /\ head = list[1] /\ tail = list[Len(list)]
        /\ \A i \in 1 .. Len(list) - 1 : next[list[i]] = list[i + 1]
        /\ p \in Nat /\ q \in Nat /\ r \in Nat /\ p < q /\ q <= r /\ r < Len(list)
    BY ListFacts
  <1>2. /\ M2_prev = IF p = 0 THEN NULL ELSE list[p]
        /\ M2_next = IF q = r THEN tail ELSE list[q + 1]
        /\ pc = "push" => prev_last_message = list[r]
        /\ pc # "push" => r = Len(list) - 1
    BY DEF Linking, Marked
  <1> DEFINE n == Len(list)
  <1>3. head = list[0 + 1] /\ tail = list[n - 1 + 1]
    <2>1. n - 1 + 1 = n /\ 0 + 1 = 1
      BY <1>1
    <2> QED
      BY <1>1, <2>1
  <1>4. Start2 = list[p + 1]
    <2>1. CASE p = 0
      <3>1. p + 1 = 1
        BY <2>1
      <3> QED
        BY <1>1, <1>2, <2>1, <3>1 DEF Start2
    <2>2. CASE p # 0
      <3>1. p \in 1 .. n - 1 /\ p \in 1 .. n
        BY <1>1, <2>2
      <3>2. M2_prev # NULL /\ next[M2_prev] = list[p + 1]
        BY <1>1, <1>2, <2>2, <3>1
      <3> QED
        BY <3>2 DEF Start2
    <2> QED
      BY <2>1, <2>2
  <1>5. End = list[r + 1]
    <2>1. CASE pc = "push"
      <3>1. r \in 1 .. n - 1
        BY <1>1
      <3>2. next[prev_last_message] = list[r + 1]
        BY <1>1, <1>2, <2>1, <3>1
      <3> QED
        BY <2>1, <3>2 DEF End
    <2>2. CASE pc # "push"
      <3>1. r = n - 1
        BY <1>2, <2>2
      <3>2. r + 1 = n
        BY <1>1, <3>1
      <3> QED
        BY <1>1, <2>2, <3>2 DEF End
    <2> QED
      BY <2>1, <2>2
  <1>6. Start3 = list[q + 1]
    <2>1. CASE q = r
      BY <1>2, <1>5, <2>1 DEF Start3
    <2>2. CASE q # r
      <3>1. q + 1 \in 1 .. n /\ n \in 1 .. n /\ q + 1 # n
        BY <1>1, <2>2
      <3>2. M2_next = list[q + 1] /\ M2_next # tail
        BY <1>1, <1>2, <2>2, <3>1
      <3> QED
        BY <3>2 DEF Start3
    <2> QED
      BY <2>1, <2>2
  <1> QED
    BY <1>3, <1>4, <1>5, <1>6

\* The paths of the model are the segments of the list.
Segments(list, p, q, r, old) ==
  /\ Path(head, tail) = SubSeq(list, 1, Len(list) - 1)
  /\ Path(head, Start2) = SubSeq(list, 1, p)
  /\ Path(head, Start3) = SubSeq(list, 1, q)
  /\ Path(head, End) = SubSeq(list, 1, r)
  /\ Path(Start2, Start3) = SubSeq(list, p + 1, q)
  /\ Path(Start3, End) = SubSeq(list, q + 1, r)
  /\ pc = "free" => Path(cur_it, M2_next) = old

LEMMA Parts ==
  TypeOK /\ pc # "select" =>
    \A list, p, q, r, old : Linking(list, p, q, r, old) => Segments(list, p, q, r, old)
  <1> SUFFICES ASSUME TypeOK, pc # "select",
                      NEW list, NEW p, NEW q, NEW r, NEW old, Linking(list, p, q, r, old)
               PROVE  Segments(list, p, q, r, old)
    OBVIOUS
  <1> DEFINE n == Len(list) - 1
             seg(i, j) == Path(list[i + 1], list[j + 1]) = SubSeq(list, i + 1, j)
  <1>1. /\ n \in Nat /\ 0 \in Nat
        /\ p \in Nat /\ q \in Nat /\ r \in Nat /\ p < q /\ q <= r /\ r <= n
    <2>1. /\ Len(list) \in Nat /\ Len(list) > 1
          /\ p \in Nat /\ q \in Nat /\ r \in Nat /\ p < q /\ q <= r /\ r < Len(list)
      BY ListFacts
    <2> QED
      BY <2>1
  <1>2. \A i, j \in Nat : i <= j /\ j <= n => seg(i, j)
    <2> SUFFICES ASSUME NEW i \in Nat, NEW j \in Nat, i <= j, j <= n
                 PROVE  seg(i, j)
      OBVIOUS
    <2>1. j < Len(list)
      <3>1. Len(list) \in Nat
        BY ListFacts
      <3> QED
        BY <3>1
    <2> QED
      BY <2>1, Segment
  <1>3. seg(0, n) /\ seg(0, p) /\ seg(0, q) /\ seg(0, r) /\ seg(p, q) /\ seg(q, r)
    <2> HIDE DEF seg, n
    <2>1. 0 <= n /\ 0 <= p /\ p <= n /\ 0 <= q /\ q <= n /\ 0 <= r /\ r <= n /\ p <= q /\ n <= n
      BY <1>1
    <2> QED
      BY <1>1, <1>2, <2>1
  <1>4. head = list[0 + 1] /\ tail = list[n + 1]
        /\ Start2 = list[p + 1] /\ Start3 = list[q + 1] /\ End = list[r + 1]
    BY Places
  <1>5. ASSUME pc = "free"
        PROVE  Path(cur_it, M2_next) = old
    <2>1. /\ old # <<>> /\ cur_it = old[1] /\ next[Last(old)] = M2_next
          /\ \A i \in 1 .. Len(old) - 1 : next[old[i]] = old[i + 1]
      BY <1>5 DEF Linking, Loose
    <2>2. /\ old \in Seq(Cell) /\ Len(old) <= NCells /\ Len(old) \in Nat
          /\ \A i \in 1 .. Len(list), j \in 1 .. Len(old) : list[i] # old[j]
          /\ \A i \in 1 .. Len(list) : list[i] \in Cell
          /\ tail = list[Len(list)] /\ Len(list) \in Nat
      BY ListFacts
    <2>3. \E i \in 1 .. Len(list) : M2_next = list[i]
      <3>1. M2_next = IF q = r THEN tail ELSE list[q + 1]
        BY DEF Linking, Marked
      <3>2. Len(list) \in 1 .. Len(list) /\ (q # r => q + 1 \in 1 .. Len(list))
        BY <1>1, <2>2
      <3> QED
        BY <2>2, <3>1, <3>2
    <2>4. M2_next \in Cell /\ \A j \in 1 .. Len(old) : old[j] # M2_next
      BY <2>2, <2>3
    <2>5. Len(old) # 0
      BY <2>1, <2>2
    <2>6. Follows(old, cur_it, M2_next)
      <3>1. ASSUME NEW i \in 1 .. Len(old)
            PROVE  next[old[i]] = IF i = Len(old) THEN M2_next ELSE old[i + 1]
        <4>1. i # Len(old) => i \in 1 .. Len(old) - 1
          BY <2>2
        <4> QED
          BY <2>1, <4>1 DEF Last
      <3> QED
        BY <2>1, <2>2, <2>4, <2>5, <3>1 DEF Follows
    <2>7. next \in [Cell -> Cell \cup {NULL}]
      BY DEF TypeOK
    <2> QED
      BY <2>6, <2>7, PathIs
  <1> DEFINE P(a, b, i, j) == Path(a, b) = SubSeq(list, i, j)
  <1>6. P(head, tail, 0 + 1, n) /\ P(head, Start2, 0 + 1, p) /\ P(head, Start3, 0 + 1, q)
        /\ P(head, End, 0 + 1, r) /\ P(Start2, Start3, p + 1, q) /\ P(Start3, End, q + 1, r)
    BY <1>3, <1>4, Zenon
  <1>7. 0 + 1 = 1
    OBVIOUS
  <1> QED
    BY <1>5, <1>6, <1>7 DEF Segments

\* The invariant, without naming the list by its paths.
Fit ==
  /\ TypeOK /\ Kept
  /\ pc = "select" => NoCells
  /\ pc # "select" => \E list, p, q, r, old : Linking(list, p, q, r, old)

LEMMA FitInv == Fit <=> IInv
  <1>1. IInv => Fit
    BY DEF IInv, Fit
  <1>2. ASSUME Fit
        PROVE  IInv
    <2>1. CASE pc = "select"
      BY <1>2, <2>1 DEF IInv, Fit
    <2>2. CASE pc # "select"
      <3>1. TypeOK /\ Kept
        BY <1>2 DEF Fit
      <3>2. PICK list, p, q, r, old : Linking(list, p, q, r, old)
        BY <1>2, <2>2 DEF Fit
      <3>3. Segments(list, p, q, r, old)
        BY <2>2, <3>1, <3>2, Parts
      <3>4. /\ list \in Seq(Cell) /\ Len(list) \in Nat /\ Len(list) > 1
            /\ tail = list[Len(list)]
            /\ p \in Nat /\ q \in Nat /\ r \in Nat /\ p < q /\ q <= r /\ r < Len(list)
        BY <3>1, <3>2, ListFacts
      <3>5. Append(Path(head, tail), tail) = list
        <4> DEFINE k == Len(list) - 1
        <4>1. k \in Nat /\ k < Len(list) /\ k + 1 = Len(list)
          BY <3>4
        <4> HIDE DEF k
        <4>2. SubSeq(list, 1, k + 1) = Append(SubSeq(list, 1, k), list[k + 1])
          BY <3>4, <4>1, PrefixAppend
        <4>3. SubSeq(list, 1, Len(list)) = list
          BY <3>4, SubSeqFull
        <4>4. Path(head, tail) = SubSeq(list, 1, k)
          BY <3>3 DEF Segments, k
        <4> QED
          BY <3>4, <4>1, <4>2, <4>3, <4>4, Zenon
      <3>6. \A i \in Nat : i < Len(list) => Len(SubSeq(list, 1, i)) = i
        <4> SUFFICES ASSUME NEW i \in Nat, i < Len(list)
                     PROVE  Len(SubSeq(list, 1, i)) = i
          OBVIOUS
        <4>1. 1 \in 1 .. Len(list) + 1 /\ i \in 1 - 1 .. Len(list)
          BY <3>4
        <4>2. Len(SubSeq(list, 1, i)) = i - 1 + 1
          BY <3>4, <4>1, SubSeqFacts
        <4> QED
          BY <4>2
      <3>7. Len(Path(head, Start2)) = p /\ Len(Path(head, Start3)) = q /\ Len(Path(head, End)) = r
        <4>1. p < Len(list) /\ q < Len(list)
          BY <3>4
        <4>2. Len(SubSeq(list, 1, p)) = p /\ Len(SubSeq(list, 1, q)) = q /\ Len(SubSeq(list, 1, r)) = r
          BY <3>4, <3>6, <4>1
        <4> QED
          BY <3>3, <4>2, Zenon DEF Segments
      <3>8. (IF pc = "free" THEN Path(cur_it, M2_next) ELSE <<>>) = old
        BY <3>2, <3>3 DEF Linking, Loose, Segments
      <3> DEFINE o == IF pc = "free" THEN Path(cur_it, M2_next) ELSE <<>>
      <3>9. Linking(Append(Path(head, tail), tail), Len(Path(head, Start2)),
                    Len(Path(head, Start3)), Len(Path(head, End)), o)
        <4>1. o = old
          BY <3>8
        <4> HIDE DEF o
        <4> QED
          BY <3>2, <3>5, <3>7, <4>1, Zenon
      <3> QED
        BY <2>2, <3>1, <3>9 DEF IInv
    <2> QED
      BY <2>1, <2>2
  <1> QED
    BY <1>1, <1>2

\* What Messages reads off a part of a list.
Contents ==
  \A list \in Seq(Cell), i \in Nat, j \in Nat :
    i <= j /\ j <= Len(list) /\ (\A k \in i + 1 .. j : data[list[k]] \in Message) =>
      /\ Messages(SubSeq(list, i + 1, j)) \in Seq(Message)
      /\ Len(Messages(SubSeq(list, i + 1, j))) = j - i
      /\ \A k \in 1 .. j - i : Messages(SubSeq(list, i + 1, j))[k] = data[list[i + k]]

LEMMA ContentsRead == Contents
  <1> SUFFICES ASSUME NEW list \in Seq(Cell), NEW i \in Nat, NEW j \in Nat,
                      i <= j, j <= Len(list), \A k \in i + 1 .. j : data[list[k]] \in Message
               PROVE  /\ Messages(SubSeq(list, i + 1, j)) \in Seq(Message)
                      /\ Len(Messages(SubSeq(list, i + 1, j))) = j - i
                      /\ \A k \in 1 .. j - i :
                           Messages(SubSeq(list, i + 1, j))[k] = data[list[i + k]]
    BY DEF Contents
  <1> DEFINE s == SubSeq(list, i + 1, j)
             m == j - i
  <1>1. Len(list) \in Nat
    OBVIOUS
  <1>2. i + 1 \in 1 .. Len(list) + 1 /\ j \in i + 1 - 1 .. Len(list) /\ j - (i + 1) + 1 = m
        /\ m \in Nat
    BY <1>1
  <1>3. s \in Seq(Cell) /\ Len(s) = m /\ \A k \in 1 .. m : s[k] = list[i + k]
    <2>1. s \in Seq(Cell) /\ Len(s) = j - (i + 1) + 1
          /\ \A k \in 1 .. j - (i + 1) + 1 : s[k] = list[i + 1 + k - 1]
      BY <1>1, <1>2, SubSeqFacts
    <2> HIDE DEF s, m
    <2>2. ASSUME NEW k \in 1 .. m
          PROVE  s[k] = list[i + k]
      <3>1. i + 1 + k - 1 = i + k
        BY <1>2
      <3> QED
        BY <1>2, <2>1, <3>1
    <2> QED
      BY <1>2, <2>1, <2>2
  <1> HIDE DEF s
  <1> DEFINE d(k) == data[s[k]]
  <1>4. DOMAIN s = 1 .. m
    BY <1>3
  <1>5. Messages(s) = [k \in 1 .. m |-> d(k)]
    BY <1>4 DEF Messages
  <1>6. \A k \in 1 .. m : d(k) \in Message /\ d(k) = data[list[i + k]]
    <2> SUFFICES ASSUME NEW k \in 1 .. m
                 PROVE  d(k) \in Message /\ d(k) = data[list[i + k]]
      OBVIOUS
    <2>1. i + k \in i + 1 .. j
      BY <1>1
    <2> QED
      BY <1>3, <2>1
  <1> HIDE DEF m, d
  <1>7. [k \in 1 .. m |-> d(k)] \in Seq(Message)
    BY <1>2, <1>6, IsASeq
  <1>8. Len([k \in 1 .. m |-> d(k)]) = m
    BY <1>2, <1>7
  <1> QED
    BY <1>5, <1>6, <1>7, <1>8 DEF s, m

LEMMA ContentsReadNext == Contents'
  BY ContentsRead, PTL

LEMMA SegmentMessages ==
  ASSUME TypeOK, NEW list, NEW p, NEW q, NEW r, NEW old, Linking(list, p, q, r, old),
         NEW i \in Nat, NEW j \in Nat, i <= j, j < Len(list)
  PROVE  /\ Messages(SubSeq(list, i + 1, j)) \in Seq(Message)
         /\ Len(Messages(SubSeq(list, i + 1, j))) = j - i
         /\ \A k \in 1 .. j - i : Messages(SubSeq(list, i + 1, j))[k] = data[list[i + k]]
  <1>1. /\ list \in Seq(Cell) /\ Len(list) \in Nat
        /\ \A k \in 1 .. Len(list) : list[k] \in Cell
        /\ \A k \in 1 .. Len(list) - 1 : data[list[k]] # <<>>
    BY ListFacts
  <1>2. \A k \in i + 1 .. j : data[list[k]] \in Message
    <2> SUFFICES ASSUME NEW k \in i + 1 .. j
                 PROVE  data[list[k]] \in Message
      OBVIOUS
    <2>1. k \in 1 .. Len(list) /\ k \in 1 .. Len(list) - 1
      BY <1>1
    <2>2. data \in [Cell -> Seq(Pieces)]
      BY DEF TypeOK
    <2> QED
      BY <1>1, <2>1, <2>2 DEF Message
  <1>3. j <= Len(list)
    BY <1>1
  <1> QED
    BY <1>1, <1>2, <1>3, ContentsRead DEF Contents

-----------------------------------------------------------------------------
(* The steps that leave the list alone                                       *)

LEMMA InitFit == Init => Fit
  <1> SUFFICES ASSUME Init
               PROVE  Fit
    OBVIOUS
  <1>1. PICK s \in Seeds : entries = <<Entry(s)>>
    BY DEF Init
  <1>2. s \in Seq(Message)
    BY KlAssumption
  <1>3. /\ Entry(s) \in [file : Seq(Pieces), lens : Seq(Nat)]
        /\ Cut(Entry(s)) \in Seq(Message)
        /\ Entry(s) = Entry(Cut(Entry(s)))
    BY <1>2, EntryOf
  <1> DEFINE e == Entry(s)
  <1> HIDE DEF e
  <1>4. entries = <<e>>
    BY <1>1 DEF e
  <1>5. Kept
    <2>1. DOMAIN entries = {1} /\ entries[1] = e
      BY <1>4
    <2> QED
      BY <1>3, <2>1 DEF Kept, e
  <1>6. entries \in Seq([file : Seq(Pieces), lens : Seq(Nat)])
    BY <1>3, <1>4 DEF e
  <1>7. TypeOK
    <2>1. NCells \in Nat /\ NULL = 0
      BY CellFacts
    <2>2. 0 \in 0 .. NCells
      BY <2>1
    <2>3. pool \in Seq(1 .. cells) /\ IsInjective(pool)
      <3>1. pool = <<>>
        BY DEF Init
      <3> QED
        BY <3>1, EmptySeq DEF IsInjective
    <2>4. todo \in Seq(Message) /\ <<>> \in Seq(Pieces)
      <3>1. todo = <<>>
        BY DEF Init
      <3> QED
        BY <3>1, EmptySeq
    <2> QED
      BY <1>6, <2>2, <2>3, <2>4 DEF Init, TypeOK
  <1>8. pc = "select" /\ NoCells
    BY DEF Init, NoCells
  <1> QED
    BY <1>5, <1>7, <1>8 DEF Fit

LEMMA KeptSame == Kept /\ UNCHANGED entries => Kept'
  BY DEF Kept, Cut, Entry, Lengths

\* The invariant holds again and the segments are as they were, whatever becomes of
\* what is behind them.
Onward(list, p, q, r) ==
  /\ TypeOK' /\ Kept' /\ pc' # "select"
  /\ \E list2, old2 :
       /\ Linking(list2, p, q, r, old2)'
       /\ \A i \in 1 .. r : list2[i] = list[i] /\ data'[list[i]] = data[list[i]]

LEMMA StutterLinks ==
  ASSUME TypeOK, Kept, UNCHANGED vars, pc # "select",
         NEW list, NEW p, NEW q, NEW r, NEW old, Linking(list, p, q, r, old)
  PROVE  Onward(list, p, q, r)
  <1>1. /\ pc' = pc /\ next' = next /\ data' = data /\ head' = head /\ tail' = tail
        /\ size' = size /\ pool' = pool /\ cells' = cells /\ M2_prev' = M2_prev
        /\ M2_next' = M2_next /\ prev_last_message' = prev_last_message /\ todo' = todo
        /\ cur_it' = cur_it /\ stage_cur' = stage_cur /\ entries' = entries
    BY DEF vars, heap, marks
  <1>2. Kept'
    BY <1>1, KeptSame
  <1>3. TypeOK'
    BY <1>1 DEF TypeOK
  <1>4. Linking(list, p, q, r, old)'
    BY <1>1 DEF Linking, Listed, Marked, Loose, Counted, Pushing, Messages
  <1>5. \A i \in 1 .. r : list[i] = list[i] /\ data'[list[i]] = data[list[i]]
    BY <1>1
  <1> QED
    BY <1>1, <1>2, <1>3, <1>4, <1>5, Zenon DEF Onward

LEMMA SelectFit == Fit /\ pc = "select" /\ UNCHANGED vars => Fit'
  <1> SUFFICES ASSUME Fit, pc = "select", UNCHANGED vars
               PROVE  Fit'
    OBVIOUS
  <1>1. /\ pc' = pc /\ next' = next /\ data' = data /\ head' = head /\ tail' = tail
        /\ size' = size /\ pool' = pool /\ cells' = cells /\ M2_prev' = M2_prev
        /\ M2_next' = M2_next /\ prev_last_message' = prev_last_message /\ todo' = todo
        /\ cur_it' = cur_it /\ stage_cur' = stage_cur /\ entries' = entries
    BY DEF vars, heap, marks
  <1>2. Kept' /\ TypeOK'
    BY <1>1, KeptSame DEF Fit, TypeOK
  <1>3. NoCells'
    BY <1>1 DEF Fit, NoCells
  <1> QED
    BY <1>1, <1>2, <1>3 DEF Fit

LEMMA AbandonFit == Fit /\ abandon_entry => Fit'
  <1> SUFFICES ASSUME Fit, abandon_entry
               PROVE  Fit'
    OBVIOUS
  <1>1. /\ pc' = "select" /\ NoList /\ stage_cur' = 0 /\ entries' = entries
    BY DEF abandon_entry
  <1>2. /\ next' = [c \in Cell |-> NULL] /\ data' = [c \in Cell |-> <<>>]
        /\ head' = NULL /\ tail' = NULL /\ size' = 0 /\ pool' = <<>> /\ cells' = 0
        /\ M2_prev' = NULL /\ M2_next' = NULL
        /\ prev_last_message' = NULL /\ cur_it' = NULL /\ todo' = <<>>
    BY <1>1 DEF NoList
  <1>3. Kept'
    BY <1>1, KeptSame DEF Fit
  <1>4. TypeOK'
    <2>1. entries' \in Seq([file : Seq(Pieces), lens : Seq(Nat)])
      BY <1>1 DEF Fit, TypeOK
    <2>2. 0 \in 0 .. NCells /\ <<>> \in Seq(Pieces) /\ <<>> \in Seq(Message)
      BY CellFacts, EmptySeq
    <2>3. next' \in [Cell -> Cell \cup {NULL}]
      BY <1>2
    <2>4. data' \in [Cell -> Seq(Pieces)]
      BY <1>2, <2>2
    <2>5. pool' \in Seq(1 .. cells') /\ IsInjective(pool')
      BY <1>2, EmptySeq DEF IsInjective
    <2> QED
      BY <1>1, <1>2, <2>1, <2>2, <2>3, <2>4, <2>5 DEF TypeOK
  <1>5. NoCells'
    BY <1>2 DEF NoCells
  <1> QED
    BY <1>1, <1>3, <1>4, <1>5 DEF Fit

LEMMA LastMessage ==
  ASSUME TypeOK, pc # "select",
         NEW list, NEW p, NEW q, NEW r, NEW old, Linking(list, p, q, r, old)
  PROVE  get_last_message = list[Len(list) - 1]
  <1>1. list \in Seq(Cell) /\ Len(list) \in Nat /\ Len(list) > 1
    BY ListFacts
  <1>2. PICK n : n = Len(list) - 1
    OBVIOUS
  <1>3. Path(head, tail) = SubSeq(list, 1, n)
    BY <1>2, Parts DEF Segments
  <1>4. 1 \in 1 .. Len(list) + 1 /\ n \in 1 - 1 .. Len(list) /\ n - 1 + 1 = n
        /\ n \in 1 .. n - 1 + 1 /\ 1 + n - 1 = n
    BY <1>1, <1>2
  <1>5. Len(SubSeq(list, 1, n)) = n - 1 + 1
        /\ \A k \in 1 .. n - 1 + 1 : SubSeq(list, 1, n)[k] = list[1 + k - 1]
    BY <1>1, <1>4, SubSeqFacts
  <1>6. SubSeq(list, 1, n)[n] = list[1 + n - 1]
    BY <1>4, <1>5
  <1>7. Len(SubSeq(list, 1, n)) = n /\ SubSeq(list, 1, n)[n] = list[n]
    BY <1>4, <1>5, <1>6, Zenon
  <1> QED
    BY <1>2, <1>3, <1>7 DEF get_last_message, Last

LEMMA CommonLinks ==
  ASSUME TypeOK, Kept, NEW m \in Mutated, common_fuzz_stuff(m),
         NEW list, NEW p, NEW q, NEW r, NEW old, Linking(list, p, q, r, old)
  PROVE  Onward(list, p, q, r)
  <1>1. /\ pc = "mutate" /\ pc' = "push" /\ stage_cur' = stage_cur + 1
        /\ prev_last_message' = get_last_message
        /\ todo' = Limited(m)
        /\ next' = next /\ data' = data /\ head' = head /\ tail' = tail
        /\ size' = size /\ pool' = pool /\ cells' = cells /\ M2_prev' = M2_prev
        /\ M2_next' = M2_next /\ cur_it' = cur_it /\ entries' = entries
    BY DEF common_fuzz_stuff, heap, marks
  <1>4. /\ list \in Seq(Cell) /\ Len(list) \in Nat /\ Len(list) > 1
        /\ \A i \in 1 .. Len(list) : list[i] \in Cell
        /\ p \in Nat /\ q \in Nat /\ r \in Nat /\ p < q /\ q <= r /\ r < Len(list)
    BY ListFacts
  <1>5. r = Len(list) - 1
    BY <1>1 DEF Linking, Marked
  <1>6. get_last_message = list[r] /\ list[r] \in Cell
    <2>1. get_last_message = list[Len(list) - 1]
      BY <1>1, LastMessage
    <2>2. r \in 1 .. Len(list)
      BY <1>4
    <2> QED
      BY <1>4, <1>5, <2>1, <2>2
  <1>7. Limited(m) \in Seq(Message) /\ Limited(m) # <<>>
    BY LimitedIs
  <1>8. TypeOK'
    <2>1. stage_cur' \in Nat
      BY <1>1 DEF TypeOK
    <2>2. {head', tail', M2_prev', M2_next', prev_last_message', cur_it'} \subseteq Cell \cup {NULL}
      BY <1>1, <1>6 DEF TypeOK
    <2> QED
      BY <1>1, <1>7, <2>1, <2>2 DEF TypeOK
  <1>9. Kept'
    BY <1>1, KeptSame
  <1>10. Listed(list)'
    BY <1>1 DEF Linking, Listed
  <1>11. Marked(list, p, q, r)'
    BY <1>1, <1>6 DEF Linking, Marked
  <1>12. Loose(old)'
    BY <1>1 DEF Linking, Loose
  <1>13. Counted(list, old)'
    BY <1>1 DEF Linking, Counted
  <1>14. Pushing(list, r)'
    <2>1. SubSeq(list, r + 1, Len(list) - 1) = <<>>
      <3>1. r + 1 \in Int /\ Len(list) - 1 \in Int /\ Len(list) - 1 < r + 1
        BY <1>4, <1>5
      <3> QED
        BY <3>1, SubSeqEmpty
    <2>2. Messages(SubSeq(list, r + 1, Len(list) - 1))' = <<>>
      <3>1. Messages(<<>>)' = <<>>
        BY DEF Messages
      <3> QED
        BY <2>1, <3>1
    <2>3. <<>> \o Limited(m) = Limited(m)
      BY <1>7, ConcatEmptySeq
    <2>4. Messages(SubSeq(list, r + 1, Len(list) - 1))' \o todo' = Limited(m)
      BY <1>1, <2>2, <2>3, Zenon
    <2> QED
      BY <1>1, <2>4, Zenon DEF Pushing
  <1>15. Linking(list, p, q, r, old)'
    BY <1>10, <1>11, <1>12, <1>13, <1>14 DEF Linking
  <1>16. \A i \in 1 .. r : list[i] = list[i] /\ data'[list[i]] = data[list[i]]
    BY <1>1
  <1> QED
    BY <1>1, <1>8, <1>9, <1>15, <1>16, Zenon DEF Onward

\* The first messages of a list, as an entry of the queue.
LEMMA Prefix ==
  ASSUME NEW msgs \in Seq(Message), NEW k \in Nat, k <= Len(msgs)
  PROVE  SubSeq(msgs, 1, k) \in Seq(Message)
  <1>1. 1 \in 1 .. Len(msgs) + 1 /\ k \in 1 - 1 .. Len(msgs)
    OBVIOUS
  <1> QED
    BY <1>1, SubSeqFacts

LEMMA RunLinks ==
  ASSUME TypeOK, Kept, NEW k \in 0 .. size, NEW keep \in BOOLEAN, run_target(k, keep),
         NEW list, NEW p, NEW q, NEW r, NEW old, Linking(list, p, q, r, old)
  PROVE  Onward(list, p, q, r)
  <1> DEFINE msgs == Messages(Path(head, tail))
  <1>1. /\ pc = "sent" /\ pc' = "mutate"
        /\ next' = next /\ data' = data /\ head' = head /\ tail' = tail
        /\ size' = size /\ pool' = pool /\ cells' = cells /\ M2_prev' = M2_prev
        /\ M2_next' = M2_next /\ prev_last_message' = prev_last_message
        /\ cur_it' = cur_it /\ todo' = todo /\ stage_cur' = stage_cur
        /\ k <= Len(msgs)
    BY DEF run_target, heap, marks
  <1>4. Len(list) \in Nat /\ Len(list) > 1
    BY ListFacts
  <1>5. msgs \in Seq(Message)
    <2> DEFINE n == Len(list) - 1
    <2>1. 0 \in Nat /\ n \in Nat /\ 0 <= n /\ n < Len(list)
      BY <1>4
    <2>2. Path(head, tail) = SubSeq(list, 1, n)
      BY <1>1, Parts DEF Segments
    <2> HIDE DEF n
    <2>3. Messages(SubSeq(list, 0 + 1, n)) \in Seq(Message)
      BY <2>1, SegmentMessages
    <2>4. 0 + 1 = 1
      OBVIOUS
    <2> QED
      BY <2>2, <2>3, <2>4
  <1> HIDE DEF msgs
  <1>6. k \in Nat
    BY DEF TypeOK
  <1>7. Kept' /\ entries' \in Seq([file : Seq(Pieces), lens : Seq(Nat)])
    <2>1. CASE entries' = entries
      <3>1. Kept'
        BY <2>1, KeptSame
      <3> QED
        BY <2>1, <3>1 DEF TypeOK
    <2>2. CASE entries' # entries
      <3> DEFINE s == SubSeq(msgs, 1, k)
                 e == Entry(s)
      <3>1. entries' = Append(entries, [file |-> save_kl_messages_to_file(msgs, k),
                                         lens |-> convert_kl_messages_to_regions(msgs, k)])
        BY <2>2 DEF run_target, msgs
      <3>2. entries' = Append(entries, e)
        BY <3>1 DEF Entry, save_kl_messages_to_file, convert_kl_messages_to_regions
      <3>3. s \in Seq(Message)
        BY <1>1, <1>5, <1>6, Prefix
      <3> HIDE DEF s
      <3>4. /\ e \in [file : Seq(Pieces), lens : Seq(Nat)]
            /\ Cut(e) \in Seq(Message) /\ e = Entry(Cut(e))
        BY <3>3, EntryOf
      <3> HIDE DEF e
      <3>5. entries \in Seq([file : Seq(Pieces), lens : Seq(Nat)])
        BY DEF TypeOK
      <3>6. /\ entries' \in Seq([file : Seq(Pieces), lens : Seq(Nat)])
            /\ Len(entries') = Len(entries) + 1
            /\ \A i \in 1 .. Len(entries) : entries'[i] = entries[i]
            /\ entries'[Len(entries) + 1] = e
        BY <3>2, <3>4, <3>5, AppendProperties
      <3>7. DOMAIN entries' = 1 .. Len(entries) + 1 /\ DOMAIN entries = 1 .. Len(entries)
            /\ Len(entries) \in Nat
        BY <3>5, <3>6
      <3>8. ASSUME NEW i \in DOMAIN entries'
            PROVE  Cut(entries'[i]) \in Seq(Message) /\ entries'[i] = Entry(Cut(entries'[i]))
        <4>1. CASE i = Len(entries) + 1
          BY <3>4, <3>6, <4>1
        <4>2. CASE i # Len(entries) + 1
          <5>1. i \in DOMAIN entries /\ entries'[i] = entries[i]
            BY <3>6, <3>7, <3>8, <4>2
          <5> QED
            BY <5>1 DEF Kept
        <4> QED
          BY <4>1, <4>2
      <3>9. Kept'
        BY <3>8 DEF Kept
      <3> QED
        BY <3>6, <3>9
    <2> QED
      BY <2>1, <2>2
  <1>8. TypeOK'
    BY <1>1, <1>7 DEF TypeOK
  <1>9. Linking(list, p, q, r, old)'
    BY <1>1 DEF Linking, Listed, Marked, Loose, Counted, Pushing
  <1>10. \A i \in 1 .. r : list[i] = list[i] /\ data'[list[i]] = data[list[i]]
    BY <1>1
  <1> QED
    BY <1>1, <1>7, <1>8, <1>9, <1>10, Zenon DEF Onward

\* A seed that is selected: its messages are in the cells from 1 on.
LEMMA FuzzFit ==
  ASSUME Fit, NEW e \in 1 .. Len(entries), NEW start \in DOMAIN entries[e].lens,
         NEW count \in 1 .. Len(entries[e].lens) - start + 1,
         fuzz_one(entries[e], start, count)
  PROVE  Fit'
  <1>a. PICK msgs, n : msgs = Cut(entries[e]) /\ n = Len(msgs)
    OBVIOUS
  <1>1. /\ pc = "select" /\ n > 0 /\ n < NCells
        /\ next' = [c \in Cell |-> IF c <= n THEN c + 1 ELSE NULL]
        /\ data' = [c \in Cell |-> IF c <= n THEN msgs[c] ELSE <<>>]
        /\ head' = 1 /\ tail' = n + 1 /\ size' = n /\ pool' = <<>> /\ cells' = n + 1
        /\ M2_prev' = start - 1
        /\ M2_next' = start + count
        /\ stage_cur' = 0 /\ pc' = "mutate"
        /\ prev_last_message' = prev_last_message /\ todo' = todo
        /\ cur_it' = cur_it /\ entries' = entries
    BY <1>a DEF fuzz_one, NextOf
  <1>2. TypeOK /\ Kept /\ NoCells
    BY <1>1 DEF Fit
  <1>3. msgs \in Seq(Message) /\ entries[e] = Entry(msgs)
    <2>1. e \in DOMAIN entries
      <3>1. entries \in Seq([file : Seq(Pieces), lens : Seq(Nat)])
        BY <1>2 DEF TypeOK
      <3> QED
        BY <3>1
    <2> QED
      BY <1>2, <1>a, <2>1 DEF Kept
  <1>4. DOMAIN entries[e].lens = 1 .. n /\ Len(entries[e].lens) = n
    <2>1. entries[e].lens = Lengths(msgs)
      <3>1. Entry(msgs).lens = Lengths(msgs)
        BY DEF Entry
      <3> QED
        BY <1>3, <3>1, Zenon
    <2> QED
      BY <1>3, <1>a, <2>1, LengthsIs
  <1>5. n \in Nat /\ NCells \in Nat /\ \A i \in 1 .. n : msgs[i] \in Message
    BY <1>3, <1>a, MessagesOf, CellFacts
  <1>6. start \in 1 .. n /\ count \in 1 .. n - start + 1
    BY <1>4
  <1>7. PICK list : list \in Seq(1 .. n + 1) /\ Len(list) = n + 1 /\ \A i \in 1 .. n + 1 : list[i] = i
    <2> DEFINE l == [i \in 1 .. n + 1 |-> i]
    <2>1. l \in Seq(1 .. n + 1) /\ Len(l) = n + 1 /\ \A i \in 1 .. n + 1 : l[i] = i
      BY <1>5
    <2> HIDE DEF l
    <2> QED
      BY <2>1
  <1>8. PICK p, q : p = start - 1 /\ q = start + count - 1
    OBVIOUS
  <1>9. /\ p \in Nat /\ q \in Nat /\ p < q /\ q <= n /\ q + 1 = start + count
        /\ start + count \in 1 .. n + 1
    BY <1>5, <1>6, <1>8
  <1>10. (p \in 1 .. n + 1 \/ p = 0) /\ M2_prev' = p
    <2>1. p \in 1 .. n + 1 \/ p = 0
      BY <1>5, <1>6, <1>8
    <2> QED
      BY <1>1, <1>8, <2>1
  <1>11. \A c \in Cell : c \in Nat /\ c # 0
    BY <1>5 DEF Cell
  <1>12. \A c \in 1 .. n + 1 : c \in Cell
    BY <1>1, <1>5 DEF Cell
  <1>13. TypeOK'
    <2>1. next' \in [Cell -> Cell \cup {NULL}]
      <3>1. \A c \in Cell : c <= n => c + 1 \in Cell
        <4>1. \A c \in Cell : c <= n => c + 1 \in 1 .. n + 1
          BY <1>5, <1>11
        <4> QED
          BY <1>12, <4>1
      <3> QED
        BY <1>1, <3>1
    <2>2. data' \in [Cell -> Seq(Pieces)]
      <3>1. \A c \in Cell : c <= n => msgs[c] \in Seq(Pieces)
        <4>1. \A c \in Cell : c <= n => c \in 1 .. n
          BY <1>5, <1>11
        <4> QED
          BY <1>5, <4>1 DEF Message
      <3>2. <<>> \in Seq(Pieces)
        BY EmptySeq
      <3> QED
        BY <1>1, <3>1, <3>2
    <2>3. {head', tail', M2_prev', M2_next', prev_last_message', cur_it'} \subseteq Cell \cup {NULL}
      <3>1. head' \in Cell /\ tail' \in Cell /\ M2_next' \in Cell
        <4>1. 1 \in 1 .. n + 1 /\ n + 1 \in 1 .. n + 1
          BY <1>5
        <4> QED
          BY <1>1, <1>9, <1>12, <4>1
      <3>2. M2_prev' \in Cell \cup {NULL}
        BY <1>1, <1>10, <1>12, CellFacts
      <3>3. prev_last_message' \in Cell \cup {NULL} /\ cur_it' \in Cell \cup {NULL}
        BY <1>1, <1>2 DEF TypeOK
      <3> QED
        BY <3>1, <3>2, <3>3
    <2>4. cells' \in 0 .. NCells /\ size' \in Nat
      BY <1>1, <1>5
    <2>5. pool' \in Seq(1 .. cells') /\ IsInjective(pool')
      BY <1>1, EmptySeq DEF IsInjective
    <2>6. entries' \in Seq([file : Seq(Pieces), lens : Seq(Nat)]) /\ todo' \in Seq(Message)
      BY <1>1, <1>2 DEF TypeOK
    <2>7. pc' \in {"select", "mutate", "push", "free", "sent"} /\ stage_cur' \in Nat
      BY <1>1
    <2> QED
      BY <2>1, <2>2, <2>3, <2>4, <2>5, <2>6, <2>7 DEF TypeOK
  <1>14. Kept'
    BY <1>1, <1>2, KeptSame
  <1>15. Listed(list)'
    <2>1. list \in Seq(1 .. cells') /\ Len(list) > 1
      BY <1>1, <1>5, <1>7
    <2>2. IsInjective(list)
      <3>1. \A i, j \in 1 .. Len(list) : list[i] = list[j] => i = j
        BY <1>7
      <3> QED
        BY <1>7, <3>1, InjectiveSeq
    <2>3. head' = list[1] /\ tail' = Last(list)
      <3>1. 1 \in 1 .. n + 1 /\ n + 1 \in 1 .. n + 1
        BY <1>5
      <3> QED
        BY <1>1, <1>7, <3>1 DEF Last
    <2>4. ASSUME NEW i \in 1 .. Len(list) - 1
          PROVE  next'[list[i]] = list[i + 1] /\ data'[list[i]] # <<>>
      <3>1. i \in 1 .. n /\ i \in 1 .. n + 1 /\ i + 1 \in 1 .. n + 1 /\ i <= n
        <4>1. Len(list) - 1 = n
          BY <1>5, <1>7
        <4>2. i \in 1 .. n
          BY <4>1
        <4> QED
          BY <1>5, <4>2
      <3>2. i \in Cell /\ list[i] = i /\ list[i + 1] = i + 1
        BY <1>7, <1>12, <3>1
      <3>3. next'[i] = i + 1 /\ data'[i] = msgs[i]
        BY <1>1, <3>1, <3>2
      <3>4. msgs[i] # <<>>
        BY <1>5, <3>1 DEF Message
      <3> QED
        BY <3>2, <3>3, <3>4
    <2> QED
      BY <2>1, <2>2, <2>3, <2>4 DEF Listed
  <1>16. Marked(list, p, q, n)'
    <2>1. n < Len(list) /\ n = Len(list) - 1
      BY <1>5, <1>7
    <2>2. M2_prev' = IF p = 0 THEN NULL ELSE list[p]
      BY <1>1, <1>7, <1>10 DEF NULL
    <2>3. M2_next' = IF q = n THEN tail' ELSE list[q + 1]
      <3>1. M2_next' = q + 1 /\ list[q + 1] = q + 1
        BY <1>1, <1>7, <1>9
      <3> QED
        BY <1>1, <3>1
    <2> QED
      BY <1>1, <1>5, <1>9, <2>1, <2>2, <2>3 DEF Marked
  <1>17. Loose(<<>>)'
    <2>1. <<>> \in Seq(1 .. cells') /\ IsInjective(<<>>) /\ Len(<<>>) = 0
      BY EmptySeq DEF IsInjective
    <2>2. 1 .. Len(<<>>) - 1 = {}
      BY <2>1
    <2> QED
      BY <1>1, <2>1, <2>2 DEF Loose
  <1>18. Counted(list, <<>>)'
    <2>1. ToSet(list) = 1 .. n + 1
      <3>1. ToSet(list) = {list[i] : i \in 1 .. n + 1}
        BY <1>7, ToSetIs
      <3> QED
        BY <1>7, <3>1
    <2>2. ToSet(<<>>) = {} /\ Len(<<>>) = 0
      BY DEF ToSet
    <2>3. n + 1 + 0 + 0 = n + 1 /\ n = n + 1 - 1 + 0
      BY <1>5
    <2>4. ToSet(pool') = {} /\ Len(pool') = 0 /\ cells' = n + 1 /\ size' = n
      BY <1>1, <2>2
    <2>5. ToSet(pool)' = ToSet(pool')
      BY DEF ToSet
    <2>6. /\ ToSet(list) \cap ToSet(<<>>) = {}
          /\ ToSet(pool') \cap (ToSet(list) \cup ToSet(<<>>)) = {}
          /\ 1 .. cells' \subseteq ToSet(list) \cup ToSet(<<>>) \cup ToSet(pool')
      BY <2>1, <2>2, <2>4
    <2>7. Len(list) + Len(<<>>) + Len(pool') = cells' /\ size' = Len(list) - 1 + Len(<<>>)
      <3>1. Len(list) = n + 1 /\ Len(<<>>) = 0 /\ Len(pool') = 0
        BY <1>7, <2>2, <2>4
      <3>2. Len(list) + Len(<<>>) + Len(pool') = n + 1
        BY <1>5, <3>1
      <3>3. Len(list) - 1 + Len(<<>>) = n
        BY <1>5, <3>1
      <3> QED
        BY <2>4, <3>2, <3>3
    <2> QED
      BY <2>5, <2>6, <2>7, Zenon DEF Counted
  <1>19. Pushing(list, n)'
    BY <1>1, <1>2 DEF Pushing, NoCells
  <1>20. Linking(list, p, q, n, <<>>)'
    BY <1>15, <1>16, <1>17, <1>18, <1>19 DEF Linking
  <1> QED
    BY <1>1, <1>13, <1>14, <1>20 DEF Fit

-----------------------------------------------------------------------------
(* Pushing                                                                   *)

LEMMA FrontFacts ==
  ASSUME NEW S, NEW s \in Seq(S), IsInjective(s), s # <<>>
  PROVE  /\ Front(s) \in Seq(S) /\ IsInjective(Front(s)) /\ Len(Front(s)) = Len(s) - 1
         /\ Last(s) \in S /\ Last(s) \notin ToSet(Front(s))
         /\ ToSet(s) = ToSet(Front(s)) \cup {Last(s)}
  <1> DEFINE n == Len(s) - 1
             f == Front(s)
  <1>1. n \in Nat /\ Len(s) = n + 1 /\ 1 \in 1 .. Len(s) + 1 /\ n \in 1 - 1 .. Len(s)
        /\ n - 1 + 1 = n /\ n + 1 \in 1 .. Len(s)
    OBVIOUS
  <1> HIDE DEF n
  <1>2. f \in Seq(S) /\ Len(f) = n /\ \A i \in 1 .. n : f[i] = s[i]
    <2>1. f = SubSeq(s, 1, n)
      BY DEF Front, n
    <2> HIDE DEF f
    <2>2. f \in Seq(S) /\ Len(f) = n - 1 + 1 /\ \A k \in 1 .. n - 1 + 1 : f[k] = s[1 + k - 1]
      BY <1>1, <2>1, SubSeqFacts
    <2> QED
      BY <1>1, <2>2
  <1>3. Last(s) = s[n + 1] /\ s[n + 1] \in S
    BY <1>1 DEF Last
  <1>4. \A i, j \in 1 .. n + 1 : s[i] = s[j] => i = j
    BY <1>1, InjectiveSeq
  <1> HIDE DEF f
  <1>5. ToSet(s) = {s[i] : i \in 1 .. n + 1} /\ ToSet(f) = {f[i] : i \in 1 .. n}
    BY <1>1, <1>2, ToSetIs
  <1>6. ToSet(s) = ToSet(f) \cup {s[n + 1]}
    <2>1. \A i \in 1 .. n + 1 : i \in 1 .. n \/ i = n + 1
      BY <1>1
    <2>2. \A i \in 1 .. n : i \in 1 .. n + 1
      BY <1>1
    <2>3. n + 1 \in 1 .. n + 1
      BY <1>1
    <2> QED
      BY <1>2, <1>5, <2>1, <2>2, <2>3
  <1>7. s[n + 1] \notin ToSet(f)
    <2> SUFFICES ASSUME NEW i \in 1 .. n
                 PROVE  f[i] # s[n + 1]
      BY <1>5
    <2>1. i \in 1 .. n + 1 /\ n + 1 \in 1 .. n + 1 /\ i # n + 1
      BY <1>1
    <2> QED
      BY <1>2, <1>4, <2>1
  <1>8. IsInjective(f)
    <2>1. \A i, j \in 1 .. n : f[i] = f[j] => i = j
      BY <1>1, <1>2, <1>4
    <2> QED
      BY <1>2, <2>1, InjectiveSeq
  <1> QED
    BY <1>1, <1>2, <1>3, <1>6, <1>7, <1>8 DEF f, n

LEMMA AppendFacts ==
  ASSUME NEW S, NEW s \in Seq(S), NEW x \in S, IsInjective(s), x \notin ToSet(s)
  PROVE  /\ Append(s, x) \in Seq(S) /\ IsInjective(Append(s, x))
         /\ Len(Append(s, x)) = Len(s) + 1
         /\ \A i \in 1 .. Len(s) : Append(s, x)[i] = s[i]
         /\ Append(s, x)[Len(s) + 1] = x
         /\ ToSet(Append(s, x)) = ToSet(s) \cup {x}
  <1> DEFINE n == Len(s)
             a == Append(s, x)
  <1>1. /\ n \in Nat /\ a \in Seq(S) /\ Len(a) = n + 1
        /\ \A i \in 1 .. n : a[i] = s[i]
        /\ a[n + 1] = x
    BY AppendProperties
  <1>2. \A i, j \in 1 .. n : s[i] = s[j] => i = j
    BY InjectiveSeq
  <1> HIDE DEF a, n
  <1>3. \A i \in 1 .. n + 1 : i \in 1 .. n \/ i = n + 1
    BY <1>1
  <1>4. (\A i \in 1 .. n : i \in 1 .. n + 1) /\ n + 1 \in 1 .. n + 1
    BY <1>1
  <1>5. ToSet(s) = {s[i] : i \in 1 .. n} /\ ToSet(a) = {a[i] : i \in 1 .. n + 1}
    BY <1>1, ToSetIs DEF n
  <1>6. ToSet(a) = ToSet(s) \cup {x}
    BY <1>1, <1>3, <1>4, <1>5
  <1>7. \A i, j \in 1 .. n + 1 : a[i] = a[j] => i = j
    <2> SUFFICES ASSUME NEW i \in 1 .. n + 1, NEW j \in 1 .. n + 1, a[i] = a[j]
                 PROVE  i = j
      OBVIOUS
    <2>1. \A k \in 1 .. n : s[k] # x
      BY <1>5
    <2> QED
      BY <1>1, <1>2, <1>3, <2>1
  <1>8. IsInjective(a)
    BY <1>1, <1>7, InjectiveSeq
  <1> QED
    BY <1>1, <1>6, <1>8 DEF a, n

\* The next sentinel is a cell that is in no other place.
NewCell(list, new) ==
  /\ new \in Cell /\ new \in 1 .. cells'
  /\ cells' \in Nat /\ cells <= cells' /\ cells' \in 0 .. NCells
  /\ new \notin ToSet(list)
  /\ pool' \in Seq(1 .. cells') /\ IsInjective(pool')
  /\ ToSet(pool') \cap ToSet(list) = {} /\ new \notin ToSet(pool')
  /\ 1 .. cells' \subseteq ToSet(list) \cup {new} \cup ToSet(pool')
  /\ Len(list) + 1 + Len(pool') = cells'

LEMMA PushCell ==
  ASSUME TypeOK, Push, NEW list, NEW p, NEW q, NEW r, Linking(list, p, q, r, <<>>),
         NEW new, new = IF pool # <<>> THEN Last(pool) ELSE cells + 1
  PROVE  NewCell(list, new)
  <1>1. /\ new \in Cell
        /\ pool' = IF pool # <<>> THEN Front(pool) ELSE pool
        /\ cells' = IF pool # <<>> THEN cells ELSE cells + 1
    BY DEF Push
  <1>2. /\ list \in Seq(1 .. cells) /\ Len(list) \in Nat
        /\ \A i \in 1 .. Len(list) : list[i] \in 1 .. cells
    BY ListFacts
  <1>3. /\ NCells \in Nat /\ Cell = 1 .. NCells /\ cells \in Nat /\ cells <= NCells
    BY CellFacts
  <1>4. pool \in Seq(1 .. cells) /\ IsInjective(pool)
    BY DEF TypeOK
  <1>5. /\ ToSet(pool) \cap ToSet(list) = {}
        /\ 1 .. cells \subseteq ToSet(list) \cup ToSet(pool)
        /\ Len(list) + Len(pool) = cells
    <2>1. ToSet(<<>>) = {} /\ Len(<<>>) = 0
      BY DEF ToSet
    <2>2. Counted(list, <<>>)
      BY DEF Linking
    <2>3. Len(list) + 0 + Len(pool) = cells
      BY <2>1, <2>2 DEF Counted
    <2>4. Len(list) + Len(pool) = cells
      BY <1>2, <1>4, <2>3
    <2> QED
      BY <2>1, <2>2, <2>4 DEF Counted
  <1>6. ToSet(list) \subseteq 1 .. cells
    BY <1>2, ToSetIs
  <1>7. CASE pool # <<>>
    <2>1. /\ Front(pool) \in Seq(1 .. cells) /\ IsInjective(Front(pool))
          /\ Len(Front(pool)) = Len(pool) - 1
          /\ Last(pool) \in 1 .. cells /\ Last(pool) \notin ToSet(Front(pool))
          /\ ToSet(pool) = ToSet(Front(pool)) \cup {Last(pool)}
      BY <1>4, <1>7, FrontFacts
    <2>2. new = Last(pool) /\ pool' = Front(pool) /\ cells' = cells
      BY <1>1, <1>7
    <2>3. Len(list) + 1 + Len(pool') = cells'
      <3>1. Len(pool') = Len(pool) - 1 /\ Len(pool) \in Nat
        BY <1>4, <2>1, <2>2
      <3> QED
        BY <1>2, <1>5, <2>2, <3>1
    <2>4. cells <= cells' /\ cells' \in 0 .. NCells /\ cells' \in Nat
      BY <1>3, <2>2
    <2>5. /\ pool' \in Seq(1 .. cells') /\ IsInjective(pool')
          /\ new \in 1 .. cells' /\ new \notin ToSet(pool')
          /\ ToSet(pool) = ToSet(pool') \cup {new}
      BY <2>1, <2>2
    <2> QED
      BY <1>1, <1>5, <2>2, <2>3, <2>4, <2>5 DEF NewCell
  <1>8. CASE pool = <<>>
    <2>1. new = cells + 1 /\ pool' = <<>> /\ cells' = cells + 1
      BY <1>1, <1>8
    <2>2. ToSet(<<>>) = {} /\ Len(<<>>) = 0 /\ <<>> \in Seq(1 .. cells') /\ IsInjective(<<>>)
      BY EmptySeq DEF ToSet, IsInjective
    <2>3. new \notin ToSet(list) /\ new \in 1 .. cells' /\ cells' \in Nat
          /\ cells <= cells' /\ cells' \in 0 .. NCells
      BY <1>1, <1>3, <1>6, <2>1
    <2>4. 1 .. cells' \subseteq 1 .. cells \cup {new}
      BY <1>3, <2>1
    <2>5. Len(list) + 1 + Len(pool') = cells'
      BY <1>2, <1>3, <1>5, <1>8, <2>1, <2>2
    <2>6. ToSet(pool) = {} /\ ToSet(pool') = {}
      BY <1>8, <2>1, <2>2
    <2> QED
      BY <1>1, <1>5, <2>1, <2>2, <2>3, <2>4, <2>5, <2>6 DEF NewCell
  <1> QED
    BY <1>7, <1>8

\* The list is longer, and its segments are the same.
LEMMA PushLinks ==
  ASSUME TypeOK, Kept, Push,
         NEW list, NEW p, NEW q, NEW r, NEW old, Linking(list, p, q, r, old)
  PROVE  Onward(list, p, q, r)
  <1>1. PICK new : new = IF pool # <<>> THEN Last(pool) ELSE cells + 1
    OBVIOUS
  <1>2. /\ pc = "push" /\ todo # <<>> /\ pc' = pc
        /\ next' = [next EXCEPT ![new] = NULL, ![tail] = new]
        /\ data' = [data EXCEPT ![tail] = Head(todo)]
        /\ tail' = new /\ size' = size + 1 /\ M2_next' = Moved(new)
        /\ todo' = Tail(todo)
        /\ head' = head /\ M2_prev' = M2_prev /\ prev_last_message' = prev_last_message
        /\ cur_it' = cur_it /\ stage_cur' = stage_cur /\ entries' = entries
    BY <1>1 DEF Push
  <1>3. TypeOK /\ Kept
    OBVIOUS
  <1>4. Linking(list, p, q, r, old)
    OBVIOUS
  <1>5. old = <<>>
    BY <1>2, <1>4 DEF Linking, Loose
  <1>6. NewCell(list, new)
    BY <1>1, <1>3, <1>4, <1>5, PushCell
  <1>7. PICK N : N = Len(list)
    OBVIOUS
  <1>8. /\ list \in Seq(1 .. cells) /\ list \in Seq(Cell)
        /\ N \in Nat /\ N > 1
        /\ \A i \in 1 .. N : list[i] \in 1 .. cells /\ list[i] \in Cell
        /\ \A i, j \in 1 .. N : list[i] = list[j] => i = j
        /\ head = list[1] /\ tail = list[N]
        /\ \A i \in 1 .. N - 1 : next[list[i]] = list[i + 1] /\ data[list[i]] # <<>>
        /\ p \in Nat /\ q \in Nat /\ r \in Nat /\ p < q /\ q <= r /\ r < N
    BY <1>3, <1>4, <1>7, ListFacts
  <1>9. \A i \in 1 .. N : list[i] # new
    <2>1. ToSet(list) = {list[i] : i \in 1 .. N}
      BY <1>7, <1>8, ToSetIs
    <2> QED
      BY <1>6, <2>1 DEF NewCell
  <1>10. PICK list2 : list2 = Append(list, new)
    OBVIOUS
  <1>11. /\ list2 \in Seq(1 .. cells') /\ IsInjective(list2) /\ Len(list2) = N + 1
         /\ \A i \in 1 .. N : list2[i] = list[i]
         /\ list2[N + 1] = new
         /\ ToSet(list2) = ToSet(list) \cup {new}
    <2>1. 1 .. cells \subseteq 1 .. cells'
      BY <1>3, <1>6, CellFacts DEF NewCell
    <2>2. list \in Seq(1 .. cells')
      BY <1>8, <2>1, SeqMonotonic
    <2>3. IsInjective(list)
      BY <1>4 DEF Linking, Listed
    <2>4. new \in 1 .. cells' /\ new \notin ToSet(list)
      BY <1>6 DEF NewCell
    <2>5. /\ Append(list, new) \in Seq(1 .. cells') /\ IsInjective(Append(list, new))
          /\ Len(Append(list, new)) = Len(list) + 1
          /\ \A i \in 1 .. Len(list) : Append(list, new)[i] = list[i]
          /\ Append(list, new)[Len(list) + 1] = new
          /\ ToSet(Append(list, new)) = ToSet(list) \cup {new}
      <3>1. PICK S : S = 1 .. cells'
        OBVIOUS
      <3>2. list \in Seq(S) /\ new \in S
        BY <2>2, <2>4, <3>1
      <3>3. /\ Append(list, new) \in Seq(S) /\ IsInjective(Append(list, new))
            /\ Len(Append(list, new)) = Len(list) + 1
            /\ \A i \in 1 .. Len(list) : Append(list, new)[i] = list[i]
            /\ Append(list, new)[Len(list) + 1] = new
            /\ ToSet(Append(list, new)) = ToSet(list) \cup {new}
        BY <2>3, <2>4, <3>2, AppendFacts
      <3> QED
        BY <3>1, <3>3, Zenon
    <2> QED
      BY <1>7, <1>10, <2>5, Zenon
  <1>12. /\ todo \in Seq(Message) /\ Head(todo) \in Message /\ Tail(todo) \in Seq(Message)
         /\ Head(todo) \in Seq(Pieces) /\ Head(todo) # <<>>
    <2>1. todo \in Seq(Message)
      BY <1>3 DEF TypeOK
    <2> QED
      BY <1>2, <2>1 DEF Message
  <1>13. /\ N \in 1 .. N /\ tail \in Cell /\ new \in Cell /\ tail # new
         /\ next \in [Cell -> Cell \cup {NULL}] /\ data \in [Cell -> Seq(Pieces)]
    <2>1. N \in 1 .. N
      BY <1>8
    <2>2. new \in Cell
      BY <1>6 DEF NewCell
    <2>3. next \in [Cell -> Cell \cup {NULL}] /\ data \in [Cell -> Seq(Pieces)]
      BY <1>3 DEF TypeOK
    <2> QED
      BY <1>8, <1>9, <2>1, <2>2, <2>3
  <1>14. /\ next' \in [Cell -> Cell \cup {NULL}] /\ data' \in [Cell -> Seq(Pieces)]
         /\ next'[tail] = new /\ data'[tail] = Head(todo)
         /\ \A c \in Cell : c # tail /\ c # new => next'[c] = next[c]
         /\ \A c \in Cell : c # tail => data'[c] = data[c]
    BY <1>2, <1>12, <1>13
  <1>15. Moved(new) = IF q = r THEN new ELSE list[q + 1]
    <2>1. M2_next = IF q = r THEN tail ELSE list[q + 1]
      BY <1>4 DEF Linking, Marked
    <2>2. CASE q = r
      BY <2>1, <2>2 DEF Moved
    <2>3. CASE q # r
      <3>1. q + 1 \in 1 .. N - 1 /\ q + 1 \in 1 .. N /\ q + 1 # N /\ q + 1 + 1 \in 1 .. N
        BY <1>8, <2>3
      <3>2. M2_next = list[q + 1] /\ M2_next # tail
        BY <1>8, <1>13, <2>1, <2>3, <3>1
      <3>3. next[M2_next] = list[q + 1 + 1] /\ list[q + 1 + 1] # new
        BY <1>8, <1>9, <3>1, <3>2
      <3> QED
        BY <2>3, <3>2, <3>3 DEF Moved
    <2> QED
      BY <2>2, <2>3
  <1>16. TypeOK'
    <2>1. M2_next' \in Cell
      <3>1. q # r => q + 1 \in 1 .. N
        BY <1>8
      <3> QED
        BY <1>2, <1>8, <1>13, <1>15, <3>1
    <2>2. {head', tail', M2_prev', M2_next', prev_last_message', cur_it'} \subseteq Cell \cup {NULL}
      BY <1>2, <1>3, <1>13, <2>1 DEF TypeOK
    <2>3. pool' \in Seq(1 .. cells') /\ IsInjective(pool') /\ cells' \in 0 .. NCells
      BY <1>6 DEF NewCell
    <2>4. size' \in Nat
      BY <1>2, <1>3 DEF TypeOK
    <2> QED
      BY <1>2, <1>3, <1>12, <1>14, <2>2, <2>3, <2>4 DEF TypeOK
  <1>17. Kept'
    BY <1>2, <1>3, KeptSame
  <1>18. Listed(list2)'
    <2>1. head' = list2[1] /\ tail' = Last(list2)
      <3>1. 1 \in 1 .. N
        BY <1>8
      <3> QED
        BY <1>2, <1>8, <1>11, <3>1 DEF Last
    <2>2. ASSUME NEW i \in 1 .. Len(list2) - 1
          PROVE  next'[list2[i]] = list2[i + 1] /\ data'[list2[i]] # <<>>
      <3>1. i \in 1 .. N
        BY <1>8, <1>11
      <3>2. list2[i] = list[i] /\ list[i] \in Cell /\ list[i] # new
        BY <1>8, <1>9, <1>11, <3>1
      <3>3. CASE i = N
        BY <1>8, <1>11, <1>12, <1>14, <3>2, <3>3
      <3>4. CASE i # N
        <4>1. i \in 1 .. N - 1 /\ i + 1 \in 1 .. N
          BY <1>8, <3>1, <3>4
        <4>2. list[i] # tail
          BY <1>8, <1>13, <3>1, <3>4
        <4>3. next'[list[i]] = next[list[i]] /\ data'[list[i]] = data[list[i]]
          BY <1>14, <3>2, <4>2
        <4>4. list2[i + 1] = list[i + 1]
          BY <1>11, <4>1
        <4> QED
          BY <1>8, <3>2, <4>1, <4>3, <4>4
      <3> QED
        BY <3>3, <3>4
    <2>3. Len(list2) > 1
      BY <1>8, <1>11
    <2> QED
      BY <1>11, <2>1, <2>2, <2>3 DEF Listed
  <1>19. Marked(list2, p, q, r)'
    <2>1. /\ M2_prev = IF p = 0 THEN NULL ELSE list[p]
          /\ prev_last_message = list[r]
      BY <1>2, <1>4 DEF Linking, Marked
    <2>2. r \in 1 .. N /\ (p # 0 => p \in 1 .. N) /\ (q # r => q + 1 \in 1 .. N)
          /\ r < N + 1
      BY <1>8
    <2>3. M2_prev' = (IF p = 0 THEN NULL ELSE list2[p]) /\ prev_last_message' = list2[r]
      BY <1>2, <1>11, <2>1, <2>2
    <2>4. M2_next' = IF q = r THEN tail' ELSE list2[q + 1]
      BY <1>2, <1>11, <1>15, <2>2
    <2> QED
      BY <1>2, <1>8, <1>11, <2>2, <2>3, <2>4 DEF Marked
  <1>20. Loose(<<>>)'
    <2>1. <<>> \in Seq(1 .. cells') /\ IsInjective(<<>>) /\ Len(<<>>) = 0
      BY EmptySeq DEF IsInjective
    <2>2. 1 .. Len(<<>>) - 1 = {}
      BY <2>1
    <2> QED
      BY <1>2, <2>1, <2>2 DEF Loose
  <1>21. Counted(list2, <<>>)'
    <2>1. ToSet(<<>>) = {} /\ Len(<<>>) = 0
      BY DEF ToSet
    <2>2. ToSet(pool)' = ToSet(pool')
      BY DEF ToSet
    <2>3. /\ ToSet(pool') \cap ToSet(list) = {} /\ new \notin ToSet(pool')
          /\ 1 .. cells' \subseteq ToSet(list) \cup {new} \cup ToSet(pool')
          /\ N + 1 + Len(pool') = cells' /\ pool' \in Seq(1 .. cells')
      BY <1>6, <1>7 DEF NewCell
    <2>4. size = N - 1
      <3>1. size = N - 1 + 0
        BY <1>4, <1>5, <1>7, <2>1 DEF Linking, Counted
      <3> QED
        BY <1>8, <3>1
    <2>5. Len(list2) + Len(<<>>) + Len(pool') = cells' /\ size' = Len(list2) - 1 + Len(<<>>)
      <3>1. Len(pool') \in Nat
        BY <2>3
      <3> QED
        BY <1>2, <1>8, <1>11, <2>1, <2>3, <2>4, <3>1
    <2>6. /\ ToSet(list2) \cap ToSet(<<>>) = {}
          /\ ToSet(pool') \cap (ToSet(list2) \cup ToSet(<<>>)) = {}
          /\ 1 .. cells' \subseteq ToSet(list2) \cup ToSet(<<>>) \cup ToSet(pool')
      BY <1>11, <2>1, <2>3
    <2> QED
      BY <2>2, <2>5, <2>6, Zenon DEF Counted
  <1>22. Pushing(list2, r)'
    <2>1. PICK m \in Mutated : Messages(SubSeq(list, r + 1, N - 1)) \o todo = Limited(m)
      BY <1>2, <1>4, <1>7 DEF Linking, Pushing
    <2>2. PICK a, h : a = Messages(SubSeq(list, r + 1, N - 1)) /\ h = Head(todo)
      OBVIOUS
    <2>3. a \in Seq(Message) /\ Len(a) = N - 1 - r
          /\ \A k \in 1 .. N - 1 - r : a[k] = data[list[r + k]]
      <3>1. r \in Nat /\ N - 1 \in Nat /\ r <= N - 1 /\ N - 1 < Len(list)
        BY <1>7, <1>8
      <3>2. /\ Messages(SubSeq(list, r + 1, N - 1)) \in Seq(Message)
            /\ Len(Messages(SubSeq(list, r + 1, N - 1))) = N - 1 - r
            /\ \A k \in 1 .. N - 1 - r :
                 Messages(SubSeq(list, r + 1, N - 1))[k] = data[list[r + k]]
        BY <1>3, <1>4, <3>1, SegmentMessages
      <3> QED
        BY <2>2, <3>2
    <2>4. PICK b : b = Messages(SubSeq(list2, r + 1, N))'
      OBVIOUS
    <2>5. /\ b \in Seq(Message) /\ Len(b) = N - r
          /\ \A k \in 1 .. N - r : b[k] = data'[list2[r + k]]
      <3>1. list2 \in Seq(Cell)
        <4>1. 1 .. cells' \subseteq Cell
          BY <1>6, CellFacts DEF NewCell
        <4> QED
          BY <1>11, <4>1, SeqMonotonic
      <3>2. r \in Nat /\ N \in Nat /\ r <= N /\ N <= Len(list2)
        BY <1>8, <1>11
      <3>3. \A k \in r + 1 .. N : data'[list2[k]] \in Message
        <4> SUFFICES ASSUME NEW k \in r + 1 .. N
                     PROVE  data'[list2[k]] \in Message
          OBVIOUS
        <4>1. k \in 1 .. N /\ k \in 1 .. Len(list2) - 1
          BY <1>8, <1>11
        <4>2. data'[list2[k]] # <<>>
          BY <1>18, <4>1 DEF Listed
        <4>3. list2[k] \in Cell
          BY <1>8, <1>11, <4>1
        <4> QED
          BY <1>14, <4>2, <4>3 DEF Message
      <3>4. /\ Messages(SubSeq(list2, r + 1, N))' \in Seq(Message)
            /\ Len(Messages(SubSeq(list2, r + 1, N))') = N - r
            /\ \A k \in 1 .. N - r : Messages(SubSeq(list2, r + 1, N))'[k] = data'[list2[r + k]]
        BY <3>1, <3>2, <3>3, ContentsReadNext DEF Contents
      <3> QED
        BY <2>4, <3>4
    <2>6. b = Append(a, h)
      <3>1. /\ Append(a, h) \in Seq(Message) /\ Len(Append(a, h)) = N - 1 - r + 1
            /\ \A k \in 1 .. N - 1 - r : Append(a, h)[k] = a[k]
            /\ Append(a, h)[N - 1 - r + 1] = h
        BY <1>12, <2>2, <2>3, AppendProperties
      <3>2. ASSUME NEW k \in 1 .. Len(b)
            PROVE  b[k] = Append(a, h)[k]
        <4>1. k \in 1 .. N - r /\ b[k] = data'[list2[r + k]] /\ r + k \in 1 .. N
              /\ list2[r + k] = list[r + k]
          <5>1. k \in 1 .. N - r
            BY <2>5
          <5>2. r + k \in 1 .. N
            BY <1>8, <5>1
          <5> QED
            BY <1>11, <2>5, <5>1, <5>2
        <4>2. CASE k = N - r
          <5>1. r + k = N /\ k = N - 1 - r + 1
            BY <1>8, <4>2
          <5>2. b[k] = h
            BY <1>8, <1>14, <2>2, <4>1, <5>1
          <5> QED
            BY <3>1, <5>1, <5>2
        <4>3. CASE k # N - r
          <5>1. k \in 1 .. N - 1 - r /\ r + k # N
            BY <1>8, <4>1, <4>3
          <5>2. list[r + k] # tail /\ list[r + k] \in Cell
            BY <1>8, <1>13, <4>1, <5>1
          <5> QED
            BY <1>14, <2>3, <3>1, <4>1, <5>1, <5>2
        <4> QED
          BY <4>2, <4>3
      <3>3. Len(b) = Len(Append(a, h))
        BY <1>8, <2>5, <3>1
      <3> QED
        BY <2>5, <3>1, <3>2, <3>3, SameSeq
    <2>7. b \o todo' = a \o todo
      <3>1. PICK t : t = Tail(todo)
        OBVIOUS
      <3>2. t \in Seq(Message) /\ h \in Message /\ todo = <<h>> \o t
        BY <1>2, <1>12, <2>2, <3>1
      <3>3. Append(a, h) = a \o <<h>>
        BY <2>3, <3>2, AppendIsConcat
      <3>4. <<h>> \in Seq(Message)
        BY <3>2
      <3>5. (a \o <<h>>) \o t = a \o (<<h>> \o t)
        BY <2>3, <3>2, <3>4, ConcatAssociative
      <3> QED
        BY <1>2, <2>6, <3>1, <3>2, <3>3, <3>5, Zenon
    <2>8. Len(list2) - 1 = N
      BY <1>8, <1>11
    <2>9. Messages(SubSeq(list2, r + 1, Len(list2) - 1))' \o todo' = Limited(m)
      BY <2>1, <2>2, <2>4, <2>7, <2>8, Zenon
    <2> QED
      BY <1>2, <2>9, Zenon DEF Pushing
  <1>23. Linking(list2, p, q, r, <<>>)'
    BY <1>18, <1>19, <1>20, <1>21, <1>22 DEF Linking
  <1>24. ASSUME NEW i \in 1 .. r
         PROVE  list2[i] = list[i] /\ data'[list[i]] = data[list[i]]
    <2>1. i \in 1 .. N /\ i # N
      BY <1>8
    <2>2. list[i] \in Cell /\ list[i] # tail
      BY <1>8, <1>13, <2>1
    <2> QED
      BY <1>11, <1>14, <2>1, <2>2
  <1>25. pc' # "select"
    BY <1>2
  <1> QED
    BY <1>16, <1>17, <1>23, <1>24, <1>25, Zenon DEF Onward

-----------------------------------------------------------------------------
(* Splicing                                                                  *)

\* The place in the old list of what is at place i of the new one.
Index(i, p, q, r, n) ==
  IF i <= p THEN i
  ELSE IF i <= p + (n - r) THEN r + (i - p)
  ELSE IF i <= p + (n - r) + (r - q) THEN q + (i - p - (n - r))
  ELSE n + 1

\* M1, what was pushed, M3 and the sentinel.
Spliced(list, p, q, r) ==
  [i \in 1 .. Len(list) - (q - p) |-> list[Index(i, p, q, r, Len(list) - 1)]]

\* The new list and the old M2 have each cell of the old list in one place.
Rearranged(S, list, p, q, r, n, list2) ==
  /\ list2 \in Seq(S) /\ Len(list2) = n + 1 - (q - p) /\ Len(list2) > 1
  /\ \A i \in 1 .. p : list2[i] = list[i]
  /\ \A i \in 1 .. n - r : list2[p + i] = list[r + i]
  /\ \A i \in 1 .. r - q : list2[p + (n - r) + i] = list[q + i]
  /\ list2[n + 1 - (q - p)] = list[n + 1]
  /\ IsInjective(list2)
  /\ \A i \in 1 .. Len(list2), j \in 1 .. q - p : list2[i] # list[p + j]
  /\ \A i \in 1 .. n + 1 : \/ \E j \in 1 .. Len(list2) : list[i] = list2[j]
                           \/ \E j \in 1 .. q - p : i = p + j

\* x is the place that Index gives k, segment by segment.
Place(k, x, p, q, r, n) ==
  /\ x \in Nat
  /\ \/ x <= p /\ x = k
     \/ r < x /\ x <= n /\ x = r + (k - p)
     \/ q < x /\ x <= r /\ x = q + (k - p - (n - r))
     \/ x = n + 1 /\ k = n + 1 - (q - p)

LEMMA IndexCases ==
  ASSUME NEW p \in Nat, NEW q \in Nat, NEW r \in Nat, NEW n \in Nat, p < q, q <= r, r < n,
         NEW k \in 1 .. n + 1 - (q - p), NEW x, x = Index(k, p, q, r, n)
  PROVE  Place(k, x, p, q, r, n)
  <1>0. \/ k <= p
        \/ ~(k <= p) /\ k <= p + (n - r)
        \/ ~(k <= p) /\ ~(k <= p + (n - r)) /\ k <= p + (n - r) + (r - q)
        \/ ~(k <= p) /\ ~(k <= p + (n - r)) /\ ~(k <= p + (n - r) + (r - q))
    BY Zenon
  <1>1. k \in Nat /\ k >= 1 /\ k <= n + 1 - (q - p)
    OBVIOUS
  <1>2. CASE k <= p
    <2>1. x = k
      BY <1>2 DEF Index
    <2> QED
      BY <1>1, <1>2, <2>1 DEF Place
  <1>3. CASE ~(k <= p) /\ k <= p + (n - r)
    <2>1. x = r + (k - p)
      BY <1>3 DEF Index
    <2>2. r < r + (k - p) /\ r + (k - p) <= n /\ r + (k - p) \in Nat
      BY <1>1, <1>3
    <2> QED
      BY <2>1, <2>2 DEF Place
  <1>4. CASE ~(k <= p) /\ ~(k <= p + (n - r)) /\ k <= p + (n - r) + (r - q)
    <2>1. x = q + (k - p - (n - r))
      BY <1>4 DEF Index
    <2>2. q < q + (k - p - (n - r)) /\ q + (k - p - (n - r)) <= r
          /\ q + (k - p - (n - r)) \in Nat
      BY <1>1, <1>4
    <2> QED
      BY <2>1, <2>2 DEF Place
  <1>5. CASE ~(k <= p) /\ ~(k <= p + (n - r)) /\ ~(k <= p + (n - r) + (r - q))
    <2>1. x = n + 1
      BY <1>5 DEF Index
    <2>2. k = n + 1 - (q - p)
      BY <1>1, <1>5
    <2> QED
      BY <2>1, <2>2 DEF Place
  <1> QED
    BY <1>0, <1>2, <1>3, <1>4, <1>5, Zenon

\* Every place of the new list has a place of the old one, none in M2.
LEMMA IndexRange ==
  ASSUME NEW p \in Nat, NEW q \in Nat, NEW r \in Nat, NEW n \in Nat, p < q, q <= r, r < n,
         NEW i \in 1 .. n + 1 - (q - p), NEW x, x = Index(i, p, q, r, n)
  PROVE  x \in 1 .. n + 1 /\ (x <= p \/ x > q)
  <1>1. Place(i, x, p, q, r, n)
    BY IndexCases
  <1>2. i \in Nat /\ i >= 1 /\ x \in Nat
    BY <1>1 DEF Place
  <1>3. CASE x <= p /\ x = i
    BY <1>2, <1>3
  <1>4. CASE r < x /\ x <= n
    BY <1>2, <1>4
  <1>5. CASE q < x /\ x <= r
    BY <1>2, <1>5
  <1>6. CASE x = n + 1
    BY <1>2, <1>6
  <1> QED
    BY <1>1, <1>3, <1>4, <1>5, <1>6, Zenon DEF Place

\* No place of the old list is taken twice.
LEMMA IndexOnce ==
  ASSUME NEW p \in Nat, NEW q \in Nat, NEW r \in Nat, NEW n \in Nat, p < q, q <= r, r < n,
         NEW i \in 1 .. n + 1 - (q - p), NEW j \in 1 .. n + 1 - (q - p),
         NEW x, x = Index(i, p, q, r, n), x = Index(j, p, q, r, n)
  PROVE  i = j
  <1>1. Place(i, x, p, q, r, n)
    BY IndexCases
  <1>2. Place(j, x, p, q, r, n)
    BY IndexCases
  <1>3. i \in Nat /\ j \in Nat /\ x \in Nat
    BY <1>1 DEF Place
  <1>4. \/ x <= p /\ i = x
        \/ r < x /\ x <= n /\ i = x - r + p
        \/ q < x /\ x <= r /\ i = x - q + p + (n - r)
        \/ x = n + 1 /\ i = n + 1 - (q - p)
    BY <1>1, <1>3 DEF Place
  <1>5. \/ x <= p /\ j = x
        \/ r < x /\ x <= n /\ j = x - r + p
        \/ q < x /\ x <= r /\ j = x - q + p + (n - r)
        \/ x = n + 1 /\ j = n + 1 - (q - p)
    BY <1>2, <1>3 DEF Place
  <1>6. CASE x <= p
    BY <1>3, <1>4, <1>5, <1>6
  <1>7. CASE r < x /\ x <= n
    BY <1>3, <1>4, <1>5, <1>7
  <1>8. CASE q < x /\ x <= r
    BY <1>3, <1>4, <1>5, <1>8
  <1>9. CASE x = n + 1
    BY <1>3, <1>4, <1>5, <1>9
  <1> QED
    BY <1>4, <1>6, <1>7, <1>8, <1>9, Zenon

LEMMA SplicedIs ==
  ASSUME NEW S, NEW list \in Seq(S), NEW p \in Nat, NEW q \in Nat, NEW r \in Nat,
         p < q, q <= r, r < Len(list) - 1, NEW n, n = Len(list) - 1,
         \A i, j \in 1 .. Len(list) : list[i] = list[j] => i = j,
         NEW list2, list2 = Spliced(list, p, q, r)
  PROVE  Rearranged(S, list, p, q, r, n, list2)
  <1> DEFINE m == n + 1 - (q - p)
             x(i) == Index(i, p, q, r, n)
  <1>1. /\ n \in Nat /\ Len(list) = n + 1 /\ m \in Nat /\ m > 1 /\ r < n
        /\ Len(list) - (q - p) = m
    OBVIOUS
  <1>2. \A i \in 1 .. m : x(i) \in 1 .. n + 1 /\ (x(i) <= p \/ x(i) > q)
    <2> SUFFICES ASSUME NEW i \in 1 .. n + 1 - (q - p), NEW y, y = Index(i, p, q, r, n)
                 PROVE  y \in 1 .. n + 1 /\ (y <= p \/ y > q)
      OBVIOUS
    <2> QED
      BY <1>1, IndexRange
  <1>3. \A i, j \in 1 .. m : x(i) = x(j) => i = j
    <2> SUFFICES ASSUME NEW i \in 1 .. n + 1 - (q - p), NEW j \in 1 .. n + 1 - (q - p),
                        NEW y, y = Index(i, p, q, r, n), y = Index(j, p, q, r, n)
                 PROVE  i = j
      OBVIOUS
    <2> QED
      BY <1>1, IndexOnce, SMTT(30)
  <1>4. /\ \A i \in 1 .. p : i \in 1 .. m /\ x(i) = i
        /\ \A i \in 1 .. n - r : p + i \in 1 .. m /\ x(p + i) = r + i
        /\ \A i \in 1 .. r - q : p + (n - r) + i \in 1 .. m /\ x(p + (n - r) + i) = q + i
        /\ m \in 1 .. m /\ x(m) = n + 1
    <2>1. ASSUME NEW i \in 1 .. p
          PROVE  i \in 1 .. m /\ x(i) = i
      BY <1>1 DEF Index
    <2>2. ASSUME NEW i \in 1 .. n - r
          PROVE  p + i \in 1 .. m /\ x(p + i) = r + i
      <3>1. p + i \in 1 .. m /\ ~(p + i <= p) /\ p + i <= p + (n - r) /\ p + i - p = i
        BY <1>1
      <3> QED
        BY <3>1 DEF Index
    <2>3. ASSUME NEW i \in 1 .. r - q
          PROVE  p + (n - r) + i \in 1 .. m /\ x(p + (n - r) + i) = q + i
      <3>1. /\ p + (n - r) + i \in 1 .. m /\ ~(p + (n - r) + i <= p)
            /\ ~(p + (n - r) + i <= p + (n - r))
            /\ p + (n - r) + i <= p + (n - r) + (r - q)
            /\ p + (n - r) + i - p - (n - r) = i
        BY <1>1
      <3> QED
        BY <3>1 DEF Index
    <2>4. m \in 1 .. m /\ x(m) = n + 1
      <3>1. m \in 1 .. m /\ ~(m <= p) /\ ~(m <= p + (n - r)) /\ ~(m <= p + (n - r) + (r - q))
        BY <1>1
      <3> QED
        BY <3>1 DEF Index
    <2> QED
      BY <2>1, <2>2, <2>3, <2>4
  <1>5. list2 = [i \in 1 .. m |-> list[x(i)]]
    BY <1>1 DEF Spliced
  <1> HIDE DEF x, m
  <1>6. \A i \in 1 .. n + 1 : list[i] \in S
    BY <1>1
  <1>7. list2 \in Seq(S) /\ Len(list2) = m /\ \A i \in 1 .. m : list2[i] = list[x(i)]
    <2> DEFINE v(i) == list[x(i)]
    <2>1. \A i \in 1 .. m : v(i) \in S
      BY <1>2, <1>6
    <2>2. list2 = [i \in 1 .. m |-> v(i)]
      BY <1>5
    <2>3. \A i \in 1 .. m : list2[i] = v(i)
      BY <2>2
    <2> HIDE DEF v
    <2>4. [i \in 1 .. m |-> v(i)] \in Seq(S)
      BY <1>1, <2>1, IsASeq
    <2>5. Len([i \in 1 .. m |-> v(i)]) = m
      BY <1>1, <2>4
    <2> QED
      BY <2>2, <2>3, <2>4, <2>5 DEF v
  <1>8. IsInjective(list2)
    <2>1. \A i, j \in 1 .. m : list2[i] = list2[j] => i = j
      <3> SUFFICES ASSUME NEW i \in 1 .. m, NEW j \in 1 .. m, list2[i] = list2[j]
                   PROVE  i = j
        OBVIOUS
      <3>1. list[x(i)] = list[x(j)] /\ x(i) \in 1 .. Len(list) /\ x(j) \in 1 .. Len(list)
        BY <1>1, <1>2, <1>7
      <3> QED
        BY <1>3, <3>1
    <2> QED
      BY <1>7, <2>1, InjectiveSeq
  <1>9. \A i \in 1 .. m, j \in 1 .. q - p : list2[i] # list[p + j]
    <2> SUFFICES ASSUME NEW i \in 1 .. m, NEW j \in 1 .. q - p
                 PROVE  list2[i] # list[p + j]
      OBVIOUS
    <2>1. p + j \in 1 .. Len(list) /\ x(i) \in 1 .. Len(list) /\ x(i) # p + j
      <3>1. p + j \in 1 .. n + 1 /\ p < p + j /\ p + j <= q
        BY <1>1
      <3>2. x(i) \in 1 .. n + 1 /\ (x(i) <= p \/ x(i) > q)
        BY <1>2
      <3> QED
        BY <1>1, <3>1, <3>2
    <2>2. list2[i] = list[x(i)]
      BY <1>7
    <2> QED
      BY <2>1, <2>2
  <1>10. \A i \in 1 .. n + 1 : \/ \E j \in 1 .. m : list[i] = list2[j]
                               \/ \E j \in 1 .. q - p : i = p + j
    <2> SUFFICES ASSUME NEW i \in 1 .. n + 1
                 PROVE  \/ \E j \in 1 .. m : list[i] = list2[j]
                        \/ \E j \in 1 .. q - p : i = p + j
      OBVIOUS
    <2>1. i \in 1 .. p \/ i \in p + 1 .. q \/ i \in q + 1 .. r \/ i \in r + 1 .. n \/ i = n + 1
      BY <1>1
    <2>2. CASE i \in 1 .. p
      BY <1>4, <1>7, <2>2
    <2>3. CASE i \in p + 1 .. q
      <3>1. i - p \in 1 .. q - p /\ i = p + (i - p)
        BY <2>3
      <3> QED
        BY <3>1
    <2>4. CASE i \in q + 1 .. r
      <3>1. i - q \in 1 .. r - q /\ i = q + (i - q)
        BY <2>4
      <3>2. p + (n - r) + (i - q) \in 1 .. m /\ x(p + (n - r) + (i - q)) = i
        BY <1>4, <3>1
      <3> QED
        BY <1>7, <3>2
    <2>5. CASE i \in r + 1 .. n
      <3>1. i - r \in 1 .. n - r /\ i = r + (i - r)
        BY <1>1, <2>5
      <3>2. p + (i - r) \in 1 .. m /\ x(p + (i - r)) = i
        BY <1>4, <3>1
      <3> QED
        BY <1>7, <3>2
    <2>6. CASE i = n + 1
      BY <1>4, <1>7, <2>6
    <2> QED
      BY <2>1, <2>2, <2>3, <2>4, <2>5, <2>6
  <1>11. /\ \A i \in 1 .. p : list2[i] = list[i]
         /\ \A i \in 1 .. n - r : list2[p + i] = list[r + i]
         /\ \A i \in 1 .. r - q : list2[p + (n - r) + i] = list[q + i]
         /\ list2[m] = list[n + 1]
    BY <1>4, <1>7
  <1>12. Len(list2) = m /\ m > 1
    BY <1>1, <1>7
  <1> QED
    BY <1>7, <1>8, <1>9, <1>10, <1>11, <1>12, Zenon DEF m, Rearranged

\* Something was pushed.
LEMMA PushedSome ==
  ASSUME TypeOK, pc = "push", todo = <<>>,
         NEW list, NEW p, NEW q, NEW r, NEW old, Linking(list, p, q, r, old),
         NEW n, n = Len(list) - 1
  PROVE  /\ r < n
         /\ \E m \in Mutated : Messages(SubSeq(list, r + 1, n)) = Limited(m)
  <1>1. PICK m \in Mutated : Messages(SubSeq(list, r + 1, n)) \o <<>> = Limited(m)
    BY DEF Linking, Pushing
  <1>2. Limited(m) # <<>>
    BY LimitedIs
  <1>3. Len(list) \in Nat /\ r \in Nat /\ r < Len(list) /\ n \in Nat /\ r <= n /\ n < Len(list)
    <2>1. Len(list) \in Nat /\ r \in Nat /\ r < Len(list)
      BY ListFacts
    <2> QED
      BY <2>1
  <1>4. /\ Messages(SubSeq(list, r + 1, n)) \in Seq(Message)
        /\ Len(Messages(SubSeq(list, r + 1, n))) = n - r
    BY <1>3, SegmentMessages
  <1> DEFINE a == Messages(SubSeq(list, r + 1, n))
  <1> HIDE DEF a
  <1>5. a \in Seq(Message) /\ Len(a) = n - r /\ a \o <<>> = Limited(m)
    BY <1>1, <1>4 DEF a
  <1>6. a = Limited(m)
    BY <1>5, ConcatEmptySeq
  <1>7. r # n
    BY <1>2, <1>5, <1>6
  <1>8. r < n
    BY <1>3, <1>7
  <1> QED
    BY <1>6, <1>8 DEF a

\* What was pushed is M2 now, and the old M2 is loose.
LEMMA SpliceLinks ==
  ASSUME TypeOK, Kept, Splice,
         NEW list, NEW p, NEW q, NEW r, NEW old, Linking(list, p, q, r, old),
         NEW n, n = Len(list) - 1, NEW list2, list2 = Spliced(list, p, q, r),
         NEW old2, old2 = SubSeq(list, p + 1, q)
  PROVE  /\ TypeOK' /\ Kept'
         /\ Linking(list2, p, p + (n - r), n - (q - p), old2)'
  <1>1. PICK first : first = next[prev_last_message]
    OBVIOUS
  <1>2. /\ pc = "push" /\ todo = <<>> /\ pc' = "free"
        /\ next' = Linked(get_last_message, first)
        /\ head' = IF M2_prev = NULL THEN first ELSE head
        /\ cur_it' = IF M2_prev = NULL THEN head ELSE next[M2_prev]
        /\ data' = data /\ tail' = tail /\ size' = size /\ pool' = pool /\ cells' = cells
        /\ M2_prev' = M2_prev /\ M2_next' = M2_next
        /\ prev_last_message' = prev_last_message /\ todo' = todo
        /\ stage_cur' = stage_cur /\ entries' = entries
    BY <1>1 DEF Splice, marks
  <1>3. old = <<>>
    BY <1>2 DEF Linking, Loose
  <1>4. /\ list \in Seq(1 .. cells) /\ n \in Nat /\ Len(list) = n + 1
        /\ \A i \in 1 .. n + 1 : list[i] \in 1 .. cells /\ list[i] \in Cell /\ list[i] # NULL
        /\ \A i, j \in 1 .. n + 1 : list[i] = list[j] => i = j
        /\ head = list[1] /\ tail = list[n + 1]
        /\ \A i \in 1 .. n : next[list[i]] = list[i + 1] /\ data[list[i]] # <<>>
        /\ p \in Nat /\ q \in Nat /\ r \in Nat /\ p < q /\ q <= r /\ r < n
    <2>1. r < n
      BY <1>2, PushedSome
    <2>2. /\ list \in Seq(1 .. cells) /\ Len(list) \in Nat /\ Len(list) > 1
          /\ \A i \in 1 .. Len(list) : list[i] \in 1 .. cells /\ list[i] \in Cell /\ list[i] # NULL
          /\ \A i, j \in 1 .. Len(list) : list[i] = list[j] => i = j
          /\ head = list[1] /\ tail = list[Len(list)]
          /\ \A i \in 1 .. Len(list) - 1 : next[list[i]] = list[i + 1] /\ data[list[i]] # <<>>
          /\ p \in Nat /\ q \in Nat /\ r \in Nat /\ p < q /\ q <= r
      BY ListFacts
    <2>3. n \in Nat /\ Len(list) = n + 1
      BY <2>2
    <2> QED
      BY <2>1, <2>2, <2>3
  <1>5. PICK k, m : k = n - r /\ m = n + 1 - (q - p)
    OBVIOUS
  <1>6. /\ p \in Nat /\ q \in Nat /\ r \in Nat /\ n \in Nat /\ k \in Nat /\ m \in Nat
        /\ p < q /\ q <= r /\ r < n /\ k > 0 /\ r + k = n /\ m > 1
        /\ m = p + k + (r - q) + 1 /\ m + (q - p) = n + 1 /\ n - (q - p) = m - 1
    BY <1>4, <1>5
  <1>7. /\ list2 \in Seq(1 .. cells) /\ Len(list2) = m
        /\ \A i \in 1 .. p : list2[i] = list[i]
        /\ \A i \in 1 .. k : list2[p + i] = list[r + i]
        /\ \A i \in 1 .. r - q : list2[p + k + i] = list[q + i]
        /\ list2[m] = list[n + 1]
        /\ IsInjective(list2)
        /\ \A i \in 1 .. m, j \in 1 .. q - p : list2[i] # list[p + j]
        /\ \A i \in 1 .. n + 1 : \/ \E j \in 1 .. m : list[i] = list2[j]
                                 \/ \E j \in 1 .. q - p : i = p + j
    <2>1. r < Len(list) - 1 /\ \A i, j \in 1 .. Len(list) : list[i] = list[j] => i = j
      BY <1>4
    <2>2. Rearranged(1 .. cells, list, p, q, r, n, list2)
      BY <1>4, <2>1, SplicedIs
    <2>3. n + 1 - (q - p) = m /\ n - r = k
      BY <1>5
    <2> QED
      BY <2>2, <2>3, Zenon DEF Rearranged
  <1>8. /\ old2 \in Seq(1 .. cells) /\ Len(old2) = q - p
        /\ \A i \in 1 .. q - p : old2[i] = list[p + i]
    <2>1. p + 1 \in 1 .. Len(list) + 1 /\ q \in p + 1 - 1 .. Len(list)
      BY <1>4
    <2>2. old2 \in Seq(1 .. cells) /\ Len(old2) = q - (p + 1) + 1
          /\ \A i \in 1 .. q - (p + 1) + 1 : old2[i] = list[p + 1 + i - 1]
      BY <1>4, <2>1, SubSeqFacts
    <2>3. ASSUME NEW i \in 1 .. q - p
          PROVE  old2[i] = list[p + i]
      <3>1. i \in 1 .. q - (p + 1) + 1 /\ p + 1 + i - 1 = p + i
        BY <1>4
      <3> QED
        BY <2>2, <3>1
    <2> QED
      BY <1>4, <2>2, <2>3
  <1>9. /\ M2_prev = IF p = 0 THEN NULL ELSE list[p]
        /\ M2_next = IF q = r THEN tail ELSE list[q + 1]
        /\ prev_last_message = list[r]
    BY <1>2 DEF Linking, Marked
  <1>10. first = list[r + 1] /\ get_last_message = list[n]
    <2>1. get_last_message = list[Len(list) - 1]
      BY <1>2, LastMessage
    <2>2. r \in 1 .. n
      BY <1>4
    <2> QED
      BY <1>1, <1>4, <1>9, <2>1, <2>2
  <1>11. /\ head' = IF p = 0 THEN list[r + 1] ELSE list[1]
         /\ cur_it' = list[p + 1]
         /\ M2_prev = NULL <=> p = 0
    <2>1. CASE p = 0
      <3>1. p + 1 = 1 /\ M2_prev = NULL
        BY <1>9, <2>1
      <3> QED
        BY <1>2, <1>4, <1>10, <2>1, <3>1
    <2>2. CASE p # 0
      <3>1. p \in 1 .. n /\ p \in 1 .. n + 1
        BY <1>4, <2>2
      <3>2. M2_prev # NULL /\ next[M2_prev] = list[p + 1]
        BY <1>4, <1>9, <2>2, <3>1
      <3> QED
        BY <1>2, <1>4, <2>2, <3>2
    <2> QED
      BY <2>1, <2>2
  <1>12. next \in [Cell -> Cell \cup {NULL}] /\ M2_next \in Cell /\ tail \in Cell
         /\ first \in Cell
    <2>1. n + 1 \in 1 .. n + 1 /\ r + 1 \in 1 .. n + 1 /\ q + 1 \in 1 .. n + 1
      BY <1>4
    <2> QED
      BY <1>4, <1>9, <1>10, <2>1 DEF TypeOK
  <1>13. /\ next' \in [Cell -> Cell \cup {NULL}]
         /\ p # 0 => next'[list[p]] = list[r + 1]
         /\ next'[list[n]] = M2_next
         /\ next'[list[r]] = tail
         /\ \A i \in 1 .. n : i # p /\ i # n /\ i # r => next'[list[i]] = list[i + 1]
    <2>1. /\ r \in 1 .. n + 1 /\ n \in 1 .. n + 1 /\ r # n /\ p # r /\ p # n
          /\ (p # 0 => p \in 1 .. n + 1)
      BY <1>4
    <2>2. /\ list[r] \in Cell /\ list[n] \in Cell /\ list[r] # list[n]
          /\ (p # 0 => list[p] \in Cell /\ list[p] # list[r] /\ list[p] # list[n])
      BY <1>4, <2>1
    <2>3. PICK f : f = IF p = 0 THEN next ELSE [next EXCEPT ![list[p]] = first]
      OBVIOUS
    <2>4. next' = [[f EXCEPT ![list[n]] = M2_next] EXCEPT ![list[r]] = tail]
      <3>1. (IF M2_prev = NULL THEN next ELSE [next EXCEPT ![M2_prev] = first]) = f
        BY <1>9, <1>11, <2>3
      <3> QED
        BY <1>2, <1>9, <1>10, <3>1, Zenon DEF Linked
    <2>5. /\ f \in [Cell -> Cell \cup {NULL}]
          /\ (p # 0 => f[list[p]] = list[r + 1])
          /\ \A c \in Cell : (p # 0 => c # list[p]) => f[c] = next[c]
      BY <1>10, <1>12, <2>2, <2>3
    <2>6. /\ next' \in [Cell -> Cell \cup {NULL}]
          /\ next'[list[n]] = M2_next /\ next'[list[r]] = tail
          /\ \A c \in Cell : c # list[n] /\ c # list[r] => next'[c] = f[c]
      BY <1>12, <2>2, <2>4, <2>5
    <2>7. ASSUME NEW i \in 1 .. n, i # p, i # n, i # r
          PROVE  next'[list[i]] = list[i + 1]
      <3>1. i \in 1 .. n + 1
        BY <1>4
      <3>2. list[i] \in Cell /\ list[i] # list[n] /\ list[i] # list[r]
            /\ (p # 0 => list[i] # list[p])
        BY <1>4, <2>1, <2>7, <3>1
      <3>3. next'[list[i]] = next[list[i]]
        BY <2>5, <2>6, <3>2
      <3> QED
        BY <1>4, <3>3
    <2> QED
      BY <2>2, <2>5, <2>6, <2>7
  <1>14. TypeOK'
    <2>1. head' \in Cell /\ cur_it' \in Cell
      <3>1. r + 1 \in 1 .. n + 1 /\ 1 \in 1 .. n + 1 /\ p + 1 \in 1 .. n + 1
        BY <1>4
      <3> QED
        BY <1>4, <1>11, <3>1
    <2>2. {head', tail', M2_prev', M2_next', prev_last_message', cur_it'} \subseteq Cell \cup {NULL}
      BY <1>2, <2>1 DEF TypeOK
    <2> QED
      BY <1>2, <1>13, <2>2 DEF TypeOK
  <1>15. Kept'
    BY <1>2, KeptSame
  <1>16. Listed(list2)'
    <2>1. head' = list2[1] /\ tail' = Last(list2)
      <3>1. head' = list2[1]
        <4>1. CASE p = 0
          <5>1. 1 \in 1 .. k /\ p + 1 = 1
            BY <1>6, <4>1
          <5>2. list2[p + 1] = list[r + 1]
            BY <1>7, <5>1
          <5> QED
            BY <1>11, <4>1, <5>1, <5>2
        <4>2. CASE p # 0
          <5>1. 1 \in 1 .. p
            BY <1>4, <4>2
          <5> QED
            BY <1>7, <1>11, <4>2, <5>1
        <4> QED
          BY <4>1, <4>2
      <3> QED
        BY <1>2, <1>4, <1>7, <3>1 DEF Last
    <2>2. ASSUME NEW i \in 1 .. m - 1
          PROVE  next'[list2[i]] = list2[i + 1] /\ data'[list2[i]] # <<>>
      <3>1. CASE i < p
        <4>1. i \in 1 .. p /\ i + 1 \in 1 .. p /\ i \in 1 .. n /\ i # p /\ i # n /\ i # r
          BY <1>6, <3>1
        <4>2. list2[i] = list[i] /\ list2[i + 1] = list[i + 1]
          BY <1>7, <4>1
        <4>3. next'[list[i]] = list[i + 1] /\ data[list[i]] # <<>>
          BY <1>4, <1>13, <4>1
        <4> QED
          BY <1>2, <4>2, <4>3
      <3>2. CASE i = p
        <4>1. i \in 1 .. p /\ p # 0 /\ 1 \in 1 .. k /\ p \in 1 .. n
          BY <1>4, <1>6, <3>2
        <4>2. list2[i] = list[p] /\ list2[p + 1] = list[r + 1]
          BY <1>7, <3>2, <4>1
        <4> QED
          BY <1>2, <1>4, <1>13, <3>2, <4>1, <4>2
      <3>3. CASE p < i /\ i < p + k
        <4>1. PICK j : j = i - p
          OBVIOUS
        <4>2. /\ j \in 1 .. k /\ j + 1 \in 1 .. k /\ p + j = i /\ p + (j + 1) = i + 1
              /\ r + j \in 1 .. n /\ r + j # p /\ r + j # n /\ r + j # r
              /\ r + j + 1 = r + (j + 1)
          BY <1>6, <3>3, <4>1
        <4>3. list2[p + j] = list[r + j] /\ list2[p + (j + 1)] = list[r + (j + 1)]
          BY <1>7, <4>2
        <4>4. next'[list[r + j]] = list[r + j + 1] /\ data[list[r + j]] # <<>>
          BY <1>4, <1>13, <4>2
        <4> QED
          BY <1>2, <4>2, <4>3, <4>4
      <3>4. CASE i = p + k
        <4>1. k \in 1 .. k /\ r + k = n /\ n \in 1 .. n
          BY <1>6
        <4>2. list2[i] = list[n]
          BY <1>7, <3>4, <4>1
        <4>3. M2_next = list2[i + 1]
          <5>1. CASE q = r
            <6>1. i + 1 = m
              BY <1>4, <1>6, <3>4, <5>1
            <6> QED
              BY <1>4, <1>7, <1>9, <5>1, <6>1
          <5>2. CASE q # r
            <6>1. 1 \in 1 .. r - q
              BY <1>4, <5>2
            <6>2. list2[p + k + 1] = list[q + 1]
              BY <1>7, <6>1
            <6> QED
              BY <1>9, <3>4, <5>2, <6>2
          <5> QED
            BY <5>1, <5>2
        <4> QED
          BY <1>2, <1>4, <1>13, <4>1, <4>2, <4>3
      <3>5. CASE p + k < i /\ i < m - 1
        <4>1. PICK j : j = i - (p + k)
          OBVIOUS
        <4>2. /\ j \in 1 .. r - q /\ j + 1 \in 1 .. r - q
              /\ p + k + j = i /\ p + k + (j + 1) = i + 1
              /\ q + j \in 1 .. n /\ q + j # p /\ q + j # n /\ q + j # r
              /\ q + j + 1 = q + (j + 1)
          BY <1>6, <3>5, <4>1
        <4>3. list2[p + k + j] = list[q + j] /\ list2[p + k + (j + 1)] = list[q + (j + 1)]
          BY <1>7, <4>2
        <4>4. next'[list[q + j]] = list[q + j + 1] /\ data[list[q + j]] # <<>>
          BY <1>4, <1>13, <4>2
        <4> QED
          BY <1>2, <4>2, <4>3, <4>4
      <3>6. CASE p + k < i /\ i = m - 1
        <4>1. r - q \in 1 .. r - q /\ p + k + (r - q) = i /\ q + (r - q) = r /\ r \in 1 .. n
              /\ i + 1 = m
          BY <1>6, <3>6
        <4>2. list2[p + k + (r - q)] = list[q + (r - q)]
          BY <1>7, <4>1
        <4>3. list2[i] = list[r] /\ list2[i + 1] = tail
          BY <1>4, <1>7, <4>1, <4>2
        <4> QED
          BY <1>2, <1>4, <1>13, <4>1, <4>3
      <3>7. i < p \/ i = p \/ (p < i /\ i < p + k) \/ i = p + k \/ (p + k < i /\ i < m - 1)
            \/ (p + k < i /\ i = m - 1)
        BY <1>6
      <3> QED
        BY <3>1, <3>2, <3>3, <3>4, <3>5, <3>6, <3>7
    <2> QED
      BY <1>2, <1>6, <1>7, <2>1, <2>2 DEF Listed
  <1>17. Marked(list2, p, p + k, m - 1)'
    <2>1. /\ p + k \in Nat /\ m - 1 \in Nat /\ p < p + k /\ p + k <= m - 1 /\ m - 1 < Len(list2)
          /\ m - 1 = Len(list2) - 1
      <3>1. Len(list2) = m
        BY <1>7
      <3> QED
        BY <1>6, <3>1
    <2>2. M2_prev' = IF p = 0 THEN NULL ELSE list2[p]
      <3>1. p # 0 => p \in 1 .. p
        BY <1>4
      <3> QED
        BY <1>2, <1>7, <1>9, <3>1
    <2>3. M2_next' = IF p + k = m - 1 THEN tail' ELSE list2[p + k + 1]
      <3>1. p + k = m - 1 <=> q = r
        BY <1>6
      <3>2. q # r => 1 \in 1 .. r - q
        BY <1>4
      <3> QED
        BY <1>2, <1>7, <1>9, <3>1, <3>2
    <2> QED
      BY <1>2, <1>4, <2>1, <2>2, <2>3 DEF Marked
  <1>18. Loose(old2)'
    <2>1. old2 # <<>> /\ cur_it' = old2[1]
      <3>1. 1 \in 1 .. q - p /\ q - p # 0
        BY <1>6
      <3>2. old2[1] = list[p + 1] /\ Len(old2) # 0
        BY <1>8, <3>1
      <3>3. old2 # <<>>
        BY <3>2
      <3> QED
        BY <1>11, <3>2, <3>3
    <2>2. next'[Last(old2)] = M2_next'
      <3>1. q - p \in 1 .. q - p /\ p + (q - p) = q /\ q \in 1 .. n /\ q # p /\ q # n
        BY <1>4
      <3>2. Last(old2) = list[q]
        <4>1. old2[q - p] = list[p + (q - p)]
          BY <1>8, <3>1
        <4> QED
          BY <1>8, <3>1, <4>1 DEF Last
      <3>3. CASE q = r
        BY <1>2, <1>9, <1>13, <3>2, <3>3
      <3>4. CASE q # r
        BY <1>2, <1>9, <1>13, <3>1, <3>2, <3>4
      <3> QED
        BY <3>3, <3>4
    <2>3. ASSUME NEW i \in 1 .. Len(old2) - 1
          PROVE  next'[old2[i]] = old2[i + 1]
      <3>1. /\ i \in 1 .. q - p /\ i + 1 \in 1 .. q - p /\ p + i \in 1 .. n
            /\ p + i # p /\ p + i # n /\ p + i # r /\ p + i + 1 = p + (i + 1)
        BY <1>4, <1>8
      <3>2. old2[i] = list[p + i] /\ old2[i + 1] = list[p + (i + 1)]
        BY <1>8, <3>1
      <3>3. next'[list[p + i]] = list[p + i + 1]
        BY <1>13, <3>1
      <3> QED
        BY <3>1, <3>2, <3>3
    <2>4. IsInjective(old2)
      <3>1. \A i, j \in 1 .. q - p : old2[i] = old2[j] => i = j
        <4> SUFFICES ASSUME NEW i \in 1 .. q - p, NEW j \in 1 .. q - p, old2[i] = old2[j]
                     PROVE  i = j
          OBVIOUS
        <4>1. p + i \in 1 .. n + 1 /\ p + j \in 1 .. n + 1
          BY <1>4
        <4>2. list[p + i] = list[p + j]
          BY <1>8
        <4>3. p + i = p + j
          BY <1>4, <4>1, <4>2
        <4> QED
          BY <1>4, <4>3
      <3> QED
        BY <1>8, <3>1, InjectiveSeq
    <2> QED
      BY <1>2, <1>8, <2>1, <2>2, <2>3, <2>4 DEF Loose
  <1>19. Counted(list2, old2)'
    <2>1. /\ ToSet(list2) = {list2[i] : i \in 1 .. m}
          /\ ToSet(old2) = {old2[i] : i \in 1 .. q - p}
          /\ ToSet(list) = {list[i] : i \in 1 .. n + 1}
      <3>1. PICK S, l2, o2, l : S = 1 .. cells /\ l2 = list2 /\ o2 = old2 /\ l = list
        OBVIOUS
      <3>2. /\ l2 \in Seq(S) /\ Len(l2) = m
            /\ o2 \in Seq(S) /\ Len(o2) = q - p
            /\ l \in Seq(S) /\ Len(l) = n + 1
        BY <1>4, <1>7, <1>8, <3>1
      <3>3. /\ ToSet(l2) = {l2[i] : i \in 1 .. Len(l2)}
            /\ ToSet(o2) = {o2[i] : i \in 1 .. Len(o2)}
            /\ ToSet(l) = {l[i] : i \in 1 .. Len(l)}
        BY <3>2, ToSetIs
      <3>4. /\ ToSet(l2) = {l2[i] : i \in 1 .. m}
            /\ ToSet(o2) = {o2[i] : i \in 1 .. q - p}
            /\ ToSet(l) = {l[i] : i \in 1 .. n + 1}
        BY <3>2, <3>3, Zenon
      <3> QED
        BY <3>1, <3>4, Zenon
    <2>2. ToSet(list2) \cap ToSet(old2) = {}
      <3> SUFFICES ASSUME NEW i \in 1 .. m, NEW j \in 1 .. q - p
                   PROVE  list2[i] # old2[j]
        BY <2>1
      <3>1. list2[i] # list[p + j]
        BY <1>7
      <3>2. old2[j] = list[p + j]
        BY <1>8
      <3> QED
        BY <3>1, <3>2
    <2>3. ToSet(list) \subseteq ToSet(list2) \cup ToSet(old2)
      <3> SUFFICES ASSUME NEW i \in 1 .. n + 1
                   PROVE  list[i] \in ToSet(list2) \cup ToSet(old2)
        BY <2>1
      <3>1. CASE \E j \in 1 .. m : list[i] = list2[j]
        BY <2>1, <3>1
      <3>2. CASE \E j \in 1 .. q - p : i = p + j
        <4>1. PICK j \in 1 .. q - p : i = p + j
          BY <3>2
        <4>2. old2[j] = list[i]
          BY <1>8, <4>1
        <4> QED
          BY <2>1, <4>2
      <3> QED
        BY <1>7, <3>1, <3>2
    <2>4. ToSet(list2) \cup ToSet(old2) \subseteq ToSet(list)
      <3>1. ASSUME NEW i \in 1 .. m
            PROVE  list2[i] \in ToSet(list)
        <4>1. i \in 1 .. p \/ i - p \in 1 .. k \/ i - (p + k) \in 1 .. r - q \/ i = m
          BY <1>6
        <4>2. CASE i \in 1 .. p
          <5>1. i \in 1 .. n + 1
            BY <1>4, <4>2
          <5> QED
            BY <1>7, <2>1, <4>2, <5>1
        <4>3. CASE i - p \in 1 .. k
          <5>1. p + (i - p) = i /\ r + (i - p) \in 1 .. n + 1
            BY <1>4, <1>5, <4>3
          <5>2. list2[p + (i - p)] = list[r + (i - p)]
            BY <1>7, <4>3
          <5> QED
            BY <2>1, <5>1, <5>2
        <4>4. CASE i - (p + k) \in 1 .. r - q
          <5>1. p + k + (i - (p + k)) = i /\ q + (i - (p + k)) \in 1 .. n + 1
            BY <1>4, <1>6, <4>4
          <5>2. list2[p + k + (i - (p + k))] = list[q + (i - (p + k))]
            BY <1>7, <4>4
          <5> QED
            BY <2>1, <5>1, <5>2
        <4>5. CASE i = m
          <5>1. n + 1 \in 1 .. n + 1
            BY <1>4
          <5> QED
            BY <1>7, <2>1, <4>5, <5>1
        <4> QED
          BY <4>1, <4>2, <4>3, <4>4, <4>5
      <3>2. ASSUME NEW i \in 1 .. q - p
            PROVE  old2[i] \in ToSet(list)
        <4>1. p + i \in 1 .. n + 1
          BY <1>4
        <4> QED
          BY <1>8, <2>1, <4>1
      <3> QED
        BY <2>1, <3>1, <3>2
    <2>5. ToSet(list2) \cup ToSet(old2) = ToSet(list)
      BY <2>3, <2>4
    <2>6. /\ ToSet(pool) \cap ToSet(list) = {}
          /\ 1 .. cells \subseteq ToSet(list) \cup ToSet(pool)
          /\ n + 1 + Len(pool) = cells /\ size = n
      <3>1. ToSet(<<>>) = {} /\ Len(<<>>) = 0
        BY DEF ToSet
      <3>2. Counted(list, <<>>)
        BY <1>3 DEF Linking
      <3>3. Len(pool) \in Nat
        BY DEF TypeOK
      <3>4. n + 1 + 0 + Len(pool) = cells /\ size = n + 1 - 1 + 0
        BY <1>4, <3>1, <3>2 DEF Counted
      <3>5. n + 1 + Len(pool) = cells /\ size = n
        BY <1>4, <3>3, <3>4
      <3> QED
        BY <3>1, <3>2, <3>5 DEF Counted
    <2>7. Len(list2) + Len(old2) + Len(pool') = cells' /\ size' = Len(list2) - 1 + Len(old2)
      <3>1. Len(pool) \in Nat
        BY DEF TypeOK
      <3> QED
        <4>1. Len(list2) = m /\ Len(old2) = q - p /\ pool' = pool /\ cells' = cells /\ size' = size
          BY <1>2, <1>7, <1>8
        <4>2. m + (q - p) + Len(pool) = n + 1 + Len(pool) /\ m - 1 + (q - p) = n
          BY <1>6, <3>1
        <4> QED
          BY <2>6, <4>1, <4>2
    <2>8. ToSet(pool)' = ToSet(pool)
      BY <1>2 DEF ToSet
    <2>9. /\ ToSet(pool)' \cap (ToSet(list2) \cup ToSet(old2)) = {}
          /\ 1 .. cells' \subseteq ToSet(list2) \cup ToSet(old2) \cup ToSet(pool)'
      BY <1>2, <2>5, <2>6, <2>8
    <2> QED
      BY <2>2, <2>7, <2>9, Zenon DEF Counted
  <1>20. Pushing(list2, m - 1)'
    BY <1>2 DEF Pushing
  <1>21. Linking(list2, p, p + k, m - 1, old2)'
    BY <1>16, <1>17, <1>18, <1>19, <1>20 DEF Linking
  <1>22. p + (n - r) = p + k /\ n - (q - p) = m - 1
    BY <1>5, <1>6
  <1> QED
    BY <1>14, <1>15, <1>21, <1>22

-----------------------------------------------------------------------------
(* Freeing                                                                   *)

LEMMA TailFacts ==
  ASSUME NEW S, NEW s \in Seq(S), IsInjective(s), s # <<>>
  PROVE  /\ Tail(s) \in Seq(S) /\ IsInjective(Tail(s)) /\ Len(Tail(s)) = Len(s) - 1
         /\ \A i \in 1 .. Len(s) - 1 : Tail(s)[i] = s[i + 1]
         /\ s[1] \in S /\ s[1] \notin ToSet(Tail(s))
         /\ ToSet(s) = ToSet(Tail(s)) \cup {s[1]}
  <1>1. PICK n, t : n = Len(s) - 1 /\ t = Tail(s)
    OBVIOUS
  <1>2. n \in Nat /\ Len(s) = n + 1 /\ 1 \in 1 .. n + 1
    BY <1>1
  <1>3. t \in Seq(S) /\ Len(t) = n /\ \A i \in 1 .. n : t[i] = s[i + 1]
    BY <1>1
  <1>4. \A i, j \in 1 .. n + 1 : s[i] = s[j] => i = j
    BY <1>2, InjectiveSeq
  <1>5. ToSet(s) = {s[i] : i \in 1 .. n + 1} /\ ToSet(t) = {t[i] : i \in 1 .. n}
    <2>1. ToSet(s) = {s[i] : i \in 1 .. Len(s)} /\ ToSet(t) = {t[i] : i \in 1 .. Len(t)}
      BY <1>3, ToSetIs
    <2> QED
      BY <1>2, <1>3, <2>1, Zenon
  <1>6. ToSet(s) = ToSet(t) \cup {s[1]}
    <2>1. ASSUME NEW i \in 1 .. n + 1
          PROVE  s[i] \in ToSet(t) \cup {s[1]}
      <3>1. CASE i = 1
        BY <3>1
      <3>2. CASE i # 1
        <4>1. i - 1 \in 1 .. n /\ i - 1 + 1 = i
          BY <1>2, <3>2
        <4>2. t[i - 1] = s[i]
          BY <1>3, <4>1
        <4> QED
          BY <1>5, <4>1, <4>2
      <3> QED
        BY <3>1, <3>2
    <2>2. ASSUME NEW i \in 1 .. n
          PROVE  t[i] \in ToSet(s)
      <3>1. i + 1 \in 1 .. n + 1
        BY <1>2
      <3> QED
        BY <1>3, <1>5, <3>1
    <2>3. s[1] \in ToSet(s)
      BY <1>2, <1>5
    <2>4. ToSet(s) \subseteq ToSet(t) \cup {s[1]}
      BY <1>5, <2>1
    <2>5. ToSet(t) \subseteq ToSet(s)
      BY <1>5, <2>2
    <2> QED
      BY <2>3, <2>4, <2>5
  <1>7. s[1] \notin ToSet(t)
    <2> SUFFICES ASSUME NEW i \in 1 .. n
                 PROVE  t[i] # s[1]
      BY <1>5
    <2>1. i + 1 \in 1 .. n + 1 /\ i + 1 # 1
      BY <1>2
    <2> QED
      BY <1>2, <1>3, <1>4, <2>1
  <1>8. IsInjective(t)
    <2>1. \A i, j \in 1 .. n : t[i] = t[j] => i = j
      <3> SUFFICES ASSUME NEW i \in 1 .. n, NEW j \in 1 .. n, t[i] = t[j]
                   PROVE  i = j
        OBVIOUS
      <3>1. i + 1 \in 1 .. n + 1 /\ j + 1 \in 1 .. n + 1 /\ s[i + 1] = s[j + 1]
        BY <1>2, <1>3
      <3>2. i + 1 = j + 1
        BY <1>4, <3>1
      <3> QED
        BY <1>2, <3>2
    <2> QED
      BY <1>3, <2>1, InjectiveSeq
  <1>9. s[1] \in S
    BY <1>2
  <1> QED
    BY <1>1, <1>3, <1>6, <1>7, <1>8, <1>9

\* One cell goes from the old M2 to the pool.
LEMMA FreeLinks ==
  ASSUME TypeOK, Kept, FreeCell,
         NEW list, NEW p, NEW q, NEW r, NEW old, Linking(list, p, q, r, old)
  PROVE  Onward(list, p, q, r)
  <1>1. /\ pc = "free" /\ pool' = Append(pool, cur_it)
        /\ data' = [data EXCEPT ![cur_it] = <<>>]
        /\ next' = [next EXCEPT ![cur_it] = NULL]
        /\ size' = size - 1 /\ cur_it' = next[cur_it]
        /\ pc' = IF next[cur_it] = M2_next THEN "sent" ELSE "free"
        /\ head' = head /\ tail' = tail /\ cells' = cells /\ M2_prev' = M2_prev
        /\ M2_next' = M2_next /\ prev_last_message' = prev_last_message /\ todo' = todo
        /\ stage_cur' = stage_cur /\ entries' = entries
    BY DEF FreeCell, Freed, marks
  <1>2. /\ list \in Seq(1 .. cells) /\ Len(list) \in Nat /\ Len(list) > 1
        /\ \A i \in 1 .. Len(list) : list[i] \in Cell
        /\ head = list[1] /\ tail = list[Len(list)]
        /\ \A i \in 1 .. Len(list) - 1 : next[list[i]] = list[i + 1] /\ data[list[i]] # <<>>
        /\ p \in Nat /\ q \in Nat /\ r \in Nat /\ p < q /\ q <= r /\ r < Len(list)
        /\ old \in Seq(1 .. cells) /\ Len(old) \in Nat
        /\ \A i \in 1 .. Len(old) : old[i] \in 1 .. cells /\ old[i] \in Cell
        /\ \A i, j \in 1 .. Len(old) : old[i] = old[j] => i = j
        /\ \A i \in 1 .. Len(list), j \in 1 .. Len(old) : list[i] # old[j]
    BY ListFacts
  <1>3. /\ old # <<>> /\ cur_it = old[1] /\ next[Last(old)] = M2_next /\ IsInjective(old)
        /\ \A i \in 1 .. Len(old) - 1 : next[old[i]] = old[i + 1]
    BY <1>1 DEF Linking, Loose
  <1>4. PICK m : m = Len(old) - 1
    OBVIOUS
  <1>5. m \in Nat /\ Len(old) = m + 1 /\ 1 \in 1 .. m + 1 /\ m + 1 \in 1 .. m + 1
    BY <1>2, <1>3, <1>4
  <1>6. PICK old2 : old2 = Tail(old)
    OBVIOUS
  <1>7. /\ old2 \in Seq(1 .. cells) /\ IsInjective(old2) /\ Len(old2) = m
        /\ \A i \in 1 .. m : old2[i] = old[i + 1]
        /\ cur_it \notin ToSet(old2) /\ ToSet(old) = ToSet(old2) \cup {cur_it}
    BY <1>2, <1>3, <1>4, <1>6, TailFacts
  <1>8. cur_it \in Cell /\ cur_it \in 1 .. cells /\ \A i \in 1 .. Len(list) : list[i] # cur_it
    BY <1>2, <1>3, <1>5
  <1>9. next \in [Cell -> Cell \cup {NULL}] /\ data \in [Cell -> Seq(Pieces)]
    BY DEF TypeOK
  <1>10. /\ next' \in [Cell -> Cell \cup {NULL}] /\ data' \in [Cell -> Seq(Pieces)]
         /\ \A c \in Cell : c # cur_it => next'[c] = next[c] /\ data'[c] = data[c]
    <2>1. NULL \in Cell \cup {NULL} /\ <<>> \in Seq(Pieces)
      BY EmptySeq
    <2> QED
      BY <1>1, <1>8, <1>9, <2>1
  <1>11. PICK i \in 1 .. Len(list) : M2_next = list[i]
    <2>1. M2_next = IF q = r THEN tail ELSE list[q + 1]
      BY DEF Linking, Marked
    <2>2. Len(list) \in 1 .. Len(list) /\ (q # r => q + 1 \in 1 .. Len(list))
      BY <1>2
    <2> QED
      BY <1>2, <2>1, <2>2
  <1>12. next[cur_it] = M2_next <=> m = 0
    <2>1. CASE m = 0
      BY <1>3, <1>5, <2>1 DEF Last
    <2>2. CASE m # 0
      <3>1. 1 \in 1 .. Len(old) - 1 /\ 1 + 1 \in 1 .. Len(old)
        BY <1>5, <2>2
      <3>2. next[cur_it] = old[1 + 1]
        BY <1>3, <3>1
      <3> QED
        BY <1>2, <1>11, <2>2, <3>1, <3>2
    <2> QED
      BY <2>1, <2>2
  <1>13. pool \in Seq(1 .. cells) /\ IsInjective(pool)
    BY DEF TypeOK
  <1>14. /\ ToSet(list) \cap ToSet(old) = {}
         /\ ToSet(pool) \cap (ToSet(list) \cup ToSet(old)) = {}
         /\ 1 .. cells \subseteq ToSet(list) \cup ToSet(old) \cup ToSet(pool)
         /\ Len(list) + (m + 1) + Len(pool) = cells
         /\ size = Len(list) - 1 + (m + 1)
    BY <1>5 DEF Linking, Counted
  <1>15. PICK pool2 : pool2 = Append(pool, cur_it)
    OBVIOUS
  <1>16. /\ pool2 \in Seq(1 .. cells) /\ IsInjective(pool2) /\ Len(pool2) = Len(pool) + 1
         /\ ToSet(pool2) = ToSet(pool) \cup {cur_it}
    <2>1. cur_it \notin ToSet(pool)
      BY <1>7, <1>14
    <2>2. PICK S : S = 1 .. cells
      OBVIOUS
    <2>3. pool \in Seq(S) /\ cur_it \in S
      BY <1>8, <1>13, <2>2
    <2>4. /\ Append(pool, cur_it) \in Seq(S) /\ IsInjective(Append(pool, cur_it))
          /\ Len(Append(pool, cur_it)) = Len(pool) + 1
          /\ ToSet(Append(pool, cur_it)) = ToSet(pool) \cup {cur_it}
      BY <1>13, <2>1, <2>3, AppendFacts
    <2> QED
      BY <1>15, <2>2, <2>4, Zenon
  <1>17. TypeOK'
    <2>1. cur_it' \in Cell \cup {NULL}
      BY <1>1, <1>8, <1>9
    <2>2. {head', tail', M2_prev', M2_next', prev_last_message', cur_it'} \subseteq Cell \cup {NULL}
      BY <1>1, <2>1 DEF TypeOK
    <2>3. size' \in Nat
      BY <1>1, <1>2, <1>5, <1>14
    <2>4. pool' \in Seq(1 .. cells') /\ IsInjective(pool')
      BY <1>1, <1>15, <1>16
    <2>5. pc' \in {"select", "mutate", "push", "free", "sent"}
      BY <1>1
    <2> QED
      BY <1>1, <1>10, <2>2, <2>3, <2>4, <2>5 DEF TypeOK
  <1>18. Kept'
    BY <1>1, KeptSame
  <1>19. Listed(list)'
    <2>1. \A j \in 1 .. Len(list) - 1 : next'[list[j]] = list[j + 1] /\ data'[list[j]] # <<>>
      <3> SUFFICES ASSUME NEW j \in 1 .. Len(list) - 1
                   PROVE  next'[list[j]] = list[j + 1] /\ data'[list[j]] # <<>>
        OBVIOUS
      <3>1. j \in 1 .. Len(list)
        BY <1>2
      <3>2. list[j] \in Cell /\ list[j] # cur_it
        BY <1>2, <1>8, <3>1
      <3> QED
        BY <1>2, <1>10, <3>2
    <2>2. Listed(list)
      BY DEF Linking
    <2> QED
      BY <1>1, <2>1, <2>2 DEF Listed
  <1>20. Marked(list, p, q, r)'
    <2>1. pc' # "push"
      BY <1>1
    <2>2. Marked(list, p, q, r)
      BY DEF Linking
    <2> QED
      BY <1>1, <2>1, <2>2 DEF Marked
  <1>21. Loose(old2)'
    <2>1. ASSUME pc' = "free"
          PROVE  old2 # <<>> /\ cur_it' = old2[1] /\ next'[Last(old2)] = M2_next'
      <3>1. m # 0
        BY <1>1, <1>12, <2>1
      <3>2. 1 \in 1 .. Len(old) - 1 /\ 1 \in 1 .. m /\ m \in 1 .. m /\ m + 1 # 1
        BY <1>5, <3>1
      <3>3. old2 # <<>> /\ cur_it' = old2[1]
        <4>1. next[old[1]] = old[1 + 1] /\ old2[1] = old[1 + 1]
          BY <1>3, <1>7, <3>2
        <4>2. old2 # <<>>
          BY <1>7, <3>1
        <4> QED
          BY <1>1, <1>3, <4>1, <4>2
      <3>4. Last(old2) = old[m + 1] /\ Last(old) = old[m + 1]
        BY <1>5, <1>7, <3>2 DEF Last
      <3>5. old[m + 1] \in Cell /\ old[m + 1] # cur_it
        BY <1>2, <1>3, <1>5, <3>2
      <3> QED
        BY <1>1, <1>3, <1>10, <3>3, <3>4, <3>5
    <2>2. ASSUME pc' # "free"
          PROVE  old2 = <<>>
      <3>1. m = 0
        BY <1>1, <1>12, <2>2
      <3> QED
        BY <1>7, <3>1
    <2>3. ASSUME NEW j \in 1 .. Len(old2) - 1
          PROVE  next'[old2[j]] = old2[j + 1]
      <3>1. /\ j \in 1 .. m /\ j + 1 \in 1 .. m /\ j + 1 \in 1 .. Len(old) - 1
            /\ j + 1 \in 1 .. Len(old) /\ j + 1 # 1
        <4>1. j \in 1 .. m - 1
          BY <1>7
        <4> QED
          BY <1>5, <4>1
      <3>2. old2[j] = old[j + 1] /\ old2[j + 1] = old[j + 1 + 1]
        BY <1>7, <3>1
      <3>3. old[j + 1] \in Cell /\ old[j + 1] # cur_it
        BY <1>2, <1>3, <1>5, <3>1
      <3>4. next[old[j + 1]] = old[j + 1 + 1]
        BY <1>3, <3>1
      <3> QED
        BY <1>10, <3>2, <3>3, <3>4
    <2> QED
      BY <1>1, <1>7, <2>1, <2>2, <2>3 DEF Loose
  <1>22. Counted(list, old2)'
    <2>1. ToSet(pool)' = ToSet(pool2)
      BY <1>1, <1>15 DEF ToSet
    <2>2. Len(list) + Len(old2) + Len(pool2) = cells' /\ size' = Len(list) - 1 + Len(old2)
      <3>1. Len(pool) \in Nat /\ cells \in Nat
        BY <1>13, CellFacts
      <3> QED
        BY <1>1, <1>2, <1>5, <1>7, <1>14, <1>16, <3>1
    <2>3. /\ ToSet(list) \cap ToSet(old2) = {}
          /\ ToSet(pool2) \cap (ToSet(list) \cup ToSet(old2)) = {}
          /\ 1 .. cells' \subseteq ToSet(list) \cup ToSet(old2) \cup ToSet(pool2)
      BY <1>1, <1>7, <1>14, <1>16
    <2>4. Len(pool') = Len(pool2)
      BY <1>1, <1>15
    <2> QED
      BY <2>1, <2>2, <2>3, <2>4, Zenon DEF Counted
  <1>23. Pushing(list, r)'
    <2>1. pc' # "push"
      BY <1>1
    <2>2. todo = <<>>
      BY <1>1 DEF Linking, Pushing
    <2> QED
      BY <1>1, <2>1, <2>2 DEF Pushing
  <1>24. Linking(list, p, q, r, old2)'
    BY <1>19, <1>20, <1>21, <1>22, <1>23 DEF Linking
  <1>25. \A j \in 1 .. r : list[j] = list[j] /\ data'[list[j]] = data[list[j]]
    <2> SUFFICES ASSUME NEW j \in 1 .. r
                 PROVE  data'[list[j]] = data[list[j]]
      OBVIOUS
    <2>1. j \in 1 .. Len(list)
      BY <1>2
    <2> QED
      BY <1>2, <1>8, <1>10, <2>1
  <1>26. pc' # "select"
    BY <1>1
  <1> QED
    BY <1>17, <1>18, <1>24, <1>25, <1>26, Zenon DEF Onward

-----------------------------------------------------------------------------
(* The invariant                                                             *)

LEMMA OnwardFit ==
  ASSUME NEW list, NEW p, NEW q, NEW r, Onward(list, p, q, r)
  PROVE  Fit'
  <1>1. TypeOK' /\ Kept' /\ pc' # "select"
    BY DEF Onward
  <1>2. \E list2, old2 : Linking(list2, p, q, r, old2)'
    BY DEF Onward
  <1> QED
    BY <1>1, <1>2 DEF Fit

\* The steps that leave the three parts as they are.
Quiet ==
  \/ \E m \in Mutated : common_fuzz_stuff(m)
  \/ Push
  \/ FreeCell
  \/ \E n \in 0 .. size, keep \in BOOLEAN : run_target(n, keep)
  \/ UNCHANGED vars

LEMMA QuietLinks ==
  ASSUME TypeOK, Kept, Quiet, pc # "select",
         NEW list, NEW p, NEW q, NEW r, NEW old, Linking(list, p, q, r, old)
  PROVE  Onward(list, p, q, r)
  <1>1. CASE \E m \in Mutated : common_fuzz_stuff(m)
    BY <1>1, CommonLinks
  <1>2. CASE Push
    BY <1>2, PushLinks
  <1>3. CASE FreeCell
    BY <1>3, FreeLinks
  <1>4. CASE \E n \in 0 .. size, keep \in BOOLEAN : run_target(n, keep)
    BY <1>4, RunLinks
  <1>5. CASE UNCHANGED vars
    BY <1>5, StutterLinks
  <1> QED
    BY <1>1, <1>2, <1>3, <1>4, <1>5 DEF Quiet

Selects ==
  \E e \in 1 .. Len(entries) : \E start \in DOMAIN entries[e].lens :
    \E count \in 1 .. Len(entries[e].lens) - start + 1 : fuzz_one(entries[e], start, count)

LEMMA Steps ==
  [Next]_vars => \/ Selects \/ abandon_entry \/ Splice
                 \/ (pc = "select" /\ UNCHANGED vars)
                 \/ (pc # "select" /\ Quiet)
  <1>1. ASSUME NEW m \in Mutated, common_fuzz_stuff(m)
        PROVE  pc # "select"
    BY <1>1 DEF common_fuzz_stuff
  <1>2. Push => pc # "select"
    BY DEF Push
  <1>3. FreeCell => pc # "select"
    BY DEF FreeCell
  <1>4. ASSUME NEW n \in 0 .. size, NEW keep \in BOOLEAN, run_target(n, keep)
        PROVE  pc # "select"
    BY <1>4 DEF run_target
  <1> QED
    BY <1>1, <1>2, <1>3, <1>4 DEF Next, Selects, Quiet

LEMMA NextFit == Fit /\ [Next]_vars => Fit'
  <1> SUFFICES ASSUME Fit, [Next]_vars
               PROVE  Fit'
    OBVIOUS
  <1>1. CASE Selects
    BY <1>1, FuzzFit DEF Selects
  <1>2. CASE abandon_entry
    BY <1>2, AbandonFit
  <1>3. CASE Splice
    <2>1. TypeOK /\ Kept /\ pc # "select"
      BY <1>3 DEF Fit, Splice
    <2>2. PICK list, p, q, r, old : Linking(list, p, q, r, old)
      BY <2>1 DEF Fit
    <2>3. PICK n, list2, old2 : /\ n = Len(list) - 1 /\ list2 = Spliced(list, p, q, r)
                                /\ old2 = SubSeq(list, p + 1, q)
      OBVIOUS
    <2>4. /\ TypeOK' /\ Kept'
          /\ Linking(list2, p, p + (n - r), n - (q - p), old2)'
      BY <1>3, <2>1, <2>2, <2>3, SpliceLinks
    <2>5. pc' # "select"
      BY <1>3 DEF Splice
    <2> QED
      BY <2>4, <2>5 DEF Fit
  <1>4. CASE pc = "select" /\ UNCHANGED vars
    BY <1>4, SelectFit
  <1>5. CASE pc # "select" /\ Quiet
    <2>1. PICK list, p, q, r, old : Linking(list, p, q, r, old)
      BY <1>5 DEF Fit
    <2>2. TypeOK /\ Kept
      BY DEF Fit
    <2> QED
      BY <1>5, <2>1, <2>2, QuietLinks, OnwardFit
  <1> QED
    BY <1>1, <1>2, <1>3, <1>4, <1>5, Steps

LEMMA FitAlways == Spec => []Fit
  BY InitFit, NextFit, PTL DEF Spec

\* The invariant is inductive: the cells of the list are in one sequence without
\* repetition, cut in three and followed by what is being pushed.
THEOREM Invariance == Spec => []IInv
  BY FitAlways, FitInv, PTL

\* The cells named by the list and its marks were allocated, and the pool holds
\* none twice.
THEOREM TypeCorrect == Spec => []TypeOK
  <1>1. Fit => TypeOK
    BY DEF Fit
  <1> QED
    BY <1>1, FitAlways, PTL

\* Pushing, splicing and freeing lose no cell, free none that is in use, and keep
\* kl_messages->size the number of messages.
THEOREM CellsPartitionCorrect == Spec => []CellsPartition
  <1>1. Fit => CellsPartition
    <2> SUFFICES ASSUME Fit, Ready
                 PROVE  /\ ToSet(Path(head, tail)) \cup {tail} \cup ToSet(pool) = 1 .. cells
                        /\ Len(Path(head, tail)) + 1 + Len(pool) = cells
                        /\ size = Len(Path(head, tail))
      BY DEF CellsPartition
    <2>1. TypeOK /\ pc # "select" /\ pc # "free"
      BY DEF Fit, Ready
    <2>2. PICK list, p, q, r, old : Linking(list, p, q, r, old)
      BY <2>1 DEF Fit
    <2>3. old = <<>>
      BY <2>1, <2>2 DEF Linking, Loose
    <2>4. list \in Seq(1 .. cells) /\ Len(list) \in Nat /\ Len(list) > 1
          /\ IsInjective(list) /\ tail = Last(list)
      BY <2>1, <2>2, ListFacts DEF Linking, Listed
    <2>5. PICK path : path = Path(head, tail)
      OBVIOUS
    <2>6. path = Front(list)
      BY <2>1, <2>2, <2>5, Parts DEF Segments, Front
    <2>7. Len(path) = Len(list) - 1 /\ ToSet(list) = ToSet(path) \cup {tail}
      <3>1. list # <<>>
        BY <2>4
      <3>2. Len(Front(list)) = Len(list) - 1
            /\ ToSet(list) = ToSet(Front(list)) \cup {Last(list)}
        BY <2>4, <3>1, FrontFacts
      <3> QED
        BY <2>4, <2>6, <3>2
    <2>8. ToSet(<<>>) = {} /\ Len(<<>>) = 0
      BY DEF ToSet
    <2>9. /\ 1 .. cells \subseteq ToSet(list) \cup ToSet(pool)
          /\ Len(list) + 0 + Len(pool) = cells
          /\ size = Len(list) - 1 + 0
      BY <2>2, <2>3, <2>8 DEF Linking, Counted
    <2>10. ToSet(list) \subseteq 1 .. cells /\ ToSet(pool) \subseteq 1 .. cells
           /\ Len(pool) \in Nat
      <3>1. pool \in Seq(1 .. cells)
        BY <2>1 DEF TypeOK
      <3>2. ASSUME NEW s \in Seq(1 .. cells)
            PROVE  ToSet(s) \subseteq 1 .. cells
        <4>1. ToSet(s) = {s[i] : i \in 1 .. Len(s)}
          BY ToSetIs
        <4>2. \A i \in 1 .. Len(s) : s[i] \in 1 .. cells
          BY ElementOfSeq
        <4> QED
          BY <4>1, <4>2
      <3> QED
        BY <2>4, <3>1, <3>2
    <2>11. ToSet(path) \cup {tail} \cup ToSet(pool) = 1 .. cells
      BY <2>7, <2>9, <2>10
    <2>12. Len(path) + 1 + Len(pool) = cells /\ size = Len(path)
      BY <2>4, <2>7, <2>9, <2>10
    <2> QED
      BY <2>5, <2>11, <2>12
  <1> QED
    BY <1>1, FitAlways, PTL

\* However often a test case was mutated and saved, its regions are those of its
\* file.
THEOREM RegionsFitFileCorrect == Spec => []RegionsFitFile
  <1>1. Fit => RegionsFitFile
    <2> SUFFICES ASSUME Fit, NEW e \in DOMAIN entries
                 PROVE  /\ Bytes(entries[e].lens) = Len(entries[e].file)
                        /\ \A i \in DOMAIN entries[e].lens : entries[e].lens[i] > 0
      BY DEF RegionsFitFile
    <2>1. PICK msgs : msgs = Cut(entries[e])
      OBVIOUS
    <2>2. msgs \in Seq(Message) /\ entries[e] = Entry(msgs)
      BY <2>1 DEF Fit, Kept
    <2>3. entries[e].lens = Lengths(msgs) /\ entries[e].file = FlattenSeq(msgs)
      <3>1. Entry(msgs).lens = Lengths(msgs) /\ Entry(msgs).file = FlattenSeq(msgs)
        BY DEF Entry
      <3> QED
        BY <2>2, <3>1, Zenon
    <2>4. Bytes(Lengths(msgs)) = Len(FlattenSeq(msgs))
      BY <2>2, FlattenLen
    <2>5. \A i \in DOMAIN Lengths(msgs) : Lengths(msgs)[i] > 0
      BY <2>2, LengthsIs
    <2> QED
      BY <2>3, <2>4, <2>5, Zenon
  <1> QED
    BY <1>1, FitAlways, PTL

-----------------------------------------------------------------------------
(* The refinement                                                            *)

Part1 == Messages(Path(head, Start2))
Part2 == Messages(Path(Start2, Start3))
Part3 == Messages(Path(Start3, End))

\* What the parts are, by their lengths and their messages.
Read(part, list, i, j) ==
  /\ part \in Seq(Message) /\ Len(part) = j - i
  /\ \A k \in 1 .. j - i : part[k] = data[list[i + k]]

ThreeParts ==
  TypeOK /\ pc # "select" =>
    \A list, p, q, r, old : Linking(list, p, q, r, old) =>
      /\ Read(Part1, list, 0, p) /\ Read(Part2, list, p, q) /\ Read(Part3, list, q, r)
      /\ p \in Nat /\ q \in Nat /\ r \in Nat /\ p < q /\ q <= r

LEMMA ThreePartsRead == ThreeParts
  <1> SUFFICES ASSUME TypeOK, pc # "select",
                      NEW list, NEW p, NEW q, NEW r, NEW old, Linking(list, p, q, r, old)
               PROVE  /\ Read(Part1, list, 0, p) /\ Read(Part2, list, p, q)
                      /\ Read(Part3, list, q, r)
                      /\ p \in Nat /\ q \in Nat /\ r \in Nat /\ p < q /\ q <= r
    BY DEF ThreeParts
  <1>1. /\ p \in Nat /\ q \in Nat /\ r \in Nat /\ p < q /\ q <= r /\ r < Len(list)
        /\ Len(list) \in Nat
    BY ListFacts
  <1>2. ASSUME NEW i \in Nat, NEW j \in Nat, i <= j, j < Len(list)
        PROVE  Read(Messages(SubSeq(list, i + 1, j)), list, i, j)
    BY <1>2, SegmentMessages DEF Read
  <1>3. 0 <= p /\ p < Len(list) /\ p <= q /\ q < Len(list)
    BY <1>1
  <1>4. /\ Read(Messages(SubSeq(list, 0 + 1, p)), list, 0, p)
        /\ Read(Messages(SubSeq(list, p + 1, q)), list, p, q)
        /\ Read(Messages(SubSeq(list, q + 1, r)), list, q, r)
    BY <1>1, <1>2, <1>3
  <1>5. Segments(list, p, q, r, old)
    BY Parts
  <1>6. 0 + 1 = 1
    OBVIOUS
  <1> QED
    BY <1>1, <1>4, <1>5, <1>6, Zenon DEF Segments, Part1, Part2, Part3

LEMMA ThreePartsReadNext == ThreeParts'
  BY ThreePartsRead, PTL

\* Without a list there are no parts.
NoParts == TypeOK /\ NoCells /\ pc = "select" => Part1 = <<>> /\ Part2 = <<>> /\ Part3 = <<>>

LEMMA NoPartsRead == NoParts
  <1> SUFFICES ASSUME TypeOK, NoCells, pc = "select"
               PROVE  Part1 = <<>> /\ Part2 = <<>> /\ Part3 = <<>>
    BY DEF NoParts
  <1>1. Start2 = NULL /\ Start3 = NULL /\ End = NULL /\ head = NULL
    BY DEF NoCells, Start2, Start3, End
  <1>2. Path(NULL, NULL) = <<>>
    <2>1. Follows(<<>>, NULL, NULL)
      <3>1. <<>> \in Seq(Cell) /\ Len(<<>>) = 0 /\ 0 <= NCells
        BY EmptySeq, CellFacts
      <3>2. 1 .. Len(<<>>) = {}
        BY <3>1
      <3> QED
        BY <3>1, <3>2 DEF Follows
    <2>2. next \in [Cell -> Cell \cup {NULL}]
      BY DEF TypeOK
    <2> QED
      BY <2>1, <2>2, PathIs
  <1>3. Messages(<<>>) = <<>>
    BY DEF Messages
  <1> QED
    BY <1>1, <1>2, <1>3, Zenon DEF Part1, Part2, Part3

LEMMA NoPartsReadNext == NoParts'
  BY NoPartsRead, PTL

LEMMA QuietParts ==
  ASSUME Fit, Quiet, pc # "select"
  PROVE  Part1' = Part1 /\ Part2' = Part2 /\ Part3' = Part3
  <1>1. TypeOK /\ Kept
    BY DEF Fit
  <1>2. PICK list, p, q, r, old : Linking(list, p, q, r, old)
    BY DEF Fit
  <1>3. Onward(list, p, q, r)
    BY <1>1, <1>2, QuietLinks
  <1>4. PICK list2, old2 :
          /\ Linking(list2, p, q, r, old2)'
          /\ \A i \in 1 .. r : list2[i] = list[i] /\ data'[list[i]] = data[list[i]]
    BY <1>3 DEF Onward
  <1>5. TypeOK' /\ pc' # "select"
    BY <1>3 DEF Onward
  <1>6. /\ Read(Part1, list, 0, p) /\ Read(Part2, list, p, q) /\ Read(Part3, list, q, r)
        /\ p \in Nat /\ q \in Nat /\ r \in Nat /\ p < q /\ q <= r
    BY <1>1, <1>2, ThreePartsRead DEF ThreeParts
  <1>7. Read(Part1, list2, 0, p)' /\ Read(Part2, list2, p, q)' /\ Read(Part3, list2, q, r)'
    BY <1>4, <1>5, ThreePartsReadNext DEF ThreeParts
  <1>8. ASSUME NEW a, NEW b, NEW i \in Nat, NEW j \in Nat, j <= r,
               a \in Seq(Message), Len(a) = j - i,
               \A k \in 1 .. j - i : a[k] = data[list[i + k]],
               b \in Seq(Message), Len(b) = j - i,
               \A k \in 1 .. j - i : b[k] = data'[list2[i + k]]
        PROVE  b = a
    <2>1. ASSUME NEW k \in 1 .. Len(b)
          PROVE  b[k] = a[k]
      <3>1. k \in 1 .. j - i /\ i + k \in 1 .. r
        BY <1>6, <1>8
      <3> QED
        BY <1>4, <1>8, <3>1
    <2> QED
      BY <1>8, <2>1, SameSeq
  <1>9. p <= r /\ 0 \in Nat /\ r <= r
    BY <1>6
  <1>10. Part1' = Part1
    BY <1>6, <1>7, <1>8, <1>9 DEF Read
  <1>11. Part2' = Part2
    BY <1>6, <1>7, <1>8, <1>9 DEF Read
  <1>12. Part3' = Part3
    BY <1>6, <1>7, <1>8, <1>9 DEF Read
  <1> QED
    BY <1>10, <1>11, <1>12

\* M2 becomes what was pushed, in one step.
LEMMA SpliceParts ==
  ASSUME Fit, Splice
  PROVE  /\ Part1' = Part1 /\ Part3' = Part3 /\ Part2 # <<>>
         /\ \E m \in Mutated : Part2' = Limited(m)
  <1>1. TypeOK /\ Kept /\ pc = "push" /\ todo = <<>> /\ pc' = "free" /\ data' = data
    BY DEF Fit, Splice
  <1>2. PICK list, p, q, r, old : Linking(list, p, q, r, old)
    BY <1>1 DEF Fit
  <1>3. PICK n, list2, old2 : /\ n = Len(list) - 1 /\ list2 = Spliced(list, p, q, r)
                              /\ old2 = SubSeq(list, p + 1, q)
    OBVIOUS
  <1>4. PICK k, mid : k = n - r /\ mid = p + k
    OBVIOUS
  <1>5. /\ TypeOK' /\ Linking(list2, p, mid, n - (q - p), old2)'
    BY <1>1, <1>2, <1>3, <1>4, SpliceLinks
  <1>6. r < n /\ \E m \in Mutated : Messages(SubSeq(list, r + 1, n)) = Limited(m)
    BY <1>1, <1>2, <1>3, PushedSome
  <1>7. PICK m \in Mutated : Messages(SubSeq(list, r + 1, n)) = Limited(m)
    BY <1>6
  <1>8. /\ list \in Seq(1 .. cells) /\ Len(list) \in Nat
        /\ \A i, j \in 1 .. Len(list) : list[i] = list[j] => i = j
        /\ p \in Nat /\ q \in Nat /\ r \in Nat /\ p < q /\ q <= r
    BY <1>1, <1>2, ListFacts
  <1>9. Rearranged(1 .. cells, list, p, q, r, n, list2)
    <2>1. r < Len(list) - 1
      BY <1>3, <1>6
    <2> QED
      BY <1>3, <1>8, <2>1, SplicedIs
  <1>10. /\ n \in Nat /\ k \in Nat /\ n < Len(list) /\ r <= n
         /\ n - (q - p) - mid = r - q /\ mid - p = k
    BY <1>3, <1>4, <1>6, <1>8
  <1>11. /\ \A i \in 1 .. p : list2[i] = list[i]
         /\ \A i \in 1 .. k : list2[p + i] = list[r + i]
         /\ \A i \in 1 .. r - q : list2[mid + i] = list[q + i]
    BY <1>4, <1>9, Zenon DEF Rearranged
  <1>12. Read(Part1, list, 0, p) /\ Read(Part2, list, p, q) /\ Read(Part3, list, q, r)
    BY <1>1, <1>2, ThreePartsRead DEF ThreeParts
  <1>13. /\ Read(Part1, list2, 0, p)' /\ Read(Part2, list2, p, mid)'
         /\ Read(Part3, list2, mid, n - (q - p))'
    BY <1>1, <1>5, ThreePartsReadNext DEF ThreeParts
  <1>14. Part1' = Part1
    <2>1. /\ Part1 \in Seq(Message) /\ Len(Part1) = p - 0
          /\ \A i \in 1 .. p - 0 : Part1[i] = data[list[0 + i]]
          /\ Part1' \in Seq(Message) /\ Len(Part1') = p - 0
          /\ \A i \in 1 .. p - 0 : Part1'[i] = data'[list2[0 + i]]
      BY <1>12, <1>13 DEF Read
    <2>2. ASSUME NEW i \in 1 .. Len(Part1')
          PROVE  Part1'[i] = Part1[i]
      <3>1. i \in 1 .. p - 0 /\ i \in 1 .. p /\ 0 + i = i
        BY <1>8, <2>1
      <3> QED
        BY <1>1, <1>11, <2>1, <3>1
    <2> QED
      BY <2>1, <2>2, SameSeq
  <1>15. Part3' = Part3
    <2>1. /\ Part3 \in Seq(Message) /\ Len(Part3) = r - q
          /\ \A i \in 1 .. r - q : Part3[i] = data[list[q + i]]
          /\ Part3' \in Seq(Message) /\ Len(Part3') = r - q
          /\ \A i \in 1 .. r - q : Part3'[i] = data'[list2[mid + i]]
      BY <1>10, <1>12, <1>13 DEF Read
    <2>2. ASSUME NEW i \in 1 .. Len(Part3')
          PROVE  Part3'[i] = Part3[i]
      <3>1. i \in 1 .. r - q
        BY <2>1
      <3> QED
        BY <1>1, <1>11, <2>1, <3>1
    <2> QED
      BY <2>1, <2>2, SameSeq
  <1>16. Part2' = Limited(m)
    <2>1. PICK a : a = Messages(SubSeq(list, r + 1, n))
      OBVIOUS
    <2>2. /\ a \in Seq(Message) /\ Len(a) = n - r
          /\ \A i \in 1 .. n - r : a[i] = data[list[r + i]]
      <3>1. /\ Messages(SubSeq(list, r + 1, n)) \in Seq(Message)
            /\ Len(Messages(SubSeq(list, r + 1, n))) = n - r
            /\ \A i \in 1 .. n - r : Messages(SubSeq(list, r + 1, n))[i] = data[list[r + i]]
        <4>1. r \in Nat /\ n \in Nat /\ r <= n /\ n < Len(list)
          BY <1>8, <1>10
        <4> QED
          BY <1>1, <1>2, <4>1, SegmentMessages
      <3> QED
        BY <2>1, <3>1
    <2>3. /\ Part2' \in Seq(Message) /\ Len(Part2') = mid - p
          /\ \A i \in 1 .. mid - p : Part2'[i] = data'[list2[p + i]]
      BY <1>13 DEF Read
    <2>4. mid - p = k /\ n - r = k
      BY <1>4, <1>10
    <2>5. ASSUME NEW i \in 1 .. Len(Part2')
          PROVE  Part2'[i] = a[i]
      <3>1. i \in 1 .. k /\ i \in 1 .. n - r /\ i \in 1 .. mid - p
        BY <2>3, <2>4
      <3> QED
        BY <1>1, <1>11, <2>2, <2>3, <3>1
    <2>6. Part2' = a
      BY <2>2, <2>3, <2>4, <2>5, SameSeq
    <2> QED
      BY <1>7, <2>1, <2>6
  <1>17. Part2 # <<>>
    <2>1. Len(Part2) = q - p
      BY <1>12 DEF Read
    <2> QED
      BY <1>8, <2>1
  <1> QED
    BY <1>14, <1>15, <1>16, <1>17

\* Selecting a seed cuts it in three, abandoning it leaves nothing.
LEMMA SelectParts ==
  ASSUME Fit, Selects
  PROVE  Part2 = <<>> /\ Part2' # <<>>
  <1>1. pc = "select" /\ pc' = "mutate"
    BY DEF Selects, fuzz_one
  <1>2. Part2 = <<>>
    BY <1>1, NoPartsRead DEF NoParts, Fit
  <1>3. Fit'
    BY FuzzFit DEF Selects
  <1>4. PICK list, p, q, r, old : Linking(list, p, q, r, old)'
    BY <1>1, <1>3 DEF Fit
  <1>5. Read(Part2, list, p, q)' /\ p \in Nat /\ q \in Nat /\ p < q
    BY <1>1, <1>3, <1>4, ThreePartsReadNext DEF ThreeParts, Fit
  <1>6. Len(Part2') = q - p
    BY <1>5 DEF Read
  <1>7. Part2' # <<>>
    BY <1>5, <1>6
  <1> QED
    BY <1>2, <1>7

LEMMA EmptyParts ==
  ASSUME Fit', pc' = "select"
  PROVE  Part1' = <<>> /\ Part2' = <<>> /\ Part3' = <<>>
  BY NoPartsReadNext DEF NoParts, Fit

LEMMA PartStep ==
  ASSUME Fit, Fit', [Next]_vars
  PROVE  \/ Part2 = <<>> /\ Part2' # <<>>
         \/ /\ Part1' = Part1 /\ Part3' = Part3 /\ Part2 # <<>>
            /\ \E m \in Mutated : Part2' = Limited(m)
         \/ Part1' = <<>> /\ Part2' = <<>> /\ Part3' = <<>>
         \/ Part1' = Part1 /\ Part2' = Part2 /\ Part3' = Part3
  <1>1. CASE Selects
    BY <1>1, SelectParts
  <1>2. CASE abandon_entry
    <2>1. pc' = "select"
      BY <1>2 DEF abandon_entry
    <2> QED
      BY <2>1, EmptyParts
  <1>3. CASE Splice
    BY <1>3, SpliceParts
  <1>4. CASE pc = "select" /\ UNCHANGED vars
    <2>1. pc' = "select"
      BY <1>4 DEF vars
    <2> QED
      BY <2>1, EmptyParts
  <1>5. CASE pc # "select" /\ Quiet
    BY <1>5, QuietParts
  <1> QED
    BY <1>1, <1>2, <1>3, <1>4, <1>5, Steps

LEMMA ListInit == Init => ML!Init
  <1> SUFFICES ASSUME Init
               PROVE  ML!Init
    OBVIOUS
  <1>1. Fit /\ pc = "select"
    BY InitFit DEF Init
  <1>2. Part1 = <<>> /\ Part2 = <<>> /\ Part3 = <<>>
    BY <1>1, NoPartsRead DEF NoParts, Fit
  <1> QED
    BY <1>2 DEF ML!Init, Part1, Part2, Part3

LEMMA ListStep == Fit /\ Fit' /\ [Next]_vars => [ML!Next]_(ML!vars)
  <1> SUFFICES ASSUME Fit, Fit', [Next]_vars
               PROVE  ML!Next \/ UNCHANGED ML!vars
    OBVIOUS
  <1>1. CASE Part2 = <<>> /\ Part2' # <<>>
    BY <1>1 DEF ML!Next, ML!Load, Part2
  <1>2. ASSUME Part1' = Part1, Part3' = Part3, Part2 # <<>>,
               NEW m \in Mutated, Part2' = Limited(m)
        PROVE  ML!Next
    <2>1. /\ FlattenSeq(Limited(m)) = FlattenSeq(m) /\ Limited(m) # <<>>
          /\ Limited(m) \in Seq(Message) /\ Len(Limited(m)) <= max_seed_region_count + 1
      BY LimitedIs
    <2>2. Len(Limited(m)) \in 1 .. max_seed_region_count + 1
      <3>1. Len(Limited(m)) \in Nat /\ Len(Limited(m)) # 0
        BY <2>1
      <3> QED
        BY <2>1, <3>1, MaxCount
    <2>3. \E buf \in {FlattenSeq(s) : s \in Mutated} : FlattenSeq(Part2') = buf
      BY <1>2, <2>1
    <2>4. Len(Part2') \in 1 .. max_seed_region_count + 1
      BY <1>2, <2>2
    <2>5. ML!Mutate
      <3>1. \A msgs : ML!FlattenSeq(msgs) = FlattenSeq(msgs)
        BY DEF ML!FlattenSeq, FlattenSeq
      <3> QED
        BY <1>2, <2>3, <2>4, <3>1 DEF ML!Mutate, Part1, Part2, Part3
    <2> QED
      BY <2>5 DEF ML!Next
  <1>3. CASE Part1' = <<>> /\ Part2' = <<>> /\ Part3' = <<>>
    BY <1>3 DEF ML!Next, ML!Drop, Part1, Part2, Part3
  <1>4. CASE Part1' = Part1 /\ Part2' = Part2 /\ Part3' = Part3
    BY <1>4 DEF ML!vars, Part1, Part2, Part3
  <1> QED
    BY <1>1, <1>2, <1>3, <1>4, PartStep

\* The list implements MessageList: M1 and M3 stay as they are, and M2 becomes the
\* mutated buffer in one step, in at most one message more than any seed has.
THEOREM ListImplemented == Spec => ListSpec
  <1>1. Spec => ML!Init /\ [][ML!Next]_(ML!vars)
    BY ListInit, ListStep, FitAlways, PTL DEF Spec
  <1> QED
    BY <1>1 DEF ListSpec, ML!Spec
=============================================================================
