-------------------------- MODULE KeyRegionsProofs --------------------------
(***************************************************************************)
(* Proofs about the key byte regions.  The lists are built by loops, which *)
(* the model writes as functions of the number of turns: such a function   *)
(* exists (Loop), and what each turn keeps holds of its last value         *)
(* (NatSet).  First the loops, then the operations on one list, then the   *)
(* steps of the system.                                                    *)
(***************************************************************************)
EXTENDS KeyRegions, SequenceTheorems, NaturalsInduction, WellFoundedInduction, TLAPS

\* Induction over the natural numbers, for a set instead of a predicate.
LEMMA NatSet ==
  ASSUME NEW T, 0 \in T, \A n \in Nat : n \in T => n + 1 \in T
  PROVE  \A n \in Nat : n \in T
  <1> DEFINE R == OpToRel(<, Nat)
  <1>1. IsWellFoundedOn(R, Nat)
    BY NatLessThanWellFounded
  <1>2. \A x, y : <<x, y>> \in R <=> x \in Nat /\ y \in Nat /\ x < y
    BY DEF OpToRel
  <1> HIDE DEF R
  <1> SUFFICES ASSUME Nat \ T # {} PROVE FALSE
    OBVIOUS
  <1>3. PICK m \in Nat \ T : \A y \in Nat \ T : ~(<<y, m>> \in R)
    BY <1>1, WFMin
  <1>4. m # 0 /\ m - 1 \in Nat /\ m - 1 < m /\ m - 1 + 1 = m
    BY <1>3
  <1>5. <<m - 1, m>> \in R
    BY <1>2, <1>3, <1>4
  <1>6. m - 1 \in T
    BY <1>3, <1>4, <1>5
  <1> QED
    BY <1>3, <1>4, <1>6

\* A loop that stays in a set S, as the function from the turn to the value.
Turns(f, n, start, step) ==
  /\ f = [i \in 0 .. n |-> IF i = 0 THEN start ELSE step[<<f[i - 1], i>>]]

LEMMA Loop ==
  ASSUME NEW S, NEW start \in S, NEW step \in [S \X Nat -> S]
  PROVE  \A n \in Nat : \E f \in [0 .. n -> S] : Turns(f, n, start, step)
  <1> DEFINE T == {n \in Nat : \E f \in [0 .. n -> S] : Turns(f, n, start, step)}
  <1>1. 0 \in T
    <2> DEFINE f == [i \in 0 .. 0 |-> start]
    <2>1. f \in [0 .. 0 -> S]
      OBVIOUS
    <2>2. Turns(f, 0, start, step)
      BY DEF Turns
    <2> QED
      BY <2>1, <2>2
  <1>2. ASSUME NEW n \in Nat, n \in T
        PROVE  n + 1 \in T
    <2>1. PICK f \in [0 .. n -> S] : Turns(f, n, start, step)
      BY <1>2
    <2> DEFINE v == step[<<f[n], n + 1>>]
               g == [i \in 0 .. n + 1 |-> IF i = n + 1 THEN v ELSE f[i]]
    <2>2. v \in S
      <3>1. f[n] \in S
        BY <2>1
      <3> QED
        BY <3>1
    <2>3. g \in [0 .. n + 1 -> S]
      BY <2>1, <2>2
    <2>4. ASSUME NEW i \in 0 .. n + 1
          PROVE  g[i] = IF i = 0 THEN start ELSE step[<<g[i - 1], i>>]
      <3>1. CASE i = n + 1
        <4>1. n \in 0 .. n + 1 /\ n # n + 1 /\ i # 0 /\ i - 1 = n
          BY <3>1
        <4>2. g[n] = f[n]
          BY <4>1
        <4> QED
          BY <3>1, <4>1, <4>2
      <3>2. CASE i # n + 1
        <4>1. i \in 0 .. n /\ g[i] = f[i]
          BY <3>2
        <4>2. f[i] = IF i = 0 THEN start ELSE step[<<f[i - 1], i>>]
          BY <2>1, <4>1 DEF Turns
        <4>3. i # 0 => i - 1 \in 0 .. n + 1 /\ i - 1 # n + 1
          BY <4>1
        <4>4. i # 0 => g[i - 1] = f[i - 1]
          BY <4>3
        <4> QED
          BY <4>1, <4>2, <4>4
      <3> QED
        BY <3>1, <3>2
    <2>5. Turns(g, n + 1, start, step)
      <3> HIDE DEF v
      <3>1. g = [i \in 0 .. n + 1 |-> g[i]]
        OBVIOUS
      <3> HIDE DEF g
      <3>2. g = [i \in 0 .. n + 1 |-> IF i = 0 THEN start ELSE step[<<g[i - 1], i>>]]
        BY <2>4, <3>1
      <3> QED
        BY <3>2 DEF Turns
    <2> HIDE DEF g, v
    <2> QED
      BY <2>3, <2>5
  <1>3. \A n \in Nat : n \in T
    <2> HIDE DEF T
    <2> QED
      BY <1>1, <1>2, NatSet
  <1> QED
    BY <1>3

-----------------------------------------------------------------------------
(* One list of regions                                                       *)

Lists == Seq(Regions)

\* Sorted by start, the gaps exact, no region turned round.
Good(rs) ==
  /\ rs \in Lists
  /\ \A i \in 1 .. Len(rs) - 1 :
       /\ rs[i].start <= rs[i + 1].start
       /\ rs[i].gap = rs[i + 1].start - rs[i].end
  /\ \A i \in DOMAIN rs : rs[i].start <= rs[i].end

LEMMA ListFacts ==
  ASSUME NEW rs \in Lists
  PROVE  /\ Len(rs) \in Nat
         /\ DOMAIN rs = 1 .. Len(rs)
         /\ \A i \in 1 .. Len(rs) : rs[i] \in Regions
         /\ \A i \in 1 .. Len(rs) : rs[i].start \in Nat /\ rs[i].end \in Nat
                                      /\ rs[i].fade \in 0 .. Floor /\ rs[i].gap \in Int
  <1>1. \A i \in 1 .. Len(rs) : rs[i] \in Regions
    BY ElementOfSeq DEF Lists
  <1>2. \A r \in Regions : r.start \in Nat /\ r.end \in Nat /\ r.fade \in 0 .. Floor /\ r.gap \in Int
    BY DEF Regions
  <1>3. \A i \in 1 .. Len(rs) : rs[i].start \in Nat /\ rs[i].end \in Nat
                                      /\ rs[i].fade \in 0 .. Floor /\ rs[i].gap \in Int
    BY <1>1, <1>2
  <1>4. Len(rs) \in Nat /\ DOMAIN rs = 1 .. Len(rs)
    BY DEF Lists
  <1> QED
    BY <1>1, <1>3, <1>4

\* Where a new region belongs: there is a place in every list, and the CHOOSE of
\* Before takes one.
LEMMA PlaceExists ==
  ASSUME NEW rs \in Lists, NEW start \in Nat, rs # <<>>
  PROVE  \E k \in DOMAIN rs :
            /\ \A i \in 2 .. k : start > rs[i].start
            /\ k = Len(rs) \/ start <= rs[k + 1].start
  <1> DEFINE Passed(k) == \A i \in 2 .. k : start > rs[i].start
             T == {n \in Nat : n + 1 \in DOMAIN rs /\ Passed(n + 1)}
  <1>1. Len(rs) \in Nat /\ DOMAIN rs = 1 .. Len(rs) /\ Len(rs) > 0
        /\ \A i \in 1 .. Len(rs) : rs[i].start \in Nat
    <2>1. Len(rs) # 0
      BY EmptySeq DEF Lists
    <2> QED
      BY <2>1, ListFacts
  <1> SUFFICES ASSUME \A k \in DOMAIN rs : Passed(k) => k # Len(rs) /\ start > rs[k + 1].start
               PROVE  FALSE
    <2>1. ASSUME NEW k \in DOMAIN rs, Passed(k), ~(k # Len(rs) /\ start > rs[k + 1].start)
          PROVE  k = Len(rs) \/ start <= rs[k + 1].start
      <3>1. k # Len(rs) => k + 1 \in 1 .. Len(rs)
        BY <1>1
      <3> QED
        BY <1>1, <2>1, <3>1
    <2> QED
      BY <2>1
  <1>2. 0 \in T
    BY <1>1
  <1>3. ASSUME NEW n \in Nat, n \in T
        PROVE  n + 1 \in T
    <2>0. n + 1 + 1 = n + 2 /\ n + 1 \in DOMAIN rs /\ Passed(n + 1)
      BY <1>3
    <2>1. n + 1 # Len(rs) /\ start > rs[n + 2].start
      <3>1. n + 1 # Len(rs) /\ start > rs[n + 1 + 1].start
        BY <2>0
      <3> QED
        BY <2>0, <3>1
    <2>2. n + 2 \in DOMAIN rs
      <3>1. n + 1 \in 1 .. Len(rs) /\ n + 1 # Len(rs) /\ Len(rs) \in Nat
        BY <1>1, <2>0, <2>1
      <3>2. n + 2 \in 1 .. Len(rs)
        BY <3>1
      <3> QED
        BY <1>1, <3>2
    <2>3. Passed(n + 2)
      <3> SUFFICES ASSUME NEW i \in 2 .. n + 2 PROVE start > rs[i].start
        OBVIOUS
      <3>1. i = n + 2 \/ i \in 2 .. n + 1
        OBVIOUS
      <3> QED
        BY <2>0, <2>1, <3>1
    <2> QED
      BY <2>0, <2>2, <2>3
  <1> HIDE DEF T
  <1>4. \A n \in Nat : n \in T
    BY <1>2, <1>3, NatSet
  <1>5. Len(rs) \in T
    BY <1>1, <1>4
  <1> QED
    BY <1>1, <1>5 DEF T

LEMMA BeforePlace ==
  ASSUME NEW rs \in Lists, NEW start \in Nat
  PROVE  /\ Before(rs, start) \in 0 .. Len(rs)
         /\ Before(rs, start) = 0 /\ Len(rs) > 0 => start <= rs[1].start
         /\ Before(rs, start) > 0 => rs[Before(rs, start)].start <= start
         /\ Before(rs, start) > 0 /\ Before(rs, start) < Len(rs)
              => start <= rs[Before(rs, start) + 1].start
  <1>1. Len(rs) \in Nat /\ DOMAIN rs = 1 .. Len(rs) /\ \A i \in 1 .. Len(rs) : rs[i].start \in Nat
    BY ListFacts
  <1>2. rs # <<>> => Len(rs) > 0
    BY <1>1, EmptySeq DEF Lists
  <1>3. rs = <<>> => Len(rs) = 0
    OBVIOUS
  <1>4. CASE rs = <<>> \/ start < rs[1].start
    <2>1. Before(rs, start) = 0
      BY <1>4 DEF Before
    <2> QED
      BY <1>1, <1>3, <1>4, <2>1
  <1>5. CASE ~(rs = <<>> \/ start < rs[1].start)
    <2> DEFINE k == Before(rs, start)
    <2>1. /\ k \in DOMAIN rs
          /\ \A i \in 2 .. k : start > rs[i].start
          /\ k = Len(rs) \/ start <= rs[k + 1].start
      <3>1. \E j \in DOMAIN rs : /\ \A i \in 2 .. j : start > rs[i].start
                                 /\ j = Len(rs) \/ start <= rs[j + 1].start
        BY <1>5, PlaceExists
      <3> QED
        BY <1>5, <3>1, Zenon DEF Before
    <2> HIDE DEF k
    <2>2. k \in 1 .. Len(rs)
      BY <1>1, <2>1
    <2>3. rs[k].start <= start
      <3>1. CASE k = 1
        BY <1>1, <1>2, <1>5, <3>1
      <3>2. CASE k # 1
        <4>1. k \in 2 .. k
          BY <2>2, <3>2
        <4> QED
          BY <1>1, <2>1, <2>2, <4>1
      <3> QED
        BY <3>1, <3>2
    <2> QED
      BY <1>1, <2>1, <2>2, <2>3 DEF k
  <1> QED
    BY <1>4, <1>5

-----------------------------------------------------------------------------
(* Cutting a list and putting it together                                    *)

LEMMA FrontOf ==
  ASSUME NEW rs \in Lists, NEW k \in 0 .. Len(rs)
  PROVE  /\ SubSeq(rs, 1, k) \in Lists
         /\ Len(SubSeq(rs, 1, k)) = k
         /\ \A i \in 1 .. k : SubSeq(rs, 1, k)[i] = rs[i]
  <1>1. Len(rs) \in Nat /\ \A i \in 1 .. Len(rs) : rs[i] \in Regions
    BY ListFacts
  <1>2. k \in Int /\ \A i \in 1 .. k : rs[i] \in Regions
    BY <1>1
  <1>3. /\ SubSeq(rs, 1, k) \in Seq(Regions)
        /\ Len(SubSeq(rs, 1, k)) = IF 1 <= k THEN k - 1 + 1 ELSE 0
        /\ \A i \in 1 .. k - 1 + 1 : SubSeq(rs, 1, k)[i] = rs[1 + i - 1]
    BY <1>2, SubSeqProperties
  <1>4. \A i \in 1 .. k : i \in 1 .. k - 1 + 1 /\ 1 + i - 1 = i
    BY <1>1
  <1>5. (IF 1 <= k THEN k - 1 + 1 ELSE 0) = k
    BY <1>1
  <1>6. Len(SubSeq(rs, 1, k)) = k
    BY <1>3, <1>5
  <1>7. \A i \in 1 .. k : SubSeq(rs, 1, k)[i] = rs[i]
    BY <1>3, <1>4
  <1> QED
    BY <1>3, <1>6, <1>7 DEF Lists

LEMMA BackOf ==
  ASSUME NEW rs \in Lists, NEW k \in 0 .. Len(rs)
  PROVE  /\ SubSeq(rs, k + 1, Len(rs)) \in Lists
         /\ Len(SubSeq(rs, k + 1, Len(rs))) = Len(rs) - k
         /\ \A i \in 1 .. Len(rs) - k : SubSeq(rs, k + 1, Len(rs))[i] = rs[k + i]
  <1> DEFINE n == Len(rs)
             m == k + 1
  <1>1. n \in Nat /\ \A i \in 1 .. n : rs[i] \in Regions
    BY ListFacts
  <1>2. m \in Int /\ n \in Int /\ \A i \in m .. n : rs[i] \in Regions
    BY <1>1
  <1> HIDE DEF n, m
  <1>3. /\ SubSeq(rs, m, n) \in Seq(Regions)
        /\ Len(SubSeq(rs, m, n)) = IF m <= n THEN n - m + 1 ELSE 0
        /\ \A i \in 1 .. n - m + 1 : SubSeq(rs, m, n)[i] = rs[m + i - 1]
    BY <1>2, SubSeqProperties
  <1>4. k \in 0 .. n
    BY DEF n
  <1>5. (IF m <= n THEN n - m + 1 ELSE 0) = n - k
    BY <1>1, <1>4 DEF m
  <1>6. \A i \in 1 .. n - k : i \in 1 .. n - m + 1 /\ m + i - 1 = k + i
    BY <1>1, <1>4 DEF m
  <1>7. Len(SubSeq(rs, m, n)) = n - k
    BY <1>3, <1>5
  <1>8. \A i \in 1 .. n - k : SubSeq(rs, m, n)[i] = rs[k + i]
    BY <1>3, <1>6
  <1> QED
    BY <1>3, <1>7, <1>8 DEF Lists, n, m

LEMMA Around ==
  ASSUME NEW a \in Lists, NEW r \in Regions, NEW b \in Lists
  PROVE  /\ a \o <<r>> \o b \in Lists
         /\ Len(a \o <<r>> \o b) = Len(a) + 1 + Len(b)
         /\ \A i \in 1 .. Len(a) : (a \o <<r>> \o b)[i] = a[i]
         /\ (a \o <<r>> \o b)[Len(a) + 1] = r
         /\ \A i \in 1 .. Len(b) : (a \o <<r>> \o b)[Len(a) + 1 + i] = b[i]
  <1>1. <<r>> \in Lists /\ Len(<<r>>) = 1 /\ <<r>>[1] = r
    BY DEF Lists
  <1>2. Len(a) \in Nat /\ Len(b) \in Nat
    BY ListFacts
  <1> DEFINE c == a \o <<r>>
  <1>3. /\ c \in Lists
        /\ Len(c) = Len(a) + Len(<<r>>)
        /\ \A i \in 1 .. Len(a) + Len(<<r>>) :
             c[i] = IF i <= Len(a) THEN a[i] ELSE <<r>>[i - Len(a)]
    BY <1>1, ConcatProperties DEF Lists
  <1>4. Len(c) = Len(a) + 1 /\ \A i \in 1 .. Len(a) : c[i] = a[i]
    <2>1. \A i \in 1 .. Len(a) : i \in 1 .. Len(a) + 1 /\ i <= Len(a)
      BY <1>2
    <2> QED
      BY <1>1, <1>3, <2>1
  <1>5. c[Len(a) + 1] = r
    <2>1. Len(a) + 1 \in 1 .. Len(a) + 1 /\ ~(Len(a) + 1 <= Len(a)) /\ Len(a) + 1 - Len(a) = 1
      BY <1>2
    <2> QED
      BY <1>1, <1>3, <2>1
  <1> HIDE DEF c
  <1> DEFINE d == c \o b
  <1>6. /\ d \in Lists
        /\ Len(d) = Len(c) + Len(b)
        /\ \A i \in 1 .. Len(c) + Len(b) : d[i] = IF i <= Len(c) THEN c[i] ELSE b[i - Len(c)]
    <2>1. c \in Seq(Regions) /\ b \in Seq(Regions)
      BY <1>3 DEF Lists
    <2> QED
      BY <2>1, ConcatProperties DEF Lists
  <1> HIDE DEF d
  <1>7. \A i \in 1 .. Len(a) : d[i] = a[i]
    <2>1. \A i \in 1 .. Len(a) : i \in 1 .. Len(a) + 1 + Len(b) /\ i <= Len(a) + 1
      BY <1>2
    <2> QED
      BY <1>4, <1>6, <2>1
  <1>8. d[Len(a) + 1] = r
    <2>1. Len(a) + 1 \in 1 .. Len(a) + 1 + Len(b) /\ Len(a) + 1 <= Len(a) + 1
      BY <1>2
    <2> QED
      BY <1>4, <1>5, <1>6, <2>1
  <1>9. \A i \in 1 .. Len(b) : d[Len(a) + 1 + i] = b[i]
    <2> SUFFICES ASSUME NEW i \in 1 .. Len(b) PROVE d[Len(a) + 1 + i] = b[i]
      OBVIOUS
    <2>1. Len(a) + 1 + i \in 1 .. Len(a) + 1 + Len(b) /\ ~(Len(a) + 1 + i <= Len(a) + 1)
          /\ Len(a) + 1 + i - (Len(a) + 1) = i
      BY <1>2
    <2> QED
      BY <1>4, <1>6, <2>1
  <1>10. d = a \o <<r>> \o b
    BY DEF c, d
  <1> QED
    BY <1>4, <1>6, <1>7, <1>8, <1>9, <1>10

-----------------------------------------------------------------------------
(* insert_key_region                                                         *)

LEMMA RegionFacts ==
  ASSUME NEW r \in Regions
  PROVE  /\ r.start \in Nat /\ r.end \in Nat /\ r.fade \in 0 .. Floor /\ r.gap \in Int
         /\ \A g \in Int : /\ [r EXCEPT !.gap = g] \in Regions
                           /\ [r EXCEPT !.gap = g].start = r.start
                           /\ [r EXCEPT !.gap = g].end = r.end
                           /\ [r EXCEPT !.gap = g].fade = r.fade
                           /\ [r EXCEPT !.gap = g].gap = g
  BY DEF Regions

\* What the list is after the insertion, place by place.
LEMMA InsertIs ==
  ASSUME NEW rs \in Lists, NEW start \in Nat, NEW end \in Nat, NEW fade \in Nat,
         NEW k \in 0 .. Len(rs), k = Before(rs, start),
         NEW new, new = insert_key_region(rs, start, end, fade)
  PROVE  /\ new \in Lists
         /\ Len(new) = Len(rs) + 1
         /\ \A i \in 1 .. Len(rs) : i < k => new[i] = rs[i]
         /\ k > 0 => new[k] = [rs[k] EXCEPT !.gap = start - rs[k].end]
         /\ new[k + 1].start = start /\ new[k + 1].end = end
         /\ k < Len(rs) => new[k + 1].gap = rs[k + 1].start - end
         /\ \A i \in 1 .. Len(rs) : i > k => new[i + 1] = rs[i]
  <1> DEFINE n == Len(rs)
             front == SubSeq(rs, 1, k)
             head == IF k = 0 THEN <<>> ELSE [front EXCEPT ![k].gap = start - front[k].end]
             back == SubSeq(rs, k + 1, Len(rs))
             gap == IF k < Len(rs) THEN rs[k + 1].start - end ELSE 0
             r == [start |-> start, end |-> end, fade |-> Faded(fade), gap |-> gap]
  <1>1. n \in Nat /\ \A i \in 1 .. n : rs[i] \in Regions /\ rs[i].start \in Nat /\ rs[i].end \in Nat
    BY ListFacts
  <1>2. new = head \o <<r>> \o back
    BY Zenon DEF insert_key_region
  <1>3. front \in Lists /\ Len(front) = k /\ \A i \in 1 .. k : front[i] = rs[i]
    BY FrontOf
  <1>4. back \in Lists /\ Len(back) = n - k /\ \A i \in 1 .. n - k : back[i] = rs[k + i]
    BY BackOf
  <1>5. k < n => k + 1 \in 1 .. n
    BY <1>1
  <1>6. r \in Regions
    <2>1. gap \in Int
      BY <1>1, <1>5
    <2>2. Faded(fade) \in 0 .. Floor
      BY KeyRegionsAssumption DEF Faded
    <2> HIDE DEF gap
    <2> QED
      BY <2>1, <2>2 DEF Regions
  <1>7. r.start = start /\ r.end = end /\ (k < n => r.gap = rs[k + 1].start - end)
    OBVIOUS
  <1> HIDE DEF r, gap, back
  <1>8. /\ head \in Lists
        /\ Len(head) = k
        /\ \A i \in 1 .. k : i < k => head[i] = rs[i]
        /\ k > 0 => head[k] = [rs[k] EXCEPT !.gap = start - rs[k].end]
    <2>1. CASE k = 0
      BY <2>1, EmptySeq DEF Lists
    <2>2. CASE k # 0
      <3> DEFINE e == [front[k] EXCEPT !.gap = start - front[k].end]
      <3>1. k \in 1 .. k /\ k \in 1 .. n /\ k \in 1 .. Len(front)
        BY <1>1, <1>3, <2>2
      <3>2. e = [rs[k] EXCEPT !.gap = start - rs[k].end]
        BY <1>3, <3>1
      <3>3. rs[k] \in Regions /\ start - rs[k].end \in Int
        BY <1>1, <3>1
      <3>0. \A x \in Regions : \A d \in Int : [x EXCEPT !.gap = d] \in Regions
        BY RegionFacts
      <3>4. e \in Regions
        BY <3>2, <3>3, <3>0, Zenon
      <3> HIDE DEF front
      <3>5. head = [front EXCEPT ![k] = e]
        BY <2>2
      <3> HIDE DEF e, head
      <3>6. /\ [front EXCEPT ![k] = e] \in Seq(Regions)
            /\ Len([front EXCEPT ![k] = e]) = Len(front)
            /\ \A j \in 1 .. Len(front) : [front EXCEPT ![k] = e][j] = IF j = k THEN e ELSE front[j]
        BY <1>3, <3>1, <3>4, ExceptSeq DEF Lists
      <3>7. \A i \in 1 .. k : i < k => i # k
        BY <1>1
      <3> QED
        BY <1>3, <3>1, <3>2, <3>5, <3>6, <3>7 DEF Lists
    <2> QED
      BY <2>1, <2>2
  <1> HIDE DEF head, front
  <1>9. /\ new \in Lists
        /\ Len(new) = Len(head) + 1 + Len(back)
        /\ \A i \in 1 .. Len(head) : new[i] = head[i]
        /\ new[Len(head) + 1] = r
        /\ \A i \in 1 .. Len(back) : new[Len(head) + 1 + i] = back[i]
    <2>1. head \in Lists /\ back \in Lists
      BY <1>4, <1>8
    <2>2. /\ head \o <<r>> \o back \in Lists
          /\ Len(head \o <<r>> \o back) = Len(head) + 1 + Len(back)
          /\ \A i \in 1 .. Len(head) : (head \o <<r>> \o back)[i] = head[i]
          /\ (head \o <<r>> \o back)[Len(head) + 1] = r
          /\ \A i \in 1 .. Len(back) : (head \o <<r>> \o back)[Len(head) + 1 + i] = back[i]
      BY <1>6, <2>1, Around, ZenonT(30)
    <2> QED
      BY <1>2, <2>2, Zenon
  <1>10. Len(new) = n + 1
    BY <1>1, <1>4, <1>8, <1>9
  <1>11. \A i \in 1 .. n : i < k => new[i] = rs[i]
    <2>1. \A i \in 1 .. n : i < k => i \in 1 .. k
      BY <1>1
    <2> QED
      BY <1>8, <1>9, <2>1
  <1>12. k > 0 => new[k] = [rs[k] EXCEPT !.gap = start - rs[k].end]
    <2>1. k > 0 => k \in 1 .. k
      BY <1>1
    <2> QED
      BY <1>8, <1>9, <2>1
  <1>13. \A i \in 1 .. n : i > k => new[i + 1] = rs[i]
    <2> SUFFICES ASSUME NEW i \in 1 .. n, i > k PROVE new[i + 1] = rs[i]
      OBVIOUS
    <2>1. i - k \in 1 .. n - k /\ k + 1 + (i - k) = i + 1 /\ k + (i - k) = i
      BY <1>1
    <2>2. new[k + 1 + (i - k)] = back[i - k]
      BY <1>4, <1>8, <1>9, <2>1
    <2>3. back[i - k] = rs[k + (i - k)]
      BY <1>4, <2>1
    <2> QED
      BY <2>1, <2>2, <2>3
  <1>14. new[k + 1] = r
    BY <1>8, <1>9
  <1> QED
    BY <1>7, <1>9, <1>10, <1>11, <1>12, <1>13, <1>14 DEF n

\* Every region of rs is still there, but for its gap.
Keeps(rs, new) ==
  \A i \in DOMAIN rs : \E j \in DOMAIN new : new[j].start = rs[i].start
                                             /\ new[j].fade = rs[i].fade

\* An insertion keeps a list good, makes it one longer, and every region that was
\* there is still there, but for its gap.
LEMMA InsertGood ==
  ASSUME NEW rs, Good(rs), NEW start \in Nat, NEW end \in Nat, start <= end,
         NEW fade \in Nat,
         NEW new, new = insert_key_region(rs, start, end, fade)
  PROVE  /\ Good(new)
         /\ Len(new) = Len(rs) + 1
         /\ Keeps(rs, new)
  <1> DEFINE n == Len(rs)
             k == Before(rs, start)
  <1>1. rs \in Lists
    BY DEF Good
  <1>2. /\ n \in Nat /\ DOMAIN rs = 1 .. n
        /\ \A i \in 1 .. n : rs[i] \in Regions /\ rs[i].start \in Nat /\ rs[i].end \in Nat
    BY <1>1, ListFacts
  <1>3. k \in 0 .. n /\ (k = 0 /\ n > 0 => start <= rs[1].start)
        /\ (k > 0 => rs[k].start <= start) /\ (k > 0 /\ k < n => start <= rs[k + 1].start)
    BY <1>1, BeforePlace
  <1> HIDE DEF k
  <1>4. /\ new \in Lists
        /\ Len(new) = n + 1
        /\ \A i \in 1 .. n : i < k => new[i] = rs[i]
        /\ k > 0 => new[k] = [rs[k] EXCEPT !.gap = start - rs[k].end]
        /\ new[k + 1].start = start /\ new[k + 1].end = end
        /\ k < n => new[k + 1].gap = rs[k + 1].start - end
        /\ \A i \in 1 .. n : i > k => new[i + 1] = rs[i]
    <2>1. k \in 0 .. Len(rs) /\ k = Before(rs, start)
      BY <1>3 DEF k
    <2> QED
      BY <1>1, <2>1, InsertIs
  <1>5. DOMAIN new = 1 .. n + 1
    BY <1>4, ListFacts
  <1>6. k > 0 => new[k].start = rs[k].start /\ new[k].end = rs[k].end
                 /\ new[k].fade = rs[k].fade /\ new[k].gap = start - rs[k].end
    <2> SUFFICES ASSUME k > 0
                 PROVE  new[k].start = rs[k].start /\ new[k].end = rs[k].end
                        /\ new[k].fade = rs[k].fade /\ new[k].gap = start - rs[k].end
      OBVIOUS
    <2> DEFINE r == rs[k]
               g == start - r.end
    <2>1. k \in 1 .. n
      BY <1>2, <1>3
    <2>2. r \in Regions /\ g \in Int
      BY <1>2, <2>1
    <2>3. new[k] = [r EXCEPT !.gap = g]
      BY <1>4
    <2> HIDE DEF r, g
    <2>4. new[k].start = r.start /\ new[k].end = r.end /\ new[k].fade = r.fade /\ new[k].gap = g
      BY <2>2, <2>3, RegionFacts
    <2> QED
      BY <2>4 DEF r, g
  <1>7. \A i \in 1 .. n : i <= k => new[i].start = rs[i].start /\ new[i].end = rs[i].end
                                    /\ new[i].fade = rs[i].fade
    <2>1. \A i \in 1 .. n : i <= k => i < k \/ (i = k /\ k > 0)
      BY <1>3
    <2> QED
      BY <1>4, <1>6, <2>1
  <1>8. /\ \A i \in 1 .. n - 1 : rs[i].start <= rs[i + 1].start /\ rs[i].gap = rs[i + 1].start - rs[i].end
        /\ \A i \in 1 .. n : rs[i].start <= rs[i].end
    BY <1>2 DEF Good
  <1>9. ASSUME NEW j \in 1 .. n
        PROVE  new[j].start <= new[j + 1].start /\ new[j].gap = new[j + 1].start - new[j].end
    <2>1. CASE j < k
      <3>1. j \in 1 .. n - 1 /\ j + 1 \in 1 .. n /\ j + 1 <= k /\ j <= k
        BY <1>2, <1>3, <2>1
      <3>2. new[j] = rs[j] /\ new[j + 1].start = rs[j + 1].start
        BY <1>4, <1>7, <2>1, <3>1
      <3> QED
        BY <1>8, <3>1, <3>2
    <2>2. CASE j = k
      <3>1. k > 0
        BY <2>2
      <3> QED
        BY <1>3, <1>4, <1>6, <2>2, <3>1
    <2>3. CASE j = k + 1
      <3>1. k < n /\ k + 1 \in 1 .. n /\ k + 1 > k
        BY <1>2, <1>3, <2>3
      <3>2. new[k + 1 + 1] = rs[k + 1]
        BY <1>4, <3>1
      <3>3. start <= rs[k + 1].start
        <4>1. CASE k = 0
          <5>1. n > 0 /\ k + 1 = 1
            BY <3>1, <4>1
          <5> QED
            BY <1>3, <4>1, <5>1
        <4>2. CASE k # 0
          <5>1. k > 0
            BY <1>3, <4>2
          <5> QED
            BY <1>3, <3>1, <5>1
        <4> QED
          BY <4>1, <4>2
      <3> QED
        BY <1>4, <2>3, <3>1, <3>2, <3>3
    <2>4. CASE j > k + 1
      <3>1. j - 1 \in 1 .. n - 1 /\ j - 1 \in 1 .. n /\ j - 1 > k /\ j > k /\ j - 1 + 1 = j
        BY <1>2, <1>3, <2>4
      <3>2. new[j - 1 + 1] = rs[j - 1] /\ new[j + 1] = rs[j]
        BY <1>4, <3>1
      <3>3. rs[j - 1].start <= rs[j - 1 + 1].start /\ rs[j - 1].gap = rs[j - 1 + 1].start - rs[j - 1].end
        BY <1>8, <3>1
      <3> QED
        BY <3>1, <3>2, <3>3
    <2>5. j < k \/ j = k \/ j = k + 1 \/ j > k + 1
      BY <1>3
    <2> QED
      BY <2>1, <2>2, <2>3, <2>4, <2>5
  <1>10. ASSUME NEW j \in 1 .. n + 1
         PROVE  new[j].start <= new[j].end
    <2>1. CASE j <= k
      <3>1. j \in 1 .. n
        BY <1>2, <1>3, <2>1
      <3> QED
        BY <1>7, <1>8, <2>1, <3>1
    <2>2. CASE j = k + 1
      BY <1>4, <2>2
    <2>3. CASE j > k + 1
      <3>1. j - 1 \in 1 .. n /\ j - 1 > k /\ j - 1 + 1 = j
        BY <1>2, <1>3, <2>3
      <3>2. new[j - 1 + 1] = rs[j - 1] /\ rs[j - 1].start <= rs[j - 1].end
        BY <1>4, <1>8, <3>1
      <3> QED
        BY <3>1, <3>2
    <2>4. j <= k \/ j = k + 1 \/ j > k + 1
      BY <1>3
    <2> QED
      BY <2>1, <2>2, <2>3, <2>4
  <1>11. Good(new)
    <2>1. Len(new) - 1 = n
      BY <1>2, <1>4
    <2>2. /\ \A i \in 1 .. Len(new) - 1 : new[i].start <= new[i + 1].start
                                          /\ new[i].gap = new[i + 1].start - new[i].end
      BY <1>9, <2>1
    <2>3. \A i \in DOMAIN new : new[i].start <= new[i].end
      BY <1>5, <1>10
    <2> QED
      BY <1>4, <2>2, <2>3 DEF Good
  <1>12. ASSUME NEW i \in DOMAIN rs
         PROVE  \E j \in DOMAIN new : new[j].start = rs[i].start /\ new[j].fade = rs[i].fade
    <2>1. CASE i <= k
      <3>1. i \in DOMAIN new /\ i \in 1 .. n
        BY <1>2, <1>5
      <3> QED
        BY <1>7, <2>1, <3>1
    <2>2. CASE i > k
      <3>1. i + 1 \in DOMAIN new /\ i \in 1 .. n
        BY <1>2, <1>5
      <3> QED
        BY <1>4, <2>2, <3>1
    <2>3. i <= k \/ i > k
      BY <1>2, <1>3
    <2> QED
      BY <2>1, <2>2, <2>3
  <1> QED
    BY <1>4, <1>11, <1>12 DEF Keeps

-----------------------------------------------------------------------------
(* Inherit                                                                   *)

Inherits(f, n, parent) ==
  f = [i \in 0 .. n |-> IF i = 0 THEN <<>> ELSE InheritOne(f[i - 1], parent[i])]

LEMMA InheritIs ==
  ASSUME NEW parent \in Lists
  PROVE  \E f : Inherits(f, Len(parent), parent) /\ Inherit(parent) = f[Len(parent)]
  <1> DEFINE n == Len(parent)
             step == [x \in Lists \X Nat |->
                        IF x[2] \in 1 .. n THEN InheritOne(x[1], parent[x[2]]) ELSE <<>>]
  <1>1. n \in Nat /\ \A i \in 1 .. n : parent[i] \in Regions
    BY ListFacts
  <1>2. <<>> \in Lists
    BY EmptySeq DEF Lists
  <1>3. ASSUME NEW rs \in Lists, NEW i \in 1 .. n
        PROVE  InheritOne(rs, parent[i]) \in Lists
    <2> DEFINE r == parent[i]
    <2>1. r \in Regions
      BY <1>1
    <2> HIDE DEF r
    <2>2. r.start \in Nat /\ r.end \in Nat /\ r.fade + 1 \in Nat
      BY <2>1, RegionFacts
    <2>3. Before(rs, r.start) \in 0 .. Len(rs)
      BY <2>2, BeforePlace
    <2>4. insert_key_region(rs, r.start, r.end, r.fade + 1) \in Lists
      BY <2>2, <2>3, InsertIs
    <2> QED
      BY <2>4 DEF InheritOne, r
  <1>4. step \in [Lists \X Nat -> Lists]
    <2> SUFFICES ASSUME NEW x \in Lists \X Nat
                 PROVE  (IF x[2] \in 1 .. n THEN InheritOne(x[1], parent[x[2]]) ELSE <<>>) \in Lists
      BY Zenon
    <2>1. x[1] \in Lists
      OBVIOUS
    <2> QED
      BY <1>2, <1>3, <2>1
  <1>5. \A rs \in Lists, i \in 1 .. n : step[<<rs, i>>] = InheritOne(rs, parent[i])
    <2> SUFFICES ASSUME NEW rs \in Lists, NEW i \in 1 .. n
                 PROVE  step[<<rs, i>>] = InheritOne(rs, parent[i])
      OBVIOUS
    <2>1. <<rs, i>> \in Lists \X Nat /\ <<rs, i>>[1] = rs /\ <<rs, i>>[2] = i
      BY <1>1
    <2> QED
      BY <2>1
  <1> HIDE DEF step
  <1>6. PICK f \in [0 .. n -> Lists] : Turns(f, n, <<>>, step)
    BY <1>1, <1>2, <1>4, Loop
  <1>7. Inherits(f, n, parent)
    <2>1. \A i \in 0 .. n : f[i] = IF i = 0 THEN <<>> ELSE step[<<f[i - 1], i>>]
      BY <1>6 DEF Turns
    <2>2. \A i \in 0 .. n : f[i] = IF i = 0 THEN <<>> ELSE InheritOne(f[i - 1], parent[i])
      <3> SUFFICES ASSUME NEW i \in 0 .. n, i # 0
                   PROVE  f[i] = InheritOne(f[i - 1], parent[i])
        BY <2>1
      <3>1. i \in 1 .. n /\ i - 1 \in 0 .. n
        BY <1>1
      <3>2. f[i - 1] \in Lists
        BY <3>1
      <3> QED
        BY <1>5, <2>1, <3>1, <3>2
    <2>3. f = [i \in 0 .. n |-> f[i]]
      OBVIOUS
    <2> QED
      BY <2>2, <2>3 DEF Inherits
  <1> DEFINE g == CHOOSE f2 : f2 = [i \in 0 .. n |->
                     IF i = 0 THEN <<>> ELSE InheritOne(f2[i - 1], parent[i])]
  <1>8. g = [i \in 0 .. n |-> IF i = 0 THEN <<>> ELSE InheritOne(g[i - 1], parent[i])]
    BY <1>7, Zenon DEF Inherits
  <1>9. Inherit(parent) = g[n]
    BY Zenon DEF Inherit
  <1> HIDE DEF g
  <1> QED
    BY <1>8, <1>9, Zenon DEF Inherits, n

\* The child has as many regions as its parent, sorted again.
LEMMA InheritGood ==
  ASSUME NEW parent, Good(parent)
  PROVE  Good(Inherit(parent)) /\ Len(Inherit(parent)) = Len(parent)
  <1> DEFINE n == Len(parent)
  <1>1. parent \in Lists /\ n \in Nat /\ \A i \in 1 .. n : parent[i] \in Regions
                                              /\ parent[i].start <= parent[i].end
    <2>1. parent \in Lists
      BY DEF Good
    <2> QED
      BY <2>1, ListFacts DEF Good
  <1>2. PICK f : Inherits(f, n, parent) /\ Inherit(parent) = f[n]
    BY <1>1, InheritIs
  <1>3. \A i \in 0 .. n : f[i] = IF i = 0 THEN <<>> ELSE InheritOne(f[i - 1], parent[i])
    BY <1>2 DEF Inherits
  <1> DEFINE T == {i \in Nat : i <= n => Good(f[i]) /\ Len(f[i]) = i}
  <1>4. 0 \in T
    <2>1. f[0] = <<>>
      BY <1>1, <1>3
    <2>2. <<>> \in Lists /\ Len(<<>>) = 0
      BY EmptySeq DEF Lists
    <2>3. Good(<<>>)
      BY <2>2 DEF Good
    <2> QED
      BY <2>1, <2>2, <2>3
  <1>5. ASSUME NEW i \in Nat, i \in T
        PROVE  i + 1 \in T
    <2> SUFFICES ASSUME i + 1 <= n PROVE Good(f[i + 1]) /\ Len(f[i + 1]) = i + 1
      OBVIOUS
    <2>1. i + 1 \in 1 .. n /\ i + 1 \in 0 .. n /\ i + 1 # 0 /\ i + 1 - 1 = i /\ i <= n
      BY <1>1
    <2> DEFINE r == parent[i + 1]
    <2>2. Good(f[i]) /\ Len(f[i]) = i
      BY <1>5, <2>1
    <2>3. f[i + 1] = InheritOne(f[i], r)
      BY <1>3, <2>1
    <2>4. r \in Regions /\ r.start <= r.end
      BY <1>1, <2>1
    <2> HIDE DEF r
    <2>5. r.start \in Nat /\ r.end \in Nat /\ r.fade + 1 \in Nat
      BY <2>4, RegionFacts
    <2>6. f[i + 1] = insert_key_region(f[i], r.start, r.end, r.fade + 1)
      BY <2>3 DEF InheritOne
    <2>7. Good(f[i + 1]) /\ Len(f[i + 1]) = Len(f[i]) + 1
      <3> DEFINE old == f[i]
                 new == f[i + 1]
      <3>1. Good(old) /\ new = insert_key_region(old, r.start, r.end, r.fade + 1)
        BY <2>2, <2>6
      <3> HIDE DEF old, new
      <3>2. Good(new) /\ Len(new) = Len(old) + 1
        <4>1. \A s, e, p \in Nat : s <= e =>
                LET x == insert_key_region(old, s, e, p) IN Good(x) /\ Len(x) = Len(old) + 1
          <5> SUFFICES ASSUME NEW s \in Nat, NEW e \in Nat, NEW p \in Nat, s <= e
                       PROVE  Good(insert_key_region(old, s, e, p))
                              /\ Len(insert_key_region(old, s, e, p)) = Len(old) + 1
            OBVIOUS
          <5>1. Good(old)
            BY <3>1
          <5> QED
            BY <5>1, InsertGood
        <4> QED
          BY <2>4, <2>5, <3>1, <4>1
      <3> QED
        BY <3>2 DEF old, new
    <2> QED
      BY <2>2, <2>7
  <1> HIDE DEF T
  <1>6. \A i \in Nat : i \in T
    BY <1>4, <1>5, NatSet
  <1>7. n \in T
    BY <1>1, <1>6
  <1> QED
    BY <1>1, <1>2, <1>7 DEF T

-----------------------------------------------------------------------------
(* The regions that are thinned out                                          *)

Thins(f, rs) ==
  f = [i \in 0 .. Len(rs) |-> IF i = 0 THEN <<>> ELSE Thin(f[i - 1], rs, i)]

\* One turn of the loop, on any list kept so far.
LEMMA ThinList ==
  ASSUME NEW rs \in Lists, NEW i \in 1 .. Len(rs), NEW kept \in Lists
  PROVE  IF i > 1 /\ Weak(rs[i])
         THEN /\ Thin(kept, rs, i) \in Lists
              /\ Len(Thin(kept, rs, i)) = Len(kept)
              /\ \A j \in 1 .. Len(kept) : j # Len(kept) => Thin(kept, rs, i)[j] = kept[j]
              /\ Len(kept) > 0 =>
                   LET last == Thin(kept, rs, i)[Len(kept)]
                   IN  /\ last.start = kept[Len(kept)].start
                       /\ last.end = kept[Len(kept)].end
                       /\ last.fade = kept[Len(kept)].fade
                       /\ i < Len(rs) => last.gap = rs[i + 1].start - last.end
         ELSE /\ Thin(kept, rs, i) \in Lists
              /\ Len(Thin(kept, rs, i)) = Len(kept) + 1
              /\ \A j \in 1 .. Len(kept) : Thin(kept, rs, i)[j] = kept[j]
              /\ Thin(kept, rs, i)[Len(kept) + 1] = rs[i]
  <1> DEFINE n == Len(rs)
             m == Len(kept)
             gap == IF i < n THEN rs[i + 1].start - kept[m].end ELSE 0
             e == [kept[m] EXCEPT !.gap = gap]
  <1>1. n \in Nat /\ \A j \in 1 .. n : rs[j] \in Regions /\ rs[j].start \in Nat
    BY ListFacts
  <1>2. m \in Nat /\ DOMAIN kept = 1 .. m /\ \A j \in 1 .. m : kept[j] \in Regions /\ kept[j].end \in Nat
    BY ListFacts
  <1>3. CASE i > 1 /\ Weak(rs[i])
    <2>1. Thin(kept, rs, i) = [kept EXCEPT ![m].gap = gap]
      BY <1>3 DEF Thin
    <2>2. CASE m = 0
      <3>1. [kept EXCEPT ![m].gap = gap] = kept
        BY <1>2, <2>2
      <3> QED
        BY <1>2, <1>3, <2>1, <2>2, <3>1
    <2>3. CASE m # 0
      <3>1. m \in 1 .. m /\ m > 0
        BY <1>2, <2>3
      <3>2. gap \in Int
        <4>1. i < n => i + 1 \in 1 .. n
          BY <1>1
        <4> QED
          BY <1>1, <1>2, <3>1, <4>1
      <3> DEFINE last == kept[m]
      <3>3. last \in Regions
        BY <1>2, <3>1
      <3>4. e = [last EXCEPT !.gap = gap]
        OBVIOUS
      <3> HIDE DEF last
      <3>5. /\ e \in Regions /\ e.start = last.start /\ e.end = last.end
            /\ e.fade = last.fade /\ e.gap = gap
        <4> HIDE DEF gap, e
        <4> QED
          BY <3>2, <3>3, <3>4, RegionFacts
      <3>6. e.start = kept[m].start /\ e.end = kept[m].end /\ e.fade = kept[m].fade
            /\ (i < n => e.gap = rs[i + 1].start - e.end)
        BY <3>5 DEF last
      <3>7. Thin(kept, rs, i) = [kept EXCEPT ![m] = e]
        BY <2>1
      <3> HIDE DEF e, gap
      <3>8. /\ [kept EXCEPT ![m] = e] \in Seq(Regions)
            /\ Len([kept EXCEPT ![m] = e]) = Len(kept)
            /\ \A j \in 1 .. Len(kept) : [kept EXCEPT ![m] = e][j] = IF j = m THEN e ELSE kept[j]
        <4>1. m \in 1 .. Len(kept) /\ kept \in Seq(Regions)
          BY <3>1 DEF Lists
        <4> HIDE DEF m
        <4> QED
          BY <3>5, <4>1, ExceptSeq
      <3>9. Thin(kept, rs, i)[m] = e
        BY <3>1, <3>7, <3>8
      <3>10. \A j \in 1 .. m : j # m => Thin(kept, rs, i)[j] = kept[j]
        BY <3>7, <3>8
      <3>11. Thin(kept, rs, i) \in Lists /\ Len(Thin(kept, rs, i)) = m
        BY <3>7, <3>8 DEF Lists
      <3> QED
        BY <1>3, <3>6, <3>9, <3>10, <3>11
    <2> QED
      BY <2>2, <2>3
  <1>4. CASE ~(i > 1 /\ Weak(rs[i]))
    <2>1. Thin(kept, rs, i) = Append(kept, rs[i])
      BY <1>4, Zenon DEF Thin
    <2>2. kept \in Seq(Regions) /\ rs[i] \in Regions
      BY <1>1 DEF Lists
    <2> DEFINE r == rs[i]
    <2> HIDE DEF r
    <2>3. /\ Append(kept, r) \in Seq(Regions)
          /\ Len(Append(kept, r)) = Len(kept) + 1
          /\ \A j \in 1 .. Len(kept) : Append(kept, r)[j] = kept[j]
          /\ Append(kept, r)[Len(kept) + 1] = r
      <3>1. r \in Regions
        BY <2>2 DEF r
      <3> QED
        BY <2>2, <3>1, AppendProperties
    <2> QED
      BY <1>4, <2>1, <2>3 DEF r, Lists
  <1> QED
    BY <1>3, <1>4

LEMMA ThinnedIs ==
  ASSUME NEW rs \in Lists
  PROVE  \E f : Thins(f, rs) /\ Thinned(rs) = f[Len(rs)]
  <1> DEFINE n == Len(rs)
             step == [x \in Lists \X Nat |->
                        IF x[2] \in 1 .. n THEN Thin(x[1], rs, x[2]) ELSE <<>>]
  <1>1. n \in Nat
    BY ListFacts
  <1>2. <<>> \in Lists
    BY EmptySeq DEF Lists
  <1>3. ASSUME NEW kept \in Lists, NEW i \in 1 .. n
        PROVE  Thin(kept, rs, i) \in Lists
    BY ThinList
  <1>4. step \in [Lists \X Nat -> Lists]
    <2> SUFFICES ASSUME NEW x \in Lists \X Nat
                 PROVE  (IF x[2] \in 1 .. n THEN Thin(x[1], rs, x[2]) ELSE <<>>) \in Lists
      BY Zenon
    <2>1. x[1] \in Lists
      OBVIOUS
    <2> QED
      BY <1>2, <1>3, <2>1
  <1>5. \A kept \in Lists, i \in 1 .. n : step[<<kept, i>>] = Thin(kept, rs, i)
    <2> SUFFICES ASSUME NEW kept \in Lists, NEW i \in 1 .. n
                 PROVE  step[<<kept, i>>] = Thin(kept, rs, i)
      OBVIOUS
    <2>1. <<kept, i>> \in Lists \X Nat /\ <<kept, i>>[1] = kept /\ <<kept, i>>[2] = i
      BY <1>1
    <2> QED
      BY <2>1
  <1> HIDE DEF step
  <1>6. PICK f \in [0 .. n -> Lists] : Turns(f, n, <<>>, step)
    BY <1>1, <1>2, <1>4, Loop
  <1>7. Thins(f, rs)
    <2>1. \A i \in 0 .. n : f[i] = IF i = 0 THEN <<>> ELSE step[<<f[i - 1], i>>]
      BY <1>6 DEF Turns
    <2>2. \A i \in 0 .. n : f[i] = IF i = 0 THEN <<>> ELSE Thin(f[i - 1], rs, i)
      <3> SUFFICES ASSUME NEW i \in 0 .. n, i # 0
                   PROVE  f[i] = Thin(f[i - 1], rs, i)
        BY <2>1
      <3>1. i \in 1 .. n /\ i - 1 \in 0 .. n
        BY <1>1
      <3>2. f[i - 1] \in Lists
        BY <3>1
      <3> QED
        BY <1>5, <2>1, <3>1, <3>2
    <2>3. f = [i \in 0 .. n |-> f[i]]
      OBVIOUS
    <2> QED
      BY <2>2, <2>3 DEF Thins
  <1> DEFINE g == CHOOSE f2 : f2 = [i \in 0 .. n |->
                     IF i = 0 THEN <<>> ELSE Thin(f2[i - 1], rs, i)]
  <1>8. g = [i \in 0 .. n |-> IF i = 0 THEN <<>> ELSE Thin(g[i - 1], rs, i)]
    BY <1>7, Zenon DEF Thins
  <1>9. Thinned(rs) = g[n]
    BY Zenon DEF Thinned
  <1> HIDE DEF g
  <1> QED
    BY <1>8, <1>9, Zenon DEF Thins, n

\* After turn i the regions kept are good, the last of them is ready for region
\* i + 1 to follow, and of the strong regions up to i none is missing.
Kept(kept, rs, i) ==
  /\ Good(kept) /\ Len(kept) <= i
  /\ i > 0 => Len(kept) > 0
  /\ i > 0 /\ i < Len(rs) =>
       /\ kept[Len(kept)].start <= rs[i + 1].start
       /\ kept[Len(kept)].gap = rs[i + 1].start - kept[Len(kept)].end
  /\ \A j \in 1 .. i : ~Weak(rs[j]) => \E l \in DOMAIN kept : kept[l].start = rs[j].start

LEMMA ThinKept ==
  ASSUME NEW rs, Good(rs), NEW i \in 1 .. Len(rs), NEW kept, Kept(kept, rs, i - 1),
         NEW new, new = Thin(kept, rs, i)
  PROVE  Kept(new, rs, i)
  <1> DEFINE n == Len(rs)
             m == Len(kept)
  <1>1. rs \in Lists /\ kept \in Lists
    BY DEF Kept, Good
  <1>2. n \in Nat /\ \A j \in 1 .. n : rs[j] \in Regions /\ rs[j].start \in Nat /\ rs[j].end \in Nat
    BY <1>1, ListFacts
  <1>3. m \in Nat /\ DOMAIN kept = 1 .. m
        /\ \A j \in 1 .. m : kept[j] \in Regions /\ kept[j].start \in Nat /\ kept[j].end \in Nat
    BY <1>1, ListFacts
  <1>0. m \in Nat
    BY <1>3
  <1>4. /\ m <= i - 1
        /\ i > 1 => m > 0
        /\ i > 1 => kept[m].start <= rs[i].start /\ kept[m].gap = rs[i].start - kept[m].end
        /\ \A j \in 1 .. i - 1 : ~Weak(rs[j]) => \E l \in 1 .. m : kept[l].start = rs[j].start
    <2>1. i - 1 > 0 <=> i > 1
      OBVIOUS
    <2>2. i - 1 < n /\ i - 1 + 1 = i
      BY <1>2
    <2> QED
      BY <1>3, <2>1, <2>2 DEF Kept
  <1>5. /\ \A j \in 1 .. n - 1 : rs[j].start <= rs[j + 1].start /\ rs[j].gap = rs[j + 1].start - rs[j].end
        /\ \A j \in 1 .. n : rs[j].start <= rs[j].end
    BY <1>2, ListFacts, <1>1 DEF Good
  <1>6. /\ \A j \in 1 .. m - 1 : kept[j].start <= kept[j + 1].start
                                 /\ kept[j].gap = kept[j + 1].start - kept[j].end
        /\ \A j \in 1 .. m : kept[j].start <= kept[j].end
    BY <1>3 DEF Kept, Good
  <1>7. i < n => i + 1 \in 1 .. n /\ i \in 1 .. n - 1
    BY <1>2
  <1>8. CASE i > 1 /\ Weak(rs[i])
    <2>0. m > 0
      BY <1>4, <1>8
    <2>1. /\ new \in Lists /\ Len(new) = m /\ m > 0
          /\ \A j \in 1 .. m : j # m => new[j] = kept[j]
          /\ new[m].start = kept[m].start /\ new[m].end = kept[m].end
          /\ i < n => new[m].gap = rs[i + 1].start - new[m].end
      BY <1>1, <1>8, <2>0, ThinList
    <2>2. DOMAIN new = 1 .. m
      BY <2>1, ListFacts
    <2>3. \A j \in 1 .. m : new[j].start = kept[j].start /\ new[j].end = kept[j].end
      BY <2>1
    <2>4. \A j \in 1 .. m - 1 : new[j].start <= new[j + 1].start
                                /\ new[j].gap = new[j + 1].start - new[j].end
      <3> SUFFICES ASSUME NEW j \in 1 .. m - 1
                   PROVE  new[j].start <= new[j + 1].start
                          /\ new[j].gap = new[j + 1].start - new[j].end
        OBVIOUS
      <3>1. j \in 1 .. m /\ j # m /\ j + 1 \in 1 .. m
        BY <1>0
      <3> QED
        BY <1>6, <2>1, <2>3, <3>1
    <2>5. Good(new)
      BY <1>6, <2>1, <2>2, <2>3, <2>4 DEF Good
    <2>6. i < n => new[m].start <= rs[i + 1].start
      <3> HIDE DEF m
      <3>1. m \in 1 .. m
        BY <1>0, <2>1
      <3>2. kept[m].start <= rs[i].start /\ kept[m].start \in Nat
        BY <1>3, <1>4, <1>8, <3>1
      <3>3. i < n => rs[i].start <= rs[i + 1].start /\ rs[i].start \in Nat /\ rs[i + 1].start \in Nat
        BY <1>2, <1>5, <1>7
      <3>4. new[m].start = kept[m].start
        BY <2>1
      <3> HIDE DEF n
      <3> QED
        BY <3>2, <3>3, <3>4
    <2>7. ASSUME NEW j \in 1 .. i, ~Weak(rs[j])
          PROVE  \E l \in DOMAIN new : new[l].start = rs[j].start
      <3>1. j # i
        BY <1>8, <2>7
      <3>2. j \in 1 .. i - 1
        BY <3>1
      <3> QED
        BY <1>4, <2>2, <2>3, <2>7, <3>2
    <2>8. m <= i
      BY <1>2, <1>3, <1>4
    <2> QED
      BY <2>1, <2>5, <2>6, <2>7, <2>8 DEF Kept
  <1>9. CASE ~(i > 1 /\ Weak(rs[i]))
    <2>1. /\ new \in Lists /\ Len(new) = m + 1
          /\ \A j \in 1 .. m : new[j] = kept[j]
          /\ new[m + 1] = rs[i]
      BY <1>1, <1>9, ThinList, ZenonT(30)
    <2>2. DOMAIN new = 1 .. m + 1
      BY <2>1, ListFacts
    <2>3. \A j \in 1 .. m : new[j].start <= new[j + 1].start
                            /\ new[j].gap = new[j + 1].start - new[j].end
      <3> SUFFICES ASSUME NEW j \in 1 .. m
                   PROVE  new[j].start <= new[j + 1].start
                          /\ new[j].gap = new[j + 1].start - new[j].end
        OBVIOUS
      <3>1. CASE j = m
        <4>1. i > 1
          BY <1>2, <1>3, <1>4, <3>1
        <4> QED
          BY <1>4, <2>1, <3>1, <4>1
      <3>2. CASE j # m
        <4>1. j \in 1 .. m - 1 /\ j + 1 \in 1 .. m
          BY <1>0, <3>2
        <4> QED
          BY <1>6, <2>1, <4>1
      <3> QED
        BY <3>1, <3>2
    <2>4. ASSUME NEW j \in 1 .. m + 1
          PROVE  new[j].start <= new[j].end
      <3>1. j = m + 1 \/ j \in 1 .. m
        BY <1>3
      <3> QED
        BY <1>5, <1>6, <2>1, <3>1
    <2>5. Good(new)
      <3>1. Len(new) - 1 = m
        BY <1>3, <2>1
      <3> QED
        BY <2>1, <2>2, <2>3, <2>4, <3>1 DEF Good
    <2>6. i < n => /\ new[Len(new)].start <= rs[i + 1].start
                   /\ new[Len(new)].gap = rs[i + 1].start - new[Len(new)].end
      BY <1>5, <1>7, <2>1
    <2>7. ASSUME NEW j \in 1 .. i, ~Weak(rs[j])
          PROVE  \E l \in DOMAIN new : new[l].start = rs[j].start
      <3>1. CASE j = i
        <4>1. m + 1 \in DOMAIN new
          BY <1>3, <2>2
        <4> QED
          BY <2>1, <3>1, <4>1
      <3>2. CASE j # i
        <4>1. j \in 1 .. i - 1
          BY <3>2
        <4>2. PICK l \in 1 .. m : kept[l].start = rs[j].start
          BY <1>4, <2>7, <4>1
        <4>3. l \in DOMAIN new /\ new[l] = kept[l]
          BY <1>3, <2>1, <2>2
        <4> QED
          BY <4>2, <4>3
      <3> QED
        BY <3>1, <3>2
    <2>8. Len(new) <= i /\ Len(new) > 0
      BY <1>2, <1>3, <1>4, <2>1
    <2> QED
      BY <2>5, <2>6, <2>7, <2>8 DEF Kept
  <1> QED
    BY <1>8, <1>9

\* Thinning keeps a list good and every strong region in it.
LEMMA ThinnedGood ==
  ASSUME NEW rs, Good(rs)
  PROVE  /\ Good(Thinned(rs)) /\ Len(Thinned(rs)) <= Len(rs)
         /\ Len(rs) > 0 => Len(Thinned(rs)) > 0
         /\ \A j \in DOMAIN rs : ~Weak(rs[j]) =>
              \E l \in DOMAIN Thinned(rs) : Thinned(rs)[l].start = rs[j].start
  <1> DEFINE n == Len(rs)
  <1>1. rs \in Lists
    BY DEF Good
  <1>2. n \in Nat /\ DOMAIN rs = 1 .. n
    BY <1>1, ListFacts
  <1>3. PICK f : Thins(f, rs) /\ Thinned(rs) = f[n]
    BY <1>1, ThinnedIs
  <1>4. \A i \in 0 .. n : f[i] = IF i = 0 THEN <<>> ELSE Thin(f[i - 1], rs, i)
    BY <1>3 DEF Thins
  <1> DEFINE T == {i \in Nat : i <= n => Kept(f[i], rs, i)}
  <1>5. 0 \in T
    <2>1. f[0] = <<>>
      BY <1>2, <1>4
    <2>2. <<>> \in Lists /\ Len(<<>>) = 0
      BY EmptySeq DEF Lists
    <2>3. Kept(<<>>, rs, 0)
      BY <2>2 DEF Kept, Good
    <2> QED
      BY <2>1, <2>3
  <1>6. ASSUME NEW i \in Nat, i \in T
        PROVE  i + 1 \in T
    <2> SUFFICES ASSUME i + 1 <= n PROVE Kept(f[i + 1], rs, i + 1)
      OBVIOUS
    <2>1. i + 1 \in 1 .. n /\ i + 1 \in 0 .. n /\ i + 1 # 0 /\ i + 1 - 1 = i /\ i <= n
      BY <1>2
    <2> DEFINE old == f[i]
               new == f[i + 1]
               k == i + 1
    <2>2. k \in 1 .. n /\ new = Thin(old, rs, k) /\ Kept(old, rs, k - 1)
      BY <1>4, <1>6, <2>1
    <2> HIDE DEF old, new, k
    <2>3. Kept(new, rs, k)
      BY <2>2, ThinKept
    <2> QED
      BY <2>3 DEF new, k
  <1> HIDE DEF T
  <1>7. \A i \in Nat : i \in T
    BY <1>5, <1>6, NatSet
  <1>8. Kept(Thinned(rs), rs, n)
    BY <1>2, <1>3, <1>7 DEF T
  <1> QED
    BY <1>2, <1>8 DEF Kept

-----------------------------------------------------------------------------
(* The regions that are joined                                               *)

\* There is a smallest gap, and a first region that has it.
LEMMA ClosestInRange ==
  ASSUME NEW rs \in Lists, Len(rs) > 1
  PROVE  Closest(rs) \in 1 .. Len(rs) - 1
  <1> DEFINE n == Len(rs) - 1
             Least(i, m) == \A j \in 1 .. m : \/ rs[i].gap < rs[j].gap
                                              \/ rs[i].gap = rs[j].gap /\ i <= j
             T == {m \in Nat : m + 1 <= n => \E i \in 1 .. m + 1 : Least(i, m + 1)}
  <1>1. n \in Nat /\ n > 0 /\ \A j \in 1 .. n : rs[j].gap \in Int
    <2>1. Len(rs) \in Nat /\ \A j \in 1 .. Len(rs) : rs[j].gap \in Int
      BY ListFacts
    <2> QED
      BY <2>1
  <1> HIDE DEF n
  <1>2. 0 \in T
    <2>1. 0 + 1 <= n => Least(1, 0 + 1)
      BY <1>1
    <2>2. 1 \in 1 .. 0 + 1
      OBVIOUS
    <2> HIDE DEF Least
    <2> QED
      BY <2>1, <2>2
  <1>3. ASSUME NEW m \in Nat, m \in T
        PROVE  m + 1 \in T
    <2> SUFFICES ASSUME m + 1 + 1 <= n
                 PROVE  \E i \in 1 .. m + 1 + 1 : Least(i, m + 1 + 1)
      OBVIOUS
    <2> DEFINE k == m + 1
    <2>1. k \in Nat /\ k + 1 <= n
      OBVIOUS
    <2>2. PICK i \in 1 .. k : Least(i, k)
      BY <1>1, <1>3
    <2> HIDE DEF k
    <2>3. i \in 1 .. n /\ k + 1 \in 1 .. n /\ rs[i].gap \in Int /\ rs[k + 1].gap \in Int
      BY <1>1, <2>1
    <2>4. \A j \in 1 .. k + 1 : j \in 1 .. k \/ j = k + 1
      BY <2>1
    <2>5. CASE rs[k + 1].gap < rs[i].gap
      <3>1. Least(k + 1, k + 1)
        <4> SUFFICES ASSUME NEW j \in 1 .. k + 1
                     PROVE  rs[k + 1].gap < rs[j].gap \/ (rs[k + 1].gap = rs[j].gap /\ k + 1 <= j)
          OBVIOUS
        <4>1. CASE j = k + 1
          BY <2>1, <2>3, <4>1
        <4>2. CASE j \in 1 .. k
          <5>1. rs[i].gap < rs[j].gap \/ rs[i].gap = rs[j].gap
            BY <2>2, <4>2
          <5>2. rs[j].gap \in Int
            BY <1>1, <2>1, <4>2
          <5> QED
            BY <2>3, <2>5, <5>1, <5>2
        <4> QED
          BY <2>4, <4>1, <4>2
      <3>2. k + 1 \in 1 .. k + 1
        BY <2>1
      <3> HIDE DEF Least
      <3> QED
        BY <3>1, <3>2 DEF k
    <2>6. CASE ~(rs[k + 1].gap < rs[i].gap)
      <3>1. Least(i, k + 1)
        <4> SUFFICES ASSUME NEW j \in 1 .. k + 1
                     PROVE  rs[i].gap < rs[j].gap \/ (rs[i].gap = rs[j].gap /\ i <= j)
          OBVIOUS
        <4>1. CASE j = k + 1
          <5>1. i <= k + 1
            BY <2>1
          <5> QED
            BY <2>3, <2>6, <4>1, <5>1
        <4>2. CASE j \in 1 .. k
          BY <2>2, <4>2
        <4> QED
          BY <2>4, <4>1, <4>2
      <3>2. i \in 1 .. k + 1
        BY <2>1
      <3> HIDE DEF Least
      <3> QED
        BY <3>1, <3>2 DEF k
    <2> QED
      BY <2>5, <2>6
  <1>4. \A m \in Nat : m \in T
    <2> HIDE DEF T
    <2> QED
      BY <1>2, <1>3, NatSet
  <1>5. \E i \in 1 .. n : Least(i, n)
    <2>1. n - 1 \in Nat /\ n - 1 + 1 = n /\ n <= n
      BY <1>1
    <2>2. n - 1 \in T
      BY <1>4, <2>1
    <2> HIDE DEF Least
    <2> QED
      BY <2>1, <2>2
  <1> QED
    BY <1>5, Zenon DEF Closest, n

\* What the list is after two neighbours are joined, place by place.
LEMMA JoinIs ==
  ASSUME NEW rs \in Lists, Len(rs) > 1,
         NEW i \in 1 .. Len(rs) - 1, i = Closest(rs),
         NEW new, new = JoinClosest(rs)
  PROVE  /\ new \in Lists
         /\ Len(new) = Len(rs) - 1
         /\ \A j \in 1 .. Len(rs) : j < i => new[j] = rs[j]
         /\ new[i].start = rs[i].start
         /\ new[i].end = rs[i + 1].end
         /\ new[i].gap = rs[i + 1].gap
         /\ \A j \in 1 .. Len(rs) : j > i + 1 => new[j - 1] = rs[j]
  <1> DEFINE n == Len(rs)
             a == rs[i]
             b == rs[i + 1]
             r == Joined(a, b)
             front == SubSeq(rs, 1, i - 1)
             back == SubSeq(rs, i + 1 + 1, n)
  <1>1. n \in Nat /\ \A j \in 1 .. n : rs[j] \in Regions
    BY ListFacts
  <1>2. i \in 1 .. n /\ i + 1 \in 1 .. n /\ i - 1 \in 0 .. n /\ i + 1 \in 0 .. n
    BY <1>1
  <1>3. a \in Regions /\ b \in Regions
    BY <1>1, <1>2
  <1>4. new = front \o <<r>> \o back
    <2>1. i + 2 = i + 1 + 1
      OBVIOUS
    <2> QED
      BY <2>1 DEF JoinClosest
  <1>5. r \in Regions /\ r.start = a.start /\ r.end = b.end /\ r.gap = b.gap
    <2> HIDE DEF a, b
    <2> QED
      BY <1>3 DEF Joined, Regions
  <1>6. front \in Lists /\ Len(front) = i - 1 /\ \A j \in 1 .. i - 1 : front[j] = rs[j]
    BY <1>2, FrontOf
  <1>7. back \in Lists /\ Len(back) = n - (i + 1) /\ \A j \in 1 .. n - (i + 1) : back[j] = rs[i + 1 + j]
    BY <1>2, BackOf
  <1> HIDE DEF r, front, back
  <1>8. /\ front \o <<r>> \o back \in Lists
        /\ Len(front \o <<r>> \o back) = Len(front) + 1 + Len(back)
        /\ \A j \in 1 .. Len(front) : (front \o <<r>> \o back)[j] = front[j]
        /\ (front \o <<r>> \o back)[Len(front) + 1] = r
        /\ \A j \in 1 .. Len(back) : (front \o <<r>> \o back)[Len(front) + 1 + j] = back[j]
    <2>1. front \in Lists /\ back \in Lists /\ r \in Regions
      BY <1>5, <1>6, <1>7
    <2> QED
      BY <2>1, Around, ZenonT(30)
  <1>9. /\ new \in Lists
        /\ Len(new) = Len(front) + 1 + Len(back)
        /\ \A j \in 1 .. Len(front) : new[j] = front[j]
        /\ new[Len(front) + 1] = r
        /\ \A j \in 1 .. Len(back) : new[Len(front) + 1 + j] = back[j]
    BY <1>4, <1>8, Zenon
  <1>10. Len(new) = n - 1
    BY <1>1, <1>6, <1>7, <1>9
  <1>11. new[i] = r
    <2>1. i - 1 + 1 = i
      OBVIOUS
    <2> QED
      BY <1>6, <1>9, <2>1
  <1>12. \A j \in 1 .. n : j < i => new[j] = rs[j]
    <2>1. \A j \in 1 .. n : j < i => j \in 1 .. i - 1
      BY <1>1
    <2> QED
      BY <1>6, <1>9, <2>1
  <1>13. \A j \in 1 .. n : j > i + 1 => new[j - 1] = rs[j]
    <2> SUFFICES ASSUME NEW j \in 1 .. n, j > i + 1 PROVE new[j - 1] = rs[j]
      OBVIOUS
    <2> DEFINE d == j - (i + 1)
    <2>1. d \in 1 .. n - (i + 1) /\ i - 1 + 1 + d = j - 1 /\ i + 1 + d = j
      BY <1>1
    <2> HIDE DEF d
    <2>2. new[i - 1 + 1 + d] = back[d]
      BY <1>6, <1>7, <1>9, <2>1
    <2>3. back[d] = rs[i + 1 + d]
      BY <1>7, <2>1
    <2> QED
      BY <2>1, <2>2, <2>3
  <1> QED
    BY <1>5, <1>9, <1>10, <1>11, <1>12, <1>13

\* Byte x lies in a region, and in none behind it before its start.
Held(rs, x) ==
  \E i \in DOMAIN rs : /\ rs[i].start <= x /\ x <= rs[i].end
                       /\ i < Len(rs) => x <= rs[i + 1].start

\* Two neighbours joined are good again, and hold what both held: the region
\* that ends first is not the one a held byte lies behind.
LEMMA JoinGood ==
  ASSUME NEW rs, Good(rs), Len(rs) > 1, NEW new, new = JoinClosest(rs)
  PROVE  /\ Good(new) /\ Len(new) = Len(rs) - 1
         /\ \A x \in Nat : Held(rs, x) => Held(new, x)
  <1> DEFINE n == Len(rs)
             i == Closest(rs)
  <1>1. rs \in Lists
    BY DEF Good
  <1>2. n \in Nat
    BY <1>1, ListFacts
  <1>3. DOMAIN rs = 1 .. n /\ \A j \in 1 .. n : rs[j].start \in Nat /\ rs[j].end \in Nat
    BY <1>1, ListFacts
  <1>4. i \in 1 .. n - 1
    BY <1>1, ClosestInRange
  <1> HIDE DEF i
  <1>5. /\ new \in Lists
        /\ Len(new) = n - 1
        /\ \A j \in 1 .. n : j < i => new[j] = rs[j]
        /\ new[i].start = rs[i].start
        /\ new[i].end = rs[i + 1].end
        /\ new[i].gap = rs[i + 1].gap
        /\ \A j \in 1 .. n : j > i + 1 => new[j - 1] = rs[j]
    <2>1. i \in 1 .. Len(rs) - 1 /\ i = Closest(rs)
      BY <1>4 DEF i
    <2> QED
      BY <1>1, <2>1, JoinIs
  <1>6. /\ \A j \in 1 .. n - 1 : rs[j].start <= rs[j + 1].start /\ rs[j].gap = rs[j + 1].start - rs[j].end
        /\ \A j \in 1 .. n : rs[j].start <= rs[j].end
    BY <1>3 DEF Good
  <1>7. DOMAIN new = 1 .. n - 1
    BY <1>5, ListFacts
  <1>8. i \in 1 .. n /\ i + 1 \in 1 .. n
    BY <1>2, <1>4
  <1>9. rs[i].start <= rs[i + 1].start /\ rs[i + 1].start <= rs[i + 1].end
        /\ rs[i].start \in Nat /\ rs[i + 1].start \in Nat /\ rs[i + 1].end \in Nat
    BY <1>3, <1>4, <1>6, <1>8
  <1>10. ASSUME NEW j \in 1 .. n - 2
         PROVE  new[j].start <= new[j + 1].start /\ new[j].gap = new[j + 1].start - new[j].end
    <2>0. j \in 1 .. n /\ j + 1 \in 1 .. n /\ j \in 1 .. n - 1 /\ j + 1 \in 1 .. n - 1
      BY <1>2
    <2>1. CASE j + 1 < i
      <3>1. j < i
        BY <1>4, <2>1
      <3>2. new[j] = rs[j] /\ new[j + 1] = rs[j + 1]
        BY <1>5, <2>0, <2>1, <3>1
      <3> QED
        BY <1>6, <2>0, <3>2
    <2>2. CASE j + 1 = i
      <3>1. j < i
        BY <2>2
      <3>2. new[j] = rs[j] /\ new[j + 1].start = rs[j + 1].start
        BY <1>5, <2>0, <2>2, <3>1
      <3> QED
        BY <1>6, <2>0, <3>2
    <2>3. CASE j = i
      <3>1. i + 2 \in 1 .. n /\ i + 2 > i + 1 /\ i + 2 - 1 = i + 1 /\ i + 1 + 1 = i + 2 /\ i + 1 \in 1 .. n - 1
        BY <1>2, <2>3, <2>0
      <3>2. new[i + 1] = rs[i + 2]
        BY <1>5, <3>1
      <3>3. rs[i + 1].start <= rs[i + 2].start /\ rs[i + 1].gap = rs[i + 2].start - rs[i + 1].end
        BY <1>6, <3>1
      <3>4. rs[i + 2].start \in Nat
        BY <1>3, <3>1
      <3> QED
        BY <1>5, <1>9, <2>3, <3>2, <3>3, <3>4
    <2>4. CASE j > i
      <3>1. j + 1 > i + 1 /\ j + 1 - 1 = j /\ j + 2 \in 1 .. n /\ j + 2 > i + 1 /\ j + 2 - 1 = j + 1
            /\ j + 1 + 1 = j + 2
        BY <1>2, <1>4, <2>4
      <3>2. new[j] = rs[j + 1] /\ new[j + 1] = rs[j + 2]
        BY <1>5, <2>0, <3>1
      <3>3. rs[j + 1].start <= rs[j + 2].start /\ rs[j + 1].gap = rs[j + 2].start - rs[j + 1].end
        BY <1>6, <2>0, <3>1
      <3> QED
        BY <3>2, <3>3
    <2>5. j + 1 < i \/ j + 1 = i \/ j = i \/ j > i
      BY <1>4
    <2> QED
      BY <2>1, <2>2, <2>3, <2>4, <2>5
  <1>11. ASSUME NEW j \in 1 .. n - 1
         PROVE  new[j].start <= new[j].end
    <2>0. j \in 1 .. n /\ j + 1 \in 1 .. n
      BY <1>2
    <2>1. CASE j < i
      BY <1>5, <1>6, <2>0, <2>1
    <2>2. CASE j = i
      BY <1>5, <1>9, <2>2
    <2>3. CASE j > i
      <3>1. j + 1 > i + 1 /\ j + 1 - 1 = j
        BY <1>4, <2>3
      <3>2. new[j] = rs[j + 1]
        BY <1>5, <2>0, <3>1
      <3> QED
        BY <1>6, <2>0, <3>2
    <2>4. j < i \/ j = i \/ j > i
      BY <1>4
    <2> QED
      BY <2>1, <2>2, <2>3, <2>4
  <1>12. Good(new)
    <2>1. Len(new) - 1 = n - 2
      BY <1>2, <1>5
    <2> QED
      BY <1>5, <1>7, <1>10, <1>11, <2>1 DEF Good
  <1>13. ASSUME NEW x \in Nat, Held(rs, x)
         PROVE  Held(new, x)
    <2>1. PICK j \in 1 .. n : rs[j].start <= x /\ x <= rs[j].end /\ (j < n => x <= rs[j + 1].start)
      BY <1>3, <1>13 DEF Held
    <2>2. ASSUME NEW l \in 1 .. n - 1,
                 new[l].start <= x, x <= new[l].end, l < n - 1 => x <= new[l + 1].start
          PROVE  Held(new, x)
      BY <1>5, <1>7, <2>2 DEF Held
    <2>3. CASE j < i
      <3>1. j \in 1 .. n - 1 /\ j + 1 \in 1 .. n /\ j < n /\ (j + 1 < i \/ j + 1 = i)
        BY <1>2, <1>4, <2>3
      <3>2. new[j] = rs[j] /\ new[j + 1].start = rs[j + 1].start
        BY <1>5, <2>3, <3>1
      <3> QED
        BY <2>1, <2>2, <3>1, <3>2
    <2>4. CASE j = i \/ j = i + 1
      <3>1. rs[i].start <= x /\ x <= rs[i + 1].end
        <4>1. CASE j = i
          <5>1. j < n
            BY <1>2, <1>4, <4>1
          <5> QED
            BY <1>9, <2>1, <4>1, <5>1
        <4>2. CASE j = i + 1
          BY <1>9, <2>1, <4>2
        <4> QED
          BY <2>4, <4>1, <4>2
      <3>2. ASSUME i < n - 1
            PROVE  x <= new[i + 1].start
        <4>1. i + 2 \in 1 .. n /\ i + 2 > i + 1 /\ i + 2 - 1 = i + 1 /\ i + 1 + 1 = i + 2
              /\ i + 1 \in 1 .. n - 1 /\ i + 1 < n /\ i < n
          BY <1>2, <1>4, <3>2
        <4>2. new[i + 1] = rs[i + 2]
          BY <1>5, <4>1
        <4>3. rs[i + 1].start <= rs[i + 2].start /\ rs[i + 2].start \in Nat
          BY <1>3, <1>6, <4>1
        <4>4. CASE j = i
          <5>1. x <= rs[i + 1].start
            BY <2>1, <4>1, <4>4
          <5> QED
            BY <1>9, <4>2, <4>3, <5>1
        <4>5. CASE j = i + 1
          BY <2>1, <4>1, <4>2, <4>5
        <4> QED
          BY <2>4, <4>4, <4>5
      <3> QED
        BY <1>4, <1>5, <2>2, <3>1, <3>2
    <2>5. CASE j > i + 1
      <3>1. j - 1 \in 1 .. n - 1 /\ j - 1 + 1 = j
        BY <1>2, <1>4, <2>5
      <3>2. new[j - 1] = rs[j]
        BY <1>5, <2>5
      <3>3. ASSUME j - 1 < n - 1
            PROVE  x <= new[j - 1 + 1].start
        <4>1. j < n /\ j + 1 \in 1 .. n /\ j + 1 > i + 1 /\ j + 1 - 1 = j
          BY <1>2, <1>4, <2>5, <3>3
        <4>2. new[j] = rs[j + 1]
          BY <1>5, <4>1
        <4> QED
          BY <2>1, <3>1, <4>1, <4>2
      <3> QED
        BY <2>1, <2>2, <3>1, <3>2, <3>3
    <2>6. j < i \/ j = i \/ j = i + 1 \/ j > i + 1
      BY <1>4
    <2> QED
      BY <2>3, <2>4, <2>5, <2>6
  <1> QED
    BY <1>5, <1>12, <1>13

Joins(f, rs) ==
  f = [i \in 0 .. Len(rs) |-> IF i = 0 THEN rs ELSE JoinOne(f[i - 1])]

\* More regions than there may be are two at least.
LEMMA TooManyFacts ==
  ASSUME NEW rs \in Lists, TooMany(rs)
  PROVE  Len(rs) > 1 /\ Len(rs) > 0 /\ rs # <<>>
  <1>1. Len(rs) \in Nat
    BY ListFacts
  <1>2. Len(rs) > 1
    BY <1>1, KeyRegionsAssumption DEF TooMany
  <1> QED
    BY <1>1, <1>2

LEMMA MergedIs ==
  ASSUME NEW rs \in Lists
  PROVE  \E f : Joins(f, rs) /\ Merged(rs) = f[Len(rs)]
  <1> DEFINE n == Len(rs)
             step == [x \in Lists \X Nat |-> JoinOne(x[1])]
  <1>1. n \in Nat
    BY ListFacts
  <1>2. ASSUME NEW l \in Lists
        PROVE  JoinOne(l) \in Lists
    <2>1. CASE TooMany(l)
      <3>1. Len(l) > 1
        BY <2>1, TooManyFacts
      <3>2. Closest(l) \in 1 .. Len(l) - 1
        BY <3>1, ClosestInRange
      <3>3. JoinClosest(l) \in Lists
        BY <3>1, <3>2, JoinIs
      <3> QED
        BY <2>1, <3>3 DEF JoinOne
    <2>2. CASE ~TooMany(l)
      BY <2>2 DEF JoinOne
    <2> QED
      BY <2>1, <2>2
  <1>3. step \in [Lists \X Nat -> Lists]
    <2> SUFFICES ASSUME NEW x \in Lists \X Nat
                 PROVE  JoinOne(x[1]) \in Lists
      BY Zenon
    <2>1. x[1] \in Lists
      OBVIOUS
    <2> QED
      BY <1>2, <2>1
  <1>4. \A l \in Lists, i \in Nat : step[<<l, i>>] = JoinOne(l)
    <2> SUFFICES ASSUME NEW l \in Lists, NEW i \in Nat
                 PROVE  step[<<l, i>>] = JoinOne(l)
      OBVIOUS
    <2>1. <<l, i>> \in Lists \X Nat /\ <<l, i>>[1] = l
      OBVIOUS
    <2> QED
      BY <2>1
  <1> HIDE DEF step
  <1>5. PICK f \in [0 .. n -> Lists] : Turns(f, n, rs, step)
    BY <1>1, <1>3, Loop
  <1>6. Joins(f, rs)
    <2>1. \A i \in 0 .. n : f[i] = IF i = 0 THEN rs ELSE step[<<f[i - 1], i>>]
      BY <1>5 DEF Turns
    <2>2. \A i \in 0 .. n : f[i] = IF i = 0 THEN rs ELSE JoinOne(f[i - 1])
      <3> SUFFICES ASSUME NEW i \in 0 .. n, i # 0
                   PROVE  f[i] = JoinOne(f[i - 1])
        BY <2>1
      <3>1. i \in Nat /\ i - 1 \in 0 .. n
        BY <1>1
      <3>2. f[i - 1] \in Lists
        BY <3>1
      <3> QED
        BY <1>4, <2>1, <3>1, <3>2
    <2>3. f = [i \in 0 .. n |-> f[i]]
      OBVIOUS
    <2> QED
      BY <2>2, <2>3 DEF Joins
  <1> DEFINE g == CHOOSE f2 : f2 = [i \in 0 .. n |-> IF i = 0 THEN rs ELSE JoinOne(f2[i - 1])]
  <1>7. g = [i \in 0 .. n |-> IF i = 0 THEN rs ELSE JoinOne(g[i - 1])]
    BY <1>6, Zenon DEF Joins
  <1>8. Merged(rs) = g[n]
    BY Zenon DEF Merged
  <1> HIDE DEF g
  <1> QED
    BY <1>7, <1>8, Zenon DEF Joins, n

\* The loop leaves no more than there may be, good, and holds what was held.
LEMMA MergedGood ==
  ASSUME NEW rs, Good(rs)
  PROVE  /\ Good(Merged(rs)) /\ Len(Merged(rs)) <= Len(rs)
         /\ Len(Merged(rs)) <= MAX_KEY_REGIONS_COUNT
         /\ \A x \in Nat : Held(rs, x) => Held(Merged(rs), x)
  <1> DEFINE n == Len(rs)
             Left(l, i) ==
               /\ Good(l) /\ Len(l) <= n
               /\ TooMany(l) => Len(l) <= n - i
               /\ \A x \in Nat : Held(rs, x) => Held(l, x)
  <1>1. rs \in Lists
    BY DEF Good
  <1>2. n \in Nat
    BY <1>1, ListFacts
  <1>3. PICK f : Joins(f, rs) /\ Merged(rs) = f[n]
    BY <1>1, MergedIs
  <1>4. \A i \in 0 .. n : f[i] = IF i = 0 THEN rs ELSE JoinOne(f[i - 1])
    BY <1>3 DEF Joins
  <1> DEFINE T == {i \in Nat : i <= n => Left(f[i], i)}
  <1>5. 0 \in T
    <2>1. f[0] = rs
      BY <1>2, <1>4
    <2>2. Left(rs, 0)
      BY <1>2
    <2> HIDE DEF Left
    <2> QED
      BY <2>1, <2>2
  <1>6. ASSUME NEW i \in Nat, i \in T
        PROVE  i + 1 \in T
    <2> SUFFICES ASSUME i + 1 <= n PROVE Left(f[i + 1], i + 1)
      OBVIOUS
    <2>1. i + 1 \in 0 .. n /\ i + 1 # 0 /\ i + 1 - 1 = i /\ i <= n
      BY <1>2
    <2> DEFINE old == f[i]
               new == f[i + 1]
    <2>2. new = JoinOne(old) /\ Left(old, i)
      <3> HIDE DEF Left
      <3> QED
        BY <1>4, <1>6, <2>1
    <2> HIDE DEF old, new
    <2>3. old \in Lists
      BY <2>2 DEF Good
    <2>4. Len(old) \in Nat
      BY <2>3, ListFacts
    <2>5. CASE TooMany(old)
      <3>1. new = JoinClosest(old) /\ Good(old) /\ Len(old) > 1
        BY <2>2, <2>3, <2>5, TooManyFacts DEF JoinOne
      <3>2. Good(new) /\ Len(new) = Len(old) - 1 /\ \A x \in Nat : Held(old, x) => Held(new, x)
        BY <3>1, JoinGood
      <3>3. Len(new) <= n /\ Len(new) <= n - (i + 1)
        BY <1>2, <2>2, <2>4, <2>5, <3>2
      <3>4. Left(new, i + 1)
        BY <2>2, <3>2, <3>3
      <3> QED
        BY <3>4 DEF new
    <2>6. CASE ~TooMany(old)
      <3>1. new = old
        BY <2>2, <2>6 DEF JoinOne
      <3>2. Left(new, i + 1)
        BY <2>2, <2>6, <3>1
      <3> QED
        BY <3>2 DEF new
    <2> QED
      BY <2>5, <2>6
  <1>7. \A i \in Nat : i \in T
    <2> HIDE DEF T
    <2> QED
      BY <1>5, <1>6, NatSet
  <1> DEFINE last == Merged(rs)
  <1>8. Left(last, n)
    <2> HIDE DEF Left
    <2> QED
      BY <1>2, <1>3, <1>7
  <1> HIDE DEF last
  <1>9. last \in Lists
    BY <1>8 DEF Good
  <1>10. Len(last) \in Nat
    BY <1>9, ListFacts
  <1>11. ~TooMany(last)
    <2> SUFFICES ASSUME TooMany(last) PROVE FALSE
      OBVIOUS
    <2>1. Len(last) > 1
      BY <1>9, TooManyFacts
    <2> QED
      BY <1>2, <1>8, <1>10, <2>1
  <1>12. Len(last) <= MAX_KEY_REGIONS_COUNT
    BY <1>10, <1>11, KeyRegionsAssumption DEF TooMany
  <1> QED
    BY <1>8, <1>12 DEF last

-----------------------------------------------------------------------------
(* merge_key_regions                                                         *)

\* A region of a good list holds its own start.
LEMMA StartHeld ==
  ASSUME NEW rs, Good(rs), NEW i \in DOMAIN rs
  PROVE  Held(rs, rs[i].start) /\ rs[i].start \in Nat
  <1>1. rs \in Lists
    BY DEF Good
  <1>2. Len(rs) \in Nat /\ DOMAIN rs = 1 .. Len(rs)
        /\ \A j \in 1 .. Len(rs) : rs[j].start \in Nat /\ rs[j].end \in Nat
    BY <1>1, ListFacts
  <1>3. i < Len(rs) => i \in 1 .. Len(rs) - 1
    BY <1>2
  <1>4. rs[i].start <= rs[i].start
    BY <1>2
  <1> QED
    BY <1>2, <1>3, <1>4 DEF Good, Held

LEMMA MergeGood ==
  ASSUME NEW rs, Good(rs), NEW new, new = merge_key_regions(rs)
  PROVE  /\ Good(new) /\ Len(new) <= Len(rs) /\ Len(new) <= MAX_KEY_REGIONS_COUNT
         /\ \A i \in DOMAIN rs : ~Weak(rs[i]) => Held(new, rs[i].start)
  <1> DEFINE mid == IF TooMany(rs) THEN Thinned(rs) ELSE rs
  <1>1. Good(mid) /\ Len(mid) <= Len(rs)
        /\ \A i \in DOMAIN rs : ~Weak(rs[i]) => \E l \in DOMAIN mid : mid[l].start = rs[i].start
    <2>1. CASE TooMany(rs)
      <3>1. mid = Thinned(rs)
        BY <2>1
      <3> HIDE DEF mid
      <3> QED
        BY <3>1, ThinnedGood
    <2>2. CASE ~TooMany(rs)
      <3>1. mid = rs
        BY <2>2
      <3>2. rs \in Lists
        BY DEF Good
      <3>3. Len(rs) <= Len(rs)
        BY <3>2, ListFacts
      <3> HIDE DEF mid
      <3> QED
        BY <3>1, <3>3
    <2> QED
      BY <2>1, <2>2
  <1>2. new = Merged(mid)
    BY DEF merge_key_regions
  <1> HIDE DEF mid
  <1>3. Good(new) /\ Len(new) <= Len(mid) /\ Len(new) <= MAX_KEY_REGIONS_COUNT
        /\ \A x \in Nat : Held(mid, x) => Held(new, x)
    BY <1>1, <1>2, MergedGood
  <1>4. Len(new) <= Len(rs)
    <2>1. new \in Lists /\ mid \in Lists /\ rs \in Lists
      BY <1>1, <1>3 DEF Good
    <2>2. Len(new) \in Nat /\ Len(mid) \in Nat /\ Len(rs) \in Nat
      BY <2>1, ListFacts
    <2> QED
      BY <1>1, <1>3, <2>2
  <1>5. ASSUME NEW i \in DOMAIN rs, ~Weak(rs[i])
        PROVE  Held(new, rs[i].start)
    <2>1. PICK l \in DOMAIN mid : mid[l].start = rs[i].start
      BY <1>1, <1>5
    <2>2. Held(mid, mid[l].start) /\ mid[l].start \in Nat
      BY <1>1, StartHeld
    <2> QED
      BY <1>3, <2>1, <2>2
  <1> QED
    BY <1>3, <1>4, <1>5

-----------------------------------------------------------------------------
(* The queue                                                                 *)

Entries == [size : 1 .. MaxSize, was_exec_target : BOOLEAN, slips : Nat,
            key_regions : Seq(Regions)]

OfTarget(e) == e.key_regions # <<>> => e.was_exec_target \/ e.slips > 0

InRoom(e) == Len(e.key_regions) <= Room(e)

\* The inductive invariant, of any values of the variables.
Fit(p, Q, c, m) ==
  /\ p \in {"select", "fuzz", "freed"}
  /\ Q \in Seq(Entries)
  /\ \A q \in DOMAIN Q :
       /\ Good(Q[q].key_regions)
       /\ OfTarget(Q[q])
       /\ p # "freed" => InRoom(Q[q])
  /\ c \in DOMAIN Q
  /\ m \in 0 .. MaxSize - 1

LEMMA EntryFacts ==
  ASSUME NEW Q \in Seq(Entries)
  PROVE  /\ Len(Q) \in Nat /\ DOMAIN Q = 1 .. Len(Q)
         /\ \A q \in DOMAIN Q : /\ Q[q] \in Entries
                                /\ Q[q].size \in 1 .. MaxSize
                                /\ Q[q].was_exec_target \in BOOLEAN
                                /\ Q[q].slips \in Nat
                                /\ Q[q].key_regions \in Lists
  <1>1. Len(Q) \in Nat /\ DOMAIN Q = 1 .. Len(Q)
    OBVIOUS
  <1>2. \A q \in DOMAIN Q : Q[q] \in Entries
    BY <1>1, ElementOfSeq
  <1>3. \A e \in Entries : /\ e.size \in 1 .. MaxSize
                           /\ e.was_exec_target \in BOOLEAN
                           /\ e.slips \in Nat
                           /\ e.key_regions \in Lists
    BY DEF Entries, Lists
  <1> QED
    BY <1>1, <1>2, <1>3

\* A seed within its room has regions only if a run of it reached the target, and
\* is within the limit stated.
LEMMA RoomFacts ==
  ASSUME NEW e \in Entries
  PROVE  /\ Room(e) \in Nat /\ Room(e) <= MAX_KEY_REGIONS_COUNT + e.slips
         /\ Len(e.key_regions) \in Nat
         /\ InRoom(e) => OfTarget(e)
         /\ e.was_exec_target \/ e.slips > 0 => MAX_KEY_REGIONS_COUNT <= Room(e)
  <1>1. /\ e.was_exec_target \in BOOLEAN /\ e.slips \in Nat /\ e.key_regions \in Lists
    BY DEF Entries, Lists
  <1>2. Len(e.key_regions) \in Nat /\ (Len(e.key_regions) = 0 => e.key_regions = <<>>)
    <2>1. Len(e.key_regions) \in Nat
      BY <1>1, ListFacts
    <2> QED
      BY <1>1, <2>1, EmptySeq DEF Lists
  <1>3. MAX_KEY_REGIONS_COUNT \in Nat \ {0}
    BY KeyRegionsAssumption
  <1>4. CASE e.was_exec_target
    BY <1>1, <1>2, <1>3, <1>4 DEF Room, InRoom, OfTarget
  <1>5. CASE ~e.was_exec_target /\ e.slips = 0
    <2>1. Room(e) = 0
      BY <1>5 DEF Room
    <2> QED
      BY <1>1, <1>2, <1>3, <1>5, <2>1 DEF InRoom, OfTarget
  <1>6. CASE ~e.was_exec_target /\ e.slips # 0
    <2>1. Room(e) = MAX_KEY_REGIONS_COUNT + e.slips - 1
      BY <1>6 DEF Room
    <2> QED
      BY <1>1, <1>2, <1>3, <1>6, <2>1 DEF InRoom, OfTarget
  <1> QED
    BY <1>1, <1>4, <1>5, <1>6

LEMMA InvIsFit == IInv <=> Fit(pc, queue, queue_cur, M2_start_byte)
  <1>1. ASSUME queue \in Seq(Entries), NEW q \in DOMAIN queue
        PROVE  /\ queue[q].key_regions \in Lists
               /\ InRoom(queue[q]) =>
                    Len(queue[q].key_regions) <= MAX_KEY_REGIONS_COUNT + queue[q].slips
    <2>1. queue[q] \in Entries /\ queue[q].key_regions \in Lists /\ queue[q].slips \in Nat
      BY <1>1, EntryFacts
    <2>2. /\ Room(queue[q]) \in Nat /\ Len(queue[q].key_regions) \in Nat
          /\ Room(queue[q]) <= MAX_KEY_REGIONS_COUNT + queue[q].slips
      BY <2>1, RoomFacts
    <2> QED
      BY <2>1, <2>2, KeyRegionsAssumption DEF InRoom
  <1> QED
    BY <1>1 DEF IInv, TypeOK, GapsExact, Bounded, RegionsOfTarget, StartsBeforeEnds,
                ListsFit, Fit, Good, Entries, OfTarget, InRoom

LEMMA InvIsFitNext == IInv' <=> Fit(pc', queue', queue_cur', M2_start_byte')
  <1>1. ASSUME queue' \in Seq(Entries), NEW q \in DOMAIN queue'
        PROVE  /\ queue'[q].key_regions \in Lists
               /\ InRoom(queue'[q]) =>
                    Len(queue'[q].key_regions) <= MAX_KEY_REGIONS_COUNT + queue'[q].slips
    <2>1. queue'[q] \in Entries /\ queue'[q].key_regions \in Lists /\ queue'[q].slips \in Nat
      BY <1>1, EntryFacts
    <2>2. /\ Room(queue'[q]) \in Nat /\ Len(queue'[q].key_regions) \in Nat
          /\ Room(queue'[q]) <= MAX_KEY_REGIONS_COUNT + queue'[q].slips
      BY <2>1, RoomFacts
    <2> QED
      BY <2>1, <2>2, KeyRegionsAssumption DEF InRoom
  <1> QED
    BY <1>1 DEF IInv, TypeOK, GapsExact, Bounded, RegionsOfTarget, StartsBeforeEnds,
                ListsFit, Fit, Good, Entries, OfTarget, InRoom

\* An entry whose list is replaced.
LEMMA Replaced ==
  ASSUME NEW Q \in Seq(Entries), NEW g \in DOMAIN Q, NEW rs \in Lists,
         NEW new, new = [Q EXCEPT ![g].key_regions = rs]
  PROVE  /\ new \in Seq(Entries) /\ DOMAIN new = DOMAIN Q
         /\ new[g].key_regions = rs
         /\ new[g].was_exec_target = Q[g].was_exec_target /\ new[g].slips = Q[g].slips
         /\ \A q \in DOMAIN Q : q # g => new[q] = Q[q]
  <1> DEFINE e == Q[g]
             e2 == [e EXCEPT !.key_regions = rs]
  <1>1. Len(Q) \in Nat /\ DOMAIN Q = 1 .. Len(Q) /\ e \in Entries
    BY EntryFacts
  <1>2. new = [Q EXCEPT ![g] = e2]
    OBVIOUS
  <1> HIDE DEF e
  <1>3. e2 \in Entries /\ e2.key_regions = rs /\ e2.was_exec_target = e.was_exec_target
        /\ e2.slips = e.slips
    BY <1>1 DEF Entries, Lists
  <1> HIDE DEF e2
  <1>4. /\ [Q EXCEPT ![g] = e2] \in Seq(Entries)
        /\ Len([Q EXCEPT ![g] = e2]) = Len(Q)
        /\ \A j \in 1 .. Len(Q) : [Q EXCEPT ![g] = e2][j] = IF j = g THEN e2 ELSE Q[j]
    <2>1. g \in 1 .. Len(Q)
      BY <1>1
    <2> QED
      BY <1>3, <2>1, ExceptSeq
  <1>5. new \in Seq(Entries) /\ Len(new) = Len(Q)
        /\ \A j \in 1 .. Len(Q) : new[j] = IF j = g THEN e2 ELSE Q[j]
    BY <1>2, <1>4, Zenon
  <1>6. DOMAIN new = DOMAIN Q
    BY <1>1, <1>5
  <1>7. new[g] = e2
    BY <1>1, <1>5
  <1> QED
    BY <1>1, <1>3, <1>5, <1>6, <1>7 DEF e

\* An emptied or untouched list.
LEMMA EmptyGood == Good(<<>>) /\ Len(<<>>) = 0 /\ <<>> \in Lists
  <1>1. <<>> \in Lists /\ Len(<<>>) = 0
    BY EmptySeq DEF Lists
  <1> QED
    BY <1>1 DEF Good

\* What a mutation adds keeps the list good and every region in it.
LEMMA FoundGood ==
  ASSUME NEW rs, Good(rs), NEW first \in Nat, NEW in_size \in Nat, NEW out_size \in Nat,
         M2_start_byte \in Nat, first < in_size, first < out_size,
         NEW new, new = Found(rs, first, in_size, out_size)
  PROVE  /\ Good(new) /\ Len(new) <= Len(rs) + 1
         /\ Keeps(rs, new)
  <1> DEFINE max_len == IF in_size > out_size THEN in_size ELSE out_size
             min_len == IF in_size > out_size THEN out_size ELSE in_size
             start == IF first > 0 THEN first ELSE min_len
             s == start + M2_start_byte
             e == max_len - 1 + M2_start_byte
  <1>1. Len(rs) \in Nat
    <2>1. rs \in Lists
      BY DEF Good
    <2> QED
      BY <2>1, ListFacts
  <1>2. CASE start < max_len
    <2>1. s \in Nat /\ e \in Nat /\ s <= e
      BY <1>2
    <2>2. new = insert_key_region(rs, s, e, 0)
      BY <1>2, Zenon DEF Found
    <2> HIDE DEF s, e
    <2>3. Good(new) /\ Len(new) = Len(rs) + 1 /\ Keeps(rs, new)
      <3>1. \A a, b, p \in Nat : a <= b =>
              LET x == insert_key_region(rs, a, b, p)
              IN  Good(x) /\ Len(x) = Len(rs) + 1 /\ Keeps(rs, x)
        BY InsertGood
      <3>2. 0 \in Nat
        OBVIOUS
      <3> QED
        BY <2>1, <2>2, <3>1, <3>2
    <2> QED
      BY <1>1, <2>3
  <1>3. CASE ~(start < max_len)
    <2>1. new = rs
      BY <1>3, Zenon DEF Found
    <2> QED
      BY <1>1, <2>1 DEF Keeps
  <1> QED
    BY <1>2, <1>3

\* What StartsKept says of a step.
Holding(Q, Q2) ==
  \A q \in DOMAIN Q : \A i \in DOMAIN Q[q].key_regions :
    ~Weak(Q[q].key_regions[i]) => Held(Q2[q].key_regions, Q[q].key_regions[i].start)

LEMMA HoldingSame ==
  ASSUME NEW Q, \A q \in DOMAIN Q : Good(Q[q].key_regions)
  PROVE  Holding(Q, Q)
  BY StartHeld DEF Holding

LEMMA HeldCovered ==
  ASSUME NEW rs, NEW x, Held(rs, x)
  PROVE  Covers(rs, x)
  BY DEF Held, Covers

-----------------------------------------------------------------------------
(* The steps                                                                 *)

\* There is room for one region more.
LEMMA OneMore ==
  ASSUME NEW m \in Nat \ {0}, NEW s \in Nat, NEW l \in Nat, NEW r, NEW exec \in BOOLEAN,
         l <= IF s = 0 THEN 0 ELSE m + s - 1,
         r = IF exec THEN m + s ELSE IF s + 1 = 0 THEN 0 ELSE m + (s + 1) - 1
  PROVE  l + 1 <= r
  <1>1. r = m + s
    OBVIOUS
  <1>2. l <= m + s - 1
    OBVIOUS
  <1> QED
    BY <1>1, <1>2

\* The new seed before anything is found: what it inherits.  Behind a seed whose run
\* missed the target it has room for one region more.
LEMMA NewSeed ==
  ASSUME NEW parent \in Entries, Good(parent.key_regions), InRoom(parent),
         NEW exec \in BOOLEAN, NEW cal \in BOOLEAN, NEW size \in 1 .. MaxSize,
         NEW e, e = Entry(size, exec, Slips(parent, exec, cal),
                          IF cal THEN Inherit(parent.key_regions) ELSE <<>>)
  PROVE  /\ e \in Entries /\ Good(e.key_regions) /\ InRoom(e)
         /\ cal /\ ~parent.was_exec_target => Len(e.key_regions) + 1 <= Room(e)
  <1> DEFINE rs == IF cal THEN Inherit(parent.key_regions) ELSE <<>>
             old == parent.key_regions
             sl == Slips(parent, exec, cal)
  <1>1. old \in Lists /\ parent.slips \in Nat /\ parent.was_exec_target \in BOOLEAN
    BY DEF Good, Entries
  <1>2. Good(rs) /\ (cal => Len(rs) = Len(old)) /\ (~cal => Len(rs) = 0)
    <2>1. CASE cal
      <3>1. rs = Inherit(old)
        BY <2>1
      <3> HIDE DEF rs
      <3>2. Good(old)
        OBVIOUS
      <3> HIDE DEF old
      <3>3. Good(rs) /\ Len(rs) = Len(old)
        BY <3>1, <3>2, InheritGood
      <3> QED
        BY <2>1, <3>3
    <2>2. CASE ~cal
      BY <2>2, EmptyGood
    <2> QED
      BY <2>1, <2>2
  <1>3. sl = IF ~cal THEN 0 ELSE IF exec THEN parent.slips ELSE parent.slips + 1
    BY DEF Slips
  <1>4. Len(old) \in Nat
    BY <1>1, ListFacts
  <1>5. Len(old) <= IF parent.was_exec_target THEN MAX_KEY_REGIONS_COUNT + parent.slips
                    ELSE IF parent.slips = 0 THEN 0
                    ELSE MAX_KEY_REGIONS_COUNT + parent.slips - 1
    BY DEF InRoom, Room
  <1> HIDE DEF rs, sl
  <1>6. e = [size |-> size, was_exec_target |-> exec, slips |-> sl, key_regions |-> rs]
    BY DEF Entry, rs, sl
  <1>7. rs \in Seq(Regions) /\ sl \in Nat
    BY <1>1, <1>2, <1>3 DEF Good, Lists
  <1>8. e \in Entries /\ e.key_regions = rs /\ e.was_exec_target = exec /\ e.slips = sl
    BY <1>6, <1>7 DEF Entries
  <1>9. Room(e) = IF exec THEN MAX_KEY_REGIONS_COUNT + sl
                  ELSE IF sl = 0 THEN 0 ELSE MAX_KEY_REGIONS_COUNT + sl - 1
    BY <1>8 DEF Room
  <1> HIDE DEF old
  <1>10. Len(rs) <= Room(e)
    BY <1>1, <1>2, <1>3, <1>4, <1>5, <1>9, KeyRegionsAssumption
  <1>13. MAX_KEY_REGIONS_COUNT \in Nat \ {0}
    BY KeyRegionsAssumption
  <1>12. Len(rs) \in Nat /\ (~parent.was_exec_target /\ cal => Len(rs) = Len(old))
    BY <1>2, <1>4
  <1>11. ASSUME cal, ~parent.was_exec_target
         PROVE  Len(rs) + 1 <= Room(e)
    <2>1. Len(rs) <= IF parent.slips = 0 THEN 0
                     ELSE MAX_KEY_REGIONS_COUNT + parent.slips - 1
      BY <1>2, <1>5, <1>11, Zenon
    <2>2. Room(e) = IF exec THEN MAX_KEY_REGIONS_COUNT + parent.slips
                    ELSE IF parent.slips + 1 = 0 THEN 0
                    ELSE MAX_KEY_REGIONS_COUNT + (parent.slips + 1) - 1
      BY <1>3, <1>9, <1>11, Zenon
    <2> QED
      BY <1>1, <1>12, <1>13, <2>1, <2>2, OneMore
  <1> QED
    BY <1>2, <1>8, <1>10, <1>11 DEF InRoom

\* A list of the queue that is replaced by a good one.
LEMMA ReplacedFit ==
  ASSUME NEW Q \in Seq(Entries), \A q \in DOMAIN Q : Good(Q[q].key_regions),
         NEW g \in DOMAIN Q, NEW rs, Good(rs),
         NEW new, new = [Q EXCEPT ![g].key_regions = rs]
  PROVE  /\ new \in Seq(Entries) /\ DOMAIN new = DOMAIN Q
         /\ new[g].key_regions = rs
         /\ new[g].was_exec_target = Q[g].was_exec_target /\ new[g].slips = Q[g].slips
         /\ \A q \in DOMAIN Q : q # g => new[q] = Q[q]
         /\ \A q \in DOMAIN Q : Good(new[q].key_regions)
  <1>1. rs \in Lists
    BY DEF Good
  <1>2. /\ new \in Seq(Entries) /\ DOMAIN new = DOMAIN Q
        /\ new[g].key_regions = rs
        /\ new[g].was_exec_target = Q[g].was_exec_target /\ new[g].slips = Q[g].slips
        /\ \A q \in DOMAIN Q : q # g => new[q] = Q[q]
    BY <1>1, Replaced
  <1>3. \A q \in DOMAIN Q : Good(new[q].key_regions)
    BY <1>2
  <1> QED
    BY <1>2, <1>3

LEMMA FindStep ==
  ASSUME Fit(pc, queue, queue_cur, M2_start_byte),
         NEW first \in 0 .. MaxSize - 1, NEW out_size \in 1 .. MaxSize,
         NEW exec \in BOOLEAN, NEW cal \in BOOLEAN,
         find_key_bytes(first, out_size, exec, cal)
  PROVE  /\ Fit(pc', queue', queue_cur', M2_start_byte')
         /\ pc' # "freed" => Holding(queue, queue')
  <1> DEFINE cur == queue_cur
             n == Len(queue)
             top == n + 1
             parent == queue[cur]
             in_size == parent.size - M2_start_byte
             inherited == IF cal THEN Inherit(parent.key_regions) ELSE <<>>
             e == Entry(M2_start_byte + out_size, exec, Slips(parent, exec, cal), inherited)
             added == Append(queue, e)
             g == Gainer(cal, cur, top)
             found == [added EXCEPT ![g].key_regions = Found(@, first, in_size, out_size)]
             merged == [found EXCEPT ![cur].key_regions = merge_key_regions(@)]
  <1>1. /\ pc = "fuzz" /\ M2_start_byte + out_size <= MaxSize
        /\ first < in_size /\ first < out_size
        /\ queue_cur' = queue_cur /\ M2_start_byte' = M2_start_byte
    BY DEF find_key_bytes
  <1>2. \/ cal = parent.was_exec_target /\ queue' = added /\ pc' = "fuzz"
        \/ cal # parent.was_exec_target /\ queue' = merged /\ pc' = "fuzz"
        \/ cal # parent.was_exec_target /\ queue' = found /\ pc' = "freed"
    BY Zenon DEF find_key_bytes
  <1>3. /\ queue \in Seq(Entries) /\ n \in Nat /\ DOMAIN queue = 1 .. n
        /\ cur \in 1 .. n /\ M2_start_byte \in 0 .. MaxSize - 1
        /\ \A q \in 1 .. n : queue[q] \in Entries
    BY EntryFacts DEF Fit
  <1>4. \A q \in 1 .. n : /\ Good(queue[q].key_regions)
                          /\ OfTarget(queue[q]) /\ InRoom(queue[q])
    BY <1>1, <1>3 DEF Fit
  <1>5. MaxSize \in Nat /\ MAX_KEY_REGIONS_COUNT \in Nat \ {0}
    BY KeyRegionsAssumption
  <1>6. parent \in Entries /\ parent.was_exec_target \in BOOLEAN /\ parent.size \in 1 .. MaxSize
    BY <1>3, EntryFacts
  <1>7. in_size \in Int /\ M2_start_byte \in Nat /\ first \in Nat
    BY <1>3, <1>5, <1>6
  <1>8. in_size \in Nat /\ out_size \in Nat
    BY <1>1, <1>7
  <1>9. /\ e \in Entries /\ Good(e.key_regions) /\ InRoom(e) /\ OfTarget(e)
        /\ cal /\ ~parent.was_exec_target => Len(e.key_regions) + 1 <= Room(e)
    <2> DEFINE size == M2_start_byte + out_size
    <2>1. size \in 1 .. MaxSize
      BY <1>1, <1>3
    <2>2. e = Entry(size, exec, Slips(parent, exec, cal),
                    IF cal THEN Inherit(parent.key_regions) ELSE <<>>)
      OBVIOUS
    <2>3. Good(parent.key_regions) /\ InRoom(parent)
      BY <1>3, <1>4
    <2> HIDE DEF size, e, parent
    <2>4. /\ e \in Entries /\ Good(e.key_regions) /\ InRoom(e)
          /\ cal /\ ~parent.was_exec_target => Len(e.key_regions) + 1 <= Room(e)
      BY <1>6, <2>1, <2>2, <2>3, NewSeed
    <2> QED
      BY <2>4, RoomFacts
  <1> HIDE DEF e
  <1>10. /\ added \in Seq(Entries) /\ DOMAIN added = 1 .. n + 1
         /\ \A q \in 1 .. n : added[q] = queue[q]
         /\ added[n + 1] = e
    BY <1>3, <1>9, AppendProperties
  <1> HIDE DEF added
  <1>11. \A q \in 1 .. n + 1 : /\ Good(added[q].key_regions)
                               /\ OfTarget(added[q]) /\ InRoom(added[q])
    <2>1. \A q \in 1 .. n + 1 : q = n + 1 \/ q \in 1 .. n
      BY <1>3
    <2> HIDE DEF n
    <2> QED
      BY <1>4, <1>9, <1>10, <2>1
  <1>12. Holding(queue, added)
    <2>1. Holding(queue, queue)
      BY <1>3, <1>4, HoldingSame
    <2> QED
      BY <1>3, <1>10, <2>1 DEF Holding
  <1>13. CASE cal = parent.was_exec_target /\ queue' = added /\ pc' = "fuzz"
    <2>1. cur \in DOMAIN added
      BY <1>3, <1>10
    <2>2. Fit("fuzz", added, cur, M2_start_byte)
      BY <1>3, <1>10, <1>11, <2>1 DEF Fit
    <2> QED
      BY <1>1, <1>12, <1>13, <2>2
  <1>14. ASSUME cal # parent.was_exec_target
         PROVE  /\ found \in Seq(Entries) /\ DOMAIN found = 1 .. n + 1
                /\ \A q \in 1 .. n + 1 : Good(found[q].key_regions)
                /\ \A q \in 1 .. n + 1 : OfTarget(found[q])
                /\ \A q \in 1 .. n + 1 : q # cur => InRoom(found[q])
                /\ \A q \in 1 .. n : Keeps(queue[q].key_regions, found[q].key_regions)
                /\ \A q \in 1 .. n : q # cur => found[q] = queue[q]
    <2> DEFINE old == added[g].key_regions
               rs == Found(old, first, in_size, out_size)
    <2>1. /\ g \in 1 .. n + 1
          /\ g = n + 1 => cal /\ Len(old) + 1 <= Room(added[g])
          /\ g # n + 1 => g = cur /\ added[g].was_exec_target
      <3>1. CASE cal
        <4>1. g = n + 1
          BY <3>1 DEF Gainer
        <4>2. Len(added[n + 1].key_regions) + 1 <= Room(added[n + 1])
          BY <1>6, <1>9, <1>10, <1>14, <3>1
        <4>3. Len(old) + 1 <= Room(added[g])
          BY <4>1, <4>2, Zenon
        <4>4. n + 1 \in 1 .. n + 1
          BY <1>3
        <4> HIDE DEF old, g
        <4> QED
          BY <3>1, <4>1, <4>3, <4>4
      <3>2. CASE ~cal
        <4>1. g = cur
          BY <3>2 DEF Gainer
        <4>2. cur \in 1 .. n + 1 /\ cur # n + 1
          BY <1>3
        <4>3. added[cur].was_exec_target
          BY <1>3, <1>6, <1>10, <1>14, <3>2
        <4> QED
          BY <4>1, <4>2, <4>3
      <3> QED
        BY <3>1, <3>2
    <2> HIDE DEF g
    <2>2. Good(old)
      BY <1>11, <2>1
    <2>3. found = [added EXCEPT ![g].key_regions = rs]
      OBVIOUS
    <2> HIDE DEF found
    <2>4. Good(rs) /\ Len(rs) <= Len(old) + 1 /\ Keeps(old, rs)
      <3> HIDE DEF old, in_size
      <3> QED
        BY <1>1, <1>7, <1>8, <2>2, FoundGood
    <2> HIDE DEF rs
    <2>5. /\ found \in Seq(Entries) /\ DOMAIN found = DOMAIN added
          /\ found[g].key_regions = rs
          /\ found[g].was_exec_target = added[g].was_exec_target /\ found[g].slips = added[g].slips
          /\ \A q \in DOMAIN added : q # g => found[q] = added[q]
          /\ \A q \in DOMAIN added : Good(found[q].key_regions)
      <3>1. added \in Seq(Entries) /\ g \in DOMAIN added /\ Good(rs)
            /\ \A q \in DOMAIN added : Good(added[q].key_regions)
        BY <1>10, <1>11, <2>1, <2>4
      <3> QED
        BY <2>3, <3>1, ReplacedFit
    <2>11. found[g] \in Entries /\ added[g] \in Entries
      BY <1>10, <2>1, <2>5, EntryFacts
    <2>12. Room(found[g]) = Room(added[g])
      BY <2>5 DEF Room
    <2>13. g = n + 1 => InRoom(found[g])
      <3>1. old \in Lists /\ rs \in Lists
        BY <2>2, <2>4 DEF Good
      <3>2. Len(old) \in Nat /\ Len(rs) \in Nat /\ Room(added[g]) \in Nat
        BY <2>11, <3>1, ListFacts, RoomFacts
      <3> HIDE DEF old
      <3> QED
        BY <2>1, <2>4, <2>5, <2>12, <3>2 DEF InRoom
    <2>14. OfTarget(found[g])
      <3>1. CASE g = n + 1
        BY <2>11, <2>13, <3>1, RoomFacts
      <3>2. CASE g # n + 1
        BY <2>1, <2>5, <3>2 DEF OfTarget
      <3> QED
        BY <3>1, <3>2
    <2>6. \A q \in 1 .. n + 1 : OfTarget(found[q])
      BY <1>10, <1>11, <2>5, <2>14
    <2>7. ASSUME NEW q \in 1 .. n + 1, q # cur
          PROVE  InRoom(found[q])
      <3>1. CASE q = g
        BY <2>1, <2>7, <2>13, <3>1
      <3>2. CASE q # g
        BY <1>10, <1>11, <2>5, <3>2
      <3> QED
        BY <3>1, <3>2
    <2>8. \A q \in 1 .. n : q \in 1 .. n + 1 /\ q # n + 1
      BY <1>3
    <2>9. ASSUME NEW q \in 1 .. n
          PROVE  Keeps(queue[q].key_regions, found[q].key_regions)
      <3>1. CASE q = g
        BY <1>10, <2>4, <2>5, <3>1
      <3>2. CASE q # g
        <4>1. found[q] = queue[q]
          BY <1>10, <2>5, <2>8, <3>2
        <4> QED
          BY <4>1 DEF Keeps
      <3> QED
        BY <3>1, <3>2
    <2>10. \A q \in 1 .. n : q # cur => found[q] = queue[q]
      BY <1>10, <2>1, <2>5, <2>8
    <2> HIDE DEF n
    <2> QED
      BY <1>10, <2>5, <2>6, <2>7, <2>9, <2>10
  <1> HIDE DEF found
  <1>15. CASE cal # parent.was_exec_target /\ queue' = found /\ pc' = "freed"
    <2>1. cur \in DOMAIN found
      BY <1>3, <1>14, <1>15
    <2>2. Fit("freed", found, cur, M2_start_byte)
      BY <1>3, <1>14, <1>15, <2>1 DEF Fit
    <2> QED
      BY <1>1, <1>15, <2>2
  <1>16. CASE cal # parent.was_exec_target /\ queue' = merged /\ pc' = "fuzz"
    <2> DEFINE old == found[cur].key_regions
               rs == merge_key_regions(old)
    <2>1. /\ found \in Seq(Entries) /\ DOMAIN found = 1 .. n + 1
          /\ \A q \in 1 .. n + 1 : Good(found[q].key_regions)
          /\ \A q \in 1 .. n + 1 : OfTarget(found[q])
          /\ \A q \in 1 .. n + 1 : q # cur => InRoom(found[q])
          /\ \A q \in 1 .. n : Keeps(queue[q].key_regions, found[q].key_regions)
          /\ \A q \in 1 .. n : q # cur => found[q] = queue[q]
      BY <1>14, <1>16
    <2>2. cur \in 1 .. n + 1
      BY <1>3
    <2>3. Good(old)
      BY <2>1, <2>2
    <2>4. merged = [found EXCEPT ![cur].key_regions = rs]
      OBVIOUS
    <2> HIDE DEF merged
    <2>5. /\ Good(rs) /\ Len(rs) <= Len(old) /\ Len(rs) <= MAX_KEY_REGIONS_COUNT
          /\ \A i \in DOMAIN old : ~Weak(old[i]) => Held(rs, old[i].start)
      <3> HIDE DEF old
      <3> QED
        BY <2>3, MergeGood
    <2>6. rs # <<>> => old # <<>>
      <3>1. rs \in Lists
        BY <2>5 DEF Good
      <3>2. rs # <<>> => Len(rs) > 0 /\ Len(rs) \in Nat
        BY <3>1, EmptySeq DEF Lists
      <3> QED
        BY <2>5, <3>2, EmptyGood
    <2> HIDE DEF rs
    <2>7. /\ merged \in Seq(Entries) /\ DOMAIN merged = DOMAIN found
          /\ merged[cur].key_regions = rs
          /\ merged[cur].was_exec_target = found[cur].was_exec_target
          /\ merged[cur].slips = found[cur].slips
          /\ \A q \in DOMAIN found : q # cur => merged[q] = found[q]
          /\ \A q \in DOMAIN found : Good(merged[q].key_regions)
      <3>1. found \in Seq(Entries) /\ cur \in DOMAIN found /\ Good(rs)
            /\ \A q \in DOMAIN found : Good(found[q].key_regions)
        BY <2>1, <2>2, <2>5
      <3> QED
        BY <2>4, <3>1, ReplacedFit
    <2>13. found[cur] \in Entries /\ merged[cur] \in Entries
      BY <2>1, <2>2, <2>7, EntryFacts
    <2>14. InRoom(merged[cur])
      <3>1. Room(merged[cur]) = Room(found[cur]) /\ Room(found[cur]) \in Nat
        BY <2>7, <2>13, RoomFacts DEF Room
      <3>2. CASE old = <<>>
        <4>1. rs = <<>>
          BY <2>6, <3>2
        <4> QED
          BY <2>7, <3>1, <4>1, EmptyGood DEF InRoom
      <3>3. CASE old # <<>>
        <4>1. found[cur].was_exec_target \/ found[cur].slips > 0
          BY <2>1, <2>2, <3>3 DEF OfTarget
        <4>2. MAX_KEY_REGIONS_COUNT <= Room(found[cur])
          BY <2>13, <4>1, RoomFacts
        <4>3. Len(rs) \in Nat
          BY <2>7, <2>13, RoomFacts
        <4> QED
          BY <1>5, <2>5, <2>7, <3>1, <4>2, <4>3 DEF InRoom
      <3> QED
        BY <3>2, <3>3
    <2>8. \A q \in 1 .. n + 1 : OfTarget(merged[q])
      BY <2>1, <2>2, <2>7, <2>13, <2>14, RoomFacts
    <2>9. \A q \in 1 .. n + 1 : InRoom(merged[q])
      BY <2>1, <2>7, <2>14
    <2>10. Fit("fuzz", merged, cur, M2_start_byte)
      BY <1>3, <2>1, <2>2, <2>7, <2>8, <2>9 DEF Fit
    <2>11. ASSUME NEW q \in 1 .. n, NEW i \in DOMAIN queue[q].key_regions,
                  ~Weak(queue[q].key_regions[i])
           PROVE  Held(merged[q].key_regions, queue[q].key_regions[i].start)
      <3> DEFINE own == queue[q].key_regions
      <3>1. CASE q = cur
        <4>1. PICK j \in DOMAIN old : old[j].start = own[i].start /\ old[j].fade = own[i].fade
          BY <2>1, <3>1 DEF Keeps
        <4>2. ~Weak(old[j])
          BY <2>11, <4>1 DEF Weak
        <4>3. Held(rs, old[j].start)
          BY <2>5, <4>2
        <4> QED
          BY <2>7, <3>1, <4>1, <4>3
      <3>2. CASE q # cur
        <4>1. q \in DOMAIN found
          BY <1>3, <2>1
        <4>2. merged[q] = queue[q]
          BY <2>1, <2>7, <3>2, <4>1
        <4>3. Good(own) /\ i \in DOMAIN own
          BY <1>4
        <4> HIDE DEF own
        <4>4. Held(own, own[i].start)
          BY <4>3, StartHeld
        <4> QED
          BY <4>2, <4>4 DEF own
      <3> QED
        BY <3>1, <3>2
    <2>12. Holding(queue, merged)
      BY <1>3, <2>11 DEF Holding
    <2> QED
      BY <1>1, <1>16, <2>10, <2>12
  <1> QED
    BY <1>2, <1>13, <1>15, <1>16

\* A seed without regions.
LEMMA AddStep ==
  ASSUME Fit(pc, queue, queue_cur, M2_start_byte),
         NEW size \in 1 .. MaxSize, NEW exec \in BOOLEAN, add_to_queue(size, exec)
  PROVE  /\ Fit(pc', queue', queue_cur', M2_start_byte')
         /\ Holding(queue, queue')
  <1> DEFINE n == Len(queue)
  <1>0. PICK e : e = Entry(size, exec, 0, <<>>)
    OBVIOUS
  <1>1. /\ pc \in {"select", "fuzz"} /\ pc' = pc /\ queue_cur' = queue_cur
        /\ M2_start_byte' = M2_start_byte /\ queue' = Append(queue, e)
    BY <1>0 DEF add_to_queue
  <1>2. e = [size |-> size, was_exec_target |-> exec, slips |-> 0, key_regions |-> <<>>]
    BY <1>0 DEF Entry
  <1>3. e \in Entries /\ e.key_regions = <<>> /\ e.was_exec_target = exec /\ e.slips = 0
    BY <1>2, EmptyGood DEF Entries, Lists
  <1>4. Good(e.key_regions) /\ OfTarget(e)
    BY <1>3, EmptyGood DEF OfTarget
  <1>5. InRoom(e)
    BY <1>3, EmptyGood, KeyRegionsAssumption DEF InRoom, Room
  <1>6. /\ queue \in Seq(Entries) /\ n \in Nat /\ DOMAIN queue = 1 .. n
        /\ queue_cur \in 1 .. n /\ M2_start_byte \in 0 .. MaxSize - 1
        /\ \A q \in 1 .. n : queue[q] \in Entries
    BY EntryFacts DEF Fit
  <1>7. \A q \in 1 .. n : Good(queue[q].key_regions) /\ OfTarget(queue[q]) /\ InRoom(queue[q])
    BY <1>1, <1>6 DEF Fit
  <1>8. /\ queue' \in Seq(Entries) /\ DOMAIN queue' = 1 .. n + 1
        /\ \A q \in 1 .. n : queue'[q] = queue[q]
        /\ queue'[n + 1] = e
    BY <1>1, <1>3, <1>6, AppendProperties
  <1>9. \A q \in 1 .. n + 1 : /\ Good(queue'[q].key_regions) /\ OfTarget(queue'[q])
                              /\ InRoom(queue'[q])
    <2>1. \A q \in 1 .. n + 1 : q = n + 1 \/ q \in 1 .. n
      BY <1>6
    <2> HIDE DEF n
    <2> QED
      BY <1>4, <1>5, <1>7, <1>8, <2>1
  <1>10. queue_cur \in 1 .. n + 1
    BY <1>6
  <1>11. Holding(queue, queue')
    <2>1. Holding(queue, queue)
      BY <1>6, <1>7, HoldingSame
    <2> QED
      BY <1>6, <1>8, <2>1 DEF Holding
  <1> QED
    BY <1>1, <1>6, <1>8, <1>9, <1>10, <1>11 DEF Fit

\* The key byte stage ends: every region fades, none moves.
LEMMA FadeStep ==
  ASSUME Fit(pc, queue, queue_cur, M2_start_byte), Fade
  PROVE  /\ Fit(pc', queue', queue_cur', M2_start_byte')
         /\ Holding(queue, queue')
  <1> DEFINE cur == queue_cur
             n == Len(queue)
             old == queue[cur].key_regions
             rs == [i \in DOMAIN old |-> [old[i] EXCEPT !.fade = Faded(@ + 1)]]
  <1>1. /\ pc = "fuzz" /\ pc' = "select" /\ queue_cur' = queue_cur
        /\ M2_start_byte' = 0
    BY DEF Fade
  <1>0. queue' = [queue EXCEPT ![cur].key_regions = rs]
    BY DEF Fade, FadeAll
  <1>2. /\ queue \in Seq(Entries) /\ n \in Nat /\ DOMAIN queue = 1 .. n
        /\ cur \in 1 .. n /\ M2_start_byte \in 0 .. MaxSize - 1
    BY EntryFacts DEF Fit
  <1>3. \A q \in 1 .. n : /\ Good(queue[q].key_regions)
                          /\ OfTarget(queue[q]) /\ InRoom(queue[q])
    BY <1>1, <1>2 DEF Fit
  <1>4. Good(old)
    BY <1>2, <1>3
  <1>5. old \in Lists
    BY <1>4 DEF Good
  <1>6. Len(old) \in Nat /\ DOMAIN old = 1 .. Len(old) /\ \A i \in 1 .. Len(old) : old[i] \in Regions
    BY <1>5, ListFacts
  <1> HIDE DEF old
  <1>7. \A r \in Regions : LET r2 == [r EXCEPT !.fade = Faded(@ + 1)]
                           IN  r2 \in Regions /\ r2.start = r.start /\ r2.end = r.end /\ r2.gap = r.gap
    <2>1. \A r \in Regions : Faded(r.fade + 1) \in 0 .. Floor
      BY KeyRegionsAssumption DEF Faded, Regions
    <2> QED
      BY <2>1 DEF Regions
  <1>8. /\ rs \in Lists /\ Len(rs) = Len(old) /\ DOMAIN rs = DOMAIN old
        /\ \A i \in DOMAIN old : rs[i].start = old[i].start /\ rs[i].end = old[i].end
                                 /\ rs[i].gap = old[i].gap
    <2>1. rs \in [1 .. Len(old) -> Regions]
      BY <1>6, <1>7
    <2>2. rs \in Seq(Regions) /\ Len(rs) = Len(old)
      BY <1>6, <2>1
    <2>3. \A i \in DOMAIN old : rs[i].start = old[i].start /\ rs[i].end = old[i].end
                                 /\ rs[i].gap = old[i].gap
      BY <1>6, <1>7
    <2> QED
      BY <2>2, <2>3 DEF Lists
  <1> HIDE DEF rs
  <1>9. Good(rs)
    <2>1. \A i \in 1 .. Len(old) - 1 : i \in DOMAIN old /\ i + 1 \in DOMAIN old
      BY <1>6
    <2> QED
      BY <1>4, <1>8, <2>1 DEF Good
  <1>10. /\ queue' \in Seq(Entries) /\ DOMAIN queue' = DOMAIN queue
         /\ queue'[cur].key_regions = rs
         /\ queue'[cur].was_exec_target = queue[cur].was_exec_target
         /\ queue'[cur].slips = queue[cur].slips
         /\ \A q \in DOMAIN queue : q # cur => queue'[q] = queue[q]
         /\ \A q \in DOMAIN queue : Good(queue'[q].key_regions)
    <2>1. cur \in DOMAIN queue /\ \A q \in DOMAIN queue : Good(queue[q].key_regions)
      BY <1>2, <1>3
    <2> DEFINE new == queue'
    <2>2. queue \in Seq(Entries) /\ new = [queue EXCEPT ![cur].key_regions = rs]
      BY <1>0, <1>2
    <2> HIDE DEF new, cur
    <2>3. /\ new \in Seq(Entries) /\ DOMAIN new = DOMAIN queue
          /\ new[cur].key_regions = rs
          /\ new[cur].was_exec_target = queue[cur].was_exec_target
          /\ new[cur].slips = queue[cur].slips
          /\ \A q \in DOMAIN queue : q # cur => new[q] = queue[q]
          /\ \A q \in DOMAIN queue : Good(new[q].key_regions)
      BY <1>9, <2>1, <2>2, ReplacedFit
    <2> QED
      BY <2>3 DEF new, cur
  <1>11. queue'[cur] \in Entries /\ queue[cur] \in Entries
    BY <1>2, <1>10, EntryFacts
  <1>12. InRoom(queue'[cur])
    <2>1. Room(queue'[cur]) = Room(queue[cur])
      BY <1>10 DEF Room
    <2> QED
      BY <1>2, <1>3, <1>8, <1>10, <2>1 DEF InRoom, old
  <1>13. \A q \in 1 .. n : OfTarget(queue'[q]) /\ InRoom(queue'[q])
    BY <1>2, <1>3, <1>10, <1>11, <1>12, RoomFacts
  <1>14. Fit("select", queue', cur, 0)
    BY <1>2, <1>10, <1>13, KeyRegionsAssumption DEF Fit
  <1>15. ASSUME NEW q \in 1 .. n, NEW i \in DOMAIN queue[q].key_regions
         PROVE  Held(queue'[q].key_regions, queue[q].key_regions[i].start)
    <2>1. CASE q = cur
      <3>1. i \in DOMAIN rs /\ rs[i].start = old[i].start
        BY <1>8, <1>15, <2>1 DEF old
      <3>2. Held(rs, rs[i].start)
        BY <1>9, <3>1, StartHeld
      <3> QED
        BY <1>10, <2>1, <3>1, <3>2 DEF old
    <2>2. CASE q # cur
      <3> DEFINE own == queue[q].key_regions
      <3>1. queue'[q] = queue[q]
        BY <1>2, <1>10, <2>2
      <3>2. Good(own) /\ i \in DOMAIN own
        BY <1>3
      <3> HIDE DEF own
      <3>3. Held(own, own[i].start)
        BY <3>2, StartHeld
      <3> QED
        BY <3>1, <3>3 DEF own
    <2> QED
      BY <2>1, <2>2
  <1>16. Holding(queue, queue')
    BY <1>2, <1>15 DEF Holding
  <1> QED
    BY <1>1, <1>14, <1>16

\* Every step keeps the invariant, and holds the starts of the strong regions.
LEMMA Step ==
  ASSUME Fit(pc, queue, queue_cur, M2_start_byte), [Next]_vars
  PROVE  /\ Fit(pc', queue', queue_cur', M2_start_byte')
         /\ pc' # "freed" => Holding(queue, queue')
  <1>1. \A q \in DOMAIN queue : Good(queue[q].key_regions)
    BY DEF Fit
  <1>2. Holding(queue, queue)
    BY <1>1, HoldingSame
  <1>3. CASE Select
    <2>1. queue_cur' \in DOMAIN queue /\ queue' = queue /\ pc = "select" /\ pc' = "fuzz"
          /\ M2_start_byte' \in 0 .. queue[queue_cur'].size - 1
      BY <1>3 DEF Select
    <2>2. queue[queue_cur'].size \in 1 .. MaxSize
      BY <2>1, EntryFacts DEF Fit
    <2>3. M2_start_byte' \in 0 .. MaxSize - 1
      BY <2>1, <2>2, KeyRegionsAssumption
    <2> QED
      BY <1>2, <2>1, <2>3 DEF Fit
  <1>4. ASSUME NEW first \in 0 .. MaxSize - 1, NEW out_size \in 1 .. MaxSize,
               NEW exec \in BOOLEAN, NEW cal \in BOOLEAN,
               find_key_bytes(first, out_size, exec, cal)
        PROVE  /\ Fit(pc', queue', queue_cur', M2_start_byte')
               /\ pc' # "freed" => Holding(queue, queue')
    BY <1>4, FindStep
  <1>8. ASSUME NEW size \in 1 .. MaxSize, NEW exec \in BOOLEAN, add_to_queue(size, exec)
        PROVE  /\ Fit(pc', queue', queue_cur', M2_start_byte')
               /\ pc' # "freed" => Holding(queue, queue')
    BY <1>8, AddStep
  <1>5. CASE Fade
    BY <1>5, FadeStep
  <1>6. CASE abandon_entry
    <2>1. /\ pc = "fuzz" /\ pc' = "select" /\ queue' = queue /\ queue_cur' = queue_cur
          /\ M2_start_byte' = 0
      BY <1>6 DEF abandon_entry
    <2> QED
      BY <1>2, <2>1, KeyRegionsAssumption DEF Fit
  <1>7. CASE UNCHANGED vars
    BY <1>2, <1>7 DEF vars, Fit
  <1> QED
    BY <1>3, <1>4, <1>5, <1>6, <1>7, <1>8 DEF Next

LEMMA InitInv == Init => IInv
  <1> SUFFICES ASSUME Init PROVE Fit(pc, queue, queue_cur, M2_start_byte)
    BY InvIsFit
  <1>1. PICK size \in 1 .. MaxSize, exec \in BOOLEAN : queue = <<Entry(size, exec, 0, <<>>)>>
    BY DEF Init
  <1>0. PICK e : e = Entry(size, exec, 0, <<>>)
    OBVIOUS
  <1>2. e \in Entries /\ e.key_regions = <<>>
    BY <1>0, EmptyGood DEF Entry, Entries, Lists
  <1>3. queue \in Seq(Entries) /\ DOMAIN queue = {1} /\ queue[1] = e
    BY <1>0, <1>1, <1>2
  <1>4. InRoom(e) /\ OfTarget(e)
    <2>1. Room(e) \in Nat /\ Len(e.key_regions) = 0
      BY <1>2, RoomFacts, EmptyGood
    <2>2. InRoom(e)
      BY <2>1 DEF InRoom
    <2> QED
      BY <1>2, <2>2, RoomFacts
  <1> QED
    BY <1>2, <1>3, <1>4, EmptyGood, KeyRegionsAssumption DEF Init, Fit

\* The invariant: every list of regions is sorted, its gaps exact, no region
\* turned round, and none without room for it: no seed has any unless its run or its
\* calibration reached the target.
THEOREM Invariance == Spec => []IInv
  <1>1. Init => IInv
    BY InitInv
  <1>2. IInv /\ [Next]_vars => IInv'
    BY Step, InvIsFit, InvIsFitNext
  <1> QED
    BY <1>1, <1>2, PTL DEF Spec

\* Regions lie at or behind byte 0, and no P is below its least.
THEOREM TypeCorrect == Spec => []TypeOK
  <1>1. IInv => TypeOK
    BY DEF IInv
  <1> QED
    BY <1>1, Invariance, PTL

\* After any insertions, deletions and merges the gap kept with a region is that
\* to the next, whatever the number of regions allowed.
THEOREM GapsExactCorrect == Spec => []GapsExact
  <1>1. IInv => GapsExact
    BY DEF IInv
  <1> QED
    BY <1>1, Invariance, PTL

\* No seed has more than MAX_KEY_REGIONS_COUNT regions, although only the seed
\* being fuzzed is merged, beyond one for each slip in the line that handed them on.
THEOREM BoundedCorrect == Spec => []Bounded
  <1>1. IInv => Bounded
    BY DEF IInv
  <1> QED
    BY <1>1, Invariance, PTL

\* Only seeds whose run or calibration reached the target have key byte regions.
THEOREM RegionsOfTargetCorrect == Spec => []RegionsOfTarget
  <1>1. IInv => RegionsOfTarget
    BY DEF IInv
  <1> QED
    BY <1>1, Invariance, PTL

\* Where a strong region began a region remains after every step: joining
\* neighbours never uncovers a start.
THEOREM StartsKeptCorrect == Spec => StartsKept
  <1> DEFINE Stays == pc' # "freed" =>
               \A q \in DOMAIN queue : \A i \in DOMAIN queue[q].key_regions :
                 ~Weak(queue[q].key_regions[i]) =>
                   Covers(queue'[q].key_regions, queue[q].key_regions[i].start)
  <1>1. IInv /\ [Next]_vars => [Stays]_vars
    <2> SUFFICES ASSUME IInv, [Next]_vars PROVE Stays
      OBVIOUS
    <2>1. pc' # "freed" => Holding(queue, queue')
      BY Step, InvIsFit
    <2> QED
      BY <2>1, HeldCovered DEF Holding
  <1>2. StartsKept <=> [][Stays]_vars
    BY DEF StartsKept
  <1> QED
    BY <1>1, <1>2, Invariance, PTL DEF Spec
=============================================================================
