--------------------------- MODULE StateAwareProofs ---------------------------
(***************************************************************************)
(* Proofs about StateAware, for any states, algorithms, hash function,     *)
(* number of seeds and messages.                                           *)
(***************************************************************************)
EXTENDS StateAware, FunctionTheorems, FiniteSetTheorems, TLAPS

(***************************************************************************)
(* Positions in a sequence.                                                *)
(***************************************************************************)

\* How many elements of S are not greater than i.
Rank(S, i) == Cardinality({j \in S : j <= i})

\* Ranks run from 1 to the number of elements, each of which has its own.
LEMMA RankBijection ==
  ASSUME NEW S \in SUBSET Nat, IsFiniteSet(S)
  PROVE  /\ Cardinality(S) \in Nat
         /\ \A i \in S : Rank(S, i) \in 1 .. Cardinality(S)
         /\ \A i, j \in S : i < j => Rank(S, i) < Rank(S, j)
         /\ \A k \in 1 .. Cardinality(S) : \E i \in S : Rank(S, i) = k
  <1> DEFINE Upto(i) == {j \in S : j <= i}
             rank == [i \in S |-> Rank(S, i)]
             n == Cardinality(S)
  <1>1. n \in Nat
    BY FS_CardinalityType
  <1>2. ASSUME NEW i \in S
        PROVE  /\ IsFiniteSet(Upto(i)) /\ Cardinality(Upto(i)) \in Nat
               /\ Cardinality(Upto(i)) # 0 /\ Cardinality(Upto(i)) <= n
    <2>1. Upto(i) \in SUBSET S /\ i \in Upto(i)
      OBVIOUS
    <2>2. IsFiniteSet(Upto(i)) /\ Cardinality(Upto(i)) <= n
      BY <2>1, FS_Subset
    <2> QED
      BY <2>1, <2>2, FS_CardinalityType, FS_EmptySet
  <1>3. ASSUME NEW i \in S, NEW j \in S, i < j
        PROVE  Rank(S, i) < Rank(S, j)
    <2>0. \A k \in S : k \in Nat
      OBVIOUS
    <2>3. i \in Nat /\ j \in Nat /\ ~(j <= i) /\ j <= j
      BY <1>3, <2>0
    <2>4. \A k \in S : k <= i => k <= j
      BY <1>3, <2>0, <2>3
    <2>1. Upto(i) \in SUBSET Upto(j) /\ j \in Upto(j) /\ j \notin Upto(i)
      BY <2>3, <2>4
    <2>2. Cardinality(Upto(i)) <= Cardinality(Upto(j)) /\ Cardinality(Upto(i)) # Cardinality(Upto(j))
      BY <1>2, <2>1, FS_Subset
    <2> QED
      BY <1>2, <2>2 DEF Rank
  <1>4. \A i \in S : Rank(S, i) \in 1 .. n
    BY <1>1, <1>2 DEF Rank
  <1>5. rank \in Injection(S, 1 .. n)
    <2>1. rank \in [S -> 1 .. n]
      BY <1>4
    <2>2. ASSUME NEW i \in S, NEW j \in S, rank[i] = rank[j]
          PROVE  i = j
      <3>1. Rank(S, i) = Rank(S, j) /\ Rank(S, i) \in Nat /\ Rank(S, j) \in Nat
        BY <1>1, <1>4, <2>2
      <3>2. ~(i < j) /\ ~(j < i)
        BY <1>3, <3>1
      <3> QED
        BY <3>2
    <2> QED
      BY <2>1, <2>2, Fun_IsInj
  <1>6. IsFiniteSet(1 .. n) /\ Cardinality(1 .. n) = n
    BY <1>1, FS_Interval
  <1>7. rank \in Surjection(S, 1 .. n)
    BY <1>5, <1>6, FS_Injection
  <1>8. \A k \in 1 .. n : \E i \in S : rank[i] = k
    BY <1>7 DEF Surjection
  <1> QED
    BY <1>1, <1>3, <1>4, <1>8

\* Nth goes through the elements in their order, and misses none.
LEMMA NthEnumerates ==
  ASSUME NEW S \in SUBSET Nat, IsFiniteSet(S)
  PROVE  /\ Cardinality(S) \in Nat
         /\ \A k \in 1 .. Cardinality(S) : Nth(S, k) \in S
         /\ \A i \in S : \E k \in 1 .. Cardinality(S) : Nth(S, k) = i
         /\ \A k, l \in 1 .. Cardinality(S) : k # l => Nth(S, k) # Nth(S, l)
         /\ \A i \in S : (\A j \in S : i <= j) => Cardinality(S) # 0 /\ Nth(S, 1) = i
  <1>1. Cardinality(S) \in Nat
    BY RankBijection
  <1>2. ASSUME NEW k \in 1 .. Cardinality(S)
        PROVE  Nth(S, k) \in S /\ Rank(S, Nth(S, k)) = k
    <2>1. \E i \in S : Cardinality({j \in S : j <= i}) = k
      BY RankBijection DEF Rank
    <2> QED
      BY <2>1 DEF Nth, Rank
  <1>3. ASSUME NEW i \in S, NEW j \in S, Rank(S, i) = Rank(S, j)
        PROVE  i = j
    <2>1. Rank(S, i) \in Nat /\ Rank(S, j) \in Nat
      BY <1>1, RankBijection
    <2>2. ~(i < j) /\ ~(j < i)
      BY <1>3, <2>1, RankBijection
    <2> QED
      BY <2>2
  <1>4. ASSUME NEW i \in S
        PROVE  Rank(S, i) \in 1 .. Cardinality(S) /\ Nth(S, Rank(S, i)) = i
    <2>1. Rank(S, i) \in 1 .. Cardinality(S)
      BY RankBijection
    <2> QED
      BY <1>2, <1>3, <2>1
  <1>5. ASSUME NEW i \in S, \A j \in S : i <= j
        PROVE  Cardinality(S) # 0 /\ Nth(S, 1) = i
    <2>0. \A k \in S : k \in Nat
      OBVIOUS
    <2>3. \A j \in S : j <= i <=> j = i
      BY <1>5, <2>0
    <2>1. {j \in S : j <= i} = {i}
      BY <2>3
    <2>2. Rank(S, i) = 1
      BY <2>1, FS_Singleton DEF Rank
    <2> QED
      BY <1>1, <1>4, <2>2
  <1> QED
    BY <1>1, <1>2, <1>4, <1>5

\* A set of numbers that is not empty has a least element.
LEMMA LeastOf ==
  ASSUME NEW S \in SUBSET Nat, IsFiniteSet(S), S # {}
  PROVE  \E i \in S : \A j \in S : i <= j
  <1>1. Cardinality(S) \in Nat /\ Cardinality(S) # 0
    BY FS_CardinalityType, FS_EmptySet
  <1>2. PICK i \in S : Rank(S, i) = 1
    BY <1>1, RankBijection
  <1>3. ASSUME NEW j \in S, j < i
        PROVE  FALSE
    BY <1>1, <1>2, <1>3, RankBijection
  <1> QED
    BY <1>3
\* The elements of a subsequence are those at the positions picked.
LEMMA PickedElements ==
  ASSUME NEW V, NEW s \in Seq(V), NEW S \in SUBSET DOMAIN s
  PROVE  /\ IsFiniteSet(S) /\ S \in SUBSET Nat /\ Cardinality(S) \in Nat
         /\ Picked(s, S) \in Seq(V) /\ Len(Picked(s, S)) = Cardinality(S)
         /\ \A k \in 1 .. Cardinality(S) : Nth(S, k) \in S /\ Picked(s, S)[k] = s[Nth(S, k)]
         /\ Elements(Picked(s, S)) = {s[i] : i \in S}
  <1>1. DOMAIN s = 1 .. Len(s) /\ Len(s) \in Nat /\ \A i \in DOMAIN s : s[i] \in V
    OBVIOUS
  <1>2. IsFiniteSet(DOMAIN s)
    BY <1>1, FS_Interval
  <1>3. IsFiniteSet(S) /\ S \in SUBSET Nat
    BY <1>1, <1>2, FS_Subset
  <1>4. Cardinality(S) \in Nat /\ \A k \in 1 .. Cardinality(S) : Nth(S, k) \in S
    BY <1>3, NthEnumerates
  <1>5. /\ Picked(s, S) \in Seq(V) /\ Len(Picked(s, S)) = Cardinality(S)
        /\ DOMAIN Picked(s, S) = 1 .. Cardinality(S)
        /\ \A k \in 1 .. Cardinality(S) : Picked(s, S)[k] = s[Nth(S, k)]
    BY <1>1, <1>4 DEF Picked
  <1>6. Elements(Picked(s, S)) = {s[Nth(S, k)] : k \in 1 .. Cardinality(S)}
    BY <1>5 DEF Elements
  <1>7. {s[Nth(S, k)] : k \in 1 .. Cardinality(S)} = {s[i] : i \in S}
    BY <1>3, <1>4, NthEnumerates
  <1> QED
    BY <1>3, <1>4, <1>5, <1>6, <1>7

\* Fresh lists each element outside X once, the first of all first.
LEMMA FreshElements ==
  ASSUME NEW V, NEW s \in Seq(V), NEW X
  PROVE  /\ Fresh(s, X) \in Seq(V)
         /\ Elements(Fresh(s, X)) = Elements(s) \ X
         /\ \A k, l \in DOMAIN Fresh(s, X) : k # l => Fresh(s, X)[k] # Fresh(s, X)[l]
         /\ s # <<>> /\ s[1] \notin X => Fresh(s, X) # <<>> /\ Fresh(s, X)[1] = s[1]
  <1> DEFINE F == FirstOutside(s, X)
  <1>1. DOMAIN s = 1 .. Len(s) /\ Len(s) \in Nat
    OBVIOUS
  <1>2. F \in SUBSET DOMAIN s
    BY DEF FirstOutside
  <1>3. /\ IsFiniteSet(F) /\ F \in SUBSET Nat /\ Cardinality(F) \in Nat
        /\ Fresh(s, X) \in Seq(V) /\ Len(Fresh(s, X)) = Cardinality(F)
        /\ \A k \in 1 .. Cardinality(F) : Nth(F, k) \in F /\ Fresh(s, X)[k] = s[Nth(F, k)]
        /\ Elements(Fresh(s, X)) = {s[i] : i \in F}
    BY <1>2, PickedElements DEF Fresh
  <1>4. ASSUME NEW v \in Elements(s) \ X
        PROVE  v \in {s[i] : i \in F}
    <2> DEFINE At == {i \in DOMAIN s : s[i] = v}
    <2>1. At # {} /\ At \in SUBSET (1 .. Len(s))
      BY <1>1 DEF Elements
    <2>7. IsFiniteSet(1 .. Len(s))
      BY <1>1, FS_Interval
    <2>8. At \in SUBSET Nat
      BY <1>1, <2>1
    <2> HIDE DEF At
    <2>9. IsFiniteSet(At)
      BY <2>1, <2>7, FS_Subset
    <2>2. At \in SUBSET Nat /\ IsFiniteSet(At)
      BY <2>8, <2>9
    <2> USE DEF At
    <2>3. PICK i \in At : \A j \in At : i <= j
      BY <2>1, <2>2, LeastOf
    <2>4. i \in Nat /\ i \in DOMAIN s /\ s[i] = v
      BY <2>2, <2>3
    <2>5. ASSUME NEW j \in 1 .. i - 1
          PROVE  s[j] # s[i]
      <3>1. j \in DOMAIN s /\ ~(i <= j)
        BY <1>1, <2>4, <2>5
      <3> QED
        BY <2>3, <2>4, <3>1
    <2>6. i \in F
      BY <2>4, <2>5 DEF FirstOutside
    <2> QED
      BY <2>4, <2>6
  <1>5. Elements(Fresh(s, X)) = Elements(s) \ X
    <2>1. {s[i] : i \in F} \subseteq Elements(s) \ X
      BY DEF FirstOutside, Elements
    <2> QED
      BY <1>3, <1>4, <2>1
  <1>6. ASSUME NEW i \in F, NEW j \in F, s[i] = s[j]
        PROVE  i = j
    <2>1. i \in Nat /\ j \in Nat /\ i > 0 /\ j > 0
      BY <1>1, <1>2
    <2>2. i < j => i \in 1 .. j - 1
      BY <2>1
    <2>3. j < i => j \in 1 .. i - 1
      BY <2>1
    <2>4. ~(i < j) /\ ~(j < i)
      BY <1>6, <2>2, <2>3 DEF FirstOutside
    <2> QED
      BY <2>1, <2>4
  <1>7. ASSUME NEW k \in DOMAIN Fresh(s, X), NEW l \in DOMAIN Fresh(s, X), k # l
        PROVE  Fresh(s, X)[k] # Fresh(s, X)[l]
    <2>1. k \in 1 .. Cardinality(F) /\ l \in 1 .. Cardinality(F)
      BY <1>3
    <2>2. Nth(F, k) # Nth(F, l)
      BY <1>3, <1>7, <2>1, NthEnumerates
    <2> QED
      BY <1>3, <1>6, <2>1, <2>2
  <1>8. ASSUME s # <<>>, s[1] \notin X
        PROVE  Fresh(s, X) # <<>> /\ Fresh(s, X)[1] = s[1]
    <2>1. 1 \in F
      BY <1>1, <1>8 DEF FirstOutside
    <2>2. \A j \in F : 1 <= j
      BY <1>1, <1>2
    <2>3. Cardinality(F) # 0 /\ Nth(F, 1) = 1
      BY <1>3, <2>1, <2>2, NthEnumerates
    <2> QED
      BY <1>3, <2>3
  <1> QED
    BY <1>3, <1>5, <1>7, <1>8
(***************************************************************************)
(* What a run says.                                                        *)
(***************************************************************************)

\* Reached lists the states in which an annotation ends.
LEMMA ReachedElements ==
  ASSUME NEW regions \in Seq(Annotations)
  PROVE  /\ Reached(regions) \in Seq(AllStates)
         /\ Elements(Reached(regions)) =
              {regions[i].last : i \in {j \in DOMAIN regions : regions[j].count > 0}}
  <1> DEFINE S == {i \in DOMAIN regions : regions[i].count > 0}
             lasts == [i \in DOMAIN regions |-> regions[i].last]
  <1>1. DOMAIN regions = 1 .. Len(regions) /\ Len(regions) \in Nat
        /\ \A i \in DOMAIN regions : regions[i] \in Annotations
    OBVIOUS
  <1>2. \A i \in DOMAIN regions : regions[i].last \in AllStates
    BY <1>1 DEF Annotations
  <1>3. lasts \in Seq(AllStates) /\ DOMAIN lasts = DOMAIN regions
    BY <1>1, <1>2
  <1>4. S \in SUBSET DOMAIN lasts
    BY <1>3
  <1>9. DOMAIN lasts = DOMAIN regions /\ \A i \in DOMAIN regions : lasts[i] = regions[i].last
    OBVIOUS
  <1> HIDE DEF S, lasts
  <1>5. /\ Cardinality(S) \in Nat
        /\ Picked(lasts, S) \in Seq(AllStates)
        /\ \A k \in 1 .. Cardinality(S) : Nth(S, k) \in S
        /\ Elements(Picked(lasts, S)) = {lasts[i] : i \in S}
    BY <1>3, <1>4, PickedElements
  <1>6. \A k \in 1 .. Cardinality(S) : lasts[Nth(S, k)] = regions[Nth(S, k)].last
    BY <1>4, <1>5, <1>9
  <1>7. Reached(regions) = Picked(lasts, S)
    BY <1>6 DEF Reached, Picked, S
  <1>8. {lasts[i] : i \in S} = {regions[i].last : i \in S}
    BY <1>4, <1>9
  <1> QED
    BY <1>5, <1>7, <1>8 DEF S

\* An annotation is a length and a state.
LEMMA AnnotationType ==
  ASSUME NEW s \in Seq(AllStates), s # <<>>
  PROVE  /\ Annotation(s) \in Annotations
         /\ Annotation(s).last \in Elements(s)
  BY DEF Annotation, Annotations, Elements

\* A sequence of states begins with 0, and has the states of all annotations.
Outcome(o, n) ==
  /\ o.seq \in Seq(AllStates) /\ o.seq # <<>> /\ o.seq[1] = 0
  /\ o.regions \in Seq(Annotations) /\ Len(o.regions) = n
  /\ \A i \in DOMAIN o.regions :
        o.regions[i].count > 0 => o.regions[i].last \in Elements(o.seq)

\* Samples from memory: the annotation of a message names the sample after it.
LEMMA EnumOutcomes ==
  ASSUME NEW n \in Nat, NEW samples \in [1 .. n + 1 -> AllStates]
  PROVE  Outcome(EnumOutcome(samples), n)
  <1> DEFINE o == EnumOutcome(samples)
             seq == <<0>> \o samples
  <1>1. samples \in Seq(AllStates) /\ Len(samples) = n + 1
    OBVIOUS
  <1>2. /\ seq \in Seq(AllStates) /\ Len(seq) = n + 2 /\ seq # <<>> /\ seq[1] = 0
    BY <1>1 DEF AllStates
  <1> HIDE DEF seq
  <1>3. ASSUME NEW i \in 1 .. n
        PROVE  /\ Annotation(SubSeq(seq, 1, i + 1)) \in Annotations
               /\ Annotation(SubSeq(seq, 1, i + 1)).last \in Elements(seq)
    <2> DEFINE p == SubSeq(seq, 1, i + 1)
    <2>1. p \in Seq(AllStates) /\ Len(p) = i + 1 /\ p # <<>>
          /\ \A j \in 1 .. i + 1 : p[j] = seq[j]
      BY <1>2
    <2>2. Elements(p) \subseteq Elements(seq)
      BY <1>2, <2>1 DEF Elements
    <2> HIDE DEF p
    <2>3. Annotation(p) \in Annotations /\ Annotation(p).last \in Elements(p)
      BY <2>1, AnnotationType
    <2> QED
      BY <2>2, <2>3 DEF p
  <1>4. o.seq = seq /\ o.regions = [i \in 1 .. n |-> Annotation(SubSeq(seq, 1, i + 1))]
    BY <1>1 DEF EnumOutcome, seq
  <1>5. o.regions \in Seq(Annotations) /\ Len(o.regions) = n /\ DOMAIN o.regions = 1 .. n
        /\ \A i \in 1 .. n : o.regions[i] = Annotation(SubSeq(seq, 1, i + 1))
    BY <1>3, <1>4
  <1> HIDE DEF o
  <1>6. Outcome(o, n)
    BY <1>2, <1>3, <1>4, <1>5 DEF Outcome
  <1> QED
    BY <1>6 DEF o
Replies == AllStates \cup {-1}
Usable(r) == {i \in DOMAIN r : r[i] # -1 /\ \A j \in 1 .. i : r[j] # 0}

\* The codes up to the first reply that cannot be read.
LEMMA ExtractedCodes ==
  ASSUME NEW r \in Seq(Replies)
  PROVE  /\ extract_response_codes(r) \in Seq(AllStates)
         /\ extract_response_codes(r) # <<>> /\ extract_response_codes(r)[1] = 0
         /\ Elements(extract_response_codes(r)) = {0} \cup {r[i] : i \in Usable(r)}
  <1> DEFINE P == Picked(r, Usable(r))
             e == <<0>> \o P
  <1>1. Usable(r) \in SUBSET DOMAIN r
    BY DEF Usable
  <1>2. P \in Seq(Replies) /\ Elements(P) = {r[i] : i \in Usable(r)}
    BY <1>1, PickedElements
  <1>3. \A k \in DOMAIN P : P[k] \in AllStates
    <2>1. \A i \in Usable(r) : r[i] \in AllStates
      BY DEF Usable, Replies
    <2> QED
      BY <1>2, <2>1 DEF Elements
  <1> HIDE DEF P
  <1>4. P \in Seq(AllStates) /\ DOMAIN P = 1 .. Len(P) /\ Len(P) \in Nat
    BY <1>2, <1>3
  <1>5. e \in Seq(AllStates) /\ Len(e) = Len(P) + 1 /\ e # <<>> /\ e[1] = 0
        /\ \A k \in 1 .. Len(P) : e[k + 1] = P[k]
    BY <1>4 DEF AllStates
  <1>6. Elements(e) = {0} \cup Elements(P)
    <2>1. ASSUME NEW i \in DOMAIN e
          PROVE  e[i] \in {0} \cup Elements(P)
      <3>1. i = 1 \/ (i - 1 \in 1 .. Len(P) /\ i = (i - 1) + 1)
        BY <1>4, <1>5
      <3> QED
        BY <1>4, <1>5, <3>1 DEF Elements
    <2>2. ASSUME NEW k \in DOMAIN P
          PROVE  P[k] \in Elements(e)
      <3>1. k + 1 \in DOMAIN e /\ e[k + 1] = P[k]
        BY <1>4, <1>5
      <3> QED
        BY <3>1 DEF Elements
    <2>3. 0 \in Elements(e)
      BY <1>5 DEF Elements
    <2> QED
      BY <2>1, <2>2, <2>3 DEF Elements
  <1>7. extract_response_codes(r) = e
    BY DEF extract_response_codes, e, P, Usable
  <1> QED
    BY <1>2, <1>5, <1>6, <1>7

\* Response codes: what the replies up to a message say is in what all of them say.
LEMMA CodeOutcomes ==
  ASSUME NEW n \in Nat, NEW r \in [1 .. n + 1 -> Replies]
  PROVE  Outcome(CodeOutcome(r), n)
  <1> DEFINE o == CodeOutcome(r)
             P(i) == SubSeq(r, 1, i + 1)
  <1>1. r \in Seq(Replies) /\ Len(r) = n + 1 /\ DOMAIN r = 1 .. n + 1
    OBVIOUS
  <1>2. ASSUME NEW i \in 1 .. n
        PROVE  /\ Annotation(extract_response_codes(P(i))) \in Annotations
               /\ Annotation(extract_response_codes(P(i))).last
                    \in Elements(extract_response_codes(r))
    <2>1. P(i) \in Seq(Replies) /\ DOMAIN P(i) = 1 .. i + 1
          /\ \A j \in 1 .. i + 1 : P(i)[j] = r[j]
      BY <1>1
    <2>2. Usable(P(i)) \subseteq Usable(r) /\ \A j \in Usable(P(i)) : P(i)[j] = r[j]
      BY <1>1, <2>1 DEF Usable
    <2> HIDE DEF P
    <2>4. {P(i)[j] : j \in Usable(P(i))} \subseteq {r[j] : j \in Usable(r)}
      BY <2>2
    <2>5. Elements(extract_response_codes(P(i))) = {0} \cup {P(i)[j] : j \in Usable(P(i))}
      BY <2>1, ExtractedCodes
    <2>6. Elements(extract_response_codes(r)) = {0} \cup {r[j] : j \in Usable(r)}
      BY <1>1, ExtractedCodes
    <2>3. Elements(extract_response_codes(P(i))) \subseteq Elements(extract_response_codes(r))
      BY <2>4, <2>5, <2>6
    <2> QED
      BY <2>1, <2>3, ExtractedCodes, AnnotationType
  <1>3. NoAnnotation \in Annotations /\ NoAnnotation.count = 0
    BY DEF NoAnnotation, Annotations, AllStates
  <1> DEFINE silent(i) == \/ \A j \in 1 .. i + 1 : r[j] = -1
                          \/ i > 1 /\ r[i + 1] = -1
  <1>4. /\ o.seq = extract_response_codes(r)
        /\ o.regions = [i \in 1 .. n |->
             IF silent(i) THEN NoAnnotation ELSE Annotation(extract_response_codes(P(i)))]
    BY <1>1 DEF CodeOutcome
  <1> HIDE DEF o, P, silent
  <1>5. /\ o.regions \in Seq(Annotations) /\ Len(o.regions) = n /\ DOMAIN o.regions = 1 .. n
        /\ \A i \in 1 .. n : \/ o.regions[i] = NoAnnotation
                             \/ o.regions[i] = Annotation(extract_response_codes(P(i)))
    BY <1>2, <1>3, <1>4
  <1>6. \A i \in DOMAIN o.regions :
          o.regions[i].count > 0 => o.regions[i].last \in Elements(o.seq)
    BY <1>2, <1>3, <1>4, <1>5
  <1>7. Outcome(o, n)
    BY <1>1, <1>4, <1>5, <1>6, ExtractedCodes DEF Outcome
  <1> QED
    BY <1>7 DEF o

\* In both modes.
LEMMA OutcomeFacts ==
  ASSUME NEW n \in Nat, NEW o \in Outcomes(n)
  PROVE  Outcome(o, n)
  BY EnumOutcomes, CodeOutcomes DEF Outcomes, Replies
(***************************************************************************)
(* The states a run adds.                                                  *)
(***************************************************************************)

\* What a list and another one after it hold.
LEMMA ConcatElements ==
  ASSUME NEW V, NEW s \in Seq(V), NEW t \in Seq(V)
  PROVE  /\ s \o t \in Seq(V) /\ Len(s \o t) = Len(s) + Len(t)
         /\ \A i \in 1 .. Len(s) : (s \o t)[i] = s[i]
         /\ \A i \in 1 .. Len(t) : (s \o t)[Len(s) + i] = t[i]
         /\ Elements(s \o t) = Elements(s) \cup Elements(t)
  <1>1. /\ s \o t \in Seq(V) /\ Len(s \o t) = Len(s) + Len(t)
        /\ Len(s) \in Nat /\ Len(t) \in Nat
        /\ DOMAIN s = 1 .. Len(s) /\ DOMAIN t = 1 .. Len(t)
        /\ DOMAIN (s \o t) = 1 .. Len(s) + Len(t)
    OBVIOUS
  <1>2. \A i \in 1 .. Len(s) : (s \o t)[i] = s[i]
    OBVIOUS
  <1>3. \A i \in 1 .. Len(t) : (s \o t)[Len(s) + i] = t[i]
    OBVIOUS
  <1> DEFINE u == s \o t
  <1>4. DOMAIN u = 1 .. Len(s) + Len(t) /\ (\A i \in 1 .. Len(s) : u[i] = s[i])
        /\ \A i \in 1 .. Len(t) : u[Len(s) + i] = t[i]
    BY <1>1, <1>2, <1>3
  <1> HIDE DEF u
  <1>5. ASSUME NEW i \in DOMAIN u
        PROVE  u[i] \in Elements(s) \cup Elements(t)
    <2>1. CASE i \in 1 .. Len(s)
      BY <1>1, <1>4, <2>1 DEF Elements
    <2>2. CASE i \notin 1 .. Len(s)
      <3>1. i - Len(s) \in 1 .. Len(t) /\ i = Len(s) + (i - Len(s))
        BY <1>1, <1>4, <2>2
      <3>2. u[i] = t[i - Len(s)]
        BY <1>4, <3>1
      <3> QED
        BY <1>1, <3>1, <3>2 DEF Elements
    <2> QED
      BY <2>1, <2>2
  <1>6. ASSUME NEW i \in DOMAIN s
        PROVE  s[i] \in Elements(u)
    <2>1. i \in DOMAIN u /\ u[i] = s[i]
      BY <1>1, <1>4
    <2> QED
      BY <2>1 DEF Elements
  <1>7. ASSUME NEW i \in DOMAIN t
        PROVE  t[i] \in Elements(u)
    <2>1. Len(s) + i \in DOMAIN u /\ u[Len(s) + i] = t[i]
      BY <1>1, <1>4
    <2> QED
      BY <2>1 DEF Elements
  <1>8. Elements(u) = Elements(s) \cup Elements(t)
    BY <1>5, <1>6, <1>7 DEF Elements
  <1> QED
    BY <1>1, <1>2, <1>3, <1>8 DEF u

\* A list is empty exactly if it has no elements.
LEMMA NoElements ==
  ASSUME NEW V, NEW s \in Seq(V)
  PROVE  (s = <<>> <=> Elements(s) = {}) /\ (s # <<>> => s[1] \in Elements(s))
  <1>1. DOMAIN s = 1 .. Len(s) /\ Len(s) \in Nat
    OBVIOUS
  <1>2. s = <<>> <=> Len(s) = 0
    OBVIOUS
  <1>3. Len(s) # 0 => 1 \in DOMAIN s
    BY <1>1
  <1>4. Len(s) = 0 => DOMAIN s = {}
    BY <1>1
  <1> QED
    BY <1>2, <1>3, <1>4 DEF Elements

\* Nodes are new to the graph, late states to graph and hashtable; no state is
\* added twice, and those of the annotations are all there afterwards.
LEMMA NewAndLate ==
  ASSUME NEW n, NEW o, Outcome(o, n)
  PROVE  /\ NewNodes(o.seq) \in Seq(AllStates) /\ LateStates(o) \in Seq(AllStates)
         /\ Elements(NewNodes(o.seq)) \cap ipsm = {}
         /\ \A k, l \in DOMAIN NewNodes(o.seq) :
              k # l => NewNodes(o.seq)[k] # NewNodes(o.seq)[l]
         /\ Elements(LateStates(o)) = Elements(Reached(o.regions))
              \ (DOMAIN khms_states \cup Elements(NewNodes(o.seq)))
         /\ Elements(Reached(o.regions)) \subseteq Elements(o.seq)
         /\ is_state_sequence_interesting(o.seq) /\ Len(o.seq) > 1 =>
              /\ Elements(NewNodes(o.seq)) = Elements(o.seq) \ ipsm
              /\ 0 \notin ipsm => NewNodes(o.seq) # <<>> /\ NewNodes(o.seq)[1] = 0
         /\ ~(is_state_sequence_interesting(o.seq) /\ Len(o.seq) > 1) => NewNodes(o.seq) = <<>>
  <1>1. /\ o.seq \in Seq(AllStates) /\ o.seq # <<>> /\ o.seq[1] = 0
        /\ o.regions \in Seq(Annotations)
        /\ \A i \in DOMAIN o.regions :
              o.regions[i].count > 0 => o.regions[i].last \in Elements(o.seq)
    BY DEF Outcome
  <1>2. Reached(o.regions) \in Seq(AllStates)
        /\ Elements(Reached(o.regions)) \subseteq Elements(o.seq)
    BY <1>1, ReachedElements
  <1>3. /\ LateStates(o) \in Seq(AllStates)
        /\ Elements(LateStates(o)) = Elements(Reached(o.regions))
              \ (DOMAIN khms_states \cup Elements(NewNodes(o.seq)))
    BY <1>2, FreshElements DEF LateStates
  <1>4. CASE is_state_sequence_interesting(o.seq) /\ Len(o.seq) > 1
    <2>1. NewNodes(o.seq) = Fresh(o.seq, ipsm)
      BY <1>4 DEF NewNodes
    <2>2. /\ Fresh(o.seq, ipsm) \in Seq(AllStates)
          /\ Elements(Fresh(o.seq, ipsm)) = Elements(o.seq) \ ipsm
          /\ \A k, l \in DOMAIN Fresh(o.seq, ipsm) :
                k # l => Fresh(o.seq, ipsm)[k] # Fresh(o.seq, ipsm)[l]
      BY <1>1, FreshElements
    <2>3. ASSUME 0 \notin ipsm
          PROVE  Fresh(o.seq, ipsm) # <<>> /\ Fresh(o.seq, ipsm)[1] = 0
      <3>1. o.seq[1] \notin ipsm
        BY <1>1, <2>3
      <3>2. Fresh(o.seq, ipsm) # <<>> /\ Fresh(o.seq, ipsm)[1] = o.seq[1]
        BY <1>1, <3>1, FreshElements
      <3> QED
        BY <1>1, <3>2
    <2> QED
      BY <1>2, <1>3, <1>4, <2>1, <2>2, <2>3
  <1>5. CASE ~(is_state_sequence_interesting(o.seq) /\ Len(o.seq) > 1)
    <2>1. NewNodes(o.seq) = <<>>
      BY <1>5 DEF NewNodes
    <2>2. <<>> \in Seq(AllStates) /\ Elements(<<>>) = {} /\ DOMAIN <<>> = {}
      BY DEF Elements
    <2> QED
      BY <1>2, <1>3, <1>5, <2>1, <2>2
  <1> QED
    BY <1>4, <1>5

\* What is appended to state_ids, and the list afterwards.
Added(o) == NewNodes(o.seq) \o LateStates(o)
Listed(o) == state_ids \o Added(o)

\* The run that creates the initial state, or comes after it.
HasInitial(o) == 0 \in DOMAIN khms_states \cup Elements(NewNodes(o.seq))

\* The list grows by the states added, and holds those of all annotations.
LEMMA ListGrows ==
  ASSUME TypeOK, StatesKnown, NEW n, NEW o, Outcome(o, n)
  PROVE  /\ Added(o) \in Seq(AllStates) /\ Listed(o) \in Seq(AllStates)
         /\ Len(Listed(o)) = Len(state_ids) + Len(Added(o))
         /\ \A i \in 1 .. Len(state_ids) : Listed(o)[i] = state_ids[i]
         /\ \A i \in 1 .. Len(Added(o)) : Listed(o)[Len(state_ids) + i] = Added(o)[i]
         /\ Elements(Listed(o)) = DOMAIN khms_states \cup Elements(Added(o))
         /\ Elements(Added(o)) = Elements(NewNodes(o.seq)) \cup Elements(LateStates(o))
         /\ Elements(Reached(o.regions)) \subseteq Elements(Listed(o))
  <1>1. /\ NewNodes(o.seq) \in Seq(AllStates) /\ LateStates(o) \in Seq(AllStates)
        /\ Elements(LateStates(o)) = Elements(Reached(o.regions))
             \ (DOMAIN khms_states \cup Elements(NewNodes(o.seq)))
    BY NewAndLate
  <1>2. /\ Added(o) \in Seq(AllStates)
        /\ Elements(Added(o)) = Elements(NewNodes(o.seq)) \cup Elements(LateStates(o))
    BY <1>1, ConcatElements DEF Added
  <1>3. state_ids \in Seq(AllStates) /\ Elements(state_ids) = DOMAIN khms_states
    BY DEF TypeOK, StatesKnown
  <1>4. /\ Listed(o) \in Seq(AllStates)
        /\ Len(Listed(o)) = Len(state_ids) + Len(Added(o))
        /\ \A i \in 1 .. Len(state_ids) : Listed(o)[i] = state_ids[i]
        /\ \A i \in 1 .. Len(Added(o)) : Listed(o)[Len(state_ids) + i] = Added(o)[i]
        /\ Elements(Listed(o)) = Elements(state_ids) \cup Elements(Added(o))
    BY <1>2, <1>3, ConcatElements DEF Listed
  <1> QED
    BY <1>1, <1>2, <1>3, <1>4

\* The initial state is the first of the list, and nowhere else in it.
LEMMA InitialFirst ==
  ASSUME TypeOK, StatesKnown, NEW n, NEW o, Outcome(o, n), HasInitial(o)
  PROVE  /\ Listed(o) # <<>> /\ Listed(o)[1] = 0
         /\ \A i \in DOMAIN Listed(o) : i > 1 => Listed(o)[i] # 0
         /\ 0 \in ipsm \cup Elements(NewNodes(o.seq))
         /\ state_ids = <<>> => Added(o) # <<>> /\ Added(o)[1] = 0
         /\ \A i \in DOMAIN Added(o) : (state_ids = <<>> => i > 1) => Added(o)[i] # 0
  <1> DEFINE new == NewNodes(o.seq)
             late == LateStates(o)
  <1>1. /\ new \in Seq(AllStates) /\ late \in Seq(AllStates)
        /\ DOMAIN new = 1 .. Len(new) /\ Len(new) \in Nat
        /\ DOMAIN late = 1 .. Len(late) /\ Len(late) \in Nat
        /\ Elements(new) \cap ipsm = {}
        /\ \A k, l \in DOMAIN new : k # l => new[k] # new[l]
        /\ Elements(late) \cap (DOMAIN khms_states \cup Elements(new)) = {}
    <2>1. /\ new \in Seq(AllStates) /\ late \in Seq(AllStates)
          /\ Elements(new) \cap ipsm = {}
          /\ \A k, l \in DOMAIN new : k # l => new[k] # new[l]
          /\ Elements(late) = Elements(Reached(o.regions))
               \ (DOMAIN khms_states \cup Elements(new))
      BY NewAndLate
    <2> HIDE DEF new, late
    <2>2. /\ DOMAIN new = 1 .. Len(new) /\ Len(new) \in Nat
          /\ DOMAIN late = 1 .. Len(late) /\ Len(late) \in Nat
      BY <2>1
    <2> QED
      BY <2>1, <2>2
  <1>2. /\ Added(o) \in Seq(AllStates) /\ Listed(o) \in Seq(AllStates)
        /\ Len(Listed(o)) = Len(state_ids) + Len(Added(o))
        /\ \A i \in 1 .. Len(state_ids) : Listed(o)[i] = state_ids[i]
        /\ \A i \in 1 .. Len(Added(o)) : Listed(o)[Len(state_ids) + i] = Added(o)[i]
    BY ListGrows
  <1>3. /\ Len(Added(o)) = Len(new) + Len(late)
        /\ \A i \in 1 .. Len(new) : Added(o)[i] = new[i]
        /\ \A i \in 1 .. Len(late) : Added(o)[Len(new) + i] = late[i]
    BY <1>1, ConcatElements DEF Added
  <1>4. /\ state_ids \in Seq(AllStates) /\ Elements(state_ids) = DOMAIN khms_states
        /\ DOMAIN state_ids = 1 .. Len(state_ids) /\ Len(state_ids) \in Nat
        /\ (state_ids = <<>> <=> DOMAIN khms_states = {})
        /\ ipsm \subseteq DOMAIN khms_states
    <2>1. state_ids \in Seq(AllStates) /\ Elements(state_ids) = DOMAIN khms_states
          /\ ipsm \subseteq DOMAIN khms_states
      BY DEF TypeOK, StatesKnown
    <2>2. state_ids = <<>> <=> Elements(state_ids) = {}
      BY <2>1, NoElements
    <2> QED
      BY <2>1, <2>2
  <1>5. \A i \in 1 .. Len(late) : late[i] # 0
    <2>1. 0 \notin Elements(late)
      BY <1>1 DEF HasInitial
    <2> QED
      BY <1>1, <2>1 DEF Elements
  <1>6. CASE state_ids = <<>>
    <2>1. 0 \in Elements(new) /\ 0 \notin ipsm
      BY <1>4, <1>6 DEF HasInitial
    <2>2. new # <<>>
      BY <2>1 DEF Elements
    <2>3. new[1] = 0 /\ 1 \in DOMAIN new
      BY <1>1, <2>1, <2>2, NewAndLate
    <2>4. \A i \in 1 .. Len(new) : i > 1 => new[i] # 0
      BY <1>1, <2>3
    <2>5. \A i \in 1 .. Len(Added(o)) : i > 1 => Added(o)[i] # 0
      <3> TAKE i \in 1 .. Len(Added(o))
      <3>1. i \in 1 .. Len(new) \/ (i - Len(new) \in 1 .. Len(late) /\ i = Len(new) + (i - Len(new)))
        BY <1>1, <1>3
      <3> QED
        BY <1>3, <1>5, <2>4, <3>1
    <2>6. Added(o)[1] = 0 /\ Len(Added(o)) > 0
      BY <1>1, <1>3, <2>3
    <2>7. Listed(o) = Added(o)
      BY <1>2, <1>6 DEF Listed
    <2> QED
      BY <1>2, <1>6, <2>1, <2>5, <2>6, <2>7
  <1>7. CASE state_ids # <<>>
    <2>1. 0 \in ipsm /\ state_ids[1] = 0
          /\ \A i \in DOMAIN state_ids : i > 1 => state_ids[i] # 0
      BY <1>7 DEF StatesKnown
    <2>2. \A i \in 1 .. Len(new) : new[i] # 0
      BY <1>1, <2>1 DEF Elements
    <2>3. \A i \in 1 .. Len(Added(o)) : Added(o)[i] # 0
      <3> TAKE i \in 1 .. Len(Added(o))
      <3>1. i \in 1 .. Len(new) \/ (i - Len(new) \in 1 .. Len(late) /\ i = Len(new) + (i - Len(new)))
        BY <1>1, <1>3
      <3> QED
        BY <1>3, <1>5, <2>2, <3>1
    <2>4. Len(state_ids) > 0
      BY <1>4, <1>7
    <2>5. \A i \in 1 .. Len(Listed(o)) : i > 1 => Listed(o)[i] # 0
      <3> TAKE i \in 1 .. Len(Listed(o))
      <3>1. \/ i \in 1 .. Len(state_ids)
            \/ /\ i - Len(state_ids) \in 1 .. Len(Added(o))
               /\ i = Len(state_ids) + (i - Len(state_ids))
        BY <1>2, <1>4
      <3>2. CASE i \in 1 .. Len(state_ids)
        BY <1>2, <1>4, <2>1, <3>2
      <3>3. ASSUME i - Len(state_ids) \in 1 .. Len(Added(o)),
                   i = Len(state_ids) + (i - Len(state_ids))
            PROVE  Listed(o)[i] # 0
        BY <1>2, <2>3, <3>3
      <3> QED
        BY <3>1, <3>2, <3>3
    <2>6. Listed(o)[1] = 0 /\ Listed(o) # <<>>
      BY <1>2, <1>4, <2>1, <2>4
    <2> QED
      BY <1>2, <1>7, <2>1, <2>3, <2>5, <2>6
  <1> QED
    BY <1>6, <1>7

\* The rows counted make the table as long as the list.
LEMMA RowsForStates ==
  ASSUME TypeOK, StatesKnown, NEW n, NEW o, Outcome(o, n), HasInitial(o)
  PROVE  /\ NewRows(Added(o)) \in Nat
         /\ (IF state_ids = <<>> THEN 1 ELSE Len(state_ids)) + NewRows(Added(o))
              = Len(Listed(o))
  <1> DEFINE add == Added(o)
             R == {i \in DOMAIN add : add[i] # 0}
  <1>1. /\ add \in Seq(AllStates) /\ Len(Listed(o)) = Len(state_ids) + Len(add)
        /\ state_ids = <<>> => add # <<>> /\ add[1] = 0
        /\ \A i \in DOMAIN add : (state_ids = <<>> => i > 1) => add[i] # 0
    BY ListGrows, InitialFirst
  <1>2. state_ids \in Seq(AllStates)
    BY DEF TypeOK
  <1> HIDE DEF add
  <1>3. DOMAIN add = 1 .. Len(add) /\ Len(add) \in Nat /\ Len(state_ids) \in Nat
    BY <1>1, <1>2
  <1>4. IsFiniteSet(1 .. Len(add)) /\ Cardinality(1 .. Len(add)) = Len(add)
    <2>1. ASSUME NEW m \in Nat
          PROVE  IsFiniteSet(1 .. m) /\ Cardinality(1 .. m) = m
      BY FS_Interval
    <2> QED
      BY <1>3, <2>1
  <1>5. CASE state_ids = <<>>
    <2>1. R = (1 .. Len(add)) \ {1} /\ 1 \in 1 .. Len(add)
      BY <1>1, <1>3, <1>5
    <2>4. Cardinality((1 .. Len(add)) \ {1}) = Cardinality(1 .. Len(add)) - 1
      BY <1>4, <2>1, FS_RemoveElement
    <2> HIDE DEF R
    <2>2. Cardinality(R) = Len(add) - 1 /\ Len(add) > 0
      BY <1>3, <1>4, <2>1, <2>4
    <2> USE DEF R
    <2>3. Len(state_ids) = 0
      BY <1>5
    <2> QED
      BY <1>1, <1>3, <1>5, <2>2, <2>3 DEF NewRows, add
  <1>6. CASE state_ids # <<>>
    <2>1. R = 1 .. Len(add)
      BY <1>1, <1>3, <1>6
    <2> QED
      BY <1>1, <1>3, <1>4, <1>6, <2>1 DEF NewRows, add
  <1> QED
    BY <1>5, <1>6

\* As long as no collision has hidden a state, what is added is new to graph,
\* hashtable and list alike.
LEMMA AgreeAfter ==
  ASSUME TypeOK, StatesKnown, StatesAgree, NEW n, NEW o, Outcome(o, n), HasInitial(o),
         ~collided, ~Hidden(o.seq)
  PROVE  /\ ipsm \cup Elements(NewNodes(o.seq)) = DOMAIN khms_states \cup Elements(Added(o))
         /\ Elements(Added(o)) \cap DOMAIN khms_states = {}
         /\ \A i, j \in DOMAIN Listed(o) : Listed(o)[i] = Listed(o)[j] => i = j
  <1> DEFINE new == NewNodes(o.seq)
             late == LateStates(o)
  <1>1. /\ Elements(state_ids) = DOMAIN khms_states /\ ipsm = DOMAIN khms_states
        /\ \A i, j \in DOMAIN state_ids : state_ids[i] = state_ids[j] => i = j
        /\ state_ids \in Seq(AllStates)
    BY DEF StatesAgree, TypeOK
  <1>2. o.seq \in Seq(AllStates) /\ o.seq # <<>> /\ o.seq[1] = 0
    BY DEF Outcome
  <1>3. Elements(o.seq) \subseteq ipsm \cup Elements(new)
    <2>1. CASE is_state_sequence_interesting(o.seq) /\ Len(o.seq) > 1
      BY <2>1, NewAndLate
    <2>2. CASE ~is_state_sequence_interesting(o.seq) /\ Len(o.seq) > 1
      <3>1. Fresh(o.seq, ipsm) = <<>>
        BY <2>2 DEF Hidden
      <3>2. Elements(o.seq) \ ipsm = Elements(<<>>)
        BY <1>2, <3>1, FreshElements
      <3>3. Elements(<<>>) = {}
        BY DEF Elements
      <3> QED
        BY <3>2, <3>3
    <2>3. CASE ~(Len(o.seq) > 1)
      <3>1. Elements(o.seq) = {0}
        BY <1>2, <2>3 DEF Elements
      <3> QED
        BY <1>1, <3>1 DEF HasInitial
    <2> QED
      BY <2>1, <2>2, <2>3
  <1>4. Elements(late) = {} /\ late \in Seq(AllStates)
    <2>1. Elements(late) = Elements(Reached(o.regions)) \ (DOMAIN khms_states \cup Elements(new))
          /\ Elements(Reached(o.regions)) \subseteq Elements(o.seq)
          /\ late \in Seq(AllStates)
      BY NewAndLate
    <2> QED
      BY <1>1, <1>3, <2>1
  <1>5. late = <<>>
    BY <1>4, NoElements
  <1>6. /\ new \in Seq(AllStates) /\ Elements(new) \cap ipsm = {}
        /\ \A k, l \in DOMAIN new : k # l => new[k] # new[l]
    BY NewAndLate
  <1>7. Added(o) = new
    BY <1>5, <1>6 DEF Added
  <1>8. /\ Len(Listed(o)) = Len(state_ids) + Len(new) /\ Listed(o) \in Seq(AllStates)
        /\ \A i \in 1 .. Len(state_ids) : Listed(o)[i] = state_ids[i]
        /\ \A i \in 1 .. Len(new) : Listed(o)[Len(state_ids) + i] = new[i]
    BY <1>7, ListGrows
  <1> DEFINE L == Listed(o)
             m == Len(state_ids)
             Old(i) == i \in 1 .. m
             New(i) == i - m \in 1 .. Len(new) /\ L[i] = new[i - m]
  <1> HIDE DEF new, late, L
  <1>9. /\ m \in Nat /\ Len(new) \in Nat /\ DOMAIN L = 1 .. m + Len(new)
        /\ DOMAIN state_ids = 1 .. m /\ DOMAIN new = 1 .. Len(new)
    BY <1>1, <1>6, <1>8 DEF L
  <1>10. \A i \in DOMAIN L : i \in Nat /\ (Old(i) => L[i] = state_ids[i]) /\ (~Old(i) => New(i))
    <2> TAKE i \in DOMAIN L
    <2>1. Old(i) => L[i] = state_ids[i]
      BY <1>8 DEF L
    <2>2. ~Old(i) => i - m \in 1 .. Len(new) /\ i = m + (i - m)
      BY <1>9
    <2>3. ~Old(i) => L[i] = new[i - m]
      BY <1>8, <2>2 DEF L
    <2> QED
      BY <1>9, <2>1, <2>2, <2>3
  <1>11. \A i, j \in DOMAIN L : Old(i) /\ New(j) => L[i] # L[j]
    <2>1. \A i \in DOMAIN state_ids : state_ids[i] \in ipsm
      BY <1>1 DEF Elements
    <2>2. \A i \in DOMAIN new : new[i] \notin ipsm
      BY <1>6 DEF Elements
    <2> QED
      BY <1>9, <1>10, <2>1, <2>2
  <1>12. \A i, j \in DOMAIN L : New(i) /\ New(j) /\ L[i] = L[j] => i = j
    <2> TAKE i, j \in DOMAIN L
    <2> HAVE New(i) /\ New(j) /\ L[i] = L[j]
    <2>1. i - m = j - m
      BY <1>6, <1>9
    <2> QED
      BY <1>9, <1>10, <2>1
  <1>13. \A i, j \in DOMAIN L : L[i] = L[j] => i = j
    <2> TAKE i, j \in DOMAIN L
    <2> HAVE L[i] = L[j]
    <2>1. CASE Old(i) /\ Old(j)
      BY <1>1, <1>9, <1>10, <2>1
    <2>2. CASE ~Old(i) /\ ~Old(j)
      BY <1>10, <1>12, <2>2
    <2>3. CASE Old(i) /\ ~Old(j)
      BY <1>10, <1>11, <2>3
    <2>4. CASE ~Old(i) /\ Old(j)
      BY <1>10, <1>11, <2>4
    <2> QED
      BY <2>1, <2>2, <2>3, <2>4
  <1> QED
    BY <1>1, <1>6, <1>7, <1>13 DEF new, L

\* Without the initial state there are no states, and none is added.
LEMMA NothingListed ==
  ASSUME TypeOK, StatesKnown, pc # "no_initial_state", NEW n, NEW o, Outcome(o, n),
         ~HasInitial(o)
  PROVE  state_ids = <<>> /\ NewNodes(o.seq) = <<>>
  <1>1. 0 \notin DOMAIN khms_states /\ 0 \notin Elements(NewNodes(o.seq))
    BY DEF HasInitial
  <1>2. state_ids = <<>>
    BY <1>1 DEF StatesKnown
  <1>3. 0 \notin ipsm
    BY <1>1 DEF StatesKnown
  <1>4. ~(is_state_sequence_interesting(o.seq) /\ Len(o.seq) > 1)
    <2> SUFFICES ASSUME is_state_sequence_interesting(o.seq), Len(o.seq) > 1
                 PROVE  FALSE
      OBVIOUS
    <2>1. NewNodes(o.seq) # <<>> /\ NewNodes(o.seq)[1] = 0 /\ NewNodes(o.seq) \in Seq(AllStates)
      BY <1>3, NewAndLate
    <2>2. NewNodes(o.seq)[1] \in Elements(NewNodes(o.seq))
      BY <2>1, NoElements
    <2> QED
      BY <1>1, <2>1, <2>2
  <1> QED
    BY <1>2, <1>4, NewAndLate
(***************************************************************************)
(* The seeds of a state, its index, and the cells of the table.            *)
(***************************************************************************)
Seeds == [seeds : Seq(Nat), selected_seed_index : Nat]

\* The entry joins the initial state and those in which one of its regions ends.
LEMMA JoinsReached ==
  ASSUME NEW n, NEW o, Outcome(o, n), NEW s
  PROVE  /\ Joins(o, s) \in Nat
         /\ Joins(o, s) > 0 <=> s = 0 \/ s \in Elements(Reached(o.regions))
  <1> DEFINE R == Reached(o.regions)
             At == {i \in DOMAIN R : R[i] = s}
  <1>1. R \in Seq(AllStates)
    BY ReachedElements DEF Outcome
  <1> HIDE DEF R
  <1>2. DOMAIN R = 1 .. Len(R) /\ Len(R) \in Nat
    BY <1>1
  <1>3. IsFiniteSet(DOMAIN R)
    BY <1>2, FS_Interval
  <1>4. At \in SUBSET DOMAIN R
    OBVIOUS
  <1>5. At # {} <=> s \in Elements(R)
    BY DEF Elements
  <1>6. Joins(o, s) = (IF s = 0 THEN 1 ELSE 0) + Cardinality(At)
    BY DEF Joins, R
  <1> HIDE DEF At
  <1>7. IsFiniteSet(At)
    BY <1>3, <1>4, FS_Subset
  <1>8. Cardinality(At) \in Nat /\ (Cardinality(At) = 0 <=> At = {})
    BY <1>7, FS_CardinalityType, FS_EmptySet
  <1> QED
    BY <1>5, <1>6, <1>8 DEF R

\* The seeds of a state after the run.
SeedsAfter(q, o, ids, s) ==
  (IF s \in Elements(ids) THEN {} ELSE Elements(khms_states[s].seeds))
  \cup (IF s = 0 \/ s \in Elements(Reached(o.regions)) THEN {q} ELSE {})

\* What the run adds to the seeds of each state.
LEMMA SeedsAdded ==
  ASSUME TypeOK, IndexesPoint, NEW n, NEW o, Outcome(o, n), NEW q \in Nat, NEW ids
  PROVE  /\ DOMAIN AddSeed(q, o, ids) = DOMAIN khms_states \cup Elements(ids)
         /\ \A s \in DOMAIN khms_states \cup Elements(ids) :
              /\ AddSeed(q, o, ids)[s] \in Seeds
              /\ Elements(AddSeed(q, o, ids)[s].seeds) = SeedsAfter(q, o, ids, s)
              /\ \/ /\ AddSeed(q, o, ids)[s].seeds = <<>>
                    /\ AddSeed(q, o, ids)[s].selected_seed_index = 0
                 \/ AddSeed(q, o, ids)[s].selected_seed_index < Len(AddSeed(q, o, ids)[s].seeds)
  <1>1. DOMAIN AddSeed(q, o, ids) = DOMAIN khms_states \cup Elements(ids)
    BY DEF AddSeed
  <1>2. ASSUME NEW s \in DOMAIN khms_states \cup Elements(ids)
        PROVE  /\ AddSeed(q, o, ids)[s] \in Seeds
               /\ Elements(AddSeed(q, o, ids)[s].seeds) = SeedsAfter(q, o, ids, s)
               /\ \/ /\ AddSeed(q, o, ids)[s].seeds = <<>>
                     /\ AddSeed(q, o, ids)[s].selected_seed_index = 0
                  \/ AddSeed(q, o, ids)[s].selected_seed_index < Len(AddSeed(q, o, ids)[s].seeds)
    <2> DEFINE known == IF s \in Elements(ids) THEN NewState ELSE khms_states[s]
               more == [k \in 1 .. Joins(o, s) |-> q]
               state == AddSeed(q, o, ids)[s]
    <2>1. state = [known EXCEPT !.seeds = @ \o more]
      BY DEF AddSeed
    <2>2. /\ known \in Seeds
          /\ \/ known.seeds = <<>> /\ known.selected_seed_index = 0
             \/ known.selected_seed_index < Len(known.seeds)
          /\ Elements(known.seeds) =
               IF s \in Elements(ids) THEN {} ELSE Elements(khms_states[s].seeds)
      <3>1. CASE s \in Elements(ids)
        <4>1. known = [seeds |-> <<>>, selected_seed_index |-> 0]
          BY <3>1 DEF NewState
        <4>2. <<>> \in Seq(Nat) /\ Elements(<<>>) = {}
          BY DEF Elements
        <4> HIDE DEF known
        <4>3. known \in Seeds /\ known.seeds = <<>> /\ known.selected_seed_index = 0
          BY <4>1, <4>2 DEF Seeds
        <4> QED
          BY <3>1, <4>2, <4>3
      <3>2. CASE s \notin Elements(ids)
        <4>1. known = khms_states[s] /\ s \in DOMAIN khms_states
          BY <3>2
        <4> QED
          BY <3>2, <4>1 DEF TypeOK, Seeds, IndexesPoint
      <3> QED
        BY <3>1, <3>2
    <2>3. Joins(o, s) \in Nat
          /\ (Joins(o, s) > 0 <=> s = 0 \/ s \in Elements(Reached(o.regions)))
      BY JoinsReached
    <2> HIDE DEF known, state
    <2>4. more \in Seq(Nat) /\ Len(more) = Joins(o, s)
          /\ Elements(more) = IF Joins(o, s) > 0 THEN {q} ELSE {}
      BY <2>3 DEF Elements
    <2>5. known.seeds \in Seq(Nat) /\ known.selected_seed_index \in Nat
      BY <2>2 DEF Seeds
    <2> HIDE DEF more
    <2>6. /\ known.seeds \o more \in Seq(Nat)
          /\ Len(known.seeds \o more) = Len(known.seeds) + Len(more)
          /\ Elements(known.seeds \o more) = Elements(known.seeds) \cup Elements(more)
      <3>1. \A t, u \in Seq(Nat) : /\ t \o u \in Seq(Nat) /\ Len(t \o u) = Len(t) + Len(u)
                                  /\ Elements(t \o u) = Elements(t) \cup Elements(u)
        BY ConcatElements
      <3> QED
        BY <2>4, <2>5, <3>1
    <2>7. /\ state.seeds = known.seeds \o more
          /\ state.selected_seed_index = known.selected_seed_index
          /\ state \in Seeds
      BY <2>1, <2>2, <2>6 DEF Seeds
    <2>8. Elements(state.seeds) = Elements(known.seeds) \cup Elements(more)
      BY <2>6, <2>7
    <2>9. \/ state.seeds = <<>> /\ state.selected_seed_index = 0
          \/ state.selected_seed_index < Len(state.seeds)
      <3>1. Len(known.seeds) \in Nat /\ Len(more) \in Nat
        BY <2>3, <2>4, <2>5
      <3>2. CASE known.selected_seed_index < Len(known.seeds)
        BY <2>5, <2>6, <2>7, <3>1, <3>2
      <3>3. CASE known.seeds = <<>> /\ known.selected_seed_index = 0
        <4>1. Len(known.seeds \o more) = 0 => known.seeds \o more = <<>>
          BY <2>6
        <4>2. Len(known.seeds \o more) \in Nat
          BY <2>6, <3>1
        <4> QED
          BY <2>7, <3>3, <4>1, <4>2
      <3> QED
        BY <2>2, <3>2, <3>3
    <2>10. Elements(state.seeds) = SeedsAfter(q, o, ids, s)
      BY <2>2, <2>3, <2>4, <2>8 DEF SeedsAfter
    <2> QED
      BY <2>7, <2>9, <2>10 DEF state
  <1> QED
    BY <1>1, <1>2

\* The index of a state in the list leads back to the state.
LEMMA StateIndex ==
  ASSUME NEW V, NEW ids \in Seq(V), NEW s \in Elements(ids)
  PROVE  /\ get_state_index(ids, s) \in 0 .. Len(ids) - 1
         /\ ids[get_state_index(ids, s) + 1] = s
  <1> DEFINE At == {i \in DOMAIN ids : ids[i] = s}
             First(i) == ids[i] = s /\ \A j \in 1 .. i - 1 : ids[j] # s
  <1>1. DOMAIN ids = 1 .. Len(ids) /\ Len(ids) \in Nat
    OBVIOUS
  <1>2. At # {} /\ At \in SUBSET (1 .. Len(ids)) /\ At \in SUBSET Nat
    BY <1>1 DEF Elements
  <1>3. IsFiniteSet(1 .. Len(ids))
    BY <1>1, FS_Interval
  <1> HIDE DEF At
  <1>4. IsFiniteSet(At)
    BY <1>2, <1>3, FS_Subset
  <1>5. PICK i \in At : \A j \in At : i <= j
    BY <1>2, <1>4, LeastOf
  <1>6. i \in DOMAIN ids /\ First(i)
    <2>1. i \in DOMAIN ids /\ ids[i] = s /\ i \in 1 .. Len(ids)
      BY <1>2, <1>5 DEF At
    <2>2. ASSUME NEW j \in 1 .. i - 1, ids[j] = s
          PROVE  FALSE
      <3>1. j \in DOMAIN ids /\ ~(i <= j)
        BY <1>1, <2>1
      <3> QED
        BY <1>5, <2>2, <3>1 DEF At
    <2> QED
      BY <2>1, <2>2
  <1> DEFINE k == CHOOSE c \in DOMAIN ids : First(c)
  <1>7. k \in DOMAIN ids /\ First(k)
    BY <1>6
  <1>8. get_state_index(ids, s) = k - 1
    BY DEF get_state_index
  <1> HIDE DEF k
  <1> QED
    BY <1>1, <1>7, <1>8

\* The cells of the table when it has grown, and those it had before.
Grown(rows, cols) ==
  (0 .. (fuzzed_map_states + rows) - 1) \X (0 .. (fuzzed_map_qentries + cols) - 1)
Inside(c) == c[1] < fuzzed_map_states /\ c[2] < fuzzed_map_qentries

\* What they hold after the table has grown, and after the marks have been set.
LEMMA Cells ==
  ASSUME TypeOK, NEW rows \in Nat, NEW cols \in Nat, NEW q, NEW o, NEW ids
  PROVE  /\ expand_was_fuzzed_map(rows, cols) \in [Grown(rows, cols) -> {-1, 0, 1}]
         /\ MarkReachable(expand_was_fuzzed_map(rows, cols), q, o, ids)
              \in [Grown(rows, cols) -> {-1, 0, 1}]
         /\ \A c \in Grown(rows, cols) :
              /\ Inside(c) => c \in DOMAIN was_fuzzed_map
              /\ expand_was_fuzzed_map(rows, cols)[c] =
                   IF Inside(c) THEN was_fuzzed_map[c] ELSE -1
              /\ MarkReachable(expand_was_fuzzed_map(rows, cols), q, o, ids)[c] =
                   IF c[2] = q /\ c[1] \in Marked(o, ids) THEN 0
                   ELSE IF Inside(c) THEN was_fuzzed_map[c] ELSE -1
  <1> DEFINE dom == Grown(rows, cols)
             table == expand_was_fuzzed_map(rows, cols)
             marks == MarkReachable(table, q, o, ids)
  <1>1. /\ fuzzed_map_states \in Nat /\ fuzzed_map_qentries \in Nat
        /\ was_fuzzed_map \in [(0 .. fuzzed_map_states - 1)
                                 \X (0 .. fuzzed_map_qentries - 1) -> {-1, 0, 1}]
    BY DEF TypeOK
  <1>2. ASSUME NEW c \in dom, Inside(c)
        PROVE  c \in (0 .. fuzzed_map_states - 1) \X (0 .. fuzzed_map_qentries - 1)
    BY <1>1, <1>2 DEF Grown, Inside
  <1>3. table = [c \in dom |-> IF Inside(c) THEN was_fuzzed_map[c] ELSE -1]
    BY DEF expand_was_fuzzed_map, Grown, Inside
  <1> HIDE DEF dom
  <1>4. \A c \in dom : /\ Inside(c) => c \in DOMAIN was_fuzzed_map
                       /\ table[c] = IF Inside(c) THEN was_fuzzed_map[c] ELSE -1
                       /\ table[c] \in {-1, 0, 1}
    BY <1>1, <1>2, <1>3
  <1>5. table \in [dom -> {-1, 0, 1}] /\ DOMAIN table = dom
    BY <1>3, <1>4
  <1> HIDE DEF table
  <1>6. marks = [c \in dom |-> IF c[2] = q /\ c[1] \in Marked(o, ids) THEN 0 ELSE table[c]]
    BY <1>5 DEF MarkReachable
  <1>7. marks \in [dom -> {-1, 0, 1}]
    BY <1>4, <1>6
  <1>8. \A c \in dom : marks[c] = IF c[2] = q /\ c[1] \in Marked(o, ids) THEN 0 ELSE table[c]
    BY <1>6
  <1>9. \A c \in dom : marks[c] = IF c[2] = q /\ c[1] \in Marked(o, ids) THEN 0
                                  ELSE IF Inside(c) THEN was_fuzzed_map[c] ELSE -1
    BY <1>4, <1>8
  <1> HIDE DEF marks
  <1> QED
    BY <1>4, <1>5, <1>7, <1>9 DEF dom, table, marks

(***************************************************************************)
(* A run with an answer.                                                   *)
(***************************************************************************)
Entries == [regions : Seq(Annotations), was_fuzzed : BOOLEAN, cal_failed : BOOLEAN]

EndsIn(regions, s) == \E r \in Elements(regions) : r.count > 0 /\ r.last = s

\* Entry q, old or new, gets the regions of the run; it is no seed yet.
Runs(q, o, cols) ==
  /\ pc # "no_initial_state" /\ queue # <<>>
  /\ queue' \in Seq(Entries) /\ Len(queue') = Len(queue) + cols /\ q + 1 \in DOMAIN queue'
  /\ \A k \in DOMAIN queue : k # q + 1 => queue'[k] = queue[k]
  /\ \A k \in DOMAIN queue' : k # q + 1 => k \in DOMAIN queue
  /\ \A s : EndsIn(queue'[q + 1].regions, s) <=> s \in Elements(Reached(o.regions))
  /\ \A s \in DOMAIN khms_states : q \notin Elements(khms_states[s].seeds)
  /\ pc' = "dry_run" => pc = "dry_run" /\ q < dry' /\ dry \in Nat /\ dry' \in Nat /\ dry <= dry'
  /\ UNCHANGED selected_state_index

Tables == StatesKnown /\ SeedsKnown /\ TableCovers /\ IndexesPoint /\ StatesAgree /\ SeedsMarked

\* The part of the type invariant about states and table.
TableTypes ==
  /\ ipsm \subseteq AllStates
  /\ collided \in BOOLEAN
  /\ DOMAIN khms_states \subseteq AllStates
  /\ \A s \in DOMAIN khms_states : khms_states[s] \in Seeds
  /\ state_ids \in Seq(AllStates)
  /\ fuzzed_map_states \in Nat
  /\ fuzzed_map_qentries \in Nat
  /\ was_fuzzed_map \in [(0 .. fuzzed_map_states - 1)
                           \X (0 .. fuzzed_map_qentries - 1) -> {-1, 0, 1}]

\* What update_state_aware_variables does when the initial state is there.
LEMMA Updated ==
  ASSUME TypeOK, StatesKnown, NEW n, NEW o, Outcome(o, n), HasInitial(o), NEW q \in Nat,
         NEW cols \in {0, 1}, NEW next, update_state_aware_variables(q, o, 0, cols, next)
  PROVE  /\ ipsm' = ipsm \cup Elements(NewNodes(o.seq))
         /\ collided' = (collided \/ Hidden(o.seq))
         /\ fuzzed_map_qentries' = fuzzed_map_qentries + cols
         /\ fuzzed_map_states' = fuzzed_map_states + NewRows(Added(o))
         /\ state_ids' = Listed(o)
         /\ khms_states' = AddSeed(q, o, Added(o))
         /\ was_fuzzed_map' = MarkReachable(
              expand_was_fuzzed_map(NewRows(Added(o)), cols), q, o, Listed(o))
         /\ pc' = next
  <1>1. NewRows(Added(o)) \in Nat
    BY RowsForStates
  <1>2. 0 + NewRows(Added(o)) = NewRows(Added(o))
    BY <1>1
  <1> DEFINE new == NewNodes(o.seq)
             add == new \o LateStates(o)
             more == 0 + NewRows(add)
  <1>3. /\ ipsm' = ipsm \cup Elements(new)
        /\ collided' = (collided \/ Hidden(o.seq))
        /\ fuzzed_map_qentries' = fuzzed_map_qentries + cols
        /\ fuzzed_map_states' = fuzzed_map_states + more
        /\ state_ids' = state_ids \o add
        /\ khms_states' = AddSeed(q, o, add)
        /\ was_fuzzed_map' =
             MarkReachable(expand_was_fuzzed_map(more, cols), q, o, state_ids \o add)
        /\ pc' = next
    BY DEF update_state_aware_variables, HasInitial
  <1>4. add = Added(o) /\ state_ids \o add = Listed(o)
    BY DEF Added, Listed
  <1>5. more = NewRows(Added(o))
    BY <1>2, <1>4
  <1> HIDE DEF add, more
  <1> QED
    BY <1>3, <1>4, <1>5

\* The tables have their types after the run.
LEMMA UpdatedTypes ==
  ASSUME TypeOK, StatesKnown, IndexesPoint, NEW n, NEW o, Outcome(o, n), HasInitial(o),
         NEW q \in Nat, NEW cols \in {0, 1}, NEW next,
         update_state_aware_variables(q, o, 0, cols, next)
  PROVE  TableTypes'
  <1>1. /\ ipsm' = ipsm \cup Elements(NewNodes(o.seq))
        /\ collided' = (collided \/ Hidden(o.seq))
        /\ fuzzed_map_qentries' = fuzzed_map_qentries + cols
        /\ fuzzed_map_states' = fuzzed_map_states + NewRows(Added(o))
        /\ state_ids' = Listed(o)
        /\ khms_states' = AddSeed(q, o, Added(o))
        /\ was_fuzzed_map' = MarkReachable(
             expand_was_fuzzed_map(NewRows(Added(o)), cols), q, o, Listed(o))
    BY Updated
  <1>2. /\ NewRows(Added(o)) \in Nat /\ fuzzed_map_states \in Nat /\ fuzzed_map_qentries \in Nat
        /\ cols \in Nat
    BY RowsForStates DEF TypeOK
  <1>3. fuzzed_map_states' \in Nat /\ fuzzed_map_qentries' \in Nat
    BY <1>1, <1>2
  <1>4. was_fuzzed_map' \in [(0 .. fuzzed_map_states' - 1)
                               \X (0 .. fuzzed_map_qentries' - 1) -> {-1, 0, 1}]
    BY <1>1, <1>2, Cells DEF Grown
  <1>5. state_ids' \in Seq(AllStates) /\ Elements(state_ids') = DOMAIN khms_states \cup Elements(Added(o))
    BY <1>1, ListGrows
  <1>6. DOMAIN khms_states' = Elements(state_ids')
        /\ \A s \in DOMAIN khms_states' : khms_states'[s] \in Seeds
    <2>1. /\ DOMAIN AddSeed(q, o, Added(o)) = DOMAIN khms_states \cup Elements(Added(o))
          /\ \A s \in DOMAIN khms_states \cup Elements(Added(o)) :
               AddSeed(q, o, Added(o))[s] \in Seeds
      <3>1. \A s \in DOMAIN khms_states \cup Elements(Added(o)) :
               AddSeed(q, o, Added(o))[s] \in Seeds
        BY SeedsAdded
      <3> QED
        BY <3>1 DEF AddSeed
    <2> QED
      BY <1>1, <1>5, <2>1
  <1>7. Elements(state_ids') \subseteq AllStates
    BY <1>5 DEF Elements
  <1>8. ipsm' \subseteq AllStates
    <2>1. NewNodes(o.seq) \in Seq(AllStates)
      BY NewAndLate
    <2>2. Elements(NewNodes(o.seq)) \subseteq AllStates
      BY <2>1 DEF Elements
    <2> QED
      BY <1>1, <2>2 DEF TypeOK
  <1>9. collided' \in BOOLEAN
    BY <1>1
  <1> QED
    BY <1>3, <1>4, <1>5, <1>6, <1>7, <1>8, <1>9 DEF TableTypes

\* The lists hold the same states, the annotations' among them; the table has a
\* row for each state and a column for each entry.
LEMMA UpdatedStates ==
  ASSUME TypeOK, Tables, NEW n, NEW o, Outcome(o, n), HasInitial(o),
         NEW q \in Nat, NEW cols \in {0, 1}, NEW next, Runs(q, o, cols),
         update_state_aware_variables(q, o, 0, cols, next)
  PROVE  StatesKnown' /\ TableCovers' /\ IndexesPoint'
  <1>1. /\ ipsm' = ipsm \cup Elements(NewNodes(o.seq))
        /\ fuzzed_map_qentries' = fuzzed_map_qentries + cols
        /\ fuzzed_map_states' = fuzzed_map_states + NewRows(Added(o))
        /\ state_ids' = Listed(o)
        /\ khms_states' = AddSeed(q, o, Added(o))
    BY Updated DEF Tables
  <1>2. /\ Len(Listed(o)) = Len(state_ids) + Len(Added(o)) /\ Added(o) \in Seq(AllStates)
        /\ Elements(Listed(o)) = DOMAIN khms_states \cup Elements(Added(o))
        /\ Elements(NewNodes(o.seq)) \subseteq Elements(Added(o))
        /\ Elements(Reached(o.regions)) \subseteq Elements(Listed(o))
    BY ListGrows DEF Tables
  <1>3. /\ Listed(o) # <<>> /\ Listed(o)[1] = 0
        /\ \A i \in DOMAIN Listed(o) : i > 1 => Listed(o)[i] # 0
        /\ 0 \in ipsm \cup Elements(NewNodes(o.seq))
    BY InitialFirst DEF Tables
  <1>4. /\ DOMAIN khms_states' = DOMAIN khms_states \cup Elements(Added(o))
        /\ \A s \in DOMAIN khms_states' :
             \/ khms_states'[s].seeds = <<>> /\ khms_states'[s].selected_seed_index = 0
             \/ khms_states'[s].selected_seed_index < Len(khms_states'[s].seeds)
    <2>1. /\ DOMAIN AddSeed(q, o, Added(o)) = DOMAIN khms_states \cup Elements(Added(o))
          /\ \A s \in DOMAIN khms_states \cup Elements(Added(o)) :
               \/ /\ AddSeed(q, o, Added(o))[s].seeds = <<>>
                  /\ AddSeed(q, o, Added(o))[s].selected_seed_index = 0
               \/ AddSeed(q, o, Added(o))[s].selected_seed_index
                    < Len(AddSeed(q, o, Added(o))[s].seeds)
      <3>1. \A s \in DOMAIN khms_states \cup Elements(Added(o)) :
               \/ /\ AddSeed(q, o, Added(o))[s].seeds = <<>>
                  /\ AddSeed(q, o, Added(o))[s].selected_seed_index = 0
               \/ AddSeed(q, o, Added(o))[s].selected_seed_index
                    < Len(AddSeed(q, o, Added(o))[s].seeds)
        BY SeedsAdded DEF Tables
      <3> QED
        BY <3>1 DEF AddSeed
    <2> QED
      BY <1>1, <2>1
  <1>5. ASSUME NEW m \in DOMAIN queue', NEW r \in Elements(queue'[m].regions), r.count > 0
        PROVE  r.last \in DOMAIN khms_states'
    <2>1. CASE m = q + 1
      <3>1. EndsIn(queue'[q + 1].regions, r.last)
        BY <1>5, <2>1 DEF EndsIn
      <3>2. r.last \in Elements(Reached(o.regions))
        BY <3>1 DEF Runs
      <3> QED
        BY <1>2, <1>4, <3>2
    <2>2. CASE m # q + 1
      <3>1. m \in DOMAIN queue /\ r \in Elements(queue[m].regions)
        BY <1>5, <2>2 DEF Runs
      <3>2. r.last \in DOMAIN khms_states
        BY <1>5, <3>1 DEF Tables, StatesKnown, Runs
      <3> QED
        BY <1>4, <3>2
    <2> QED
      BY <2>1, <2>2
  <1>6. StatesKnown'
    <2>1. ipsm' \subseteq DOMAIN khms_states'
      BY <1>1, <1>2, <1>4 DEF Tables, StatesKnown
    <2>2. Elements(state_ids') = DOMAIN khms_states'
      BY <1>1, <1>2, <1>4
    <2>3. /\ state_ids' # <<>> /\ 0 \in ipsm' /\ state_ids'[1] = 0
          /\ \A i \in DOMAIN state_ids' : i > 1 => state_ids'[i] # 0
      BY <1>1, <1>3
    <2> QED
      BY <1>5, <2>1, <2>2, <2>3 DEF StatesKnown
  <1>7. queue # <<>> /\ queue' # <<>> /\ Len(queue') = Len(queue) + cols
    BY DEF Runs
  <1>8. (IF state_ids = <<>> THEN 1 ELSE Len(state_ids)) + NewRows(Added(o)) = Len(Listed(o))
    BY RowsForStates DEF Tables
  <1>9. TableCovers'
    <2>1. fuzzed_map_states = (IF state_ids = <<>> THEN 1 ELSE Len(state_ids))
          /\ fuzzed_map_qentries = Len(queue)
      BY <1>7 DEF Tables, TableCovers
    <2>2. fuzzed_map_states' = Len(Listed(o)) /\ fuzzed_map_qentries' = Len(queue')
      BY <1>1, <1>7, <1>8, <2>1
    <2> QED
      BY <1>1, <1>3, <1>7, <2>2 DEF TableCovers
  <1>10. selected_state_index' < Len(state_ids')
    <2>1. state_ids \in Seq(AllStates) /\ selected_state_index \in Nat
          /\ selected_state_index' = selected_state_index
      BY DEF TypeOK, Runs
    <2>2. Len(Listed(o)) > 0
      BY <1>2, <1>3, ListGrows DEF Tables
    <2>3. (state_ids = <<>> /\ selected_state_index = 0) \/ selected_state_index < Len(state_ids)
      BY DEF Tables, IndexesPoint
    <2>4. Len(Added(o)) \in Nat /\ Len(state_ids) \in Nat
      BY <1>2, <2>1
    <2> QED
      BY <1>1, <1>2, <2>1, <2>2, <2>3, <2>4
  <1> QED
    BY <1>4, <1>6, <1>9, <1>10 DEF IndexesPoint

\* A seed is an entry that was run and reaches its state.
LEMMA UpdatedSeeds ==
  ASSUME TypeOK, Tables, NEW n, NEW o, Outcome(o, n), HasInitial(o),
         NEW q \in Nat, NEW cols \in {0, 1}, NEW next, Runs(q, o, cols),
         update_state_aware_variables(q, o, 0, cols, next)
  PROVE  /\ DOMAIN khms_states \subseteq DOMAIN khms_states'
         /\ SeedsKnown'
         /\ \A s \in DOMAIN khms_states' :
              Elements(khms_states'[s].seeds) = SeedsAfter(q, o, Added(o), s)
  <1>1. khms_states' = AddSeed(q, o, Added(o)) /\ state_ids' = Listed(o)
    BY Updated DEF Tables
  <1>2. /\ DOMAIN AddSeed(q, o, Added(o)) = DOMAIN khms_states \cup Elements(Added(o))
        /\ \A s \in DOMAIN khms_states \cup Elements(Added(o)) :
             Elements(AddSeed(q, o, Added(o))[s].seeds) = SeedsAfter(q, o, Added(o), s)
    <2>1. \A s \in DOMAIN khms_states \cup Elements(Added(o)) :
             Elements(AddSeed(q, o, Added(o))[s].seeds) = SeedsAfter(q, o, Added(o), s)
      BY SeedsAdded DEF Tables
    <2> QED
      BY <2>1 DEF AddSeed
  <1>3. /\ DOMAIN khms_states' = DOMAIN khms_states \cup Elements(Added(o))
        /\ \A s \in DOMAIN khms_states' :
             Elements(khms_states'[s].seeds) = SeedsAfter(q, o, Added(o), s)
    BY <1>1, <1>2
  <1>4. state_ids' # <<>>
    BY <1>1, InitialFirst DEF Tables
  <1>5. ASSUME NEW s \in DOMAIN khms_states', NEW p \in Elements(khms_states'[s].seeds)
        PROVE  /\ p + 1 \in DOMAIN queue'
               /\ pc' = "dry_run" => p < dry'
               /\ s # 0 => EndsIn(queue'[p + 1].regions, s)
    <2>1. CASE p = q
      <3>1. s = 0 \/ s \in Elements(Reached(o.regions))
        BY <1>3, <1>5, <2>1 DEF Runs, SeedsAfter
      <3> QED
        BY <2>1, <3>1 DEF Runs
    <2>2. CASE p # q
      <3>1. s \in DOMAIN khms_states /\ p \in Elements(khms_states[s].seeds)
        BY <1>3, <1>5, <2>2 DEF SeedsAfter
      <3>2. p + 1 \in DOMAIN queue /\ (pc = "dry_run" => p < dry)
            /\ (s # 0 => EndsIn(queue[p + 1].regions, s))
        BY <3>1 DEF Tables, SeedsKnown, EndsIn
      <3>3. p \in Nat
        <4>1. khms_states[s].seeds \in Seq(Nat)
          BY <3>1 DEF TypeOK
        <4> QED
          BY <3>1, <4>1 DEF Elements
      <3>4. queue'[p + 1] = queue[p + 1] /\ p + 1 # q + 1
        BY <2>2, <3>2, <3>3 DEF Runs
      <3>5. p + 1 \in DOMAIN queue'
        <4>1. queue \in Seq(Entries) /\ queue' \in Seq(Entries) /\ Len(queue') = Len(queue) + cols
          BY DEF TypeOK, Entries, Runs
        <4>2. DOMAIN queue = 1 .. Len(queue) /\ DOMAIN queue' = 1 .. Len(queue) + cols
              /\ Len(queue) \in Nat
          BY <4>1
        <4> QED
          BY <3>2, <4>2
      <3>6. pc' = "dry_run" => p < dry'
        <4> SUFFICES ASSUME pc' = "dry_run" PROVE p < dry'
          OBVIOUS
        <4>1. pc = "dry_run" /\ dry \in Nat /\ dry' \in Nat /\ dry <= dry'
          BY DEF Runs
        <4> QED
          BY <3>2, <3>3, <4>1
      <3> QED
        BY <3>2, <3>4, <3>5, <3>6
    <2> QED
      BY <2>1, <2>2
  <1>6. SeedsKnown'
    BY <1>4, <1>5 DEF SeedsKnown, EndsIn
  <1> QED
    BY <1>3, <1>6

\* The rows marked are those of the initial state and of the states reached.
LEMMA MarkedRows ==
  ASSUME TypeOK, StatesKnown, NEW n, NEW o, Outcome(o, n), HasInitial(o),
         \A i, j \in DOMAIN Listed(o) : Listed(o)[i] = Listed(o)[j] => i = j
  PROVE  \A i \in DOMAIN Listed(o) :
           i - 1 \in Marked(o, Listed(o)) <=>
             Listed(o)[i] = 0 \/ Listed(o)[i] \in Elements(Reached(o.regions))
  <1> DEFINE L == Listed(o)
             R == Elements(Reached(o.regions))
             Row(s) == get_state_index(L, s)
  <1>1. /\ L \in Seq(AllStates) /\ R \subseteq Elements(L)
        /\ L # <<>> /\ L[1] = 0 /\ \A i \in DOMAIN L : i > 1 => L[i] # 0
    BY ListGrows, InitialFirst
  <1>2. \A s \in R : Row(s) \in 0 .. Len(L) - 1 /\ L[Row(s) + 1] = s
    BY <1>1, StateIndex
  <1>3. \A i, j \in DOMAIN L : L[i] = L[j] => i = j
    OBVIOUS
  <1>4. Marked(o, L) = {0} \cup {Row(s) : s \in R}
    BY DEF Marked
  <1> HIDE DEF L, R, Row
  <1>5. DOMAIN L = 1 .. Len(L) /\ Len(L) \in Nat
    BY <1>1
  <1>6. ASSUME NEW i \in DOMAIN L
        PROVE  i - 1 \in Marked(o, L) <=> L[i] = 0 \/ L[i] \in R
    <2>1. ASSUME i - 1 = 0
          PROVE  L[i] = 0
      <3>1. i = 1
        BY <1>5, <2>1
      <3> QED
        BY <1>1, <3>1
    <2>2. ASSUME NEW s \in R, i - 1 = Row(s)
          PROVE  L[i] \in R
      <3>1. i = Row(s) + 1
        BY <1>2, <1>5, <2>2
      <3> QED
        BY <1>2, <3>1
    <2>3. ASSUME L[i] = 0
          PROVE  i - 1 = 0
      BY <1>1, <1>5, <2>3
    <2>4. ASSUME L[i] \in R
          PROVE  i - 1 = Row(L[i])
      <3>1. Row(L[i]) \in 0 .. Len(L) - 1 /\ L[Row(L[i]) + 1] = L[i]
        BY <1>2, <2>4
      <3>2. Row(L[i]) + 1 \in DOMAIN L
        BY <1>5, <3>1
      <3>3. Row(L[i]) + 1 = i
        BY <1>3, <3>1, <3>2
      <3> QED
        BY <1>5, <3>1, <3>3
    <2> QED
      BY <1>4, <2>1, <2>2, <2>3, <2>4
  <1> QED
    BY <1>6 DEF L, R

\* The lists still agree, and the marks say who is a seed of what.
LEMMA UpdatedMarks ==
  ASSUME TypeOK, Tables, NEW n, NEW o, Outcome(o, n), HasInitial(o),
         NEW q \in Nat, NEW cols \in {0, 1}, NEW next, Runs(q, o, cols),
         update_state_aware_variables(q, o, 0, cols, next)
  PROVE  /\ StatesAgree' /\ SeedsMarked'
         /\ ~collided' => /\ ~collided
                          /\ Elements(Added(o)) \cap DOMAIN khms_states = {}
  <1> SUFFICES ASSUME ~collided'
               PROVE  /\ StatesAgree' /\ SeedsMarked' /\ ~collided
                      /\ Elements(Added(o)) \cap DOMAIN khms_states = {}
    BY DEF StatesAgree, SeedsMarked
  <1>1. /\ ipsm' = ipsm \cup Elements(NewNodes(o.seq))
        /\ collided' = (collided \/ Hidden(o.seq))
        /\ fuzzed_map_qentries' = fuzzed_map_qentries + cols
        /\ fuzzed_map_states' = fuzzed_map_states + NewRows(Added(o))
        /\ state_ids' = Listed(o)
        /\ was_fuzzed_map' = MarkReachable(
             expand_was_fuzzed_map(NewRows(Added(o)), cols), q, o, Listed(o))
    BY Updated DEF Tables
  <1>2. ~collided /\ ~Hidden(o.seq)
    BY <1>1
  <1>3. /\ ipsm' = DOMAIN khms_states \cup Elements(Added(o))
        /\ Elements(Added(o)) \cap DOMAIN khms_states = {}
        /\ \A i, j \in DOMAIN Listed(o) : Listed(o)[i] = Listed(o)[j] => i = j
    BY <1>1, <1>2, AgreeAfter DEF Tables
  <1>4. /\ Listed(o) \in Seq(AllStates) /\ Added(o) \in Seq(AllStates)
        /\ Len(Listed(o)) = Len(state_ids) + Len(Added(o))
        /\ \A i \in 1 .. Len(state_ids) : Listed(o)[i] = state_ids[i]
        /\ \A i \in 1 .. Len(Added(o)) : Listed(o)[Len(state_ids) + i] = Added(o)[i]
        /\ Elements(Listed(o)) = DOMAIN khms_states \cup Elements(Added(o))
    BY ListGrows DEF Tables
  <1>5. StatesKnown' /\ TableCovers' /\ SeedsKnown'
        /\ \A s \in DOMAIN khms_states' :
             Elements(khms_states'[s].seeds) = SeedsAfter(q, o, Added(o), s)
    BY UpdatedStates, UpdatedSeeds
  <1>6. Elements(state_ids') = DOMAIN khms_states'
        /\ DOMAIN khms_states' = DOMAIN khms_states \cup Elements(Added(o))
    BY <1>1, <1>4, <1>5 DEF StatesKnown
  <1>7. StatesAgree'
    BY <1>1, <1>3, <1>6 DEF StatesAgree
  <1>8. \A i \in DOMAIN Listed(o) :
           i - 1 \in Marked(o, Listed(o)) <=>
             Listed(o)[i] = 0 \/ Listed(o)[i] \in Elements(Reached(o.regions))
    BY <1>3, MarkedRows DEF Tables
  <1>9. /\ fuzzed_map_states' = Len(Listed(o)) /\ fuzzed_map_qentries' = Len(queue')
        /\ fuzzed_map_states = (IF state_ids = <<>> THEN 1 ELSE Len(state_ids))
        /\ fuzzed_map_qentries = Len(queue) /\ Len(queue) \in Nat
        /\ queue' # <<>> /\ Len(queue') = Len(queue) + cols
    <2>1. queue # <<>> /\ queue' # <<>> /\ Len(queue') = Len(queue) + cols
      BY DEF Runs
    <2>2. Listed(o) # <<>>
      BY InitialFirst DEF Tables
    <2>3. queue \in Seq(Entries)
      BY DEF TypeOK, Entries
    <2> QED
      BY <1>1, <1>5, <2>1, <2>2, <2>3 DEF Tables, TableCovers
  <1>10. NewRows(Added(o)) \in Nat /\ cols \in Nat
    BY RowsForStates DEF Tables
  <1> DEFINE dom == Grown(NewRows(Added(o)), cols)
  <1>11. \A c \in dom :
           /\ Inside(c) => c \in DOMAIN was_fuzzed_map
           /\ was_fuzzed_map'[c] =
                IF c[2] = q /\ c[1] \in Marked(o, Listed(o)) THEN 0
                ELSE IF Inside(c) THEN was_fuzzed_map[c] ELSE -1
    BY <1>1, <1>10, Cells
  <1>14. dom = (0 .. Len(Listed(o)) - 1) \X (0 .. Len(queue') - 1)
    BY <1>1, <1>9 DEF Grown
  <1> HIDE DEF dom
  <1>12. ASSUME NEW i \in DOMAIN Listed(o), NEW p \in 0 .. Len(queue') - 1
         PROVE  LET seed == p \in Elements(khms_states'[Listed(o)[i]].seeds)
                IN /\ seed <=> was_fuzzed_map'[<<i - 1, p>>] # -1
                   /\ Listed(o)[i] # 0 => (seed <=> EndsIn(queue'[p + 1].regions, Listed(o)[i]))
    <2> DEFINE s == Listed(o)[i]
               c == <<i - 1, p>>
    <2>1. c \in dom /\ c[1] = i - 1 /\ c[2] = p /\ i \in 1 .. Len(Listed(o))
      BY <1>4, <1>9, <1>14
    <2>2. s \in DOMAIN khms_states'
      BY <1>4, <1>6 DEF Elements
    <2>3. Elements(khms_states'[s].seeds) = SeedsAfter(q, o, Added(o), s)
      BY <1>5, <2>2
    <2>4. ASSUME ~(i <= Len(state_ids))
          PROVE  s \in Elements(Added(o)) /\ s \notin DOMAIN khms_states
      <3>1. i - Len(state_ids) \in 1 .. Len(Added(o)) /\ i = Len(state_ids) + (i - Len(state_ids))
        BY <1>4, <2>1, <2>4 DEF TypeOK
      <3>2. s = Added(o)[i - Len(state_ids)] /\ i - Len(state_ids) \in DOMAIN Added(o)
        BY <1>4, <3>1
      <3> QED
        BY <1>3, <3>2 DEF Elements
    <2>5. ASSUME i <= Len(state_ids)
          PROVE  /\ i \in DOMAIN state_ids /\ s = state_ids[i]
                 /\ s \in DOMAIN khms_states /\ s \notin Elements(Added(o))
                 /\ i - 1 < fuzzed_map_states
      <3>1. i \in 1 .. Len(state_ids) /\ i \in DOMAIN state_ids /\ state_ids # <<>>
        BY <1>4, <2>1, <2>5 DEF TypeOK
      <3>2. s = state_ids[i] /\ s \in Elements(state_ids)
        BY <1>4, <3>1 DEF Elements
      <3>3. s \in DOMAIN khms_states
        BY <3>2 DEF Tables, StatesKnown
      <3> QED
        BY <1>3, <1>9, <2>1, <2>5, <3>1, <3>2, <3>3
    \* Outside the old rows, or before there were states, a cell is "unreachable".
    <2>6. ASSUME ~(i <= Len(state_ids)), ~(p = q /\ i - 1 \in Marked(o, Listed(o)))
          PROVE  was_fuzzed_map'[c] = -1
      <3>1. CASE Inside(c)
        <4>1. i - 1 < fuzzed_map_states
          BY <2>1, <3>1 DEF Inside
        <4>2. state_ids = <<>>
          BY <1>9, <2>1, <2>6, <4>1 DEF TypeOK
        <4>3. c \in DOMAIN was_fuzzed_map
          BY <1>11, <2>1, <3>1
        <4>4. was_fuzzed_map[c] = -1
          BY <4>2, <4>3 DEF Tables, SeedsKnown
        <4> QED
          BY <1>11, <2>1, <2>6, <3>1, <4>4
      <3>2. CASE ~Inside(c)
        BY <1>11, <2>1, <2>6, <3>2
      <3> QED
        BY <3>1, <3>2
    <2>7. CASE p = q
      <3>1. p \in Elements(khms_states'[s].seeds) <=> s = 0 \/ s \in Elements(Reached(o.regions))
        BY <2>2, <2>3, <1>6, <2>7 DEF SeedsAfter, Runs
      <3>2. EndsIn(queue'[p + 1].regions, s) <=> s \in Elements(Reached(o.regions))
        BY <2>7 DEF Runs
      <3>3. i - 1 \in Marked(o, Listed(o)) <=> s = 0 \/ s \in Elements(Reached(o.regions))
        BY <1>8
      <3>4. ASSUME i - 1 \in Marked(o, Listed(o))
            PROVE  was_fuzzed_map'[c] = 0
        BY <1>11, <2>1, <2>7, <3>4
      <3>5. ASSUME i - 1 \notin Marked(o, Listed(o)), i <= Len(state_ids)
            PROVE  was_fuzzed_map'[c] = -1
        <4>1. CASE Inside(c)
          <5>1. p < Len(queue) /\ p \in 0 .. Len(queue) - 1
            BY <1>9, <2>1, <4>1 DEF Inside
          <5>2. p \notin Elements(khms_states[s].seeds)
            BY <2>5, <2>7, <3>5 DEF Runs
          <5>3. was_fuzzed_map[<<i - 1, p>>] = -1
            BY <1>2, <2>5, <3>5, <5>1, <5>2 DEF Tables, SeedsMarked
          <5> QED
            BY <1>11, <2>1, <3>5, <4>1, <5>3
        <4>2. CASE ~Inside(c)
          BY <1>11, <2>1, <3>5, <4>2
        <4> QED
          BY <4>1, <4>2
      <3>6. ASSUME i - 1 \notin Marked(o, Listed(o))
            PROVE  was_fuzzed_map'[c] = -1
        BY <2>6, <3>5, <3>6
      <3> QED
        BY <3>1, <3>2, <3>3, <3>4, <3>6
    <2>8. CASE p # q
      <3>1. p + 1 \in DOMAIN queue /\ p \in 0 .. Len(queue) - 1 /\ queue'[p + 1] = queue[p + 1]
        <4>1. queue' \in Seq(Entries) /\ queue \in Seq(Entries)
          BY DEF Runs, TypeOK, Entries
        <4>2. p + 1 \in DOMAIN queue' /\ p + 1 # q + 1 /\ p \in Nat
          BY <2>8, <4>1
        <4>3. p + 1 \in DOMAIN queue /\ queue'[p + 1] = queue[p + 1]
          BY <4>2 DEF Runs
        <4> QED
          BY <4>1, <4>2, <4>3
      <3>2. CASE i <= Len(state_ids)
        <4>1. Elements(khms_states'[s].seeds) \ {q} = Elements(khms_states[s].seeds) \ {q}
          BY <2>3, <2>5, <3>2 DEF SeedsAfter
        <4>2. Inside(c)
          BY <1>9, <2>1, <2>5, <3>1, <3>2 DEF Inside
        <4>3. was_fuzzed_map'[c] = was_fuzzed_map[<<i - 1, p>>]
          BY <1>11, <2>1, <2>8, <4>2
        <4>4. /\ p \in Elements(khms_states[s].seeds) <=> was_fuzzed_map[<<i - 1, p>>] # -1
              /\ s # 0 => (p \in Elements(khms_states[s].seeds)
                             <=> EndsIn(queue[p + 1].regions, s))
          BY <1>2, <2>5, <3>1, <3>2 DEF Tables, SeedsMarked, EndsIn
        <4> QED
          BY <2>8, <3>1, <4>1, <4>3, <4>4
      <3>3. CASE ~(i <= Len(state_ids))
        <4>1. p \notin Elements(khms_states'[s].seeds)
          BY <2>3, <2>4, <2>8, <3>3 DEF SeedsAfter
        <4>2. was_fuzzed_map'[c] = -1
          BY <2>6, <2>8, <3>3
        <4>3. ~EndsIn(queue'[p + 1].regions, s)
          BY <2>4, <3>1, <3>3 DEF Tables, StatesKnown, EndsIn, Runs
        <4> QED
          BY <4>1, <4>2, <4>3
      <3> QED
        BY <3>2, <3>3
    <2> QED
      BY <2>7, <2>8
  <1>13. SeedsMarked'
    BY <1>1, <1>12 DEF SeedsMarked, EndsIn
  <1> QED
    BY <1>2, <1>3, <1>7, <1>13

(***************************************************************************)
(* Steps without an answer.                                                *)
(***************************************************************************)

\* An answer that does not lead to the initial state leaves the tables empty.
LEMMA StuckStep ==
  ASSUME TypeOK, Tables, pc # "no_initial_state", NEW n, NEW o, Outcome(o, n), ~HasInitial(o),
         NEW q \in Nat, NEW cols \in {0, 1}, NEW next, UNCHANGED selected_state_index,
         queue # <<>>, queue' \in Seq(Entries), Len(queue') = Len(queue) + cols,
         update_state_aware_variables(q, o, 0, cols, next)
  PROVE  TableTypes' /\ Tables' /\ pc' = "no_initial_state"
  <1>1. state_ids = <<>> /\ NewNodes(o.seq) = <<>>
    BY NothingListed DEF Tables
  <1>2. /\ ipsm' = ipsm \cup Elements(NewNodes(o.seq))
        /\ collided' = (collided \/ Hidden(o.seq))
        /\ fuzzed_map_qentries' = fuzzed_map_qentries + cols
        /\ state_ids' = state_ids \o NewNodes(o.seq)
        /\ fuzzed_map_states' = fuzzed_map_states + 0
        /\ was_fuzzed_map' = expand_was_fuzzed_map(0, cols)
        /\ pc' = "no_initial_state" /\ khms_states' = khms_states
    BY DEF update_state_aware_variables, HasInitial
  <1>3. /\ state_ids \o NewNodes(o.seq) = <<>> /\ Elements(NewNodes(o.seq)) = {}
        /\ Elements(<<>>) = {} /\ DOMAIN <<>> = {} /\ <<>> \in Seq(AllStates)
    BY <1>1 DEF Elements
  <1>4. fuzzed_map_states \in Nat /\ fuzzed_map_qentries \in Nat /\ cols \in Nat
    BY DEF TypeOK
  <1>5. state_ids' = <<>> /\ ipsm' = ipsm /\ fuzzed_map_states' = fuzzed_map_states
    BY <1>1, <1>2, <1>3, <1>4
  <1>6. DOMAIN khms_states = {} /\ ipsm = {}
    BY <1>1, <1>3 DEF Tables, StatesKnown
  <1>7. Grown(0, cols) = (0 .. fuzzed_map_states' - 1) \X (0 .. fuzzed_map_qentries' - 1)
    BY <1>2, <1>4, <1>5 DEF Grown
  <1>8. /\ was_fuzzed_map' \in [Grown(0, cols) -> {-1, 0, 1}]
        /\ \A c \in Grown(0, cols) : was_fuzzed_map'[c] = -1
    <2>1. /\ expand_was_fuzzed_map(0, cols) \in [Grown(0, cols) -> {-1, 0, 1}]
          /\ \A c \in Grown(0, cols) :
               /\ Inside(c) => c \in DOMAIN was_fuzzed_map
               /\ expand_was_fuzzed_map(0, cols)[c] = IF Inside(c) THEN was_fuzzed_map[c] ELSE -1
      BY <1>4, Cells
    <2>2. \A c \in DOMAIN was_fuzzed_map : was_fuzzed_map[c] = -1
      BY <1>1 DEF Tables, SeedsKnown
    <2> QED
      BY <1>2, <2>1, <2>2
  <1>9. TableTypes'
    <2>1. collided' \in BOOLEAN
      BY <1>2
    <2>2. fuzzed_map_states' \in Nat /\ fuzzed_map_qentries' \in Nat
      BY <1>2, <1>4, <1>5
    <2>3. was_fuzzed_map' \in [(0 .. fuzzed_map_states' - 1)
                                 \X (0 .. fuzzed_map_qentries' - 1) -> {-1, 0, 1}]
      BY <1>7, <1>8
    <2>4. ipsm' \subseteq AllStates /\ DOMAIN khms_states' = {} /\ state_ids' \in Seq(AllStates)
      BY <1>2, <1>3, <1>5, <1>6
    <2> QED
      BY <2>1, <2>2, <2>3, <2>4 DEF TableTypes
  <1>10. StatesKnown' /\ SeedsKnown'
    BY <1>2, <1>3, <1>5, <1>6, <1>8 DEF StatesKnown, SeedsKnown
  <1>11. TableCovers'
    <2>1. queue \in Seq(Entries) /\ Len(queue') # 0
      BY DEF TypeOK, Entries
    <2>2. queue' # <<>>
      BY <2>1
    <2> QED
      BY <1>1, <1>2, <1>5, <2>2 DEF Tables, TableCovers
  <1>12. IndexesPoint'
    <2>1. selected_state_index = 0
      BY <1>1 DEF Tables, IndexesPoint, TypeOK
    <2> QED
      BY <1>2, <1>5, <1>6, <2>1 DEF IndexesPoint
  <1>13. StatesAgree' /\ SeedsMarked'
    BY <1>2, <1>3, <1>5, <1>6 DEF StatesAgree, SeedsMarked
  <1> QED
    BY <1>2, <1>9, <1>10, <1>11, <1>12, <1>13 DEF Tables

\* An entry that says nothing about states gets a column of its own.
LEMMA SilentEntry ==
  ASSUME TypeOK, Tables, pc # "no_initial_state", NEW e \in Entries,
         \A r \in Elements(e.regions) : ~(r.count > 0), queue' = Append(queue, e),
         NEW next, next # "no_initial_state", next = "dry_run" => state_ids = <<>>,
         queue = <<>> => state_ids = <<>>,
         UNCHANGED selected_state_index, no_answer(RowsForEntry, 1, next)
  PROVE  TableTypes' /\ Tables' /\ pc' = next
  <1> DEFINE k == Len(queue)
  <1>1. /\ fuzzed_map_states' = fuzzed_map_states + RowsForEntry
        /\ fuzzed_map_qentries' = fuzzed_map_qentries + 1
        /\ was_fuzzed_map' = expand_was_fuzzed_map(RowsForEntry, 1)
        /\ pc' = next /\ UNCHANGED statevars
    BY DEF no_answer
  <1>2. UNCHANGED <<ipsm, khs_ipsm_paths, collided, khms_states, state_ids>>
    BY <1>1 DEF statevars
  <1>3. /\ queue \in Seq(Entries) /\ k \in Nat /\ DOMAIN queue = 1 .. k
        /\ queue' \in Seq(Entries) /\ Len(queue') = k + 1 /\ DOMAIN queue' = 1 .. k + 1
        /\ queue'[k + 1] = e /\ \A m \in 1 .. k : queue'[m] = queue[m]
    BY DEF TypeOK, Entries
  <1>4. fuzzed_map_states \in Nat /\ fuzzed_map_qentries = k /\ RowsForEntry \in Nat
    BY DEF TypeOK, Tables, TableCovers, RowsForEntry
  <1>5. /\ was_fuzzed_map' \in [Grown(RowsForEntry, 1) -> {-1, 0, 1}]
        /\ \A c \in Grown(RowsForEntry, 1) :
             /\ Inside(c) => c \in DOMAIN was_fuzzed_map
             /\ was_fuzzed_map'[c] = IF Inside(c) THEN was_fuzzed_map[c] ELSE -1
    BY <1>1, <1>4, Cells
  <1>6. Grown(RowsForEntry, 1) = (0 .. fuzzed_map_states' - 1) \X (0 .. fuzzed_map_qentries' - 1)
    BY <1>1, <1>4 DEF Grown
  <1>7. TableTypes'
    <2>1. fuzzed_map_states' \in Nat /\ fuzzed_map_qentries' \in Nat
      BY <1>1, <1>3, <1>4
    <2> QED
      BY <1>2, <1>5, <1>6, <2>1 DEF TypeOK, TableTypes, Seeds
  <1>8. TableCovers'
    <2>1. queue' # <<>>
      BY <1>3
    <2>3. fuzzed_map_states' = IF state_ids = <<>> THEN 1 ELSE Len(state_ids)
      <3>1. CASE queue = <<>>
        BY <1>1, <3>1 DEF Tables, TableCovers, RowsForEntry
      <3>2. CASE queue # <<>>
        <4>1. fuzzed_map_states = IF state_ids = <<>> THEN 1 ELSE Len(state_ids)
          BY <3>2 DEF Tables, TableCovers
        <4>2. state_ids \in Seq(AllStates)
          BY DEF TypeOK
        <4>3. fuzzed_map_states # 0
          BY <4>1, <4>2
        <4> QED
          BY <1>1, <1>4, <4>1, <4>3 DEF RowsForEntry
      <3> QED
        BY <3>1, <3>2
    <2> QED
      BY <1>1, <1>2, <1>3, <1>4, <2>1, <2>3 DEF TableCovers
  <1>9. ASSUME NEW m \in DOMAIN queue', NEW s
        PROVE  EndsIn(queue'[m].regions, s) <=> m \in DOMAIN queue /\ EndsIn(queue[m].regions, s)
    <2>1. CASE m = k + 1
      BY <1>3, <2>1 DEF EndsIn
    <2>2. CASE m # k + 1
      <3>1. m \in DOMAIN queue /\ queue'[m] = queue[m]
        BY <1>3, <2>2
      <3> QED
        BY <3>1 DEF EndsIn
    <2> QED
      BY <2>1, <2>2
  <1>10. StatesKnown'
    <2>1. \A m \in DOMAIN queue' : \A r \in Elements(queue'[m].regions) :
            r.count > 0 => r.last \in DOMAIN khms_states
      <3> TAKE m \in DOMAIN queue'
      <3> TAKE r \in Elements(queue'[m].regions)
      <3> HAVE r.count > 0
      <3>1. EndsIn(queue'[m].regions, r.last)
        BY DEF EndsIn
      <3>2. m \in DOMAIN queue /\ EndsIn(queue[m].regions, r.last)
        BY <1>9, <3>1
      <3> QED
        BY <3>2 DEF EndsIn, Tables, StatesKnown
    <2> QED
      BY <1>2, <2>1 DEF Tables, StatesKnown
  <1>11. SeedsKnown'
    <2>1. ASSUME NEW s \in DOMAIN khms_states, NEW p \in Elements(khms_states[s].seeds)
          PROVE  /\ p + 1 \in DOMAIN queue'
                 /\ pc' = "dry_run" => p < dry'
                 /\ s # 0 => EndsIn(queue'[p + 1].regions, s)
      <3>1. p + 1 \in DOMAIN queue /\ (s # 0 => EndsIn(queue[p + 1].regions, s))
        BY DEF Tables, SeedsKnown, EndsIn
      <3>2. p + 1 \in DOMAIN queue'
        BY <1>3, <3>1
      <3>3. state_ids # <<>>
        <4>1. s \in Elements(state_ids)
          BY DEF Tables, StatesKnown
        <4> QED
          BY <4>1 DEF Elements
      <3> QED
        BY <1>1, <1>9, <3>1, <3>2, <3>3
    <2>2. state_ids = <<>> => \A c \in DOMAIN was_fuzzed_map' : was_fuzzed_map'[c] = -1
      BY <1>5 DEF Tables, SeedsKnown
    <2> QED
      BY <1>2, <2>1, <2>2 DEF SeedsKnown, EndsIn
  <1>12. SeedsMarked'
    <2>1. ASSUME ~collided, NEW i \in DOMAIN state_ids, NEW p \in 0 .. Len(queue') - 1
          PROVE  LET seed == p \in Elements(khms_states[state_ids[i]].seeds)
                 IN /\ seed <=> was_fuzzed_map'[<<i - 1, p>>] # -1
                    /\ state_ids[i] # 0 =>
                         (seed <=> EndsIn(queue'[p + 1].regions, state_ids[i]))
      <3> DEFINE c == <<i - 1, p>>
                 s == state_ids[i]
      <3>1. state_ids \in Seq(AllStates) /\ state_ids # <<>>
        BY DEF TypeOK
      <3>2. i \in 1 .. Len(state_ids) /\ s \in DOMAIN khms_states
        BY <3>1 DEF Tables, StatesKnown, Elements
      <3>3. fuzzed_map_states = Len(state_ids) /\ RowsForEntry = 0
        <4>1. fuzzed_map_states = Len(state_ids)
          BY <3>1 DEF Tables, TableCovers
        <4> QED
          BY <3>2, <4>1 DEF RowsForEntry
      <3>4. c \in Grown(RowsForEntry, 1) /\ p + 1 \in DOMAIN queue' /\ p \in 0 .. k
        BY <1>3, <1>4, <3>2, <3>3 DEF Grown
      <3>5. CASE p = k
        <4>1. ~Inside(c)
          BY <1>4, <3>5 DEF Inside
        <4>2. was_fuzzed_map'[c] = -1
          BY <1>5, <3>4, <4>1
        <4>3. p + 1 \notin DOMAIN queue
          BY <1>3, <3>5
        <4>4. p \notin Elements(khms_states[s].seeds)
          BY <3>2, <4>3 DEF Tables, SeedsKnown
        <4> QED
          BY <1>9, <3>4, <4>2, <4>3, <4>4
      <3>6. CASE p # k
        <4>1. p \in 0 .. Len(queue) - 1 /\ p + 1 \in DOMAIN queue
          <5>1. ASSUME NEW m \in Nat
                PROVE  \A x \in 0 .. m : x # m => x \in 0 .. m - 1 /\ x + 1 \in 1 .. m
            OBVIOUS
          <5> QED
            BY <1>3, <3>4, <3>6, <5>1
        <4>2. Inside(c)
          BY <1>3, <1>4, <3>2, <3>3, <4>1 DEF Inside
        <4>3. was_fuzzed_map'[c] = was_fuzzed_map[c]
          BY <1>5, <3>4, <4>2
        <4>4. /\ p \in Elements(khms_states[s].seeds) <=> was_fuzzed_map[c] # -1
              /\ s # 0 => (p \in Elements(khms_states[s].seeds) <=> EndsIn(queue[p + 1].regions, s))
          BY <2>1, <4>1 DEF Tables, SeedsMarked, EndsIn
        <4> QED
          BY <1>9, <3>4, <4>1, <4>3, <4>4
      <3> QED
        BY <3>5, <3>6
    <2>2. state_ids' = state_ids /\ khms_states' = khms_states /\ collided' = collided
      BY <1>2
    <2>3. ASSUME ~collided', NEW i \in DOMAIN state_ids', NEW p \in 0 .. Len(queue') - 1
          PROVE  LET seed == p \in Elements(khms_states'[state_ids'[i]].seeds)
                 IN /\ seed <=> was_fuzzed_map'[<<i - 1, p>>] # -1
                    /\ state_ids'[i] # 0 =>
                         (seed <=> EndsIn(queue'[p + 1].regions, state_ids'[i]))
      BY <2>1, <2>2, <2>3
    <2> QED
      BY <2>3 DEF SeedsMarked, EndsIn
  <1>13. IndexesPoint' /\ StatesAgree'
    BY <1>2 DEF Tables, IndexesPoint, StatesAgree
  <1> QED
    BY <1>1, <1>7, <1>8, <1>10, <1>11, <1>12, <1>13 DEF Tables

\* A step that keeps the lists, the regions and who is marked keeps the tables.
LEMMA KeptStep ==
  ASSUME TypeOK, Tables, pc # "no_initial_state", pc' # "no_initial_state",
         queue' \in Seq(Entries), Len(queue') = Len(queue),
         \A k \in DOMAIN queue : queue'[k].regions = queue[k].regions,
         UNCHANGED <<ipsm, khs_ipsm_paths, collided, state_ids, fuzzed_map_states,
                     fuzzed_map_qentries>>,
         DOMAIN khms_states' = DOMAIN khms_states,
         \A s \in DOMAIN khms_states : khms_states'[s].seeds = khms_states[s].seeds,
         DOMAIN was_fuzzed_map' = DOMAIN was_fuzzed_map,
         state_ids = <<>> \/ ~collided =>
           \A c \in DOMAIN was_fuzzed_map : was_fuzzed_map'[c] = -1 <=> was_fuzzed_map[c] = -1,
         pc' = "dry_run" => pc = "dry_run" /\ dry \in Nat /\ dry' \in Nat /\ dry <= dry',
         IndexesPoint'
  PROVE  Tables'
  <1>1. /\ DOMAIN queue' = DOMAIN queue /\ DOMAIN queue = 1 .. Len(queue)
        /\ queue' = <<>> <=> queue = <<>>
    <2>1. queue \in Seq(Entries)
      BY DEF TypeOK, Entries
    <2>2. DOMAIN queue' = 1 .. Len(queue) /\ DOMAIN queue = 1 .. Len(queue)
      BY <2>1
    <2>3. queue' = <<>> <=> Len(queue') = 0
      OBVIOUS
    <2>4. queue = <<>> <=> Len(queue) = 0
      BY <2>1
    <2> QED
      BY <2>2, <2>3, <2>4
  <1>2. TableCovers'
    BY <1>1 DEF Tables, TableCovers
  <1>3. StatesKnown'
    <2>1. \A m \in DOMAIN queue' : \A r \in Elements(queue'[m].regions) :
            r.count > 0 => r.last \in DOMAIN khms_states'
      BY <1>1 DEF Tables, StatesKnown
    <2> QED
      BY <2>1 DEF Tables, StatesKnown
  <1>4. SeedsKnown'
    <2>1. ASSUME NEW s \in DOMAIN khms_states', NEW p \in Elements(khms_states'[s].seeds)
          PROVE  /\ p + 1 \in DOMAIN queue'
                 /\ pc' = "dry_run" => p < dry'
                 /\ s # 0 => EndsIn(queue'[p + 1].regions, s)
      <3>1. s \in DOMAIN khms_states /\ p \in Elements(khms_states[s].seeds)
        BY <2>1
      <3>2. /\ p + 1 \in DOMAIN queue /\ (pc = "dry_run" => p < dry)
            /\ (s # 0 => EndsIn(queue[p + 1].regions, s))
        BY <3>1 DEF Tables, SeedsKnown, EndsIn
      <3>3. p \in Nat
        BY <3>1 DEF TypeOK, Elements
      <3>4. pc' = "dry_run" => p < dry'
        BY <3>2, <3>3
      <3> QED
        BY <1>1, <3>2, <3>4
    <2>2. state_ids' = <<>> => \A c \in DOMAIN was_fuzzed_map' : was_fuzzed_map'[c] = -1
      BY DEF Tables, SeedsKnown
    <2> QED
      BY <2>1, <2>2 DEF SeedsKnown, EndsIn
  <1>5. StatesAgree'
    BY DEF Tables, StatesAgree
  <1>6. SeedsMarked'
    <2>1. ASSUME ~collided', NEW i \in DOMAIN state_ids', NEW p \in 0 .. Len(queue') - 1
          PROVE  LET seed == p \in Elements(khms_states'[state_ids'[i]].seeds)
                 IN /\ seed <=> was_fuzzed_map'[<<i - 1, p>>] # -1
                    /\ state_ids'[i] # 0 =>
                         (seed <=> EndsIn(queue'[p + 1].regions, state_ids'[i]))
      <3> DEFINE c == <<i - 1, p>>
                 s == state_ids[i]
      <3>1. i \in DOMAIN state_ids /\ p \in 0 .. Len(queue) - 1 /\ ~collided /\ s = state_ids'[i]
        BY <2>1
      <3>2. s \in DOMAIN khms_states
        BY <3>1 DEF Tables, StatesKnown, Elements
      <3>3. c \in DOMAIN was_fuzzed_map
        <4>1. state_ids \in Seq(AllStates) /\ state_ids # <<>> /\ i \in 1 .. Len(state_ids)
          BY <3>1 DEF TypeOK
        <4>2. queue # <<>>
          BY <3>1
        <4>3. fuzzed_map_states = Len(state_ids) /\ fuzzed_map_qentries = Len(queue)
          BY <4>1, <4>2 DEF Tables, TableCovers
        <4>4. DOMAIN was_fuzzed_map = (0 .. Len(state_ids) - 1) \X (0 .. Len(queue) - 1)
          BY <4>3 DEF TypeOK
        <4> QED
          BY <3>1, <4>1, <4>4
      <3>4. was_fuzzed_map'[c] = -1 <=> was_fuzzed_map[c] = -1
        BY <3>1, <3>3
      <3>5. p + 1 \in DOMAIN queue
        <4>1. queue \in Seq(Entries)
          BY DEF TypeOK, Entries
        <4> QED
          BY <1>1, <3>1, <4>1
      <3>6. /\ p \in Elements(khms_states[s].seeds) <=> was_fuzzed_map[c] # -1
            /\ s # 0 => (p \in Elements(khms_states[s].seeds) <=> EndsIn(queue[p + 1].regions, s))
        BY <3>1 DEF Tables, SeedsMarked, EndsIn
      <3> QED
        BY <3>1, <3>2, <3>4, <3>5, <3>6
    <2> QED
      BY <2>1 DEF SeedsMarked, EndsIn
  <1> QED
    BY <1>2, <1>3, <1>4, <1>5, <1>6 DEF Tables

\* A run with an answer keeps the tables; if it goes on, there are states, and no
\* seed is lost unless a collision has hidden a state.
LEMMA AnsweredStep ==
  ASSUME TypeOK, Tables, NEW n, NEW o, Outcome(o, n), NEW q \in Nat, NEW cols \in {0, 1},
         NEW next, Runs(q, o, cols), update_state_aware_variables(q, o, 0, cols, next)
  PROVE  /\ TableTypes' /\ Tables'
         /\ \/ pc' = "no_initial_state"
            \/ /\ pc' = next /\ state_ids' # <<>>
               /\ DOMAIN khms_states \subseteq DOMAIN khms_states'
               /\ ~collided' => /\ ~collided
                                /\ \A s \in DOMAIN khms_states :
                                     Elements(khms_states[s].seeds)
                                       \subseteq Elements(khms_states'[s].seeds)
  <1>1. CASE HasInitial(o)
    <2>1. TableTypes'
      BY <1>1, UpdatedTypes DEF Tables
    <2>2. StatesKnown' /\ TableCovers' /\ IndexesPoint'
      BY <1>1, UpdatedStates
    <2>3. /\ SeedsKnown' /\ DOMAIN khms_states \subseteq DOMAIN khms_states'
          /\ \A s \in DOMAIN khms_states' :
               Elements(khms_states'[s].seeds) = SeedsAfter(q, o, Added(o), s)
      BY <1>1, UpdatedSeeds
    <2>4. /\ StatesAgree' /\ SeedsMarked'
          /\ ~collided' => ~collided /\ Elements(Added(o)) \cap DOMAIN khms_states = {}
      BY <1>1, UpdatedMarks
    <2>5. state_ids' # <<>> /\ pc' = next
      <3>1. state_ids' = Listed(o) /\ pc' = next
        BY <1>1, Updated DEF Tables
      <3> QED
        BY <1>1, <3>1, InitialFirst DEF Tables
    <2>6. ASSUME ~collided', NEW s \in DOMAIN khms_states
          PROVE  Elements(khms_states[s].seeds) \subseteq Elements(khms_states'[s].seeds)
      BY <2>3, <2>4, <2>6 DEF SeedsAfter
    <2> QED
      BY <2>1, <2>2, <2>3, <2>4, <2>5, <2>6 DEF Tables
  <1>2. CASE ~HasInitial(o)
    <2>1. /\ pc # "no_initial_state" /\ queue # <<>> /\ UNCHANGED selected_state_index
          /\ queue' \in Seq(Entries) /\ Len(queue') = Len(queue) + cols
      BY DEF Runs
    <2>2. TableTypes' /\ Tables' /\ pc' = "no_initial_state"
      BY <1>2, <2>1, StuckStep
    <2> QED
      BY <2>2
  <1> QED
    BY <1>1, <1>2

\* The regions of a run end in the states reached.
LEMMA ReachedEnds ==
  ASSUME NEW regions \in Seq(Annotations), NEW s
  PROVE  EndsIn(regions, s) <=> s \in Elements(Reached(regions))
  <1>1. Elements(Reached(regions)) =
          {regions[i].last : i \in {j \in DOMAIN regions : regions[j].count > 0}}
    BY ReachedElements
  <1> QED
    BY <1>1 DEF EndsIn, Elements

\* An entry without annotations.
LEMMA SilentRegions ==
  ASSUME NEW n \in Nat, NEW failed \in BOOLEAN,
         NEW e, e = Entry([i \in 1 .. n |-> NoAnnotation], failed)
  PROVE  /\ e \in Entries /\ e.was_fuzzed = FALSE
         /\ \A r \in Elements(e.regions) : ~(r.count > 0)
  <1> DEFINE silent == [i \in 1 .. n |-> NoAnnotation]
  <1>1. NoAnnotation \in Annotations /\ ~(NoAnnotation.count > 0)
    BY DEF NoAnnotation, Annotations, AllStates
  <1>2. silent \in Seq(Annotations) /\ DOMAIN silent = 1 .. n
        /\ \A r \in Elements(silent) : r = NoAnnotation
    BY <1>1 DEF Elements
  <1>3. e = [regions |-> silent, was_fuzzed |-> FALSE, cal_failed |-> failed]
    BY DEF Entry
  <1> HIDE DEF silent
  <1>4. e \in Entries /\ e.regions = silent /\ e.was_fuzzed = FALSE
    <2>1. [regions |-> silent, was_fuzzed |-> FALSE, cal_failed |-> failed] \in Entries
      BY <1>2 DEF Entries
    <2>2. /\ [regions |-> silent, was_fuzzed |-> FALSE, cal_failed |-> failed].regions = silent
          /\ [regions |-> silent, was_fuzzed |-> FALSE, cal_failed |-> failed].was_fuzzed = FALSE
      OBVIOUS
    <2> QED
      BY <1>3, <2>1, <2>2, Zenon
  <1> QED
    BY <1>1, <1>2, <1>4

(***************************************************************************)
(* The number of entries that have not been fuzzed.                        *)
(***************************************************************************)
Unfuzzed(q) == {n \in DOMAIN q : ~q[n].was_fuzzed}

\* The entries not fuzzed are finitely many.
LEMMA UnfuzzedFinite ==
  ASSUME NEW q \in Seq(Entries)
  PROVE  IsFiniteSet(Unfuzzed(q)) /\ Cardinality(Unfuzzed(q)) \in Nat
  <1>1. DOMAIN q = 1 .. Len(q) /\ Len(q) \in Nat
    OBVIOUS
  <1>2. IsFiniteSet(DOMAIN q)
    BY <1>1, FS_Interval
  <1>3. Unfuzzed(q) \in SUBSET DOMAIN q
    BY DEF Unfuzzed
  <1> QED
    BY <1>2, <1>3, FS_Subset, FS_CardinalityType

\* A new entry counts.
LEMMA PendingMore ==
  ASSUME queue \in Seq(Entries), PendingExact, NEW e \in Entries, e.was_fuzzed = FALSE,
         queue' = Append(queue, e), pending_not_fuzzed' = pending_not_fuzzed + 1
  PROVE  PendingExact' /\ pending_not_fuzzed' \in Nat /\ queue' \in Seq(Entries)
  <1> DEFINE k == Len(queue)
  <1>1. /\ k \in Nat /\ DOMAIN queue = 1 .. k /\ DOMAIN queue' = 1 .. k + 1
        /\ queue'[k + 1] = e /\ \A m \in 1 .. k : queue'[m] = queue[m]
        /\ queue' \in Seq(Entries)
    OBVIOUS
  <1>2. \A m \in DOMAIN queue' : m = k + 1 \/ m \in DOMAIN queue
    BY <1>1
  <1>3. k + 1 \notin DOMAIN queue
    BY <1>1
  <1>4. Unfuzzed(queue') = Unfuzzed(queue) \cup {k + 1} /\ k + 1 \notin Unfuzzed(queue)
    BY <1>1, <1>2, <1>3 DEF Unfuzzed
  <1>5. IsFiniteSet(Unfuzzed(queue)) /\ Cardinality(Unfuzzed(queue)) \in Nat
    BY UnfuzzedFinite
  <1> HIDE DEF k
  <1>6. Cardinality(Unfuzzed(queue')) = Cardinality(Unfuzzed(queue)) + 1
    BY <1>4, <1>5, FS_AddElement
  <1>7. pending_not_fuzzed = Cardinality(Unfuzzed(queue))
    BY DEF PendingExact, Unfuzzed
  <1>8. pending_not_fuzzed' = Cardinality(Unfuzzed(queue'))
    BY <1>6, <1>7
  <1> QED
    <2>1. PendingExact'
      BY <1>8 DEF PendingExact, Unfuzzed
    <2>2. pending_not_fuzzed' \in Nat
      BY <1>5, <1>6, <1>8
    <2> QED
      BY <1>1, <2>1, <2>2

\* Replacing an entry by another one that is as fuzzed as it was changes nothing.
LEMMA PendingSame ==
  ASSUME queue \in Seq(Entries), PendingExact, queue' \in Seq(Entries),
         Len(queue') = Len(queue), UNCHANGED pending_not_fuzzed,
         \A m \in DOMAIN queue : queue'[m].was_fuzzed <=> queue[m].was_fuzzed
  PROVE  PendingExact'
  <1>1. DOMAIN queue' = DOMAIN queue
    OBVIOUS
  <1>2. Unfuzzed(queue') = Unfuzzed(queue)
    BY <1>1 DEF Unfuzzed
  <1>3. pending_not_fuzzed = Cardinality(Unfuzzed(queue))
    BY DEF PendingExact, Unfuzzed
  <1>4. pending_not_fuzzed' = Cardinality(Unfuzzed(queue'))
    BY <1>2, <1>3
  <1> QED
    BY <1>4 DEF PendingExact, Unfuzzed

\* An entry fuzzed for the first time no longer counts.
LEMMA PendingLess ==
  ASSUME queue \in Seq(Entries), PendingExact, NEW k \in DOMAIN queue, ~queue[k].was_fuzzed,
         queue' = [queue EXCEPT ![k].was_fuzzed = TRUE],
         pending_not_fuzzed' = pending_not_fuzzed - 1
  PROVE  /\ PendingExact' /\ pending_not_fuzzed' \in Nat /\ queue' \in Seq(Entries)
         /\ Len(queue') = Len(queue)
         /\ \A m \in DOMAIN queue : queue'[m].regions = queue[m].regions
  <1>1. /\ DOMAIN queue' = DOMAIN queue /\ queue' \in Seq(Entries) /\ Len(queue') = Len(queue)
        /\ \A m \in DOMAIN queue : /\ queue'[m].regions = queue[m].regions
                                   /\ m # k => queue'[m].was_fuzzed = queue[m].was_fuzzed
        /\ queue'[k].was_fuzzed = TRUE
    <2>1. \A m \in DOMAIN queue : queue[m] \in Entries
      OBVIOUS
    <2>2. \A e \in Entries : /\ [e EXCEPT !.was_fuzzed = TRUE] \in Entries
                             /\ [e EXCEPT !.was_fuzzed = TRUE].regions = e.regions
                             /\ [e EXCEPT !.was_fuzzed = TRUE].was_fuzzed = TRUE
      BY DEF Entries
    <2>3. /\ DOMAIN queue' = DOMAIN queue
          /\ \A m \in DOMAIN queue :
               queue'[m] = IF m = k THEN [queue[m] EXCEPT !.was_fuzzed = TRUE] ELSE queue[m]
      OBVIOUS
    <2>4. \A m \in DOMAIN queue : queue'[m] \in Entries
      BY <2>1, <2>2, <2>3
    <2>5. queue' \in Seq(Entries) /\ Len(queue') = Len(queue)
      BY <2>3, <2>4
    <2> QED
      BY <2>1, <2>2, <2>3, <2>5
  <1>2. Unfuzzed(queue') = Unfuzzed(queue) \ {k} /\ k \in Unfuzzed(queue)
    BY <1>1 DEF Unfuzzed
  <1>3. IsFiniteSet(Unfuzzed(queue)) /\ Cardinality(Unfuzzed(queue)) \in Nat
    BY UnfuzzedFinite
  <1>4. Cardinality(Unfuzzed(queue')) = Cardinality(Unfuzzed(queue)) - 1
    BY <1>2, <1>3, FS_RemoveElement
  <1>5. pending_not_fuzzed = Cardinality(Unfuzzed(queue))
    BY DEF PendingExact, Unfuzzed
  <1>6. pending_not_fuzzed' = Cardinality(Unfuzzed(queue'))
    BY <1>4, <1>5
  <1>7. PendingExact'
    BY <1>6 DEF PendingExact, Unfuzzed
  <1>8. pending_not_fuzzed' \in Nat
    BY <1>1, <1>6, UnfuzzedFinite
  <1> QED
    BY <1>1, <1>7, <1>8

(***************************************************************************)
(* The initial state and every action.                                     *)
(***************************************************************************)

\* The part of the type invariant about the queue and the selection.
EntryTypes ==
  /\ pc \in Places
  /\ dry \in 0 .. InitialSeeds
  /\ queue \in Seq(Entries)
  /\ pending_not_fuzzed \in Nat
  /\ target_state_id \in AllStates
  /\ selected_state_index \in Nat
  /\ state_cycles \in 0 .. 1
  /\ queue_cur \in Nat \cup {-1}

\* The inductive invariant in the parts the steps are shown to keep.
LEMMA Parts == IInv <=> TableTypes /\ EntryTypes /\ Tables /\ Phase /\ PendingExact
  BY DEF IInv, TypeOK, TableTypes, EntryTypes, Tables, Seeds, Entries

\* The parts make up the invariant after a step as well.
LEMMA PartsAfter == TableTypes' /\ EntryTypes' /\ Tables' /\ Phase' /\ PendingExact' => IInv'
  BY DEF IInv, TypeOK, TableTypes, EntryTypes, Tables, Seeds, Entries

\* The fuzzer starts with empty lists.
LEMMA InitKeeps == Init => IInv
  <1> SUFFICES ASSUME Init PROVE IInv
    OBVIOUS
  <1> USE DEF Init
  <1>1. Elements(<<>>) = {} /\ DOMAIN <<>> = {} /\ Len(<<>>) = 0
    BY DEF Elements
  <1>2. /\ DOMAIN was_fuzzed_map = {} /\ DOMAIN khms_states = {}
        /\ (0 .. 0 - 1) \X (0 .. 0 - 1) = {}
    OBVIOUS
  <1>3. TableTypes
    <2>1. was_fuzzed_map \in [{} -> {-1, 0, 1}]
      OBVIOUS
    <2>2. (0 .. fuzzed_map_states - 1) \X (0 .. fuzzed_map_qentries - 1) = {}
      BY <1>2
    <2>3. was_fuzzed_map \in [(0 .. fuzzed_map_states - 1)
                                \X (0 .. fuzzed_map_qentries - 1) -> {-1, 0, 1}]
      BY <2>1, <2>2
    <2>4. ipsm = {} /\ collided = FALSE /\ state_ids = <<>>
          /\ fuzzed_map_states = 0 /\ fuzzed_map_qentries = 0
      OBVIOUS
    <2>5. collided \in BOOLEAN /\ state_ids \in Seq(AllStates)
      <3>1. FALSE \in BOOLEAN /\ <<>> \in Seq(AllStates)
        OBVIOUS
      <3> QED
        BY <2>4, <3>1, Zenon
    <2>6. fuzzed_map_states \in Nat /\ fuzzed_map_qentries \in Nat
      BY <2>4
    <2>7. ipsm \subseteq AllStates /\ DOMAIN khms_states \subseteq AllStates
          /\ \A s \in DOMAIN khms_states : khms_states[s] \in Seeds
      BY <1>2, <2>4
    <2> QED
      BY <2>3, <2>5, <2>6, <2>7 DEF TableTypes
  <1>4. EntryTypes
    BY StateAwareConstants DEF EntryTypes, Places, AllStates
  <1>5. Tables
    BY <1>1, <1>2 DEF Tables, StatesKnown, SeedsKnown, TableCovers, IndexesPoint, StatesAgree,
                      SeedsMarked
  <1>6. Phase
    BY <1>1, StateAwareConstants DEF Phase, InLoop
  <1>7. PendingExact
    <2>1. {n \in DOMAIN queue : ~queue[n].was_fuzzed} = {}
      BY <1>1
    <2> QED
      BY <2>1, FS_EmptySet DEF PendingExact
  <1> QED
    BY <1>3, <1>4, <1>5, <1>6, <1>7, Parts

\* ReadTestcase: a column for each initial seed.
LEMMA ReadTestcaseKeeps == IInv /\ ReadTestcase => IInv'
  <1> SUFFICES ASSUME IInv, ReadTestcase PROVE IInv'
    OBVIOUS
  <1>1. TypeOK /\ Tables /\ EntryTypes /\ Phase /\ PendingExact
    BY Parts DEF IInv
  <1>2. PICK n \in 1 .. MaxMsgs :
          queue' = Append(queue, Entry([i \in 1 .. n |-> NoAnnotation], FALSE))
    BY DEF ReadTestcase
  <1> DEFINE e == Entry([i \in 1 .. n |-> NoAnnotation], FALSE)
             next == IF Len(queue) + 1 = InitialSeeds THEN "dry_run" ELSE "read"
  <1>3. /\ e \in Entries /\ e.was_fuzzed = FALSE
        /\ \A r \in Elements(e.regions) : ~(r.count > 0)
    <2>1. n \in Nat
      BY StateAwareConstants
    <2> QED
      BY <2>1, SilentRegions
  <1>4. queue' = Append(queue, e)
    BY <1>2
  <1>5. /\ pc = "read" /\ no_answer(RowsForEntry, 1, next)
        /\ pending_not_fuzzed' = pending_not_fuzzed + 1
        /\ UNCHANGED <<dry, target_state_id, selected_state_index, state_cycles, queue_cur>>
    BY DEF ReadTestcase, selection
  <1> HIDE DEF e
  <1>6. queue \in Seq(Entries) /\ Len(queue) \in Nat /\ InitialSeeds \in Nat
        /\ Len(queue) < InitialSeeds /\ dry = 0 /\ state_ids = <<>>
    BY <1>1, <1>5, StateAwareConstants DEF EntryTypes, Phase
  <1>7. PendingExact' /\ pending_not_fuzzed' \in Nat /\ queue' \in Seq(Entries)
    BY <1>1, <1>3, <1>4, <1>5, <1>6, PendingMore
  <1>8. TableTypes' /\ Tables' /\ pc' = next
    <2>1. next # "no_initial_state"
      OBVIOUS
    <2> HIDE DEF next
    <2> QED
      BY <1>1, <1>3, <1>4, <1>5, <1>6, <2>1, SilentEntry
  <1>9. EntryTypes'
    BY <1>1, <1>5, <1>7, <1>8 DEF EntryTypes, Places
  <1>10. Phase'
    <2>1. Len(queue') = Len(queue) + 1 /\ state_ids' = state_ids
      BY <1>4, <1>5 DEF no_answer, statevars
    <2>2. \A m \in DOMAIN queue' : ~queue'[m].was_fuzzed
      <3>1. \A m \in DOMAIN queue : ~queue[m].was_fuzzed
        BY <1>1, <1>5 DEF Phase
      <3>2. \A m \in DOMAIN queue' : queue'[m] = e \/ (m \in DOMAIN queue /\ queue'[m] = queue[m])
        BY <1>3, <1>4, <1>6
      <3> QED
        BY <1>3, <3>1, <3>2
    <2> QED
      BY <1>5, <1>6, <1>8, <2>1, <2>2 DEF Phase, InLoop
  <1> QED
    BY <1>7, <1>8, <1>9, <1>10, PartsAfter

\* DryRun: an initial seed gets the regions of its first run.
LEMMA DryRunKeeps == IInv /\ DryRun => IInv'
  <1> SUFFICES ASSUME IInv, DryRun PROVE IInv'
    OBVIOUS
  <1>1. TypeOK /\ Tables /\ EntryTypes /\ Phase /\ PendingExact
    BY Parts DEF IInv
  <1> DEFINE old == queue[dry + 1].regions
  <1>2. /\ pc = "dry_run" /\ dry < InitialSeeds /\ dry' = dry + 1
        /\ UNCHANGED <<pending_not_fuzzed, target_state_id, selected_state_index, state_cycles,
                       queue_cur>>
    BY DEF DryRun, selection
  <1>3. /\ queue \in Seq(Entries) /\ DOMAIN queue = 1 .. Len(queue) /\ Len(queue) \in Nat
        /\ dry \in Nat /\ dry + 1 \in DOMAIN queue /\ InitialSeeds \in Nat
        /\ dry' \in 0 .. InitialSeeds /\ queue # <<>>
        /\ \A m \in DOMAIN queue : ~queue[m].was_fuzzed
    <2>1. queue \in Seq(Entries) /\ InitialSeeds \in Nat \ {0} /\ dry \in 0 .. InitialSeeds
          /\ Len(queue) >= InitialSeeds /\ \A m \in DOMAIN queue : ~queue[m].was_fuzzed
      BY <1>1, <1>2, StateAwareConstants DEF EntryTypes, Phase
    <2> QED
      BY <1>2, <2>1
  <1>4. old \in Seq(Annotations)
    <2>1. queue[dry + 1] \in Entries
      BY <1>3
    <2> QED
      BY <2>1 DEF Entries
  <1>5. PICK failed \in BOOLEAN :
          \/ /\ queue' = [queue EXCEPT ![dry + 1] = Entry(old, failed)]
             /\ no_answer(0, 0, "dry_run")
          \/ \E n \in 1 .. Len(old) : \E o \in Outcomes(n) :
               /\ queue' = [queue EXCEPT ![dry + 1] =
                    Entry([i \in DOMAIN old |-> IF i <= n THEN o.regions[i]
                                                ELSE NoAnnotation], failed)]
               /\ update_state_aware_variables(dry, o, 0, 0, "dry_run")
    BY DEF DryRun
  <1> HIDE DEF old
  <1>6. ASSUME NEW regions \in Seq(Annotations),
               queue' = [queue EXCEPT ![dry + 1] = Entry(regions, failed)]
        PROVE  /\ queue' \in Seq(Entries) /\ Len(queue') = Len(queue)
               /\ DOMAIN queue' = DOMAIN queue
               /\ queue'[dry + 1].regions = regions
               /\ \A m \in DOMAIN queue : m # dry + 1 => queue'[m] = queue[m]
               /\ \A m \in DOMAIN queue' : ~queue'[m].was_fuzzed
               /\ PendingExact'
    <2> DEFINE e == Entry(regions, failed)
    <2>1. e \in Entries /\ e.regions = regions /\ ~e.was_fuzzed
      BY DEF Entry, Entries
    <2> HIDE DEF e
    <2>2. /\ DOMAIN queue' = DOMAIN queue /\ queue'[dry + 1] = e
          /\ \A m \in DOMAIN queue : m # dry + 1 => queue'[m] = queue[m]
      BY <1>3, <1>6 DEF e
    <2>3. queue' \in Seq(Entries) /\ Len(queue') = Len(queue)
      BY <1>3, <1>6, <2>1 DEF e
    <2>4. \A m \in DOMAIN queue' : ~queue'[m].was_fuzzed
      BY <1>3, <2>1, <2>2
    <2>5. \A m \in DOMAIN queue : queue'[m].was_fuzzed <=> queue[m].was_fuzzed
      BY <1>3, <2>2, <2>4
    <2>6. PendingExact'
      BY <1>1, <1>2, <1>3, <2>3, <2>5, PendingSame
    <2> QED
      BY <2>1, <2>2, <2>3, <2>4, <2>6
  <1>7. ASSUME queue' = [queue EXCEPT ![dry + 1] = Entry(old, failed)], no_answer(0, 0, "dry_run")
        PROVE  TableTypes' /\ Tables' /\ pc' = "dry_run" /\ queue' \in Seq(Entries)
               /\ Len(queue') = Len(queue) /\ PendingExact'
               /\ \A m \in DOMAIN queue' : ~queue'[m].was_fuzzed
    <2>1. /\ queue' \in Seq(Entries) /\ Len(queue') = Len(queue) /\ PendingExact'
          /\ \A m \in DOMAIN queue : queue'[m].regions = queue[m].regions
          /\ \A m \in DOMAIN queue' : ~queue'[m].was_fuzzed
      BY <1>3, <1>4, <1>6, <1>7 DEF old
    <2>2. /\ UNCHANGED <<ipsm, khs_ipsm_paths, collided, khms_states, state_ids>>
          /\ fuzzed_map_states' = fuzzed_map_states + 0
          /\ fuzzed_map_qentries' = fuzzed_map_qentries + 0
          /\ was_fuzzed_map' = expand_was_fuzzed_map(0, 0) /\ pc' = "dry_run"
      BY <1>7 DEF no_answer, statevars
    <2>3. fuzzed_map_states \in Nat /\ fuzzed_map_qentries \in Nat
          /\ DOMAIN was_fuzzed_map = (0 .. fuzzed_map_states - 1) \X (0 .. fuzzed_map_qentries - 1)
      BY <1>1 DEF TypeOK
    <2>4. fuzzed_map_states' = fuzzed_map_states /\ fuzzed_map_qentries' = fuzzed_map_qentries
      BY <2>2, <2>3
    <2>5. Grown(0, 0) = DOMAIN was_fuzzed_map
      BY <2>3 DEF Grown
    <2>6. /\ was_fuzzed_map' \in [DOMAIN was_fuzzed_map -> {-1, 0, 1}]
          /\ \A c \in DOMAIN was_fuzzed_map : was_fuzzed_map'[c] = was_fuzzed_map[c]
      <3>1. /\ expand_was_fuzzed_map(0, 0) \in [Grown(0, 0) -> {-1, 0, 1}]
            /\ \A c \in Grown(0, 0) :
                 expand_was_fuzzed_map(0, 0)[c] = IF Inside(c) THEN was_fuzzed_map[c] ELSE -1
        BY <1>1, Cells
      <3>2. \A c \in DOMAIN was_fuzzed_map : Inside(c)
        BY <2>3 DEF Inside
      <3> QED
        BY <2>2, <2>5, <3>1, <3>2
    <2>7. TableTypes'
      <3>1. was_fuzzed_map' \in [(0 .. fuzzed_map_states' - 1)
                                   \X (0 .. fuzzed_map_qentries' - 1) -> {-1, 0, 1}]
        BY <2>3, <2>4, <2>6
      <3> QED
        BY <1>1, <2>2, <2>4, <3>1 DEF TypeOK, TableTypes, Seeds
    <2>8. IndexesPoint'
      BY <1>1, <1>2, <2>2 DEF Tables, IndexesPoint
    <2>9. Tables'
      BY <1>1, <1>2, <1>3, <2>1, <2>2, <2>4, <2>6, <2>8, KeptStep
    <2> QED
      BY <2>1, <2>2, <2>7, <2>9
  <1>8. ASSUME NEW n \in 1 .. Len(old), NEW o \in Outcomes(n),
               queue' = [queue EXCEPT ![dry + 1] =
                 Entry([i \in DOMAIN old |-> IF i <= n THEN o.regions[i]
                                             ELSE NoAnnotation], failed)],
               update_state_aware_variables(dry, o, 0, 0, "dry_run")
        PROVE  TableTypes' /\ Tables' /\ queue' \in Seq(Entries)
               /\ Len(queue') = Len(queue) /\ PendingExact'
               /\ (\A m \in DOMAIN queue' : ~queue'[m].was_fuzzed)
               /\ (pc' = "no_initial_state" \/ pc' = "dry_run")
    <2> DEFINE R == [i \in DOMAIN old |-> IF i <= n THEN o.regions[i] ELSE NoAnnotation]
    <2>1. n \in Nat /\ Outcome(o, n)
      BY <1>4, OutcomeFacts
    <2>2. /\ o.regions \in Seq(Annotations) /\ Len(o.regions) = n
          /\ DOMAIN o.regions = 1 .. n /\ DOMAIN old = 1 .. Len(old) /\ Len(old) \in Nat
      BY <1>4, <2>1 DEF Outcome
    <2>3. NoAnnotation \in Annotations /\ ~(NoAnnotation.count > 0)
      BY DEF NoAnnotation, Annotations, AllStates
    <2>4. /\ R \in Seq(Annotations) /\ DOMAIN R = 1 .. Len(old)
          /\ \A i \in 1 .. Len(old) : R[i] = IF i \in 1 .. n THEN o.regions[i] ELSE NoAnnotation
      <3>1. \A i \in 1 .. Len(old) : i <= n <=> i \in 1 .. n
        BY <2>1, <2>2
      <3>2. \A i \in 1 .. n : o.regions[i] \in Annotations
        BY <2>2
      <3> QED
        BY <2>2, <2>3, <3>1, <3>2
    <2>5. queue' = [queue EXCEPT ![dry + 1] = Entry(R, failed)]
      BY <1>8
    <2> HIDE DEF R
    <2>6. \A s : EndsIn(R, s) <=> EndsIn(o.regions, s)
      <3>1. 1 .. n \subseteq 1 .. Len(old)
        BY <2>1, <2>2
      <3> QED
        BY <2>2, <2>3, <2>4, <3>1 DEF EndsIn, Elements
    <2>7. \A s : EndsIn(R, s) <=> s \in Elements(Reached(o.regions))
      BY <2>2, <2>6, ReachedEnds
    <2>8. /\ queue' \in Seq(Entries) /\ Len(queue') = Len(queue) /\ PendingExact'
          /\ DOMAIN queue' = DOMAIN queue /\ queue'[dry + 1].regions = R
          /\ \A m \in DOMAIN queue : m # dry + 1 => queue'[m] = queue[m]
          /\ \A m \in DOMAIN queue' : ~queue'[m].was_fuzzed
      BY <1>6, <2>4, <2>5
    <2>9. \A s \in DOMAIN khms_states : dry \notin Elements(khms_states[s].seeds)
      <3>1. \A s \in DOMAIN khms_states : \A p \in Elements(khms_states[s].seeds) : p < dry
        BY <1>1, <1>2 DEF Tables, SeedsKnown
      <3>2. ~(dry < dry)
        BY <1>3
      <3> QED
        BY <3>1, <3>2
    <2>10. Runs(dry, o, 0)
      <3>1. Len(queue') = Len(queue) + 0 /\ dry < dry' /\ dry <= dry' /\ dry' \in Nat
        BY <1>2, <1>3, <2>8
      <3> QED
        BY <1>2, <1>3, <2>7, <2>8, <2>9, <3>1 DEF Runs
    <2>11. TableTypes' /\ Tables' /\ (pc' = "no_initial_state" \/ pc' = "dry_run")
      BY <1>1, <1>3, <1>8, <2>1, <2>10, AnsweredStep
    <2> QED
      BY <2>8, <2>11
  <1>9. TableTypes' /\ Tables' /\ queue' \in Seq(Entries)
        /\ Len(queue') = Len(queue) /\ PendingExact'
        /\ (\A m \in DOMAIN queue' : ~queue'[m].was_fuzzed)
        /\ (pc' = "no_initial_state" \/ pc' = "dry_run")
    BY <1>5, <1>7, <1>8
  <1>10. EntryTypes'
    BY <1>1, <1>2, <1>3, <1>9 DEF EntryTypes, Places
  <1>11. Phase'
    BY <1>1, <1>2, <1>9 DEF Phase, InLoop
  <1> QED
    BY <1>9, <1>10, <1>11, PartsAfter

\* A step of the main loop that touches neither entries nor tables.
LEMMA PlainStep ==
  ASSUME TypeOK, Tables, EntryTypes, PendingExact, pc # "no_initial_state",
         pc' # "no_initial_state", pc' # "dry_run", IndexesPoint',
         UNCHANGED <<dry, entries, statevars, fuzzedmap>>
  PROVE  TableTypes' /\ Tables' /\ PendingExact'
  <1>1. UNCHANGED <<queue, pending_not_fuzzed, ipsm, khs_ipsm_paths, collided, khms_states,
                    state_ids, was_fuzzed_map, fuzzed_map_states, fuzzed_map_qentries>>
    BY DEF entries, statevars, fuzzedmap
  <1>2. queue' \in Seq(Entries)
    BY <1>1 DEF EntryTypes
  <1>3. Tables'
    BY <1>1, <1>2, KeptStep
  <1> QED
    BY <1>1, <1>3 DEF TypeOK, TableTypes, Seeds, PendingExact

\* EnterLoop: there are states to choose from.
LEMMA EnterLoopKeeps == IInv /\ EnterLoop => IInv'
  <1> SUFFICES ASSUME IInv, EnterLoop PROVE IInv'
    OBVIOUS
  <1>1. TypeOK /\ Tables /\ EntryTypes /\ Phase /\ PendingExact
    BY Parts DEF IInv
  <1>2. /\ pc = "dry_run" /\ pc' \in {"no_states", "state"}
        /\ state_ids = <<>> => pc' = "no_states"
        /\ UNCHANGED <<dry, entries, statevars, fuzzedmap, selection>>
    BY DEF EnterLoop
  <1>3. UNCHANGED <<dry, queue, pending_not_fuzzed, ipsm, khs_ipsm_paths, collided, khms_states,
                    state_ids, target_state_id, selected_state_index, state_cycles, queue_cur>>
    BY <1>2 DEF entries, statevars, selection
  <1>4. IndexesPoint'
    BY <1>1, <1>3 DEF Tables, IndexesPoint
  <1>5. TableTypes' /\ Tables' /\ PendingExact'
    BY <1>1, <1>2, <1>4, PlainStep
  <1>6. EntryTypes' /\ Phase'
    BY <1>1, <1>2, <1>3 DEF EntryTypes, Phase, Places, InLoop
  <1> QED
    BY <1>5, <1>6, PartsAfter

\* An index moved to the next element of a list points into the list.
LEMMA NextPoints ==
  ASSUME NEW count \in Nat, NEW i \in 0 .. count - 1
  PROVE  NextIndex(i, count) \in 0 .. count - 1
  BY DEF NextIndex

\* choose_target_state: the target is a state, and the index stays in the list.
LEMMA ChooseTargetKeeps == IInv /\ choose_target_state => IInv'
  <1> SUFFICES ASSUME IInv, choose_target_state PROVE IInv'
    OBVIOUS
  <1>1. TypeOK /\ Tables /\ EntryTypes /\ Phase /\ PendingExact
    BY Parts DEF IInv
  <1>2. /\ pc = "state" /\ pc' = "seed"
        /\ UNCHANGED <<dry, entries, statevars, fuzzedmap, queue_cur>>
    BY DEF choose_target_state
  <1>3. UNCHANGED <<queue, pending_not_fuzzed, ipsm, khs_ipsm_paths, collided, khms_states,
                    state_ids>>
    BY <1>2 DEF entries, statevars
  <1>4. /\ state_ids \in Seq(AllStates) /\ state_ids # <<>> /\ Len(state_ids) \in Nat
        /\ DOMAIN state_ids = 1 .. Len(state_ids)
        /\ selected_state_index \in 0 .. Len(state_ids) - 1
    <2>1. state_ids \in Seq(AllStates) /\ state_ids # <<>> /\ selected_state_index \in Nat
      BY <1>1, <1>2 DEF TypeOK, Phase, InLoop
    <2>2. selected_state_index < Len(state_ids)
      BY <1>1, <2>1 DEF Tables, IndexesPoint
    <2> QED
      BY <2>1, <2>2
  <1>5. /\ \E i \in DOMAIN state_ids : target_state_id' = state_ids[i]
        /\ selected_state_index' \in 0 .. Len(state_ids) - 1
        /\ state_cycles' \in 0 .. 1
    <2>1. CASE ChooseInTurn
      <3>1. selected_state_index + 1 \in DOMAIN state_ids
        BY <1>4
      <3>2. selected_state_index' \in 0 .. Len(state_ids) - 1
        BY <1>4, <2>1, NextPoints DEF ChooseInTurn
      <3>3. state_cycles' \in 0 .. 1
        <4>1. state_cycles \in 0 .. 1 /\ (StateAlgo = "FAVOR" => state_cycles < 1)
          BY <1>1, <2>1 DEF EntryTypes, ChooseInTurn, RoundRobin
        <4>2. state_cycles' = state_cycles
              \/ (StateAlgo = "FAVOR" /\ state_cycles' = state_cycles + 1)
          BY <2>1 DEF ChooseInTurn
        <4> QED
          BY <4>1, <4>2
      <3> QED
        BY <2>1, <3>1, <3>2, <3>3 DEF ChooseInTurn
    <2>2. CASE ChooseByDraw
      <3>1. PICK i \in DOMAIN state_ids :
              /\ target_state_id' = state_ids[i]
              /\ selected_state_index' = IF StateAlgo = "FAVOR"
                                         THEN selected_state_index ELSE i - 1
        BY <2>2 DEF ChooseByDraw
      <3>2. selected_state_index' \in 0 .. Len(state_ids) - 1
        BY <1>4, <3>1
      <3>3. state_cycles' \in 0 .. 1
        BY <1>1, <2>2 DEF ChooseByDraw, EntryTypes
      <3> QED
        BY <3>1, <3>2, <3>3
    <2> QED
      BY <2>1, <2>2 DEF choose_target_state
  <1>6. target_state_id' \in Elements(state_ids) /\ target_state_id' \in AllStates
    BY <1>4, <1>5 DEF Elements
  <1>7. target_state_id' \in DOMAIN khms_states
    BY <1>1, <1>6 DEF Tables, StatesKnown
  <1>8. IndexesPoint'
    <2>1. selected_state_index' < Len(state_ids)
      BY <1>4, <1>5
    <2> QED
      BY <1>1, <1>3, <2>1 DEF Tables, IndexesPoint
  <1>9. TableTypes' /\ Tables' /\ PendingExact'
    BY <1>1, <1>2, <1>8, PlainStep
  <1>10. EntryTypes'
    BY <1>1, <1>2, <1>3, <1>4, <1>5, <1>6 DEF EntryTypes, Places
  <1>11. Phase'
    BY <1>1, <1>2, <1>3, <1>4, <1>7 DEF Phase, InLoop
  <1> QED
    BY <1>9, <1>10, <1>11, PartsAfter

\* choose_seed: the seed is an entry with messages that was run.
LEMMA ChooseSeedKeeps == IInv /\ choose_seed => IInv'
  <1> SUFFICES ASSUME IInv, choose_seed PROVE IInv'
    OBVIOUS
  <1>1. TypeOK /\ Tables /\ EntryTypes /\ Phase /\ PendingExact
    BY Parts DEF IInv
  <1> DEFINE t == target_state_id
             seeds == khms_states[t].seeds
             count == Len(seeds)
  <1>2. /\ pc = "seed"
        /\ UNCHANGED <<dry, entries, ipsm, khs_ipsm_paths, collided, state_ids, fuzzedmap, t,
                       selected_state_index, state_cycles>>
        /\ \/ pc' = "state" /\ UNCHANGED <<khms_states, queue_cur>>
           \/ \E i \in 0 .. count - 1 :
                /\ khms_states' = [khms_states EXCEPT
                     ![t].selected_seed_index = IF SeedAlgo = "RANDOM_SELECTION" THEN i
                                                ELSE NextIndex(i, count)]
                /\ IF queue[seeds[i + 1] + 1].regions = <<>>
                   THEN pc' = "state" /\ UNCHANGED queue_cur
                   ELSE pc' = "split" /\ queue_cur' = seeds[i + 1]
    BY DEF choose_seed
  <1>3. UNCHANGED <<queue, pending_not_fuzzed, was_fuzzed_map, fuzzed_map_states,
                    fuzzed_map_qentries>>
    BY <1>2 DEF entries, fuzzedmap
  <1>4. /\ t \in DOMAIN khms_states /\ khms_states[t] \in Seeds
        /\ seeds \in Seq(Nat) /\ count \in Nat /\ DOMAIN seeds = 1 .. count
        /\ state_ids # <<>> /\ t \in AllStates
    <2>1. t \in DOMAIN khms_states /\ khms_states[t] \in Seeds /\ state_ids # <<>>
          /\ t \in AllStates
      BY <1>1, <1>2 DEF Phase, InLoop, TypeOK, Seeds
    <2>2. seeds \in Seq(Nat)
      BY <2>1 DEF Seeds
    <2> QED
      BY <2>1, <2>2
  <1> HIDE DEF seeds
  <1>5. /\ DOMAIN khms_states' = DOMAIN khms_states
        /\ \A s \in DOMAIN khms_states :
             /\ khms_states'[s].seeds = khms_states[s].seeds
             /\ khms_states'[s] \in Seeds
             /\ \/ khms_states'[s].seeds = <<>> /\ khms_states'[s].selected_seed_index = 0
                \/ khms_states'[s].selected_seed_index < Len(khms_states'[s].seeds)
    <2>1. \A s \in DOMAIN khms_states :
            /\ khms_states[s] \in Seeds
            /\ \/ khms_states[s].seeds = <<>> /\ khms_states[s].selected_seed_index = 0
               \/ khms_states[s].selected_seed_index < Len(khms_states[s].seeds)
      BY <1>1 DEF Tables, IndexesPoint, TypeOK, Seeds
    <2>2. ASSUME NEW i \in 0 .. count - 1, NEW j,
                 j = IF SeedAlgo = "RANDOM_SELECTION" THEN i ELSE NextIndex(i, count),
                 khms_states' = [khms_states EXCEPT ![t].selected_seed_index = j],
                 NEW s \in DOMAIN khms_states
          PROVE  /\ khms_states'[s].seeds = khms_states[s].seeds
                 /\ khms_states'[s] \in Seeds
                 /\ \/ khms_states'[s].seeds = <<>> /\ khms_states'[s].selected_seed_index = 0
                    \/ khms_states'[s].selected_seed_index < Len(khms_states'[s].seeds)
      <3>1. j \in 0 .. count - 1
        BY <1>4, <2>2, NextPoints
      <3>2. j \in Nat /\ j < count
        BY <1>4, <3>1
      <3>3. CASE s = t
        <4>1. khms_states'[s] = [khms_states[s] EXCEPT !.selected_seed_index = j]
          BY <1>4, <2>2, <3>3
        <4>2. /\ khms_states'[s] \in Seeds /\ khms_states'[s].seeds = khms_states[s].seeds
              /\ khms_states'[s].selected_seed_index = j
          BY <2>1, <3>2, <4>1 DEF Seeds
        <4> QED
          BY <3>2, <3>3, <4>2 DEF seeds
      <3>4. CASE s # t
        <4>1. khms_states'[s] = khms_states[s]
          BY <1>4, <2>2, <3>4
        <4> QED
          BY <2>1, <4>1
      <3> QED
        BY <3>3, <3>4
    <2>3. CASE UNCHANGED khms_states
      BY <2>1, <2>3
    <2>4. CASE \E i \in 0 .. count - 1 :
                 khms_states' = [khms_states EXCEPT ![t].selected_seed_index =
                   IF SeedAlgo = "RANDOM_SELECTION" THEN i ELSE NextIndex(i, count)]
      <3>1. DOMAIN khms_states' = DOMAIN khms_states
        BY <2>4
      <3> QED
        BY <2>2, <2>4, <3>1
    <2> QED
      BY <1>2, <2>3, <2>4
  <1>6. IndexesPoint'
    BY <1>1, <1>2, <1>5 DEF Tables, IndexesPoint
  <1>7. pc' \in {"state", "split"}
    BY <1>2
  <1>8. Tables'
    <2>1. queue' \in Seq(Entries)
      BY <1>1, <1>3 DEF EntryTypes
    <2> QED
      BY <1>1, <1>2, <1>3, <1>5, <1>6, <1>7, <2>1, KeptStep
  <1>9. TableTypes' /\ PendingExact'
    BY <1>1, <1>2, <1>3, <1>5 DEF TypeOK, TableTypes, PendingExact
  <1>10. \/ UNCHANGED queue_cur /\ pc' = "state"
         \/ /\ pc' = "split" /\ queue_cur' \in Elements(khms_states[t].seeds)
            /\ queue_cur' \in Nat
            /\ queue_cur' + 1 \in DOMAIN queue /\ queue[queue_cur' + 1].regions # <<>>
    <2>1. ASSUME NEW i \in 0 .. count - 1, queue_cur' = seeds[i + 1],
                 queue[seeds[i + 1] + 1].regions # <<>>
          PROVE  /\ queue_cur' \in Elements(khms_states[t].seeds)
                 /\ queue_cur' \in Nat
                 /\ queue_cur' + 1 \in DOMAIN queue /\ queue[queue_cur' + 1].regions # <<>>
      <3>1. i + 1 \in DOMAIN seeds
        BY <1>4
      <3>2. queue_cur' \in Elements(khms_states[t].seeds) /\ queue_cur' \in Nat
        BY <1>4, <2>1, <3>1 DEF Elements, seeds
      <3>3. queue_cur' + 1 \in DOMAIN queue
        BY <1>1, <1>4, <3>2 DEF Tables, SeedsKnown
      <3> QED
        BY <2>1, <3>2, <3>3
    <2> QED
      BY <1>2, <2>1
  <1>11. EntryTypes'
    BY <1>1, <1>2, <1>3, <1>7, <1>10 DEF EntryTypes, Places
  <1>12. Phase'
    <2>1. Elements(khms_states'[t].seeds) = Elements(khms_states[t].seeds)
      BY <1>4, <1>5
    <2> QED
      BY <1>1, <1>2, <1>3, <1>4, <1>5, <1>10, <2>1 DEF Phase, InLoop
  <1> QED
    BY <1>8, <1>9, <1>11, <1>12, PartsAfter

\* fuzz_one: an entry that goes on to be mutated was not skipped.
LEMMA FuzzOneKeeps == IInv /\ fuzz_one => IInv'
  <1> SUFFICES ASSUME IInv, fuzz_one PROVE IInv'
    OBVIOUS
  <1>1. TypeOK /\ Tables /\ EntryTypes /\ Phase /\ PendingExact
    BY Parts DEF IInv
  <1>2. /\ pc = "split" /\ pc' \in {"skipped", "fuzz"}
        /\ pc' = "fuzz" => ~Skipped(queue[queue_cur + 1].regions, target_state_id)
        /\ UNCHANGED <<dry, entries, statevars, fuzzedmap, selection>>
    BY DEF fuzz_one
  <1>3. UNCHANGED <<queue, pending_not_fuzzed, ipsm, khs_ipsm_paths, collided, khms_states,
                    state_ids, target_state_id, selected_state_index, state_cycles, queue_cur>>
    BY <1>2 DEF entries, statevars, selection
  <1>4. IndexesPoint'
    BY <1>1, <1>3 DEF Tables, IndexesPoint
  <1>5. TableTypes' /\ Tables' /\ PendingExact'
    BY <1>1, <1>2, <1>4, PlainStep
  <1>6. EntryTypes' /\ Phase'
    BY <1>1, <1>2, <1>3 DEF EntryTypes, Phase, Places, InLoop
  <1> QED
    BY <1>5, <1>6, PartsAfter

\* NextRound and Stop: nothing but the place changes.
LEMMA NextRoundKeeps == IInv /\ NextRound => IInv'
  <1> SUFFICES ASSUME IInv, NextRound PROVE IInv'
    OBVIOUS
  <1>1. TypeOK /\ Tables /\ EntryTypes /\ Phase /\ PendingExact
    BY Parts DEF IInv
  <1>2. /\ pc \in {"fuzzed", "skipped"} /\ pc' = "state"
        /\ UNCHANGED <<dry, entries, statevars, fuzzedmap, selection>>
    BY DEF NextRound
  <1>3. UNCHANGED <<queue, pending_not_fuzzed, ipsm, khs_ipsm_paths, collided, khms_states,
                    state_ids, target_state_id, selected_state_index, state_cycles, queue_cur>>
    BY <1>2 DEF entries, statevars, selection
  <1>4. IndexesPoint'
    BY <1>1, <1>3 DEF Tables, IndexesPoint
  <1>5. TableTypes' /\ Tables' /\ PendingExact'
    BY <1>1, <1>2, <1>4, PlainStep
  <1>6. EntryTypes' /\ Phase'
    BY <1>1, <1>2, <1>3 DEF EntryTypes, Phase, Places, InLoop
  <1> QED
    BY <1>5, <1>6, PartsAfter

\* Stop leaves everything as it is.
LEMMA StopKeeps == IInv /\ Stop => IInv'
  <1> SUFFICES ASSUME IInv, Stop PROVE IInv'
    OBVIOUS
  <1>1. TypeOK /\ Tables /\ EntryTypes /\ Phase /\ PendingExact
    BY Parts DEF IInv
  <1>2. /\ pc \in {"dry_run", "fuzz", "fuzzed", "skipped"} /\ pc' = "stopped"
        /\ UNCHANGED <<dry, entries, statevars, fuzzedmap, selection>>
    BY DEF Stop
  <1>3. UNCHANGED <<queue, pending_not_fuzzed, ipsm, khs_ipsm_paths, collided, khms_states,
                    state_ids, target_state_id, selected_state_index, state_cycles, queue_cur>>
    BY <1>2 DEF entries, statevars, selection
  <1>4. IndexesPoint'
    BY <1>1, <1>3 DEF Tables, IndexesPoint
  <1>5. TableTypes' /\ Tables' /\ PendingExact'
    BY <1>1, <1>2, <1>4, PlainStep
  <1>6. EntryTypes' /\ Phase'
    BY <1>1, <1>2, <1>3 DEF EntryTypes, Phase, Places, InLoop
  <1> QED
    BY <1>5, <1>6, PartsAfter

\* save_if_interesting: a new entry, with or without an answer of the server.
LEMMA SaveKeeps == IInv /\ save_if_interesting => IInv'
  <1> SUFFICES ASSUME IInv, save_if_interesting PROVE IInv'
    OBVIOUS
  <1>1. TypeOK /\ Tables /\ EntryTypes /\ Phase /\ PendingExact
    BY Parts DEF IInv
  <1> DEFINE k == Len(queue)
  <1>2. /\ pc = "fuzz" /\ pending_not_fuzzed' = pending_not_fuzzed + 1
        /\ UNCHANGED <<dry, target_state_id, selected_state_index, state_cycles, queue_cur>>
    BY DEF save_if_interesting, selection
  <1>3. PICK failed \in BOOLEAN :
          \/ \E n \in 0 .. MaxMsgs :
               /\ queue' = Append(queue, Entry([i \in 1 .. n |-> NoAnnotation], failed))
               /\ no_answer(RowsForEntry, 1, "fuzz")
          \/ \E n \in 1 .. MaxMsgs : \E o \in Outcomes(n) :
               /\ queue' = Append(queue, Entry(o.regions, failed))
               /\ update_state_aware_variables(k, o, RowsForEntry, 1, "fuzz")
    BY DEF save_if_interesting
  <1>4. /\ queue \in Seq(Entries) /\ k \in Nat /\ DOMAIN queue = 1 .. k
        /\ k >= InitialSeeds /\ queue # <<>> /\ state_ids # <<>>
        /\ state_ids \in Seq(AllStates) /\ queue_cur + 1 \in DOMAIN queue
        /\ queue[queue_cur + 1].regions # <<>> /\ target_state_id \in DOMAIN khms_states
        /\ ~Skipped(queue[queue_cur + 1].regions, target_state_id)
        /\ ~collided => queue_cur \in Elements(khms_states[target_state_id].seeds)
    BY <1>1, <1>2 DEF EntryTypes, Phase, InLoop, TypeOK
  <1>5. RowsForEntry = 0
    <2>1. fuzzed_map_states = Len(state_ids)
      BY <1>1, <1>4 DEF Tables, TableCovers
    <2>2. Len(state_ids) # 0
      BY <1>4
    <2> QED
      BY <2>1, <2>2 DEF RowsForEntry
  <1>6. ASSUME NEW e \in Entries, e.was_fuzzed = FALSE, queue' = Append(queue, e)
        PROVE  /\ PendingExact' /\ pending_not_fuzzed' \in Nat /\ queue' \in Seq(Entries)
               /\ Len(queue') = k + 1 /\ DOMAIN queue' = 1 .. k + 1 /\ queue'[k + 1] = e
               /\ \A m \in DOMAIN queue : queue'[m] = queue[m]
    <2>1. PendingExact' /\ pending_not_fuzzed' \in Nat /\ queue' \in Seq(Entries)
      BY <1>1, <1>2, <1>4, <1>6, PendingMore
    <2>2. /\ Len(queue') = k + 1 /\ DOMAIN queue' = 1 .. k + 1 /\ queue'[k + 1] = e
          /\ \A m \in DOMAIN queue : queue'[m] = queue[m]
      BY <1>4, <1>6
    <2> QED
      BY <2>1, <2>2
  <1>7. ASSUME NEW e \in Entries, e.was_fuzzed = FALSE, queue' = Append(queue, e),
               TableTypes', Tables', pc' \in {"fuzz", "no_initial_state"},
               pc' = "fuzz" =>
                 /\ state_ids' # <<>> /\ DOMAIN khms_states \subseteq DOMAIN khms_states'
                 /\ ~collided' => /\ ~collided
                                  /\ \A s \in DOMAIN khms_states :
                                       Elements(khms_states[s].seeds)
                                         \subseteq Elements(khms_states'[s].seeds)
        PROVE  IInv'
    <2>1. /\ PendingExact' /\ pending_not_fuzzed' \in Nat /\ queue' \in Seq(Entries)
          /\ Len(queue') = k + 1 /\ DOMAIN queue' = 1 .. k + 1
          /\ \A m \in DOMAIN queue : queue'[m] = queue[m]
      BY <1>6, <1>7
    <2>2. EntryTypes'
      BY <1>1, <1>2, <1>7, <2>1 DEF EntryTypes, Places
    <2>3. /\ queue_cur' + 1 \in DOMAIN queue' /\ queue'[queue_cur' + 1] = queue[queue_cur + 1]
          /\ Len(queue') >= InitialSeeds
      BY <1>2, <1>4, <2>1, StateAwareConstants
    <2>4. Phase'
      BY <1>2, <1>4, <1>7, <2>3 DEF Phase, InLoop
    <2> QED
      BY <1>7, <2>1, <2>2, <2>4, PartsAfter
  <1>8. ASSUME NEW n \in 0 .. MaxMsgs,
               queue' = Append(queue, Entry([i \in 1 .. n |-> NoAnnotation], failed)),
               no_answer(RowsForEntry, 1, "fuzz")
        PROVE  IInv'
    <2>1. PICK e : e = Entry([i \in 1 .. n |-> NoAnnotation], failed)
      OBVIOUS
    <2>2. n \in Nat
      BY StateAwareConstants
    <2>3. /\ e \in Entries /\ e.was_fuzzed = FALSE
          /\ \A r \in Elements(e.regions) : ~(r.count > 0)
      BY <2>1, <2>2, SilentRegions
    <2>4. queue' = Append(queue, e)
      BY <1>8, <2>1
    <2>5. TableTypes' /\ Tables' /\ pc' = "fuzz"
      BY <1>1, <1>2, <1>4, <1>8, <2>3, <2>4, SilentEntry
    <2>6. UNCHANGED <<collided, khms_states, state_ids>>
      BY <1>8 DEF no_answer, statevars
    <2> QED
      BY <1>4, <1>7, <2>3, <2>4, <2>5, <2>6
  <1>9. ASSUME NEW n \in 1 .. MaxMsgs, NEW o \in Outcomes(n),
               queue' = Append(queue, Entry(o.regions, failed)),
               update_state_aware_variables(k, o, RowsForEntry, 1, "fuzz")
        PROVE  IInv'
    <2>1. n \in Nat /\ Outcome(o, n)
      BY StateAwareConstants, OutcomeFacts
    <2>2. o.regions \in Seq(Annotations)
      BY <2>1 DEF Outcome
    <2>3. PICK e : e = Entry(o.regions, failed)
      OBVIOUS
    <2>4. e \in Entries /\ e.was_fuzzed = FALSE /\ e.regions = o.regions
      <3>1. e = [regions |-> o.regions, was_fuzzed |-> FALSE, cal_failed |-> failed]
        BY <2>3 DEF Entry
      <3>2. [regions |-> o.regions, was_fuzzed |-> FALSE, cal_failed |-> failed] \in Entries
        BY <2>2 DEF Entries
      <3>3. /\ [regions |-> o.regions, was_fuzzed |-> FALSE,
                cal_failed |-> failed].regions = o.regions
            /\ [regions |-> o.regions, was_fuzzed |-> FALSE,
                cal_failed |-> failed].was_fuzzed = FALSE
        OBVIOUS
      <3> QED
        BY <3>1, <3>2, <3>3, Zenon
    <2>5. queue' = Append(queue, e)
      BY <1>9, <2>3
    <2>6. /\ queue' \in Seq(Entries) /\ Len(queue') = k + 1 /\ DOMAIN queue' = 1 .. k + 1
          /\ queue'[k + 1].regions = o.regions
          /\ \A m \in DOMAIN queue : queue'[m] = queue[m]
      BY <1>6, <2>4, <2>5
    <2>7. update_state_aware_variables(k, o, 0, 1, "fuzz")
      BY <1>5, <1>9
    <2>8. /\ TableTypes' /\ Tables' /\ pc' \in {"fuzz", "no_initial_state"}
          /\ pc' = "fuzz" =>
                 /\ state_ids' # <<>> /\ DOMAIN khms_states \subseteq DOMAIN khms_states'
                 /\ ~collided' => /\ ~collided
                                  /\ \A s \in DOMAIN khms_states :
                                       Elements(khms_states[s].seeds)
                                         \subseteq Elements(khms_states'[s].seeds)
      <3>1. pc' \in {"fuzz", "no_initial_state"}
        BY <2>7 DEF update_state_aware_variables
      <3>2. k + 1 \in DOMAIN queue' /\ k + 1 \notin DOMAIN queue
        BY <1>4, <2>6
      <3>3. \A s \in DOMAIN khms_states : k \notin Elements(khms_states[s].seeds)
        BY <1>1, <3>2 DEF Tables, SeedsKnown
      <3>4. \A s : EndsIn(queue'[k + 1].regions, s) <=> s \in Elements(Reached(o.regions))
        BY <2>2, <2>6, ReachedEnds
      <3>5. \A m \in DOMAIN queue' : m # k + 1 => m \in DOMAIN queue
        BY <1>4, <2>6
      <3>6. Runs(k, o, 1)
        BY <1>2, <1>4, <2>6, <3>1, <3>2, <3>3, <3>4, <3>5 DEF Runs
      <3> HIDE DEF k
      <3> QED
        BY <1>1, <1>4, <2>1, <2>7, <3>1, <3>6, AnsweredStep
    <2> QED
      BY <1>7, <2>4, <2>5, <2>8
  <1> QED
    BY <1>3, <1>8, <1>9

\* abandon_entry: the first time, the entry is marked for the target state, whose
\* seed it is; the cell is in the table.
LEMMA AbandonKeeps == IInv /\ abandon_entry => IInv'
  <1> SUFFICES ASSUME IInv, abandon_entry PROVE IInv'
    OBVIOUS
  <1>1. TypeOK /\ Tables /\ EntryTypes /\ Phase /\ PendingExact
    BY Parts DEF IInv
  <1> DEFINE t == target_state_id
             row == get_state_index(state_ids, t)
             cell == <<row, queue_cur>>
  <1>2. /\ pc = "fuzz" /\ pc' = "fuzzed"
        /\ UNCHANGED <<dry, statevars, fuzzed_map_states, fuzzed_map_qentries, selection>>
        /\ IF FirstFuzz
           THEN /\ queue' = [queue EXCEPT ![queue_cur + 1].was_fuzzed = TRUE]
                /\ was_fuzzed_map' = [was_fuzzed_map EXCEPT ![cell] = 1]
                /\ pending_not_fuzzed' = pending_not_fuzzed - 1
           ELSE UNCHANGED <<queue, was_fuzzed_map, pending_not_fuzzed>>
    BY DEF abandon_entry
  <1>3. UNCHANGED <<ipsm, khs_ipsm_paths, collided, khms_states, state_ids, t,
                    selected_state_index, state_cycles, queue_cur>>
    BY <1>2 DEF statevars, selection
  <1>4. /\ queue \in Seq(Entries) /\ DOMAIN queue = 1 .. Len(queue) /\ Len(queue) \in Nat
        /\ queue_cur + 1 \in DOMAIN queue /\ queue_cur \in Nat /\ queue # <<>>
        /\ state_ids \in Seq(AllStates) /\ state_ids # <<>> /\ t \in Elements(state_ids)
        /\ ~collided => queue_cur \in Elements(khms_states[t].seeds)
        /\ Len(queue) >= InitialSeeds
    <2>1. /\ queue \in Seq(Entries) /\ state_ids \in Seq(AllStates)
          /\ queue_cur \in Nat \cup {-1} /\ queue_cur + 1 \in DOMAIN queue
      BY <1>1, <1>2 DEF EntryTypes, Phase, TypeOK
    <2>2. /\ state_ids # <<>> /\ t \in DOMAIN khms_states /\ Len(queue) >= InitialSeeds
          /\ ~collided => queue_cur \in Elements(khms_states[t].seeds)
      BY <1>1, <1>2 DEF Phase, InLoop
    <2>3. t \in Elements(state_ids)
      BY <1>1, <2>2 DEF Tables, StatesKnown
    <2> QED
      BY <2>1, <2>2, <2>3
  <1>5. row \in 0 .. Len(state_ids) - 1 /\ state_ids[row + 1] = t
    BY <1>4, StateIndex
  <1>6. cell \in DOMAIN was_fuzzed_map
    <2>1. fuzzed_map_states = Len(state_ids) /\ fuzzed_map_qentries = Len(queue)
      BY <1>1, <1>4 DEF Tables, TableCovers
    <2>2. DOMAIN was_fuzzed_map = (0 .. Len(state_ids) - 1) \X (0 .. Len(queue) - 1)
      BY <1>1, <2>1 DEF TypeOK
    <2>3. queue_cur \in 0 .. Len(queue) - 1
      BY <1>4
    <2> QED
      BY <1>5, <2>2, <2>3
  <1>7. ~collided => was_fuzzed_map[cell] # -1
    <2> SUFFICES ASSUME ~collided PROVE was_fuzzed_map[cell] # -1
      OBVIOUS
    <2>1. row + 1 \in DOMAIN state_ids /\ (row + 1) - 1 = row /\ queue_cur \in 0 .. Len(queue) - 1
      BY <1>4, <1>5
    <2>2. queue_cur \in Elements(khms_states[state_ids[row + 1]].seeds)
      BY <1>4, <1>5
    <2>3. was_fuzzed_map[<<(row + 1) - 1, queue_cur>>] # -1
      BY <1>1, <2>1, <2>2 DEF Tables, SeedsMarked
    <2> QED
      BY <2>1, <2>3
  <1> HIDE DEF row, cell
  <1>8. /\ queue' \in Seq(Entries) /\ Len(queue') = Len(queue)
        /\ PendingExact' /\ pending_not_fuzzed' \in Nat
        /\ \A m \in DOMAIN queue : queue'[m].regions = queue[m].regions
    <2>1. CASE FirstFuzz
      <3>1. ~queue[queue_cur + 1].was_fuzzed
        BY <2>1 DEF FirstFuzz
      <3> QED
        BY <1>1, <1>2, <1>4, <2>1, <3>1, PendingLess
    <2>2. CASE ~FirstFuzz
      <3>1. UNCHANGED <<queue, pending_not_fuzzed>>
        BY <1>2, <2>2
      <3> QED
        BY <1>1, <1>4, <3>1 DEF PendingExact, EntryTypes
    <2> QED
      BY <2>1, <2>2
  <1>9. /\ DOMAIN was_fuzzed_map' = DOMAIN was_fuzzed_map
        /\ was_fuzzed_map' \in [DOMAIN was_fuzzed_map -> {-1, 0, 1}]
        /\ ~collided => \A c \in DOMAIN was_fuzzed_map :
                          was_fuzzed_map'[c] = -1 <=> was_fuzzed_map[c] = -1
    <2>1. was_fuzzed_map \in [DOMAIN was_fuzzed_map -> {-1, 0, 1}]
      BY <1>1 DEF TypeOK
    <2>2. CASE FirstFuzz
      <3>1. was_fuzzed_map' = [was_fuzzed_map EXCEPT ![cell] = 1]
        BY <1>2, <2>2
      <3>2. \A c \in DOMAIN was_fuzzed_map :
              was_fuzzed_map'[c] = IF c = cell THEN 1 ELSE was_fuzzed_map[c]
        BY <2>1, <3>1
      <3>3. /\ DOMAIN was_fuzzed_map' = DOMAIN was_fuzzed_map
            /\ was_fuzzed_map' \in [DOMAIN was_fuzzed_map -> {-1, 0, 1}]
        BY <2>1, <3>1
      <3> QED
        BY <1>7, <3>2, <3>3
    <2>3. CASE ~FirstFuzz
      BY <1>2, <2>1, <2>3
    <2> QED
      BY <2>2, <2>3
  <1>10. IndexesPoint'
    BY <1>1, <1>3 DEF Tables, IndexesPoint
  <1>11. Tables'
    <2>1. UNCHANGED <<fuzzed_map_states, fuzzed_map_qentries>>
      BY <1>2
    <2> QED
      BY <1>1, <1>2, <1>3, <1>4, <1>8, <1>9, <1>10, <2>1, KeptStep
  <1>12. TableTypes'
    <2>1. was_fuzzed_map' \in [(0 .. fuzzed_map_states' - 1)
                                 \X (0 .. fuzzed_map_qentries' - 1) -> {-1, 0, 1}]
      BY <1>1, <1>2, <1>9 DEF TypeOK
    <2> QED
      BY <1>1, <1>2, <1>3, <2>1 DEF TypeOK, TableTypes, Seeds
  <1>13. EntryTypes'
    BY <1>1, <1>2, <1>3, <1>8 DEF EntryTypes, Places
  <1>14. Phase'
    BY <1>1, <1>2, <1>3, <1>4, <1>8 DEF Phase, InLoop
  <1> QED
    BY <1>8, <1>11, <1>12, <1>13, <1>14, PartsAfter

(***************************************************************************)
(* The theorems.                                                           *)
(***************************************************************************)

\* A step that changes nothing.
LEMMA StutterKeeps == IInv /\ UNCHANGED vars => IInv'
  BY DEF vars, entries, statevars, fuzzedmap, selection, IInv, TypeOK, Phase, StatesKnown,
         SeedsKnown, TableCovers, IndexesPoint, PendingExact, StatesAgree, SeedsMarked

\* Lists, table, marks and counters stay consistent through dry run, selection and
\* the discovery of states, for any number of states, seeds and messages.
THEOREM Consistent == Spec => []IInv
  <1>1. IInv /\ [Next]_vars => IInv'
    BY ReadTestcaseKeeps, DryRunKeeps, EnterLoopKeeps, ChooseTargetKeeps, ChooseSeedKeeps,
       FuzzOneKeeps, AbandonKeeps, NextRoundKeeps, SaveKeeps, StopKeeps, StutterKeeps
       DEF Next, MainLoop
  <1> QED
    BY InitKeeps, <1>1, PTL DEF Spec

\* Entries, states, indexes and cells keep to their ranges.
THEOREM TypeCorrect == Spec => []TypeOK
  <1>1. IInv => TypeOK
    BY DEF IInv
  <1> QED
    BY Consistent, <1>1, PTL

\* No access to the table leaves it.
THEOREM TableLargeEnough == Spec => []TableCovers
  <1>1. IInv => TableCovers
    BY DEF IInv
  <1> QED
    BY Consistent, <1>1, PTL

\* The indexes of the next state and of each state's next seed point into their lists.
THEOREM IndexesStay == Spec => []IndexesPoint
  <1>1. IInv => IndexesPoint
    BY DEF IInv
  <1> QED
    BY Consistent, <1>1, PTL

\* Row 0 of the table belongs to the initial state.
THEOREM RowOfInitialState == Spec => []InitialStateFirst
  <1>1. IInv => InitialStateFirst
    BY DEF IInv, StatesKnown, InitialStateFirst
  <1> QED
    BY Consistent, <1>1, PTL

\* Graph, hashtable and list hold the same states unless a collision hid one.
THEOREM ListsAgree == Spec => []StatesAgree
  <1>1. IInv => StatesAgree
    BY DEF IInv
  <1> QED
    BY Consistent, <1>1, PTL

\* The marks of the table say which entries are seeds of which states.
THEOREM MarksCorrect == Spec => []SeedsMarked
  <1>1. IInv => SeedsMarked
    BY DEF IInv
  <1> QED
    BY Consistent, <1>1, PTL

\* pending_not_fuzzed is the number of entries not fuzzed.
THEOREM PendingCorrect == Spec => []PendingExact
  <1>1. IInv => PendingExact
    BY DEF IInv
  <1> QED
    BY Consistent, <1>1, PTL

\* If an annotation ends in s, the message behind which a seed is split is the
\* first that does.
LEMMA SplitPosition ==
  ASSUME NEW regions \in Seq(Annotations), NEW s \in AllStates, s # 0,
         \A x \in AllStates : x % Word = x, EndsIn(regions, s)
  PROVE  /\ M2_start_region_ID(regions, s) \in DOMAIN regions
         /\ regions[M2_start_region_ID(regions, s)].last = s
  <1> DEFINE R == Reaching(regions, s)
             first == CHOOSE i \in DOMAIN regions : IsFirst(i, R)
  <1>1. DOMAIN regions = 1 .. Len(regions) /\ Len(regions) \in Nat
        /\ \A i \in DOMAIN regions : regions[i].last \in AllStates
    <2>1. \A i \in DOMAIN regions : regions[i] \in Annotations
      OBVIOUS
    <2> QED
      BY <2>1 DEF Annotations
  <1>2. R # {} /\ R \in SUBSET DOMAIN regions /\ \A i \in R : regions[i].last = s
    BY <1>1 DEF EndsIn, Elements, Reaching
  <1>3. IsFiniteSet(DOMAIN regions)
    BY <1>1, FS_Interval
  <1> HIDE DEF R
  <1>4. IsFiniteSet(R) /\ R \in SUBSET Nat
    BY <1>1, <1>2, <1>3, FS_Subset
  <1>5. \E i \in DOMAIN regions : IsFirst(i, R)
    BY <1>2, <1>4, LeastOf DEF IsFirst
  <1>6. first \in DOMAIN regions /\ first \in R
    BY <1>5 DEF IsFirst
  <1>7. M2_start_region_ID(regions, s) = first
    BY <1>5 DEF M2_start_region_ID, R
  <1> HIDE DEF first
  <1> QED
    BY <1>2, <1>6, <1>7

\* Something is left to be mutated in a seed that is not skipped.
LEMMA SomethingLeft ==
  ASSUME NEW regions \in Seq(Annotations), NEW s, regions # <<>>, ~Skipped(regions, s)
  PROVE  M2(regions, s) # {}
  <1> DEFINE m == M2_start_region_ID(regions, s)
  <1>1. Len(regions) \in Nat /\ DOMAIN regions = 1 .. Len(regions) /\ Len(regions) # 0
    OBVIOUS
  <1>2. m \in 0 .. Len(regions)
    <2> DEFINE first == CHOOSE i \in DOMAIN regions : IsFirst(i, Reaching(regions, s))
    <2>1. CASE s = 0
      BY <1>1, <2>1 DEF M2_start_region_ID
    <2>2. CASE s # 0 /\ \E i \in DOMAIN regions : IsFirst(i, Reaching(regions, s))
      <3>1. first \in DOMAIN regions
        BY <2>2
      <3>2. m = first
        BY <2>2 DEF M2_start_region_ID
      <3> QED
        BY <1>1, <3>1, <3>2
    <2>3. CASE s # 0 /\ ~\E i \in DOMAIN regions : IsFirst(i, Reaching(regions, s))
      BY <1>1, <2>3 DEF M2_start_region_ID
    <2> QED
      BY <2>1, <2>2, <2>3
  <1>3. m # Len(regions)
    BY <1>1 DEF Skipped, M2_start_region_ID
  <1> HIDE DEF m
  <1>4. m + 1 \in (m + 1) .. Len(regions) /\ \A j \in (m + 1) .. (m + 1) : j = m + 1
    <2>0. \A k, l \in Nat : k \in 0 .. l /\ k # l => k \in Nat /\ k + 1 <= l
      OBVIOUS
    <2>a. Len(regions) \in Nat /\ m \in Nat
      BY <1>1, <1>2
    <2>1. m \in Nat /\ m + 1 <= Len(regions)
      BY <2>0, <2>a, <1>2, <1>3
    <2>2. \A j \in (m + 1) .. (m + 1) : j = m + 1
      BY <2>1
    <2> QED
      BY <1>1, <2>1, <2>2
  <1> QED
    BY <1>4 DEF M2, m

\* With states that the variable reachableStateID can hold, a seed selected for a
\* state is split behind a message after which the server was in that state, and
\* what is mutated is not empty.
THEOREM SplitCorrect == (\A s \in AllStates : s % Word = s) => (Spec => []SplitAtTarget)
  <1> SUFFICES ASSUME \A s \in AllStates : s % Word = s
               PROVE  Spec => []SplitAtTarget
    OBVIOUS
  <1>1. ASSUME IInv
        PROVE  SplitAtTarget
    <2> DEFINE regions == queue[queue_cur + 1].regions
    <2>1. pc \in {"split", "fuzz"} =>
            /\ regions \in Seq(Annotations) /\ regions # <<>> /\ target_state_id \in AllStates
            /\ target_state_id \in DOMAIN khms_states
      <3> SUFFICES ASSUME pc \in {"split", "fuzz"}
                   PROVE  /\ regions \in Seq(Annotations) /\ regions # <<>>
                          /\ target_state_id \in AllStates
                          /\ target_state_id \in DOMAIN khms_states
        OBVIOUS
      <3>1. queue_cur + 1 \in DOMAIN queue /\ regions # <<>>
            /\ target_state_id \in DOMAIN khms_states
        BY <1>1 DEF IInv, Phase, InLoop
      <3>2. queue \in Seq(Entries) /\ target_state_id \in AllStates
        BY <1>1 DEF IInv, TypeOK, Entries
      <3>3. queue[queue_cur + 1] \in Entries
        BY <3>1, <3>2
      <3> QED
        BY <3>1, <3>2, <3>3 DEF Entries
    <2>2. pc = "split" /\ target_state_id # 0 => EndsIn(regions, target_state_id)
      BY <1>1, <2>1 DEF IInv, Phase, SeedsKnown, EndsIn
    <2>3. pc = "split" /\ target_state_id # 0 =>
            regions[M2_start_region_ID(regions, target_state_id)].last = target_state_id
      <3> HIDE DEF regions
      <3> QED
        BY <2>1, <2>2, SplitPosition
    <2>4. pc = "fuzz" => ~Skipped(regions, target_state_id)
      BY <1>1 DEF IInv, Phase
    <2>5. pc = "fuzz" => M2(regions, target_state_id) # {}
      <3> HIDE DEF regions
      <3> QED
        BY <2>1, <2>4, SomethingLeft
    <2> QED
      BY <2>3, <2>5 DEF SplitAtTarget
  <1>2. IInv => SplitAtTarget
    BY <1>1
  <1> QED
    BY Consistent, <1>2, PTL
=============================================================================
