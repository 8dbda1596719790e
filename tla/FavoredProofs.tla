---------------------------- MODULE FavoredProofs ----------------------------
(***************************************************************************)
(* Proofs about the ratings of Favored, for any number of slots, states,   *)
(* entries and initial seeds, and about the walk of cull_queue: it is a    *)
(* recursive function over the slots, which exists and meets an entry for  *)
(* every bit by induction on the number of slots walked.                   *)
(***************************************************************************)
EXTENDS Favored, FiniteSetTheorems, WellFoundedInduction, TLAPS

Held(n) == {b \in Slots : top_rated[b] = n}

\* Sets of slots are finite, so that the slots an entry holds can be counted.
LEMMA SlotsFinite ==
  ASSUME NEW S \in SUBSET Slots
  PROVE  IsFiniteSet(S) /\ Cardinality(S) \in Nat /\ (Cardinality(S) = 0 <=> S = {})
  <1>1. IsFiniteSet(Slots)
    BY FavoredConstants, FS_Interval DEF Slots
  <1>2. IsFiniteSet(S)
    BY <1>1, FS_Subset
  <1> QED
    BY <1>2, FS_CardinalityType, FS_EmptySet

\* What update_bitmap_score relies on in an entry: a trace that is not empty.
LEMMA EntryFacts ==
  ASSUME NEW e \in Entry
  PROVE  e.trace \subseteq Slots /\ e.trace # {} /\ e.count \in Nat /\ e.cal_failed \in BOOLEAN
  <1>1. PICK s \in States, i \in BOOLEAN : e \in Entries(s, i)
    BY DEF Entry
  <1>2. e \in [gen : {s}, initial : {i}, cost : Costs,
              trace : (SUBSET Slots) \ {NoTrace}, reach : SUBSET States,
              count : Counts \cup {0}, cal_failed : BOOLEAN]
    BY <1>1 DEF Entries
  <1>3. e.trace \in (SUBSET Slots) \ {NoTrace}
    BY <1>2
  <1>4. e.count \in Counts \cup {0} /\ e.cal_failed \in BOOLEAN
    BY <1>2
  <1>5. Counts \subseteq Nat
    BY FavoredConstants, Zenon
  <1>6. CASE e.count \in Counts
    BY <1>3, <1>4, <1>5, <1>6 DEF NoTrace
  <1>7. CASE e.count = 0
    BY <1>3, <1>4, <1>7 DEF NoTrace
  <1> QED
    BY <1>4, <1>6, <1>7

\* Both kinds of new entries are entries.
LEMMA EntriesAreEntry ==
  ASSUME NEW s \in States, NEW i \in BOOLEAN, NEW e \in Entries(s, i)
  PROVE  e \in Entry
  BY DEF Entry

\* At the start no slot is held.
LEMMA InitInv == Init => IInv
  <1> SUFFICES ASSUME Init PROVE IInv
    OBVIOUS
  <1>1. queue = <<>> /\ target_state_id \in States /\ MaxQueue \in Nat
    BY FavoredConstants DEF Init
  <1>2. /\ top_rated \in [Slots -> 0 .. Len(queue)]
        /\ tc_ref \in [Numbers -> Nat]
        /\ trace_mini \in [Numbers -> SUBSET Slots]
    BY <1>1 DEF Init, NoTrace
  <1>3. ASSUME NEW n \in Numbers
        PROVE  Held(n) = {} /\ tc_ref[n] = 0 /\ trace_mini[n] = NoTrace
    BY <1>3 DEF Init, Held, Numbers
  <1>4. RefsExact
    BY <1>3, FS_EmptySet DEF RefsExact, Held
  <1> QED
    BY <1>1, <1>2, <1>4 DEF IInv

\* A slot that changes hands is counted at both ends, and the last one taken from
\* an entry takes its trace along.
LEMMA ScoreKeepsRefs ==
  ASSUME IInv, NEW e \in Entry, NEW count,
         queue' = Append(queue, e), Len(queue) < MaxQueue,
         update_bitmap_score(Len(queue) + 1, e, count)
  PROVE  /\ top_rated' \in [Slots -> 0 .. Len(queue')]
         /\ tc_ref' \in [Numbers -> Nat]
         /\ trace_mini' \in [Numbers -> SUBSET Slots]
         /\ RefsExact'
  <1> DEFINE n == Len(queue) + 1
             won == Won(e, count)
  <1>1. /\ queue \in Seq(Entry) /\ n \in Numbers /\ n \in Nat /\ Len(queue') = n
        /\ top_rated \in [Slots -> 0 .. n - 1] /\ n # 0
    BY FavoredConstants DEF IInv, Numbers
  <1>2. won \subseteq e.trace /\ e.trace \subseteq Slots
    BY EntryFacts DEF Won
  <1> HIDE DEF n
  <1>3. /\ top_rated' = [b \in Slots |-> IF b \in won THEN n ELSE top_rated[b]]
        /\ tc_ref' = [t \in Numbers |->
             IF t = n THEN Cardinality(won) ELSE tc_ref[t] - Cardinality(Lost(t, won))]
        /\ trace_mini' = [t \in Numbers |->
             IF t = n /\ won # {} THEN e.trace
             ELSE IF Released(t, won) THEN NoTrace ELSE trace_mini[t]]
    BY DEF update_bitmap_score, n
  <1> HIDE DEF won
  <1>4. Held(n) = {}
    BY <1>1 DEF Held
  <1>5. {b \in Slots : top_rated'[b] = n} = won
    BY <1>2, <1>3, <1>4 DEF Held
  <1>6. ASSUME NEW t \in Numbers \ {n}
        PROVE  /\ {b \in Slots : top_rated'[b] = t} = Held(t) \ Lost(t, won)
               /\ Held(t) \cap Lost(t, won) = Lost(t, won)
    BY <1>2, <1>3 DEF Held, Lost
  <1>7. ASSUME NEW t \in Numbers \ {n}
        PROVE  /\ tc_ref'[t] \in Nat
               /\ tc_ref'[t] = Cardinality(Held(t) \ Lost(t, won))
               /\ Released(t, won) <=> Lost(t, won) # {} /\ Held(t) \ Lost(t, won) = {}
    <2>1. tc_ref[t] = Cardinality(Held(t))
      BY DEF IInv, RefsExact, Held
    <2>2. Held(t) \in SUBSET Slots /\ Held(t) \ Lost(t, won) \in SUBSET Slots
      BY DEF Held
    <2>3. Cardinality(Held(t) \ Lost(t, won)) = Cardinality(Held(t)) - Cardinality(Lost(t, won))
      <3>1. IsFiniteSet(Held(t))
        BY <2>2, SlotsFinite
      <3>2. Cardinality(Held(t) \ Lost(t, won))
                = Cardinality(Held(t)) - Cardinality(Held(t) \cap Lost(t, won))
        BY <3>1, FS_Difference
      <3>3. Held(t) \cap Lost(t, won) = Lost(t, won)
        BY <1>6
      <3> QED
        BY <3>2, <3>3
    <2>4. tc_ref'[t] = tc_ref[t] - Cardinality(Lost(t, won))
      BY <1>3
    <2>5. tc_ref'[t] = Cardinality(Held(t) \ Lost(t, won))
      BY <2>1, <2>3, <2>4
    <2>6. /\ Cardinality(Held(t) \ Lost(t, won)) \in Nat
          /\ Cardinality(Held(t) \ Lost(t, won)) = 0 <=> Held(t) \ Lost(t, won) = {}
      BY <2>2, SlotsFinite
    <2>7. Released(t, won) <=> Lost(t, won) # {} /\ Held(t) \ Lost(t, won) = {}
      BY <2>4, <2>5, <2>6 DEF Released
    <2> QED
      BY <2>5, <2>6, <2>7
  <1>8. tc_ref'[n] = Cardinality(won) /\ tc_ref'[n] \in Nat
    <2>1. won \in SUBSET Slots
      BY <1>2
    <2>2. tc_ref'[n] = Cardinality(won)
      BY <1>1, <1>3
    <2> QED
      BY <2>1, <2>2, SlotsFinite
  <1>9. top_rated' \in [Slots -> 0 .. Len(queue')]
    BY <1>1, <1>3
  <1>10. tc_ref' \in [Numbers -> Nat]
    <2>1. \A t \in Numbers : tc_ref'[t] \in Nat
      BY <1>7, <1>8
    <2>2. tc_ref' = [t \in Numbers |-> tc_ref'[t]]
      BY <1>3
    <2> QED
      BY <2>1, <2>2
  <1>11. trace_mini' \in [Numbers -> SUBSET Slots]
    BY <1>2, <1>3 DEF IInv, NoTrace
  <1>12. ASSUME NEW t \in Numbers
         PROVE  LET held == {b \in Slots : top_rated'[b] = t}
                IN /\ tc_ref'[t] = Cardinality(held)
                   /\ held # {} <=> trace_mini'[t] # NoTrace
                   /\ held \subseteq trace_mini'[t]
    <2>1. /\ Held(t) # {} <=> trace_mini[t] # NoTrace
          /\ Held(t) \subseteq trace_mini[t]
      BY DEF IInv, RefsExact, Held
    <2>2. CASE t = n
      <3>1. Lost(n, won) = {} /\ trace_mini[n] = NoTrace
        BY <1>2, <1>4, <2>1, <2>2 DEF Lost, Held
      <3>2. trace_mini'[n] = IF won # {} THEN e.trace ELSE NoTrace
        BY <1>1, <1>3, <3>1 DEF Released
      <3>3. won # {} => e.trace # NoTrace
        BY <1>2 DEF NoTrace
      <3> QED
        BY <1>2, <1>5, <1>8, <2>2, <3>2, <3>3 DEF NoTrace
    <2>3. CASE t # n
      <3>1. trace_mini'[t] = IF Released(t, won) THEN NoTrace ELSE trace_mini[t]
        BY <1>3, <2>3
      <3>2. Released(t, won) <=> Lost(t, won) # {} /\ Held(t) \ Lost(t, won) = {}
        BY <1>7, <2>3
      <3>3. {b \in Slots : top_rated'[b] = t} = Held(t) \ Lost(t, won)
        BY <1>6, <2>3
      <3>4. tc_ref'[t] = Cardinality(Held(t) \ Lost(t, won))
        BY <1>7, <2>3
      <3> QED
        BY <2>1, <3>1, <3>2, <3>3, <3>4 DEF NoTrace
    <2> QED
      BY <2>2, <2>3
  <1> QED
    BY <1>9, <1>10, <1>11, <1>12 DEF RefsExact

\* An entry that failed its calibration joins the queue without a score.
LEMMA NewEntry ==
  ASSUME IInv, NEW e \in Entry, NEW count,
         queue' = Append(queue, e), Len(queue) < MaxQueue, target_state_id' = target_state_id,
         calibrate_case(Len(queue) + 1, e, count)
  PROVE  IInv'
  <1>1. queue' \in Seq(Entry) /\ Len(queue') <= MaxQueue /\ Len(queue') = Len(queue) + 1
        /\ Len(queue) \in Nat
    BY FavoredConstants DEF IInv
  <1>2. CASE e.cal_failed
    <2>1. UNCHANGED <<top_rated, tc_ref, trace_mini>>
      BY <1>2 DEF calibrate_case, ratings
    <2>2. top_rated' \in [Slots -> 0 .. Len(queue')]
      BY <1>1, <2>1 DEF IInv
    <2> QED
      BY <1>1, <2>1, <2>2 DEF IInv, RefsExact
  <1>3. CASE ~e.cal_failed
    BY <1>1, <1>3, ScoreKeepsRefs DEF calibrate_case, IInv
  <1> QED
    BY <1>2, <1>3

\* Only a new entry changes the ratings; cull_queue leaves them alone.
LEMMA NextInv == IInv /\ [Next]_vars => IInv'
  <1> SUFFICES ASSUME IInv, [Next]_vars PROVE IInv'
    OBVIOUS
  <1>1. ASSUME UNCHANGED <<queue, top_rated, tc_ref, trace_mini>>, target_state_id' \in States
        PROVE  IInv'
    BY <1>1 DEF IInv, RefsExact
  <1>2. CASE UNCHANGED vars
    BY <1>1, <1>2 DEF vars, ratings, selection, IInv
  <1>3. CASE DryRun
    <2>1. PICK e \in Entries(0, TRUE) :
              queue' = Append(queue, e) /\ calibrate_case(Len(queue) + 1, e, 0)
      BY <1>3 DEF DryRun
    <2>2. e \in Entry
      BY <2>1, FavoredConstants, EntriesAreEntry
    <2>3. Len(queue) \in Nat /\ Len(queue) < InitialSeeds
      BY <1>3 DEF DryRun, IInv
    <2>4. Len(queue) < MaxQueue
      BY <2>3, FavoredConstants
    <2>5. target_state_id' = target_state_id
      BY <1>3 DEF DryRun, selection
    <2> QED
      BY <2>1, <2>2, <2>4, <2>5, NewEntry
  <1>4. CASE save_if_interesting
    <2>1. PICK e \in Entries(target_state_id, FALSE) :
              queue' = Append(queue, e) /\ calibrate_case(Len(queue) + 1, e, e.count)
      BY <1>4 DEF save_if_interesting
    <2>2. e \in Entry /\ Len(queue) < MaxQueue /\ target_state_id' = target_state_id
      BY <1>4, <2>1, EntriesAreEntry DEF save_if_interesting, selection, IInv
    <2> QED
      BY <2>1, <2>2, NewEntry
  <1>5. CASE FirstCull \/ ChooseState
    BY <1>1, <1>5 DEF FirstCull, ChooseState, cull_queue, selection, ratings, IInv
  <1>6. CASE ChooseSeed \/ NoSeed \/ abandon_entry
    BY <1>1, <1>6 DEF ChooseSeed, NoSeed, abandon_entry, selection, ratings, IInv
  <1> QED
    BY <1>2, <1>3, <1>4, <1>5, <1>6 DEF Next

-----------------------------------------------------------------------------
\* The ratings are exact in every reachable state.
THEOREM RatingsExact == Spec => []IInv
  BY InitInv, NextInv, PTL DEF Spec

\* tc_ref of an entry is the number of slots it holds, and it has a trace exactly
\* as long as it holds one: cull_queue never follows a null trace_mini.
THEOREM RefsCorrect == Spec => []RefsExact
  <1>1. IInv => RefsExact
    BY DEF IInv
  <1> QED
    BY <1>1, RatingsExact, PTL

\* A slot is held by a calibrated entry with that bit.
HoldersRated ==
  \A b \in Slots : top_rated[b] # 0 =>
    top_rated[b] \in Rated /\ b \in queue[top_rated[b]].trace

MostInv == MostStatesWin /\ HoldersRated

\* A new entry takes the slots whose holders have no more states than it is
\* scored with: with its own number, or with 0 if it is an initial seed.
LEMMA NewEntryMost ==
  ASSUME IInv, MostInv, NEW e \in Entry, NEW count,
         queue' = Append(queue, e), calibrate_case(Len(queue) + 1, e, count),
         count = e.count \/ (count = 0 /\ e.initial)
  PROVE  MostInv'
  <1>0. PICK n : n = Len(queue) + 1
    OBVIOUS
  <1>1. /\ queue \in Seq(Entry) /\ Len(queue) \in Nat
        /\ top_rated \in [Slots -> 0 .. Len(queue)]
        /\ DOMAIN queue' = DOMAIN queue \cup {n} /\ n \notin DOMAIN queue
        /\ \A m \in DOMAIN queue : queue'[m] = queue[m]
        /\ queue'[n] = e
        /\ \A m \in DOMAIN queue : m \in 1 .. n - 1
    BY <1>0 DEF IInv
  <1>2. \A m \in DOMAIN queue' : queue'[m].trace \subseteq Slots /\ queue'[m].count \in Nat
    BY <1>1, EntryFacts
  <1>3. \A b \in Slots : top_rated[b] # 0 => top_rated[b] \in DOMAIN queue
    BY <1>1
  <1>4. \A m \in Rated : m \in DOMAIN queue /\ m \in Rated'
    BY <1>1 DEF Rated
  <1>5. \A m \in Rated' : m \in Rated \/ (m = n /\ ~e.cal_failed)
    BY <1>1 DEF Rated
  <1>6. ASSUME NEW m \in Rated, NEW b, ScoredTooEarly(m, b)
        PROVE  ScoredTooEarly(m, b)'
    <2>1. PICK k \in 1 .. m - 1 : k \in Rated /\ b \in queue[k].trace /\ queue[k].count > 0
      BY <1>6 DEF ScoredTooEarly
    <2>2. queue'[k] = queue[k] /\ queue'[m] = queue[m] /\ k \in Rated'
      BY <1>1, <1>4, <2>1
    <2> QED
      BY <1>6, <2>1, <2>2 DEF ScoredTooEarly
  <1>7. CASE e.cal_failed
    <2>1. top_rated' = top_rated
      BY <1>7 DEF calibrate_case, ratings
    <2>2. \A m \in Rated' : m \in Rated
      BY <1>5, <1>7
    <2>3. HoldersRated'
      BY <1>1, <1>3, <1>4, <2>1 DEF MostInv, HoldersRated
    <2>4. ASSUME NEW m \in Rated', NEW b \in queue'[m].trace
          PROVE  /\ top_rated'[b] # 0
                 /\ \/ queue'[m].count <= queue'[top_rated'[b]].count
                    \/ ScoredTooEarly(m, b)'
      <3>1. m \in Rated /\ queue'[m] = queue[m] /\ b \in Slots
        BY <1>1, <1>2, <1>4, <2>2, <2>4
      <3>2. /\ top_rated[b] # 0
            /\ queue[m].count <= queue[top_rated[b]].count \/ ScoredTooEarly(m, b)
        BY <2>4, <3>1 DEF MostInv, MostStatesWin
      <3>3. queue'[top_rated'[b]] = queue[top_rated[b]]
        BY <1>1, <1>3, <2>1, <3>1, <3>2
      <3> QED
        BY <1>6, <2>1, <3>1, <3>2, <3>3
    <2>5. MostStatesWin'
      BY <2>4 DEF MostStatesWin
    <2> QED
      BY <2>3, <2>5 DEF MostInv
  <1>8. CASE ~e.cal_failed
    <2> DEFINE won == Won(e, count)
    <2>1. top_rated' = [b \in Slots |-> IF b \in won THEN n ELSE top_rated[b]]
      BY <1>0, <1>8 DEF calibrate_case, update_bitmap_score
    <2>2. n \in Rated' /\ e.trace \subseteq Slots /\ e.count \in Nat
      BY <1>1, <1>2, <1>8 DEF Rated
    <2>3. \A b \in won : b \in e.trace
      BY DEF Won
    <2>4. ASSUME NEW b \in Slots, b \notin won
          PROVE  /\ top_rated'[b] = top_rated[b]
                 /\ top_rated[b] # 0 => queue'[top_rated[b]] = queue[top_rated[b]]
      BY <1>1, <1>3, <2>1, <2>4
    <2>5. ASSUME NEW b \in Slots, b \in won
          PROVE  top_rated'[b] = n
      BY <2>1, <2>5
    <2>6. HoldersRated'
      <3> SUFFICES ASSUME NEW b \in Slots, top_rated'[b] # 0
                   PROVE  top_rated'[b] \in Rated' /\ b \in queue'[top_rated'[b]].trace
        BY DEF HoldersRated, Slots
      <3>1. CASE b \in won
        BY <1>1, <2>2, <2>3, <2>5, <3>1
      <3>2. CASE b \notin won
        BY <1>4, <2>4, <3>2 DEF MostInv, HoldersRated
      <3> QED
        BY <3>1, <3>2
    <2>7. ASSUME NEW m \in Rated', NEW b \in queue'[m].trace
          PROVE  /\ top_rated'[b] # 0
                 /\ \/ queue'[m].count <= queue'[top_rated'[b]].count
                    \/ ScoredTooEarly(m, b)'
      <3>1. b \in Slots
        BY <1>2, <2>7 DEF Rated
      <3>2. m \in Rated => /\ queue'[m] = queue[m] /\ top_rated[b] # 0
                           /\ \/ queue[m].count <= queue[top_rated[b]].count
                              \/ ScoredTooEarly(m, b)
        BY <1>1, <1>4, <2>7 DEF MostInv, MostStatesWin
      <3>3. top_rated[b] # 0 => /\ top_rated[b] \in Rated /\ top_rated[b] \in DOMAIN queue
                                /\ b \in queue[top_rated[b]].trace
        BY <1>3, <3>1 DEF MostInv, HoldersRated
      <3>4. \A k \in DOMAIN queue : queue[k].count \in Nat
        BY <1>1, <1>2
      <3>5. CASE b \in won
        <4>1. top_rated'[b] = n /\ queue'[n] = e
          BY <1>1, <2>5, <3>1, <3>5
        <4>2. top_rated[b] # 0 => ~(count < queue[top_rated[b]].count)
          BY <3>5 DEF Won, Beats
        <4>3. top_rated[b] # 0 => queue[top_rated[b]].count <= e.count
          BY <2>2, <3>3, <3>4, <4>2
        <4>4. CASE m \in Rated
          <5>1. queue[m].count <= queue[top_rated[b]].count => queue[m].count <= e.count
            BY <1>4, <2>2, <3>2, <3>3, <3>4, <4>3, <4>4
          <5>2. top_rated'[b] # 0
            BY <1>0, <1>1, <4>1
          <5>3. CASE queue[m].count <= queue[top_rated[b]].count
            BY <3>2, <4>1, <4>4, <5>1, <5>2, <5>3
          <5>4. CASE ScoredTooEarly(m, b)
            <6>1. ScoredTooEarly(m, b)'
              BY <1>6, <4>4, <5>4
            <6> QED
              BY <5>2, <6>1
          <5> QED
            BY <3>2, <4>4, <5>3, <5>4
        <4>5. CASE m = n
          BY <1>1, <2>2, <4>1, <4>5
        <4> QED
          BY <1>5, <4>4, <4>5
      <3>6. CASE b \notin won
        <4>1. top_rated'[b] = top_rated[b]
          BY <2>4, <3>1, <3>6
        <4>2. CASE m \in Rated
          BY <1>6, <2>4, <3>1, <3>2, <3>6, <4>1, <4>2
        <4>3. CASE m = n
          <5>1. b \in e.trace
            BY <1>1, <2>7, <4>3
          <5>2. top_rated[b] # 0 /\ count < queue[top_rated[b]].count
            BY <3>6, <5>1 DEF Won, Beats
          <5>3. CASE count = e.count
            <6>1. e.count <= queue[top_rated[b]].count
              BY <2>2, <3>3, <3>4, <5>2, <5>3
            <6> QED
              BY <1>1, <2>4, <3>1, <3>6, <4>1, <4>3, <5>2, <6>1
          <5>4. CASE count = 0 /\ e.initial
            <6>0. PICK t : t = top_rated[b]
              OBVIOUS
            <6>1. t \in 1 .. n - 1 /\ t \in Rated' /\ queue'[t] = queue[t] /\ queue[t].count > 0
              BY <1>1, <1>4, <3>3, <3>4, <5>2, <5>4, <6>0
            <6>2. b \in queue'[t].trace /\ queue'[n].initial
              BY <1>1, <3>3, <5>2, <5>4, <6>0, <6>1
            <6>3. ScoredTooEarly(n, b)'
              BY <6>1, <6>2 DEF ScoredTooEarly
            <6> QED
              BY <4>1, <4>3, <5>2, <6>3
          <5> QED
            BY <5>3, <5>4
        <4> QED
          BY <1>5, <4>2, <4>3
      <3> QED
        BY <3>5, <3>6
    <2>8. MostStatesWin'
      BY <2>7 DEF MostStatesWin
    <2> QED
      BY <2>6, <2>8 DEF MostInv
  <1> QED
    BY <1>7, <1>8

\* The holder of a slot has the most states of all entries with that bit, but for
\* initial seeds that were scored before their states were counted, behind
\* another one with that bit.
THEOREM MostStatesCorrect == Spec => []MostStatesWin
  <1>1. Init => MostInv
    BY DEF Init, MostInv, MostStatesWin, HoldersRated, Rated
  <1>2. IInv /\ MostInv /\ [Next]_vars => MostInv'
    <2> SUFFICES ASSUME IInv, MostInv, [Next]_vars PROVE MostInv'
      OBVIOUS
    <2>1. ASSUME UNCHANGED <<queue, top_rated>>
          PROVE  MostInv'
      BY <2>1 DEF MostInv, MostStatesWin, ScoredTooEarly, HoldersRated, Rated
    <2>2. CASE UNCHANGED vars
      BY <2>1, <2>2 DEF vars, ratings
    <2>3. CASE DryRun
      <3>1. PICK e \in Entries(0, TRUE) :
                queue' = Append(queue, e) /\ calibrate_case(Len(queue) + 1, e, 0)
        BY <2>3 DEF DryRun
      <3>2. e \in Entry /\ e.initial
        BY <3>1, FavoredConstants, EntriesAreEntry DEF Entries
      <3> QED
        BY <3>1, <3>2, NewEntryMost
    <2>4. CASE save_if_interesting
      <3>1. PICK e \in Entries(target_state_id, FALSE) :
                queue' = Append(queue, e) /\ calibrate_case(Len(queue) + 1, e, e.count)
        BY <2>4 DEF save_if_interesting
      <3>2. e \in Entry
        BY <3>1, EntriesAreEntry DEF IInv
      <3> QED
        BY <3>1, <3>2, NewEntryMost
    <2>5. CASE FirstCull \/ ChooseState \/ ChooseSeed \/ NoSeed \/ abandon_entry
      BY <2>1, <2>5 DEF FirstCull, ChooseState, ChooseSeed, NoSeed, abandon_entry, cull_queue,
                        ratings
    <2> QED
      BY <2>2, <2>3, <2>4, <2>5 DEF Next
  <1>3. MostInv => MostStatesWin
    BY DEF MostInv
  <1> QED
    BY <1>1, <1>2, <1>3, RatingsExact, PTL DEF Spec

-----------------------------------------------------------------------------
(***************************************************************************)
(* The walk of cull_queue.                                                 *)
(***************************************************************************)

\* Induction over the natural numbers, for a set of numbers.
LEMMA NatSet ==
  ASSUME NEW T, 0 \in T, \A n \in Nat : n \in T => n + 1 \in T
  PROVE  \A n \in Nat : n \in T
  <1> DEFINE R == OpToRel(<, Nat)
  <1>1. IsWellFoundedOn(R, Nat)
    BY NatLessThanWellFounded
  <1>2. \A x, y : <<x, y>> \in R <=> x \in Nat /\ y \in Nat /\ x < y
    BY DEF OpToRel
  <1> HIDE DEF R
  <1> SUFFICES ASSUME Nat \ T # {} PROVE FALSE
    OBVIOUS
  <1>3. PICK m \in Nat \ T : \A y \in Nat \ T : ~(<<y, m>> \in R)
    BY <1>1, WFMin
  <1>4. m # 0 /\ m - 1 \in Nat /\ m - 1 < m /\ m - 1 + 1 = m
    BY <1>3
  <1>5. <<m - 1, m>> \in R
    BY <1>2, <1>3, <1>4
  <1>6. m - 1 \in T
    BY <1>3, <1>4, <1>5
  <1> QED
    BY <1>3, <1>4, <1>6

Start == [temp_v |-> Slots, picked |-> {}, pending |-> 0]

\* f is the walk over the first n slots.
WalksTo(f, n, target) ==
  f = [b \in 0 .. n |-> IF b = 0 THEN Start ELSE Visit(f[b - 1], b - 1, target)]

\* The recursion is well defined for any number of slots.
LEMMA WalkExists ==
  ASSUME NEW target
  PROVE  \A n \in Nat : \E f : WalksTo(f, n, target)
  <1> DEFINE T == {n \in Nat : \E f : WalksTo(f, n, target)}
  <1>1. 0 \in T
    <2>1. WalksTo([b \in 0 .. 0 |-> Start], 0, target)
      BY DEF WalksTo
    <2> QED
      BY <2>1
  <1>2. ASSUME NEW n \in Nat, n \in T
        PROVE  n + 1 \in T
    <2>1. PICK f : WalksTo(f, n, target)
      BY <1>2
    <2> DEFINE g == [b \in 0 .. n + 1 |-> IF b = n + 1 THEN Visit(f[n], n, target) ELSE f[b]]
    <2>2. ASSUME NEW b \in 0 .. n + 1
          PROVE  g[b] = IF b = 0 THEN Start ELSE Visit(g[b - 1], b - 1, target)
      <3>1. CASE b = n + 1
        <4>1. n \in 0 .. n + 1 /\ n # n + 1 /\ b # 0 /\ b - 1 = n
          BY <3>1
        <4>2. g[n] = f[n]
          BY <4>1
        <4> QED
          BY <3>1, <4>1, <4>2
      <3>2. CASE b # n + 1
        <4>1. b \in 0 .. n /\ g[b] = f[b]
          BY <3>2
        <4>2. f[b] = IF b = 0 THEN Start ELSE Visit(f[b - 1], b - 1, target)
          BY <2>1, <4>1 DEF WalksTo
        <4>3. b # 0 => b - 1 \in 0 .. n + 1 /\ b - 1 # n + 1
          BY <4>1
        <4>4. b # 0 => g[b - 1] = f[b - 1]
          BY <4>3
        <4> QED
          BY <4>1, <4>2, <4>4
      <3> QED
        BY <3>1, <3>2
    <2>3. g = [b \in 0 .. n + 1 |-> g[b]]
      OBVIOUS
    <2> HIDE DEF g
    <2>4. WalksTo(g, n + 1, target)
      BY <2>2, <2>3 DEF WalksTo
    <2> QED
      BY <2>4
  <1> HIDE DEF T
  <1>3. \A n \in Nat : n \in T
    BY <1>1, <1>2, NatSet
  <1> QED
    BY <1>3 DEF T

\* So Walk is its last value.
LEMMA WalkIs ==
  ASSUME NEW target
  PROVE  \E f : WalksTo(f, MapSize, target) /\ Walk(target) = f[MapSize]
  <1> DEFINE after == CHOOSE f : f = [b \in 0 .. MapSize |->
                        IF b = 0 THEN [temp_v |-> Slots, picked |-> {}, pending |-> 0]
                        ELSE Visit(f[b - 1], b - 1, target)]
  <1>1. MapSize \in Nat
    BY FavoredConstants
  <1>2. PICK f : WalksTo(f, MapSize, target)
    BY <1>1, WalkExists
  <1>3. after = [b \in 0 .. MapSize |->
                   IF b = 0 THEN [temp_v |-> Slots, picked |-> {}, pending |-> 0]
                   ELSE Visit(after[b - 1], b - 1, target)]
    BY <1>2, Zenon DEF WalksTo, Start
  <1>4. Walk(target) = after[MapSize]
    BY Zenon DEF Walk
  <1> HIDE DEF after
  <1>5. WalksTo(after, MapSize, target)
    BY <1>3 DEF WalksTo, Start
  <1> QED
    BY <1>4, <1>5

\* What is true of the walk after n slots: the bits gone from temp_v are those
\* of the entries met, and none of the n slots that has a holder is left in it.
Covered(w, n) ==
  /\ w.temp_v \subseteq Slots
  /\ w.picked \subseteq {top_rated[b] : b \in Slots} \ {0}
  /\ \A b \in Slots \ w.temp_v : \E m \in w.picked : b \in trace_mini[m]
  /\ \A b \in Slots : b < n /\ top_rated[b] # 0 => b \notin w.temp_v

\* One slot more.
LEMMA VisitCovers ==
  ASSUME IInv, NEW target, NEW w, NEW n \in Slots, Covered(w, n)
  PROVE  Covered(Visit(w, n, target), n + 1)
  <1> DEFINE t == top_rated[n]
             v == Visit(w, n, target)
  <1>1. \A b \in Slots : b \in Int /\ (b < n + 1 <=> b < n \/ b = n)
    BY DEF Slots
  <1>2. CASE t = 0 \/ n \notin w.temp_v
    <2>1. v = w
      BY <1>2 DEF Visit
    <2>2. \A b \in Slots : b < n + 1 /\ top_rated[b] # 0 => b \notin w.temp_v
      BY <1>1, <1>2 DEF Covered
    <2> QED
      BY <2>1, <2>2 DEF Covered
  <1>3. CASE ~(t = 0 \/ n \notin w.temp_v)
    <2>1. v.temp_v = w.temp_v \ trace_mini[t] /\ v.picked = w.picked \cup {t}
      BY <1>3 DEF Visit, Covers
    <2>2. n \in trace_mini[t]
      <3>1. t \in Numbers
        BY <1>3, FavoredConstants DEF IInv, Numbers
      <3>2. n \in Held(t) /\ Held(t) \subseteq trace_mini[t]
        BY <3>1 DEF Held, IInv, RefsExact
      <3> QED
        BY <3>2
    <2> HIDE DEF v, t
    <2>3. v.temp_v \subseteq Slots
      BY <2>1 DEF Covered
    <2>4. v.picked \subseteq {top_rated[b] : b \in Slots} \ {0}
      BY <1>3, <2>1 DEF Covered, t
    <2>5. \A b \in Slots \ v.temp_v : \E m \in v.picked : b \in trace_mini[m]
      BY <2>1 DEF Covered
    <2>6. \A b \in Slots : b < n + 1 /\ top_rated[b] # 0 => b \notin v.temp_v
      BY <1>1, <2>1, <2>2 DEF Covered
    <2>7. Covered(v, n + 1)
      BY <2>3, <2>4, <2>5, <2>6 DEF Covered
    <2> QED
      BY <2>7 DEF v
  <1> QED
    BY <1>2, <1>3

\* At its end every slot with a holder lies in the trace of an entry met.
LEMMA WalkCovers ==
  ASSUME IInv, NEW target
  PROVE  /\ Walk(target).picked \subseteq {top_rated[b] : b \in Slots} \ {0}
         /\ \A b \in Slots : top_rated[b] # 0 =>
              \E m \in Walk(target).picked : b \in trace_mini[m]
  <1>1. PICK f : WalksTo(f, MapSize, target) /\ Walk(target) = f[MapSize]
    BY WalkIs
  <1> DEFINE T == {n \in Nat : n <= MapSize => Covered(f[n], n)}
  <1>2. MapSize \in Nat
    BY FavoredConstants
  <1>3. 0 \in T
    <2>1. f[0] = Start
      BY <1>1, <1>2 DEF WalksTo
    <2>2. Covered(Start, 0)
      BY DEF Covered, Start, Slots
    <2> QED
      BY <2>1, <2>2
  <1>4. ASSUME NEW n \in Nat, n \in T
        PROVE  n + 1 \in T
    <2> SUFFICES ASSUME n + 1 <= MapSize PROVE Covered(f[n + 1], n + 1)
      OBVIOUS
    <2>1. n \in Slots /\ n <= MapSize /\ n + 1 \in 0 .. MapSize /\ n + 1 # 0 /\ n + 1 - 1 = n
      BY <1>2 DEF Slots
    <2>2. f[n + 1] = Visit(f[n], n, target)
      <3>1. \A b \in 0 .. MapSize :
              f[b] = IF b = 0 THEN Start ELSE Visit(f[b - 1], b - 1, target)
        BY <1>1 DEF WalksTo
      <3> QED
        BY <2>1, <3>1
    <2>3. Covered(f[n], n)
      BY <1>4, <2>1
    <2> QED
      BY <2>1, <2>2, <2>3, VisitCovers
  <1> HIDE DEF T
  <1>5. \A n \in Nat : n \in T
    BY <1>3, <1>4, NatSet
  <1>6. Covered(Walk(target), MapSize)
    BY <1>1, <1>2, <1>5 DEF T
  <1>7. \A b \in Slots : b < MapSize
    BY <1>2 DEF Slots
  <1> QED
    BY <1>6, <1>7 DEF Covered

-----------------------------------------------------------------------------
(***************************************************************************)
(* The favourites cover the map.                                           *)
(***************************************************************************)

\* The inductive invariant: the trace kept for an entry is its own, and the
\* favourites are what the last culling met, as long as no score changed.
CoverInv ==
  /\ \A n \in Numbers : trace_mini[n] # NoTrace =>
       n \in DOMAIN queue /\ trace_mini[n] = queue[n].trace
  /\ favored \subseteq DOMAIN queue
  /\ FavoredCover

\* A new entry takes slots, and then the score has changed, or takes none.
LEMMA NewEntryCover ==
  ASSUME IInv, CoverInv, NEW e \in Entry, NEW count,
         queue' = Append(queue, e), Len(queue) < MaxQueue, favored' = favored,
         calibrate_case(Len(queue) + 1, e, count)
  PROVE  CoverInv'
  <1> DEFINE n == Len(queue) + 1
             won == Won(e, count)
  <1>1. /\ queue \in Seq(Entry) /\ n \in Numbers /\ n # 0
        /\ DOMAIN queue' = DOMAIN queue \cup {n} /\ n \notin DOMAIN queue
        /\ \A m \in DOMAIN queue : queue'[m] = queue[m]
        /\ queue'[n] = e
        /\ top_rated \in [Slots -> 0 .. Len(queue)]
        /\ trace_mini \in [Numbers -> SUBSET Slots]
    BY FavoredConstants DEF IInv, Numbers
  <1>2. favored' \subseteq DOMAIN queue'
    BY <1>1 DEF CoverInv
  <1>3. ASSUME UNCHANGED <<top_rated, trace_mini, score_changed>>
        PROVE  CoverInv'
    <2>1. \A m \in Numbers : trace_mini'[m] # NoTrace =>
            m \in DOMAIN queue' /\ trace_mini'[m] = queue'[m].trace
      BY <1>1, <1>3 DEF CoverInv
    <2>2. ASSUME ~score_changed', NEW b \in Slots, top_rated'[b] # 0
          PROVE  \E m \in favored' : b \in queue'[m].trace
      <3>1. PICK m \in favored : b \in queue[m].trace
        BY <1>3, <2>2 DEF CoverInv, FavoredCover
      <3> QED
        BY <1>1, <3>1 DEF CoverInv
    <2>3. ASSUME ~score_changed', NEW m \in favored'
          PROVE  queue'[m].initial \/ \E b \in Slots : top_rated'[b] = m
      <3>1. m \in favored /\ queue'[m] = queue[m]
        BY <1>1, <2>3 DEF CoverInv
      <3>2. queue[m].initial \/ \E b \in Slots : top_rated[b] = m
        BY <1>3, <2>3, <3>1 DEF CoverInv, FavoredCover
      <3> QED
        BY <1>3, <3>1, <3>2
    <2> QED
      BY <1>2, <2>1, <2>2, <2>3 DEF CoverInv, FavoredCover
  <1>4. CASE e.cal_failed
    BY <1>3, <1>4 DEF calibrate_case, ratings
  <1>5. CASE ~e.cal_failed
    <2>1. /\ top_rated' = [b \in Slots |-> IF b \in won THEN n ELSE top_rated[b]]
          /\ trace_mini' = [t \in Numbers |->
               IF t = n /\ won # {} THEN e.trace
               ELSE IF Released(t, won) THEN NoTrace ELSE trace_mini[t]]
          /\ score_changed' = (score_changed \/ won # {})
      BY <1>5 DEF calibrate_case, update_bitmap_score
    <2> HIDE DEF n, won
    <2>2. CASE won = {}
      <3>1. \A t : ~Released(t, won)
        BY <2>2 DEF Released, Lost
      <3>2. top_rated' = top_rated
        BY <1>1, <2>1, <2>2
      <3>3. trace_mini' = trace_mini
        BY <1>1, <2>1, <2>2, <3>1
      <3>4. score_changed' \in BOOLEAN => (score_changed' <=> score_changed)
        BY <2>1, <2>2
      <3>5. ASSUME ~score_changed' PROVE ~score_changed
        BY <2>1, <3>5
      <3>6. FavoredCover'
        <4>1. ASSUME ~score_changed', NEW b \in Slots, top_rated'[b] # 0
              PROVE  \E m \in favored' : b \in queue'[m].trace
          <5>1. PICK m \in favored : b \in queue[m].trace
            BY <3>2, <3>5, <4>1 DEF CoverInv, FavoredCover
          <5> QED
            BY <1>1, <5>1 DEF CoverInv
        <4>2. ASSUME ~score_changed', NEW m \in favored'
              PROVE  queue'[m].initial \/ \E b \in Slots : top_rated'[b] = m
          <5>1. m \in favored /\ queue'[m] = queue[m]
            BY <1>1, <4>2 DEF CoverInv
          <5>2. queue[m].initial \/ \E b \in Slots : top_rated[b] = m
            BY <3>5, <4>2, <5>1 DEF CoverInv, FavoredCover
          <5> QED
            BY <3>2, <5>1, <5>2
        <4> QED
          BY <4>1, <4>2 DEF FavoredCover
      <3>7. \A m \in Numbers : trace_mini'[m] # NoTrace =>
              m \in DOMAIN queue' /\ trace_mini'[m] = queue'[m].trace
        BY <1>1, <3>3 DEF CoverInv
      <3> QED
        BY <1>2, <3>6, <3>7 DEF CoverInv
    <2>3. CASE won # {}
      <3>1. score_changed'
        BY <2>1, <2>3
      <3>2. ASSUME NEW m \in Numbers, trace_mini'[m] # NoTrace
            PROVE  m \in DOMAIN queue' /\ trace_mini'[m] = queue'[m].trace
        <4>1. CASE m = n
          BY <1>1, <2>1, <2>3, <4>1
        <4>2. CASE m # n
          <5>1. trace_mini'[m] = trace_mini[m] /\ trace_mini[m] # NoTrace
            BY <2>1, <3>2, <4>2
          <5> QED
            BY <1>1, <5>1 DEF CoverInv
        <4> QED
          BY <4>1, <4>2
      <3> QED
        BY <1>2, <3>1, <3>2 DEF CoverInv, FavoredCover
    <2> QED
      BY <2>2, <2>3
  <1> QED
    BY <1>4, <1>5

\* A culling marks what its walk met and keeps the initial seeds.
LEMMA CullCovers ==
  ASSUME IInv, CoverInv, NEW target, cull_queue(target), queue' = queue
  PROVE  CoverInv'
  <1>1. CASE ~score_changed
    BY <1>1 DEF cull_queue, ratings, culled, CoverInv, FavoredCover
  <1>2. CASE score_changed
    <2>1. /\ favored' = Kept \cup Walk(target).picked
          /\ UNCHANGED <<top_rated, trace_mini>>
      BY <1>2 DEF cull_queue
    <2> DEFINE picked == Walk(target).picked
    <2>2. /\ picked \subseteq {top_rated[b] : b \in Slots} \ {0}
          /\ \A b \in Slots : top_rated[b] # 0 => \E m \in picked : b \in trace_mini[m]
      BY WalkCovers
    <2> HIDE DEF picked
    <2>3. /\ queue \in Seq(Entry) /\ top_rated \in [Slots -> 0 .. Len(queue)]
          /\ DOMAIN queue = 1 .. Len(queue) /\ Len(queue) \in Nat
          /\ Len(queue) <= MaxQueue
      BY DEF IInv
    <2>4. picked \subseteq DOMAIN queue /\ picked \subseteq Numbers
      BY <2>2, <2>3, FavoredConstants DEF Numbers
    <2>5. favored' \subseteq DOMAIN queue
      BY <2>1, <2>4 DEF picked, Kept, CoverInv
    <2>6. ASSUME NEW b \in Slots, top_rated[b] # 0
          PROVE  \E m \in favored' : b \in queue[m].trace
      <3>1. PICK m \in picked : b \in trace_mini[m]
        BY <2>2, <2>6
      <3>2. m \in Numbers /\ m \in favored'
        BY <2>1, <2>4 DEF picked
      <3>3. trace_mini[m] = queue[m].trace
        BY <3>1, <3>2 DEF CoverInv, NoTrace
      <3> QED
        BY <3>1, <3>2, <3>3
    <2>7. ASSUME NEW m \in favored'
          PROVE  queue[m].initial \/ \E b \in Slots : top_rated[b] = m
      BY <2>1, <2>2, <2>7 DEF picked, Kept
    <2> QED
      BY <2>1, <2>5, <2>6, <2>7 DEF CoverInv, FavoredCover
  <1> QED
    BY <1>1, <1>2

\* After a culling the favourites cover every bit that has a holder, and stay so
\* until a new entry takes a slot, for any number of slots, states and entries.
THEOREM FavoredCoverCorrect == Spec => []FavoredCover
  <1>1. Init => CoverInv
    BY DEF Init, CoverInv, FavoredCover, NoTrace
  <1>2. IInv /\ CoverInv /\ [Next]_vars => CoverInv'
    <2> SUFFICES ASSUME IInv, CoverInv, [Next]_vars PROVE CoverInv'
      OBVIOUS
    <2>1. ASSUME UNCHANGED <<queue, top_rated, trace_mini, score_changed, favored>>
          PROVE  CoverInv'
      BY <2>1 DEF CoverInv, FavoredCover
    <2>2. CASE DryRun
      <3>1. PICK e \in Entries(0, TRUE) :
                queue' = Append(queue, e) /\ calibrate_case(Len(queue) + 1, e, 0)
        BY <2>2 DEF DryRun
      <3>2. e \in Entry
        BY <3>1, FavoredConstants, EntriesAreEntry
      <3>3. Len(queue) \in Nat /\ Len(queue) < InitialSeeds
        BY <2>2 DEF DryRun, IInv
      <3>4. Len(queue) < MaxQueue
        BY <3>3, FavoredConstants
      <3>5. favored' = favored
        BY <2>2 DEF DryRun, culled
      <3> QED
        BY <3>1, <3>2, <3>4, <3>5, NewEntryCover
    <2>3. CASE save_if_interesting
      <3>1. PICK e \in Entries(target_state_id, FALSE) :
                queue' = Append(queue, e) /\ calibrate_case(Len(queue) + 1, e, e.count)
        BY <2>3 DEF save_if_interesting
      <3>2. e \in Entry
        BY <3>1, EntriesAreEntry DEF IInv
      <3>3. Len(queue) < MaxQueue /\ favored' = favored
        BY <2>3 DEF save_if_interesting, culled
      <3> QED
        BY <3>1, <3>2, <3>3, NewEntryCover
    <2>4. CASE FirstCull
      BY <2>4, CullCovers DEF FirstCull
    <2>5. CASE ChooseState
      <3>1. PICK s \in States : cull_queue(s)
        BY <2>5 DEF ChooseState
      <3>2. queue' = queue
        BY <2>5 DEF ChooseState
      <3> QED
        BY <3>1, <3>2, CullCovers
    <2>6. CASE ChooseSeed \/ NoSeed \/ abandon_entry
      BY <2>1, <2>6 DEF ChooseSeed, NoSeed, abandon_entry, ratings, culled
    <2>7. CASE UNCHANGED vars
      BY <2>1, <2>7 DEF vars, ratings, culled
    <2> QED
      BY <2>2, <2>3, <2>4, <2>5, <2>6, <2>7 DEF Next
  <1>3. CoverInv => FavoredCover
    BY DEF CoverInv
  <1> QED
    BY <1>1, <1>2, <1>3, RatingsExact, PTL DEF Spec
=============================================================================
