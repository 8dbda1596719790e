------------------------------ MODULE Favored ------------------------------
(***************************************************************************)
(* The favourites of afl-fuzz: update_bitmap_score keeps the best entry    *)
(* for every byte of the coverage map and counts the slots an entry holds, *)
(* cull_queue marks a covering set of these entries as favoured and counts *)
(* those pending for the selected state, and abandon_entry counts down.    *)
(*                                                                         *)
(* Abstractions: the server's states are known from the start, and any     *)
(* state and any seed that reaches it may be selected (StateAware models   *)
(* both).  Entries are numbered from 1.                                    *)
(***************************************************************************)
EXTENDS Integers, FiniteSets, Sequences

CONSTANTS
  MapSize,      \* MAP_SIZE, the number of slots of top_rated
  States,       \* the server's states, 0 among them
  Costs,        \* values of fav_factor, execution time times length
  Counts,       \* values of unique_state_count of an entry with an answer
  InitialSeeds, \* number of initial seeds
  MaxQueue,     \* bound: length of the queue
  Word          \* 2^32, the range of pending_favored

ASSUME FavoredConstants ==
  /\ MapSize \in Nat \ {0}
  /\ 0 \in States
  /\ Costs \subseteq Nat
  /\ Counts \subseteq Nat \ {0}
  /\ InitialSeeds \in Nat \ {0}
  /\ MaxQueue \in Nat /\ InitialSeeds <= MaxQueue
  /\ Word \in Nat \ {0}

VARIABLES
  pc,
  queue,
  top_rated,        \* the entry holding a slot, 0 if none does
  tc_ref,           \* per entry
  trace_mini,       \* per entry, {} if it is not allocated
  score_changed,
  favored,          \* the entries with the flag
  pending_favored,
  was_fuzzed,       \* the entries with the flag
  was_fuzzed_map,   \* per state: the entries fuzzed for it
  target_state_id,
  queue_cur

ratings   == <<top_rated, tc_ref, trace_mini, score_changed>>
culled    == <<favored, pending_favored>>
fuzzing   == <<was_fuzzed, was_fuzzed_map>>
selection == <<target_state_id, queue_cur>>
vars      == <<pc, queue, ratings, culled, fuzzing, selection>>

Slots   == 0 .. MapSize - 1
NoTrace == {}
Numbers == 1 .. MaxQueue

\* An entry: the state targeted when it was found, the bits of its trace, the
\* states it reaches and how many it visits; none if it got no answer.
Entries(gen, initial) ==
  {e \in [gen : {gen}, initial : {initial}, cost : Costs,
          trace : (SUBSET Slots) \ {NoTrace}, reach : SUBSET States,
          count : Counts \cup {0}, cal_failed : BOOLEAN] :
     /\ e.reach = {} <=> e.count = 0
     /\ e.reach # {} => 0 \in e.reach
     /\ Cardinality(e.reach) <= e.count}

(***************************************************************************)
(* update_bitmap_score for the new entry e with number n; count is its     *)
(* unique_state_count at that time.                                        *)
(***************************************************************************)

\* Mutant: the contender with fewer states wins.
BeatsWithFewer(e, count, t) == count <= queue[t].count

\* e takes a slot of t.  The second test repeats the first comparison, so
\* the cost decides nothing.
Beats(e, count, t) ==
  /\ ~(count < queue[t].count)
  /\ ~(count < queue[t].count /\ e.cost > queue[t].cost)

Won(e, count) ==
  {b \in e.trace : top_rated[b] = 0 \/ Beats(e, count, top_rated[b])}

Lost(t, won) == {b \in won : top_rated[b] = t}

\* Mutant: the trace goes with the last reference but one.
ReleasedEarly(t, won) ==
  Lost(t, won) # {} /\ tc_ref[t] - Cardinality(Lost(t, won)) <= 1

\* With its last slot t loses its trace.
Released(t, won) ==
  Lost(t, won) # {} /\ tc_ref[t] - Cardinality(Lost(t, won)) = 0

update_bitmap_score(n, e, count) ==
  LET won == Won(e, count)
  IN /\ top_rated' = [b \in Slots |-> IF b \in won THEN n ELSE top_rated[b]]
     /\ tc_ref' = [t \in Numbers |->
          IF t = n THEN Cardinality(won)
          ELSE tc_ref[t] - Cardinality(Lost(t, won))]
     /\ trace_mini' = [t \in Numbers |->
          IF t = n /\ won # {} THEN e.trace
          ELSE IF Released(t, won) THEN NoTrace ELSE trace_mini[t]]
     /\ score_changed' = (score_changed \/ won # {})

\* A failed calibration ends before the score.
calibrate_case(n, e, count) ==
  IF e.cal_failed THEN UNCHANGED ratings ELSE update_bitmap_score(n, e, count)

(***************************************************************************)
(* cull_queue for a target state.                                          *)
(***************************************************************************)

\* Pending are entries that are initial or made for this state, and reach it
\* but have not been fuzzed for it.
CountsAsPending(n, target) ==
  /\ queue[n].gen = target \/ queue[n].initial
  /\ target \in queue[n].reach
  /\ n \notin was_fuzzed_map[target]

\* Mutant: the mask is cleared instead of the bits of the trace.
CoversAll(b) == Slots

\* The bits removed from temp_v for the holder of slot b.
Covers(b) == trace_mini[top_rated[b]]

\* One slot of the walk: its holder is met unless an earlier one has its bit.
Visit(w, b, target) ==
  IF top_rated[b] = 0 \/ b \notin w.temp_v THEN w
  ELSE [temp_v  |-> w.temp_v \ Covers(b),
        picked  |-> w.picked \cup {top_rated[b]},
        pending |-> w.pending
                    + IF CountsAsPending(top_rated[b], target) THEN 1 ELSE 0]

\* The walk over the slots: what is left of temp_v, the entries met on the
\* way, and how many of them are pending.
Walk(target) ==
  LET after[b \in 0 .. MapSize] ==
        IF b = 0 THEN [temp_v |-> Slots, picked |-> {}, pending |-> 0]
        ELSE Visit(after[b - 1], b - 1, target)
  IN after[MapSize]

\* Initial seeds keep the flag.
Kept == {n \in favored : queue[n].initial}

cull_queue(target) ==
  \/ /\ score_changed
     /\ score_changed' = FALSE
     /\ favored' = Kept \cup Walk(target).picked
     /\ pending_favored' = Walk(target).pending
     /\ UNCHANGED <<top_rated, tc_ref, trace_mini>>
  \/ /\ ~score_changed
     /\ UNCHANGED <<ratings, culled>>

(***************************************************************************)
(* The fuzzer around them.                                                 *)
(***************************************************************************)

\* perform_dry_run calibrates a seed first and counts its states afterwards.
DryRun ==
  /\ pc = "dry_run"
  /\ Len(queue) < InitialSeeds
  /\ \E e \in Entries(0, TRUE) :
       /\ queue' = Append(queue, e)
       /\ calibrate_case(Len(queue) + 1, e, 0)
  /\ UNCHANGED <<pc, culled, fuzzing, selection>>

FirstCull ==
  /\ pc = "dry_run"
  /\ Len(queue) = InitialSeeds
  /\ cull_queue(0)
  /\ pc' = "state"
  /\ UNCHANGED <<queue, fuzzing, selection>>

\* A state is selected and the queue culled for it.
ChooseState ==
  /\ pc = "state"
  /\ \E s \in States :
       /\ target_state_id' = s
       /\ cull_queue(s)
  /\ pc' = "seed"
  /\ UNCHANGED <<queue, fuzzing, queue_cur>>

ChooseSeed ==
  /\ pc = "seed"
  /\ \E n \in DOMAIN queue :
       /\ target_state_id \in queue[n].reach
       /\ queue_cur' = n
  /\ pc' = "fuzz"
  /\ UNCHANGED <<queue, ratings, culled, fuzzing, target_state_id>>

\* No seed reaches the state, or fuzz_one skips the seed.
NoSeed ==
  /\ pc = "seed"
  /\ pc' = "state"
  /\ UNCHANGED <<queue, ratings, culled, fuzzing, selection>>

\* save_if_interesting counts the states first and calibrates afterwards.
save_if_interesting ==
  /\ pc = "fuzz"
  /\ Len(queue) < MaxQueue
  /\ \E e \in Entries(target_state_id, FALSE) :
       /\ queue' = Append(queue, e)
       /\ calibrate_case(Len(queue) + 1, e, e.count)
  /\ UNCHANGED <<pc, culled, fuzzing, selection>>

abandon_entry ==
  /\ pc = "fuzz"
  /\ \/ /\ queue_cur \notin was_fuzzed
        /\ ~queue[queue_cur].cal_failed
        /\ was_fuzzed' = was_fuzzed \cup {queue_cur}
        /\ was_fuzzed_map' = [was_fuzzed_map EXCEPT
                                ![target_state_id] = @ \cup {queue_cur}]
        /\ pending_favored' = IF queue_cur \in favored
                              THEN (pending_favored - 1) % Word
                              ELSE pending_favored
     \/ /\ queue_cur \in was_fuzzed \/ queue[queue_cur].cal_failed
        /\ UNCHANGED <<fuzzing, pending_favored>>
  /\ pc' = "state"
  /\ UNCHANGED <<queue, ratings, favored, selection>>

Init ==
  /\ pc = "dry_run"
  /\ queue = <<>>
  /\ top_rated = [b \in Slots |-> 0]
  /\ tc_ref = [n \in Numbers |-> 0]
  /\ trace_mini = [n \in Numbers |-> NoTrace]
  /\ score_changed = FALSE
  /\ favored = {}
  /\ pending_favored = 0
  /\ was_fuzzed = {}
  /\ was_fuzzed_map = [s \in States |-> {}]
  /\ target_state_id = 0
  /\ queue_cur = 0

Next ==
  \/ DryRun
  \/ FirstCull
  \/ ChooseState
  \/ ChooseSeed
  \/ NoSeed
  \/ save_if_interesting
  \/ abandon_entry

Spec == Init /\ [][Next]_vars

(***************************************************************************)
(* Properties.                                                             *)
(***************************************************************************)

Entry == UNION {Entries(s, i) : s \in States, i \in BOOLEAN}

\* Type invariant: what every variable of the ratings and the main loop holds.
TypeOK ==
  /\ pc \in {"dry_run", "state", "seed", "fuzz"}
  /\ Len(queue) <= MaxQueue
  /\ queue \in Seq(Entry)
  /\ top_rated \in [Slots -> 0 .. Len(queue)]
  /\ tc_ref \in [Numbers -> 0 .. MapSize]
  /\ trace_mini \in [Numbers -> SUBSET Slots]
  /\ score_changed \in BOOLEAN
  /\ favored \subseteq DOMAIN queue
  /\ pending_favored \in 0 .. Word - 1
  /\ was_fuzzed \subseteq DOMAIN queue
  /\ was_fuzzed_map \in [States -> SUBSET DOMAIN queue]
  /\ target_state_id \in States
  /\ queue_cur \in 0 .. Len(queue)

\* An entry is referenced as often as it holds slots, and keeps its trace
\* exactly as long as it holds one: cull_queue follows trace_mini of every
\* holder without a test.
RefsExact ==
  \A n \in Numbers :
    LET held == {b \in Slots : top_rated[b] = n}
    IN /\ tc_ref[n] = Cardinality(held)
       /\ held # {} <=> trace_mini[n] # NoTrace
       /\ held \subseteq trace_mini[n]

\* The inductive invariant behind RefsExact: what update_bitmap_score reads.
IInv ==
  /\ queue \in Seq(Entry) /\ Len(queue) <= MaxQueue
  /\ target_state_id \in States
  /\ top_rated \in [Slots -> 0 .. Len(queue)]
  /\ tc_ref \in [Numbers -> Nat]
  /\ trace_mini \in [Numbers -> SUBSET Slots]
  /\ RefsExact

\* After a culling the favoured entries cover every bit that has a holder, and
\* only initial seeds are favoured without holding a slot.
FavoredCover ==
  ~score_changed =>
    /\ \A b \in Slots : top_rated[b] # 0 => \E n \in favored : b \in queue[n].trace
    /\ \A n \in favored : queue[n].initial \/ \E b \in Slots : top_rated[b] = n

Rated == {n \in DOMAIN queue : ~queue[n].cal_failed}

\* An initial seed behind another one with states and that bit: perform_dry_run
\* scores it before it counts its states, so it loses whatever they are.
ScoredTooEarly(n, b) ==
  /\ queue[n].initial
  /\ \E m \in 1 .. n - 1 : m \in Rated /\ b \in queue[m].trace /\ queue[m].count > 0

\* The holder of a slot has the most states among the calibrated entries with
\* that bit, "AFLNet check unique state count first", whatever was scored before
\* and after: only initial seeds scored too early may have more.
MostStatesWin ==
  \A n \in Rated : \A b \in queue[n].trace :
    /\ top_rated[b] # 0
    /\ \/ queue[n].count <= queue[top_rated[b]].count
       \/ ScoredTooEarly(n, b)
=============================================================================
