----------------------------- MODULE StateAware -----------------------------
(***************************************************************************)
(* The state-aware main loop of afl-fuzz: the states the server has shown, *)
(* the seeds known to reach each of them, the table was_fuzzed_map indexed *)
(* by state and seed, the choice of a target state and of a seed for it,   *)
(* the split of the seed at that state, and what a test case with new      *)
(* coverage adds.                                                          *)
(*                                                                         *)
(* Abstractions: a run of the target is what it says about states (Outcomes*)
(* below).  Where a random draw or a score decides, any result is allowed. *)
(* A region is its annotation, a seed its regions.                         *)
(***************************************************************************)
EXTENDS Integers, FiniteSets, Sequences, Positions

CONSTANTS
  States,       \* states and response codes other than the initial state 0
  StateMode,    \* state_mode
  StateAlgo,    \* state_selection_algo
  SeedAlgo,     \* seed_selection_algo
  FewSeeds,     \* FAVOR goes round-robin up to this many seeds, 10 in the code
  Hash(_),      \* hash32 of a state sequence
  Word,         \* 2^32, the range of the variable reachableStateID
  InitialSeeds, \* number of files in the input directory
  MaxQueue,     \* bound: length of the queue
  MaxMsgs       \* bound: messages of a seed

Algorithms == {"RANDOM_SELECTION", "ROUND_ROBIN", "FAVOR"}

ASSUME StateAwareConstants ==
  /\ States \subseteq Nat \ {0}
  /\ StateMode \in {"RESPONSE_CODE", "ENUM_VALUE"}
  /\ StateAlgo \in Algorithms
  /\ SeedAlgo \in Algorithms
  /\ FewSeeds \in Nat
  /\ Word \in Nat \ {0}
  /\ InitialSeeds \in Nat \ {0}
  /\ MaxQueue \in Nat
  /\ MaxMsgs \in Nat \ {0}

VARIABLES
  pc,
  dry,                  \* perform_dry_run: initial seeds already tried
  queue,                \* the queue entries; entry n has index n - 1
  pending_not_fuzzed,
  ipsm,                 \* nodes of the state machine graph
  khs_ipsm_paths,       \* hashes of the state sequences seen
  collided,             \* history: has a hash hidden a state from the graph?
  khms_states,          \* per state: its seeds and the next one to select
  state_ids,
  was_fuzzed_map,       \* [row, column] -> -1 unreachable, 0 reachable, 1 fuzzed
  fuzzed_map_states,    \* its rows
  fuzzed_map_qentries,  \* its columns
  target_state_id,
  selected_state_index,
  state_cycles,
  queue_cur             \* index of the selected seed

statevars == <<ipsm, khs_ipsm_paths, collided, khms_states, state_ids>>
fuzzedmap == <<was_fuzzed_map, fuzzed_map_states, fuzzed_map_qentries>>
entries   == <<queue, pending_not_fuzzed>>
selection == <<target_state_id, selected_state_index, state_cycles, queue_cur>>
vars      == <<pc, dry, entries, statevars, fuzzedmap, selection>>

AllStates == States \cup {0}
Elements(s) == {s[i] : i \in DOMAIN s}

\* The elements of s outside S, each at its first occurrence.
FirstOutside(s, S) ==
  {i \in DOMAIN s : s[i] \notin S /\ \A j \in 1 .. i - 1 : s[j] # s[i]}

Fresh(s, S) == Picked(s, FirstOutside(s, S))

(***************************************************************************)
(* What a run that got an answer says: the state sequence, and for each    *)
(* message sent how long the sequence was then and the state it ended in.  *)
(***************************************************************************)
NoAnnotation == [count |-> 0, last |-> 0]
Annotation(s) == [count |-> Len(s), last |-> s[Len(s)]]

\* ENUM_VALUE: one sample after every message and one at the end of the run.
EnumOutcome(samples) ==
  LET seq == <<0>> \o samples
  IN [seq |-> seq,
      regions |-> [i \in 1 .. Len(samples) - 1 |->
                     Annotation(SubSeq(seq, 1, i + 1))]]

\* RESPONSE_CODE: replies[1] comes before the first message, replies[i + 1]
\* after message i; a reply is silence (-1), bytes without a code, which end
\* the extraction (0), or a code.
extract_response_codes(replies) ==
  LET usable == {i \in DOMAIN replies :
                   replies[i] # -1 /\ \A j \in 1 .. i : replies[j] # 0}
  IN <<0>> \o Picked(replies, usable)

CodeOutcome(replies) ==
  LET upto(i) == SubSeq(replies, 1, i + 1)
      silent(i) == \/ \A j \in 1 .. i + 1 : replies[j] = -1
                   \/ i > 1 /\ replies[i + 1] = -1
  IN [seq |-> extract_response_codes(replies),
      regions |-> [i \in 1 .. Len(replies) - 1 |->
                     IF silent(i) THEN NoAnnotation
                     ELSE Annotation(extract_response_codes(upto(i)))]]

Outcomes(n) ==
  IF StateMode = "ENUM_VALUE"
  THEN {EnumOutcome(s) : s \in [1 .. n + 1 -> AllStates]}
  ELSE {CodeOutcome(r) : r \in {f \in [1 .. n + 1 -> AllStates \cup {-1}] :
                                  \E i \in 1 .. n + 1 : f[i] # -1}}

(***************************************************************************)
(* The table was_fuzzed_map.                                               *)
(***************************************************************************)

\* The position of a state, or the length of the list if it is not there.
get_state_index(ids, s) ==
  IF s \in Elements(ids)
  THEN (CHOOSE i \in DOMAIN ids :
          ids[i] = s /\ \A j \in 1 .. i - 1 : ids[j] # s) - 1
  ELSE Len(ids)

expand_was_fuzzed_map(new_states, new_qentries) ==
  LET rows == fuzzed_map_states + new_states
      cols == fuzzed_map_qentries + new_qentries
  IN [c \in (0 .. rows - 1) \X (0 .. cols - 1) |->
        IF c[1] < fuzzed_map_states /\ c[2] < fuzzed_map_qentries
        THEN was_fuzzed_map[c] ELSE -1]

\* add_to_queue gives the first entry a row for state 0 as well.
RowsForEntry == IF fuzzed_map_states = 0 THEN 1 ELSE 0

Entry(regions, failed) ==
  [regions |-> regions, was_fuzzed |-> FALSE, cal_failed |-> failed]

(***************************************************************************)
(* update_state_aware_variables for a run with an answer.                  *)
(***************************************************************************)

\* A state met three times or more in a row counts twice.
Trimmed(s) ==
  Picked(s, {i \in DOMAIN s : ~(i > 2 /\ s[i] = s[i - 1] /\ s[i] = s[i - 2])})

is_state_sequence_interesting(s) == Hash(Trimmed(s)) \notin khs_ipsm_paths

\* Mutant: the graph is not asked whether the node exists.
NodesUnchecked(s) ==
  IF is_state_sequence_interesting(s) /\ Len(s) > 1 THEN Fresh(s, {}) ELSE <<>>

\* States that get a node, in the order in which they are met.
NewNodes(s) ==
  IF is_state_sequence_interesting(s) /\ Len(s) > 1 THEN Fresh(s, ipsm) ELSE <<>>

\* A sequence with states that have no node is taken for one seen before.
Hidden(s) ==
  ~is_state_sequence_interesting(s) /\ Len(s) > 1 /\ Fresh(s, ipsm) # <<>>

\* The states in which annotations end, region by region.
Reached(regions) ==
  LET answered == {i \in DOMAIN regions : regions[i].count > 0}
  IN [k \in 1 .. Cardinality(answered) |-> regions[Nth(answered, k)].last]

\* The branch marked XXX: states that have no entry in the hashtable though
\* an annotation ends in them.
LateStates(o) ==
  Fresh(Reached(o.regions), DOMAIN khms_states \cup Elements(NewNodes(o.seq)))

\* Mutant: a row for the initial state too.
RowForEachState(ids) == Len(ids)

\* Row 0 is there already.
NewRows(ids) == Cardinality({i \in DOMAIN ids : ids[i] # 0})

\* How often entry q joins the seeds of s: once for the initial state, which
\* every seed reaches, and once for each region that ends in s.
Joins(o, s) ==
  (IF s = 0 THEN 1 ELSE 0)
  + Cardinality({i \in DOMAIN Reached(o.regions) : Reached(o.regions)[i] = s})

NewState == [seeds |-> <<>>, selected_seed_index |-> 0]

AddSeed(q, o, ids) ==
  [s \in DOMAIN khms_states \cup Elements(ids) |->
     LET known == IF s \in Elements(ids) THEN NewState ELSE khms_states[s]
     IN [known EXCEPT !.seeds = @ \o [k \in 1 .. Joins(o, s) |-> q]]]

\* Mutant: the rows are looked up before the states are inserted.
MarkedTooEarly(o, ids) ==
  {0} \cup {get_state_index(state_ids, s) : s \in Elements(Reached(o.regions))}

\* The rows of entry q that become "reachable but not fuzzed".
Marked(o, ids) ==
  {0} \cup {get_state_index(ids, s) : s \in Elements(Reached(o.regions))}

MarkReachable(map, q, o, ids) ==
  [c \in DOMAIN map |->
     IF c[2] = q /\ c[1] \in Marked(o, ids) THEN 0 ELSE map[c]]

\* q is the entry's index; rows and cols have been added by add_to_queue in
\* the same step.  The code gives up if nothing has created state 0.
update_state_aware_variables(q, o, rows, cols, next) ==
  LET new  == NewNodes(o.seq)
      late == LateStates(o)
      add  == new \o late
      ids  == state_ids \o add
      more == rows + NewRows(add)
  IN /\ ipsm' = ipsm \cup Elements(new)
     /\ khs_ipsm_paths' = khs_ipsm_paths \cup {Hash(Trimmed(o.seq))}
     /\ collided' = (collided \/ Hidden(o.seq))
     /\ fuzzed_map_qentries' = fuzzed_map_qentries + cols
     /\ IF 0 \in DOMAIN khms_states \cup Elements(new)
        THEN /\ state_ids' = ids
             /\ khms_states' = AddSeed(q, o, add)
             /\ fuzzed_map_states' = fuzzed_map_states + more
             /\ was_fuzzed_map' =
                  MarkReachable(expand_was_fuzzed_map(more, cols), q, o, ids)
             /\ pc' = next
        ELSE /\ state_ids' = state_ids \o new
             /\ fuzzed_map_states' = fuzzed_map_states + rows
             /\ was_fuzzed_map' = expand_was_fuzzed_map(rows, cols)
             /\ pc' = "no_initial_state"
             /\ UNCHANGED khms_states

\* A run without an answer changes nothing but what add_to_queue did.
no_answer(rows, cols, next) ==
  /\ fuzzed_map_states' = fuzzed_map_states + rows
  /\ fuzzed_map_qentries' = fuzzed_map_qentries + cols
  /\ was_fuzzed_map' = expand_was_fuzzed_map(rows, cols)
  /\ pc' = next
  /\ UNCHANGED statevars

(***************************************************************************)
(* Start: the input directory and the dry run.                             *)
(***************************************************************************)
ReadTestcase ==
  /\ pc = "read"
  /\ \E n \in 1 .. MaxMsgs :
       queue' = Append(queue, Entry([i \in 1 .. n |-> NoAnnotation], FALSE))
  /\ pending_not_fuzzed' = pending_not_fuzzed + 1
  /\ no_answer(RowsForEntry, 1,
               IF Len(queue) + 1 = InitialSeeds THEN "dry_run" ELSE "read")
  /\ UNCHANGED <<dry, selection>>

\* The seed is run; the server may end before it has read every message.  A
\* failed calibration (timeout or crash, if tolerated) leaves cal_failed set.
DryRun ==
  /\ pc = "dry_run"
  /\ dry < InitialSeeds
  /\ dry' = dry + 1
  /\ LET old == queue[dry + 1].regions
     IN \E failed \in BOOLEAN :
          \/ /\ queue' = [queue EXCEPT ![dry + 1] = Entry(old, failed)]
             /\ no_answer(0, 0, "dry_run")
          \/ \E n \in 1 .. Len(old) : \E o \in Outcomes(n) :
               /\ queue' = [queue EXCEPT ![dry + 1] =
                    Entry([i \in DOMAIN old |-> IF i <= n THEN o.regions[i]
                                                ELSE NoAnnotation], failed)]
               /\ update_state_aware_variables(dry, o, 0, 0, "dry_run")
  /\ UNCHANGED <<pending_not_fuzzed, selection>>

EnterLoop ==
  /\ pc = "dry_run"
  /\ dry = InitialSeeds
  /\ pc' = IF state_ids = <<>> THEN "no_states" ELSE "state"
  /\ UNCHANGED <<dry, entries, statevars, fuzzedmap, selection>>

(***************************************************************************)
(* The main loop: a state, a seed, and the messages of it to be mutated.   *)
(***************************************************************************)
\* Mutant: the index is not set back at the end of the list.
IndexWithoutEnd(i, count) == i + 1

\* Mutant: it is set back one element early.
IndexEndsEarly(i, count) == IF i + 2 >= count THEN 0 ELSE i + 1

NextIndex(i, count) == IF i + 1 = count THEN 0 ELSE i + 1

RoundRobin ==
  \/ StateAlgo = "ROUND_ROBIN"
  \/ StateAlgo = "FAVOR" /\ state_cycles < 1

ChooseInTurn ==
  /\ RoundRobin
  /\ target_state_id' = state_ids[selected_state_index + 1]
  /\ selected_state_index' = NextIndex(selected_state_index, Len(state_ids))
  /\ state_cycles' = IF selected_state_index' = 0 /\ StateAlgo = "FAVOR"
                     THEN state_cycles + 1 ELSE state_cycles

\* By a draw, or by a draw weighted with the scores, all of which are positive.
ChooseByDraw ==
  /\ ~RoundRobin
  /\ \E i \in DOMAIN state_ids :
       /\ target_state_id' = state_ids[i]
       /\ selected_state_index' = IF StateAlgo = "FAVOR"
                                  THEN selected_state_index ELSE i - 1
  /\ UNCHANGED state_cycles

choose_target_state ==
  /\ pc = "state"
  /\ ChooseInTurn \/ ChooseByDraw
  /\ pc' = "seed"
  /\ UNCHANGED <<dry, entries, statevars, fuzzedmap, queue_cur>>

\* Back to the states if this one has no seed or the seed has no regions.
\* FAVOR with many seeds skips seeds by draws: the next index follows the
\* seed that was taken.
choose_seed ==
  /\ pc = "seed"
  /\ LET state == khms_states[target_state_id]
         count == Len(state.seeds)
         turn == \/ SeedAlgo = "ROUND_ROBIN"
                 \/ SeedAlgo = "FAVOR" /\ count <= FewSeeds
     IN \/ /\ count = 0
           /\ pc' = "state"
           /\ UNCHANGED <<khms_states, queue_cur>>
        \/ \E i \in 0 .. count - 1 :
             /\ turn => i = state.selected_seed_index
             /\ khms_states' = [khms_states EXCEPT
                  ![target_state_id].selected_seed_index =
                    IF SeedAlgo = "RANDOM_SELECTION" THEN i
                    ELSE NextIndex(i, count)]
             /\ IF queue[state.seeds[i + 1] + 1].regions = <<>>
                THEN pc' = "state" /\ UNCHANGED queue_cur
                ELSE pc' = "split" /\ queue_cur' = state.seeds[i + 1]
  /\ UNCHANGED <<dry, entries, ipsm, khs_ipsm_paths, collided, state_ids, fuzzedmap,
                 target_state_id, selected_state_index, state_cycles>>

\* M1 are the messages up to the one that reaches the target state; nobody
\* may be unannotated before it.  Counted from 1, M1 is 1 .. M2_start_region_ID.
Unannotated(regions) == {i \in DOMAIN regions : regions[i].count = 0}
Reaching(regions, s) == {i \in DOMAIN regions : regions[i].last % Word = s}

IsFirst(i, S) == i \in S /\ \A j \in S : i <= j

M2_start_region_ID(regions, s) ==
  IF s = 0 THEN 0
  ELSE IF \E i \in DOMAIN regions : IsFirst(i, Reaching(regions, s))
  THEN CHOOSE i \in DOMAIN regions : IsFirst(i, Reaching(regions, s))
  ELSE Len(regions)

\* Mutant: a seed that only reaches the state with its last message is split.
SkippedUnannotated(regions, s) ==
  /\ s # 0
  /\ \E i \in 1 .. M2_start_region_ID(regions, s) : i \in Unannotated(regions)

Skipped(regions, s) ==
  /\ s # 0
  /\ \/ \E i \in 1 .. M2_start_region_ID(regions, s) : i \in Unannotated(regions)
     \/ M2_start_region_ID(regions, s) = Len(regions)

\* M2 goes on while the annotations are as long as that of its first message.
M2(regions, s) ==
  LET first == M2_start_region_ID(regions, s) + 1
  IN {i \in first .. Len(regions) :
        \A j \in first .. i : regions[j].count = regions[first].count}

\* fuzz_one returns at once, or goes on to mutate.
fuzz_one ==
  /\ pc = "split"
  /\ pc' = IF Skipped(queue[queue_cur + 1].regions, target_state_id)
           THEN "skipped" ELSE "fuzz"
  /\ UNCHANGED <<dry, entries, statevars, fuzzedmap, selection>>

\* save_if_interesting keeps a run with new coverage: a new entry with one
\* region per message sent, its states, and a calibration that may fail.
save_if_interesting ==
  /\ pc = "fuzz"
  /\ Len(queue) < MaxQueue
  /\ LET q == Len(queue)
     IN \E failed \in BOOLEAN :
          \/ \E n \in 0 .. MaxMsgs :
               /\ queue' = Append(queue,
                    Entry([i \in 1 .. n |-> NoAnnotation], failed))
               /\ no_answer(RowsForEntry, 1, "fuzz")
          \/ \E n \in 1 .. MaxMsgs : \E o \in Outcomes(n) :
               /\ queue' = Append(queue, Entry(o.regions, failed))
               /\ update_state_aware_variables(q, o, RowsForEntry, 1, "fuzz")
  /\ pending_not_fuzzed' = pending_not_fuzzed + 1
  /\ UNCHANGED <<dry, selection>>

\* Mutant: every round counts.
FirstOrLater == ~queue[queue_cur + 1].cal_failed

\* abandon_entry; a stop signal on the way leaves the marks alone.
FirstFuzz ==
  /\ ~queue[queue_cur + 1].cal_failed
  /\ ~queue[queue_cur + 1].was_fuzzed

abandon_entry ==
  /\ pc = "fuzz"
  /\ IF FirstFuzz
     THEN /\ queue' = [queue EXCEPT ![queue_cur + 1].was_fuzzed = TRUE]
          /\ was_fuzzed_map' = [was_fuzzed_map EXCEPT
               ![<<get_state_index(state_ids, target_state_id), queue_cur>>] = 1]
          /\ pending_not_fuzzed' = pending_not_fuzzed - 1
     ELSE UNCHANGED <<queue, was_fuzzed_map, pending_not_fuzzed>>
  /\ pc' = "fuzzed"
  /\ UNCHANGED <<dry, statevars, fuzzed_map_states, fuzzed_map_qentries,
                 selection>>

NextRound ==
  /\ pc \in {"fuzzed", "skipped"}
  /\ pc' = "state"
  /\ UNCHANGED <<dry, entries, statevars, fuzzedmap, selection>>

\* The stop signal is looked at after a dry run, while an entry is fuzzed and
\* at the end of a round, and nowhere in the selection.  After a dry run this
\* also stands for the fatal ends of perform_dry_run.
Stop ==
  /\ pc \in {"dry_run", "fuzz", "fuzzed", "skipped"}
  /\ pc = "dry_run" => dry > 0
  /\ pc' = "stopped"
  /\ UNCHANGED <<dry, entries, statevars, fuzzedmap, selection>>

Init ==
  /\ pc = "read"
  /\ dry = 0
  /\ queue = <<>>
  /\ pending_not_fuzzed = 0
  /\ ipsm = {}
  /\ khs_ipsm_paths = {}
  /\ collided = FALSE
  /\ khms_states = [s \in {} |-> NewState]
  /\ state_ids = <<>>
  /\ was_fuzzed_map = [c \in {} |-> -1]
  /\ fuzzed_map_states = 0
  /\ fuzzed_map_qentries = 0
  /\ target_state_id = 0
  /\ selected_state_index = 0
  /\ state_cycles = 0
  /\ queue_cur = -1

MainLoop ==
  \/ choose_target_state
  \/ choose_seed
  \/ fuzz_one
  \/ abandon_entry
  \/ NextRound

Next ==
  \/ ReadTestcase
  \/ DryRun
  \/ EnterLoop
  \/ MainLoop
  \/ save_if_interesting
  \/ Stop

Spec == Init /\ [][Next]_vars

(***************************************************************************)
(* Fairness: the fuzzer keeps going.  Finding new coverage and the stop    *)
(* signal are never assumed.                                               *)
(***************************************************************************)
FairSpec == Spec /\ WF_vars(MainLoop)

(***************************************************************************)
(* Properties.                                                             *)
(***************************************************************************)
Places == {"read", "dry_run", "state", "seed", "split", "fuzz", "fuzzed",
           "skipped", "no_states", "no_initial_state", "stopped"}

Annotations == [count : Nat, last : AllStates]

\* Type invariant: entries, states, indexes and the cells of the table keep to their
\* ranges in every phase of the fuzzer.
TypeOK ==
  /\ pc \in Places
  /\ dry \in 0 .. InitialSeeds
  /\ queue \in Seq([regions : Seq(Annotations), was_fuzzed : BOOLEAN,
                    cal_failed : BOOLEAN])
  /\ pending_not_fuzzed \in Nat
  /\ ipsm \subseteq AllStates
  /\ collided \in BOOLEAN
  /\ DOMAIN khms_states \subseteq AllStates
  /\ \A s \in DOMAIN khms_states :
       khms_states[s] \in [seeds : Seq(Nat), selected_seed_index : Nat]
  /\ state_ids \in Seq(AllStates)
  /\ fuzzed_map_states \in Nat
  /\ fuzzed_map_qentries \in Nat
  /\ was_fuzzed_map \in [(0 .. fuzzed_map_states - 1)
                           \X (0 .. fuzzed_map_qentries - 1) -> {-1, 0, 1}]
  /\ target_state_id \in AllStates
  /\ selected_state_index \in Nat
  /\ state_cycles \in 0 .. 1
  /\ queue_cur \in Nat \cup {-1}

\* The table is as large as the lists that index it, so that no access with
\* get_state_index or with the index of an entry leaves it: one column per
\* queue entry, one row per element of state_ids, and row 0 from the first
\* entry on.  The sizes are counted up in three functions.
TableCovers ==
  /\ fuzzed_map_qentries = Len(queue)
  /\ fuzzed_map_states = IF queue = <<>> THEN 0
                         ELSE IF state_ids = <<>> THEN 1 ELSE Len(state_ids)

\* Every index into a list points into it: the next state and, for every state,
\* the next seed, although both lists grow between two uses.
IndexesPoint ==
  /\ \/ state_ids = <<>> /\ selected_state_index = 0
     \/ selected_state_index < Len(state_ids)
  /\ \A s \in DOMAIN khms_states :
       \/ khms_states[s].seeds = <<>> /\ khms_states[s].selected_seed_index = 0
       \/ khms_states[s].selected_seed_index < Len(khms_states[s].seeds)

\* State 0 owns row 0: the code marks it there without looking it up.
InitialStateFirst == state_ids # <<>> => state_ids[1] = 0

\* Graph, hashtable and list hold the same states, the list without repetition,
\* as long as no hash collision has hidden a state from the graph.
StatesAgree ==
  ~collided =>
  /\ Elements(state_ids) = DOMAIN khms_states
  /\ ipsm = DOMAIN khms_states
  /\ \A i, j \in DOMAIN state_ids : state_ids[i] = state_ids[j] => i = j

\* An entry is among the seeds of a state exactly if its cell of the table is
\* not "unreachable", and for a state other than 0 exactly if one of its
\* regions ends there; as long as no state is in the list twice.
SeedsMarked ==
  ~collided =>
  \A i \in DOMAIN state_ids : \A q \in 0 .. Len(queue) - 1 :
    LET seed == q \in Elements(khms_states[state_ids[i]].seeds)
    IN /\ seed <=> was_fuzzed_map[<<i - 1, q>>] # -1
       /\ state_ids[i] # 0 =>
            (seed <=> \E r \in Elements(queue[q + 1].regions) :
                        r.count > 0 /\ r.last = state_ids[i])

\* pending_not_fuzzed counts the entries that have not been fuzzed.
PendingExact ==
  pending_not_fuzzed = Cardinality({n \in DOMAIN queue : ~queue[n].was_fuzzed})

\* A seed selected for a state other than 0 is split behind a message after
\* which the server was in that state, and what is mutated is not empty.
SplitAtTarget ==
  LET regions == queue[queue_cur + 1].regions
  IN /\ pc = "split" /\ target_state_id # 0 =>
          regions[M2_start_region_ID(regions, target_state_id)].last = target_state_id
     /\ pc = "fuzz" => M2(regions, target_state_id) # {}

\* The inductive invariant.  Which entries and which selection there are in each
\* phase; an entry being fuzzed has something to mutate,
InLoop == {"state", "seed", "split", "fuzz", "fuzzed", "skipped"}

Phase ==
  /\ pc = "read" => Len(queue) < InitialSeeds /\ dry = 0 /\ state_ids = <<>>
  /\ pc # "read" => Len(queue) >= InitialSeeds
  /\ pc \in {"read", "dry_run"} => \A n \in DOMAIN queue : ~queue[n].was_fuzzed
  /\ pc \in InLoop => state_ids # <<>>
  /\ pc \in InLoop \ {"state"} => target_state_id \in DOMAIN khms_states
  /\ pc \in {"split", "fuzz"} =>
       /\ queue_cur + 1 \in DOMAIN queue
       /\ queue[queue_cur + 1].regions # <<>>
  /\ pc = "split" \/ (pc = "fuzz" /\ ~collided) =>
       queue_cur \in Elements(khms_states[target_state_id].seeds)
  /\ pc = "fuzz" => ~Skipped(queue[queue_cur + 1].regions, target_state_id)

\* state 0 comes with the first states and only then, and the hashtable has at
\* least the nodes of the graph and the states of all annotations,
StatesKnown ==
  /\ Elements(state_ids) = DOMAIN khms_states
  /\ ipsm \subseteq DOMAIN khms_states
  /\ state_ids = <<>> /\ pc # "no_initial_state" => khs_ipsm_paths = {}
  /\ state_ids # <<>> =>
       /\ 0 \in ipsm /\ state_ids[1] = 0
       /\ \A i \in DOMAIN state_ids : i > 1 => state_ids[i] # 0
  /\ pc # "no_initial_state" =>
       \A n \in DOMAIN queue : \A r \in Elements(queue[n].regions) :
         r.count > 0 => r.last \in DOMAIN khms_states

\* a seed of a state is an entry that was run and, but for state 0, reaches it,
\* and there are no marks before there are states.
SeedsKnown ==
  /\ \A s \in DOMAIN khms_states : \A q \in Elements(khms_states[s].seeds) :
       /\ q + 1 \in DOMAIN queue
       /\ pc = "dry_run" => q < dry
       /\ s # 0 => \E r \in Elements(queue[q + 1].regions) : r.count > 0 /\ r.last = s
  /\ state_ids = <<>> => \A c \in DOMAIN was_fuzzed_map : was_fuzzed_map[c] = -1

\* With these the consistency of the tables is kept by every step of the dry run,
\* the selection, update_state_aware_variables and abandon_entry.
IInv ==
  /\ TypeOK /\ Phase /\ StatesKnown /\ SeedsKnown
  /\ TableCovers /\ IndexesPoint /\ PendingExact /\ StatesAgree /\ SeedsMarked

\* Every seed of every state is tried for that state, unless the fuzzer stops.
SeedsTried ==
  \A s \in AllStates, q \in 0 .. MaxQueue - 1 :
    (pc # "dry_run" /\ s \in DOMAIN khms_states
       /\ q \in Elements(khms_states[s].seeds))
    ~> (pc = "stopped"
          \/ (pc = "split" /\ target_state_id = s /\ queue_cur = q))
=============================================================================
