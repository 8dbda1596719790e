----------------------------- MODULE KeyRegions -----------------------------
(***************************************************************************)
(* The key byte regions of the seeds: stretches of a seed that must not be *)
(* changed if the target code is to be reached.  They are found when a     *)
(* mutation gains or loses the target (find_key_bytes), inherited, kept in *)
(* a list sorted by start (insert_key_region), thinned out and merged when *)
(* there are too many (merge_key_regions), and fade with every use.        *)
(*                                                                         *)
(* A probability P is counted in reductions by P_REDUCE: region.fade = k   *)
(* stands for P = 0.9^k, and Floor for the least value 0.3.  gap_to_next   *)
(* of the last region is never read; it is 0 here.                         *)
(*                                                                         *)
(* Whether a test case reaches the target is asked twice: by the run that  *)
(* finds it (exec, kept in was_exec_target) and by the last of the runs    *)
(* that calibrate it (cal), which is what find_key_bytes reads in          *)
(* cur_testcase_exec_target.  The answers may differ.                      *)
(***************************************************************************)
EXTENDS Integers, Sequences

CONSTANTS
    MAX_KEY_REGIONS_COUNT,
    WeakAt,     \* fade from which P < 0.5; 7 in the code
    Floor,      \* fade at which P = 0.3; 12 in the code
    MaxSize,    \* bound on the size of a seed
    MaxQueue    \* bound on the length of the queue

ASSUME KeyRegionsAssumption ==
    /\ MAX_KEY_REGIONS_COUNT \in Nat \ {0}
    /\ WeakAt \in Nat \ {0} /\ Floor \in Nat /\ WeakAt <= Floor
    /\ MaxSize \in Nat \ {0} /\ MaxQueue \in Nat \ {0}

VARIABLES
    pc,              \* "freed": queue_cur has lost its first region, see below
    queue,           \* size, was_exec_target and key_regions of the seeds; slips,
                     \* for the properties only, tells how many of those that handed
                     \* the regions down, or this one, had a run that missed the
                     \* target and a calibration that reached it
    queue_cur,
    M2_start_byte    \* of fuzz_one; 0 outside

vars == <<pc, queue, queue_cur, M2_start_byte>>

Entry(size, exec, slips, regions) ==
    [size |-> size, was_exec_target |-> exec, slips |-> slips, key_regions |-> regions]

Init ==
    /\ pc = "select"
    /\ \E size \in 1 .. MaxSize, exec \in BOOLEAN : queue = <<Entry(size, exec, 0, <<>>)>>
    /\ queue_cur = 1
    /\ M2_start_byte = 0

-----------------------------------------------------------------------------
(* The list of a seed                                                       *)

\* How many regions stay in front of a new one.
Before(regions, start) ==
    IF regions = <<>> \/ start < regions[1].start THEN 0
    ELSE CHOOSE k \in DOMAIN regions :
            /\ \A i \in 2 .. k : start > regions[i].start
            /\ k = Len(regions) \/ start <= regions[k + 1].start

\* Mutant: a P below the least is kept.
Faded_on(fade) == fade

Faded(fade) == IF fade < Floor THEN fade ELSE Floor

insert_key_region(regions, start, end, fade) ==
    LET k == Before(regions, start)
        new == [start |-> start, end |-> end, fade |-> Faded(fade),
                gap |-> IF k < Len(regions) THEN regions[k + 1].start - end ELSE 0]
        front == SubSeq(regions, 1, k)
    IN  (IF k = 0 THEN <<>> ELSE [front EXCEPT ![k].gap = start - front[k].end])
            \o <<new>> \o SubSeq(regions, k + 1, Len(regions))

Weak(r) == r.fade >= WeakAt

\* The loop at region i.  A weak one behind the first goes, and the gap of the
\* last one kept reaches over it.
Thin(kept, regions, i) ==
    IF i > 1 /\ Weak(regions[i])
    THEN [kept EXCEPT ![Len(kept)].gap =
             IF i < Len(regions) THEN regions[i + 1].start - kept[Len(kept)].end ELSE 0]
    ELSE Append(kept, regions[i])

Thinned(regions) ==
    LET kept[i \in 0 .. Len(regions)] ==
            IF i = 0 THEN <<>> ELSE Thin(kept[i - 1], regions, i)
    IN  kept[Len(regions)]

\* The first region with the smallest gap to the next.
Closest(regions) ==
    CHOOSE i \in 1 .. Len(regions) - 1 :
        \A j \in 1 .. Len(regions) - 1 :
            \/ regions[i].gap < regions[j].gap
            \/ regions[i].gap = regions[j].gap /\ i <= j

\* Mutant: the first is deleted, not the second.
Joined_second(a, b) == [b EXCEPT !.fade = IF a.fade < @ THEN a.fade ELSE @]

\* Mutant: the gap stays that between the two.
Joined_gap(a, b) ==
    [a EXCEPT !.end = b.end, !.fade = IF b.fade < @ THEN b.fade ELSE @]

\* The higher P wins.  The end is that of the second, even where it lies within
\* the first.
Joined(a, b) ==
    [a EXCEPT !.end = b.end, !.gap = b.gap,
              !.fade = IF b.fade < @ THEN b.fade ELSE @]

JoinClosest(regions) ==
    LET i == Closest(regions)
    IN  SubSeq(regions, 1, i - 1) \o <<Joined(regions[i], regions[i + 1])>>
            \o SubSeq(regions, i + 2, Len(regions))

\* Mutant: one more than there may be.
TooMany_late(regions) == Len(regions) > MAX_KEY_REGIONS_COUNT + 1

TooMany(regions) == Len(regions) > MAX_KEY_REGIONS_COUNT

JoinOne(regions) == IF TooMany(regions) THEN JoinClosest(regions) ELSE regions

\* Each turn of the loop takes one region away.
Merged(regions) ==
    LET merged[i \in 0 .. Len(regions)] ==
            IF i = 0 THEN regions ELSE JoinOne(merged[i - 1])
    IN  merged[Len(regions)]

merge_key_regions(regions) ==
    Merged(IF TooMany(regions) THEN Thinned(regions) ELSE regions)

\* A weak first region is freed, but its successor is assigned to the list of
\* messages of the seed: key_regions still points to the region freed.
LosesHead(regions) == TooMany(regions) /\ Weak(regions[1])

-----------------------------------------------------------------------------
(* fuzz_one                                                                 *)

\* A seed and where its part M2 begins; it is taken to reach to the end.
Select ==
    /\ pc = "select"
    /\ queue_cur' \in DOMAIN queue
    /\ M2_start_byte' \in 0 .. queue[queue_cur'].size - 1
    /\ pc' = "fuzz"
    /\ UNCHANGED queue

InheritOne(regions, r) == insert_key_region(regions, r.start, r.end, r.fade + 1)

Inherit(parent) ==
    LET regions[i \in 0 .. Len(parent)] ==
            IF i = 0 THEN <<>> ELSE InheritOne(regions[i - 1], parent[i])
    IN  regions[Len(parent)]

\* The first byte that differs within the shorter buffer, 0 also if none does.
\* An interval once begun never ends there, as the byte is compared with a
\* pointer, so that there is one interval at most.
Found(regions, first, in_size, out_size) ==
    LET max_len == IF in_size > out_size THEN in_size ELSE out_size
        min_len == IF in_size > out_size THEN out_size ELSE in_size
        start == IF first > 0 THEN first ELSE min_len
    IN  IF start < max_len
        THEN insert_key_region(regions, start + M2_start_byte,
                               max_len - 1 + M2_start_byte, 0)
        ELSE regions

\* Mutant: the regions go to the new seed in both cases.
Gainer_top(cal, cur, top) == top

\* The seed the regions found go to: the new one if it seems to gain the target.
Gainer(cal, cur, top) == IF cal THEN top ELSE cur

Slips(parent, exec, cal) ==
    IF ~cal THEN 0 ELSE IF exec THEN parent.slips ELSE parent.slips + 1

\* A test case that a deterministic stage adds to the queue: common_fuzz_stuff,
\* the calibration and find_key_bytes.  One that is not added changes nothing.
find_key_bytes(first, out_size, exec, cal) ==
    LET cur == queue_cur
        top == Len(queue) + 1
        parent == queue[cur]
        in_size == parent.size - M2_start_byte
        inherited == IF cal THEN Inherit(parent.key_regions) ELSE <<>>
        added == Append(queue, Entry(M2_start_byte + out_size, exec,
                                     Slips(parent, exec, cal), inherited))
        found == [added EXCEPT ![Gainer(cal, cur, top)].key_regions =
                      Found(@, first, in_size, out_size)]
    IN  /\ pc = "fuzz"
        /\ Len(queue) < MaxQueue
        /\ M2_start_byte + out_size <= MaxSize
        /\ first < in_size /\ first < out_size
        /\ \/ /\ cal = parent.was_exec_target
              /\ queue' = added
              /\ pc' = "fuzz"
           \/ /\ cal # parent.was_exec_target
              /\ ~LosesHead(found[cur].key_regions)
              /\ queue' = [found EXCEPT ![cur].key_regions = merge_key_regions(@)]
              /\ pc' = "fuzz"
           \/ /\ cal # parent.was_exec_target
              /\ LosesHead(found[cur].key_regions)
              /\ queue' = found
              /\ pc' = "freed"
        /\ UNCHANGED <<queue_cur, M2_start_byte>>

\* One that the other stages add, or that comes from another fuzzer, has no regions.
add_to_queue(size, exec) ==
    /\ pc \in {"select", "fuzz"}
    /\ Len(queue) < MaxQueue
    /\ queue' = Append(queue, Entry(size, exec, 0, <<>>))
    /\ UNCHANGED <<pc, queue_cur, M2_start_byte>>

FadeAll(regions) == [i \in DOMAIN regions |-> [regions[i] EXCEPT !.fade = Faded(@ + 1)]]

\* The end of the key byte stage, which only a seed that reaches the target has.
Fade ==
    /\ pc = "fuzz"
    /\ queue[queue_cur].was_exec_target
    /\ queue' = [queue EXCEPT ![queue_cur].key_regions = FadeAll(@)]
    /\ pc' = "select"
    /\ M2_start_byte' = 0
    /\ UNCHANGED queue_cur

abandon_entry ==
    /\ pc = "fuzz"
    /\ pc' = "select"
    /\ M2_start_byte' = 0
    /\ UNCHANGED <<queue, queue_cur>>

Next ==
    \/ Select
    \/ \E first \in 0 .. MaxSize - 1, out_size \in 1 .. MaxSize, exec, cal \in BOOLEAN :
           find_key_bytes(first, out_size, exec, cal)
    \/ \E size \in 1 .. MaxSize, exec \in BOOLEAN : add_to_queue(size, exec)
    \/ Fade
    \/ abandon_entry

Spec == Init /\ [][Next]_vars

-----------------------------------------------------------------------------
Regions == [start : Nat, end : Nat, fade : 0 .. Floor, gap : Int]

\* Type invariant: regions lie at or behind byte 0, and no P is below its least.
TypeOK ==
    /\ pc \in {"select", "fuzz", "freed"}
    /\ queue \in Seq([size : 1 .. MaxSize, was_exec_target : BOOLEAN,
                      slips : Nat, key_regions : Seq(Regions)])
    /\ queue_cur \in DOMAIN queue
    /\ M2_start_byte \in 0 .. MaxSize - 1

\* Each list is sorted by start, as the key byte stage takes for granted, and the
\* gap kept with a region is that to the next, over insertions in front of it and
\* behind it, deletions and merges: the merge goes by it.
GapsExact ==
    \A q \in DOMAIN queue :
        LET regions == queue[q].key_regions
        IN  \A i \in 1 .. Len(regions) - 1 :
                /\ regions[i].start <= regions[i + 1].start
                /\ regions[i].gap = regions[i + 1].start - regions[i].end

\* Only the seed being fuzzed is merged, while the new one inherits and may gain a
\* region: still no seed has too many, beyond one for every time the regions were
\* handed on by a seed whose calibration contradicted its run.
Bounded ==
    pc # "freed" =>
        \A q \in DOMAIN queue :
            Len(queue[q].key_regions) <= MAX_KEY_REGIONS_COUNT + queue[q].slips

\* "Only if the target has been executed are there key byte regions": the run that
\* found the seed reached the target, or its calibration did.
RegionsOfTarget ==
    \A q \in DOMAIN queue :
        queue[q].key_regions # <<>> => queue[q].was_exec_target \/ queue[q].slips > 0

Covers(regions, b) == \E i \in DOMAIN regions : regions[i].start <= b /\ b <= regions[i].end

\* Where a region that is not weak began there is a region ever after, until it
\* has become weak.
StartsKept ==
    [][pc' # "freed" =>
        \A q \in DOMAIN queue : \A i \in DOMAIN queue[q].key_regions :
            ~Weak(queue[q].key_regions[i]) =>
                Covers(queue'[q].key_regions, queue[q].key_regions[i].start)]_vars

-----------------------------------------------------------------------------
\* No region is turned round: it ends where it starts, or behind.  What a merge
\* keeps of a region begins where it begins, so this is what covers it.
StartsBeforeEnds ==
    \A q \in DOMAIN queue : \A i \in DOMAIN queue[q].key_regions :
        queue[q].key_regions[i].start <= queue[q].key_regions[i].end

\* The regions a seed may have.  One that missed the target has room for one less
\* than it may hand on, as those it hands them to gain one.
Room(e) ==
    IF e.was_exec_target THEN MAX_KEY_REGIONS_COUNT + e.slips
    ELSE IF e.slips = 0 THEN 0 ELSE MAX_KEY_REGIONS_COUNT + e.slips - 1

ListsFit ==
    pc # "freed" => \A q \in DOMAIN queue : Len(queue[q].key_regions) <= Room(queue[q])

\* The inductive invariant.
IInv == TypeOK /\ GapsExact /\ Bounded /\ RegionsOfTarget /\ StartsBeforeEnds /\ ListsFit
=============================================================================
