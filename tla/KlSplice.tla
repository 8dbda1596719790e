------------------------------ MODULE KlSplice ------------------------------
(***************************************************************************)
(* The message list of the seed being fuzzed: klist.h with its pool of     *)
(* cells, the boundaries M2_prev and M2_next set by fuzz_one, the splice   *)
(* in common_fuzz_stuff, and what save_if_interesting makes of the list.   *)
(*                                                                         *)
(* A list ends in a sentinel cell without data (tail): a push fills it and *)
(* allocates another one.  Bytes come in pieces, a message is a sequence   *)
(* of pieces, and a region of the mutated buffer is a message.             *)
(***************************************************************************)
EXTENDS Integers, Sequences, SequencesExt, FiniteSets

CONSTANTS
    Seeds,        \* the initial test cases, each a sequence of messages
    Mutated,      \* mutated buffers as extract_requests cuts them
    NCells,       \* bound on the cells
    MaxEntries,   \* bound on the length of the queue
    MaxStages     \* bound on the test cases made from a seed at a time

Pieces == UNION {UNION {ToSet(m) : m \in ToSet(s)} : s \in Seeds \cup Mutated}
Message == Seq(Pieces) \ {<<>>}

\* No test case is empty, and no message is.
ASSUME KlAssumption ==
    /\ Seeds # {} /\ IsFiniteSet(Seeds)
    /\ Seeds \cup Mutated \subseteq Seq(Message) \ {<<>>}
    /\ NCells \in Nat /\ MaxEntries \in Nat /\ MaxStages \in Nat

NULL == 0
Cell == 1 .. NCells

\* Set by add_to_queue while the initial test cases are read.
max_seed_region_count ==
    CHOOSE n \in {Len(s) : s \in Seeds} : \A s \in Seeds : Len(s) <= n

VARIABLES
    pc,
    next, data,         \* the cells
    head, tail, size,   \* kl_messages
    pool,               \* kl_messages->mp: cells to be used again, last first
    cells,              \* number of cells allocated
    M2_prev, M2_next,
    prev_last_message,
    todo,               \* messages of the mutated buffer still to be pushed
    cur_it,             \* the loop that frees the old M2
    stage_cur,          \* test cases made so far
    entries             \* the queue: file contents and region lengths

heap == <<next, data, head, tail, size, pool, cells>>
marks == <<M2_prev, M2_next>>
vars == <<pc, heap, marks, prev_last_message, todo, cur_it, stage_cur, entries>>

Lengths(msgs) == [i \in DOMAIN msgs |-> Len(msgs[i])]
Entry(msgs) == [file |-> FlattenSeq(msgs), lens |-> Lengths(msgs)]

NoList ==
    /\ next' = [c \in Cell |-> NULL] /\ data' = [c \in Cell |-> <<>>]
    /\ head' = NULL /\ tail' = NULL /\ size' = 0 /\ pool' = <<>> /\ cells' = 0
    /\ M2_prev' = NULL /\ M2_next' = NULL
    /\ prev_last_message' = NULL /\ cur_it' = NULL /\ todo' = <<>>

Init ==
    /\ pc = "select"
    /\ next = [c \in Cell |-> NULL] /\ data = [c \in Cell |-> <<>>]
    /\ head = NULL /\ tail = NULL /\ size = 0 /\ pool = <<>> /\ cells = 0
    /\ M2_prev = NULL /\ M2_next = NULL
    /\ prev_last_message = NULL /\ cur_it = NULL /\ todo = <<>> /\ stage_cur = 0
    /\ \E s \in Seeds : entries = <<Entry(s)>>

-----------------------------------------------------------------------------
(* Walking a list                                                           *)

\* The cells from a on, up to b or the end; more than NCells if they go round.
Path(a, b) ==
    LET step == [c \in Cell \cup {NULL} |-> IF c \in {b, NULL} THEN c ELSE next[c]]
        at[n \in 0 .. NCells] == IF n = 0 THEN a ELSE step[at[n - 1]]
        passed == {n \in 0 .. NCells : at[n] \notin {b, NULL}}
    IN  [i \in 1 .. Cardinality(passed) |-> at[i - 1]]

Messages(path) == [k \in DOMAIN path |-> data[path[k]]]

\* The cell before the sentinel.
get_last_message == Last(Path(head, tail))

-----------------------------------------------------------------------------
(* fuzz_one                                                                 *)

Bytes(lens) ==
    LET sum[n \in 0 .. Len(lens)] == IF n = 0 THEN 0 ELSE sum[n - 1] + lens[n]
    IN  sum[Len(lens)]

\* construct_kl_messages: the file is read from its start, region by region.
Cut(e) ==
    [i \in DOMAIN e.lens |->
        LET from == Bytes(SubSeq(e.lens, 1, i - 1))
        IN  SubSeq(e.file, from + 1, from + e.lens[i])]

\* Regions count from 1 here; the sentinel is cell n + 1.
NextOf(start, count, n) == start + count

\* An entry without regions is not selected (main).  Allocation has a bound here.
fuzz_one(e, start, count) ==
    LET msgs == Cut(e)
        n == Len(msgs)
    IN  /\ pc = "select"
        /\ n > 0
        /\ n < NCells
        /\ next' = [c \in Cell |-> IF c <= n THEN c + 1 ELSE NULL]
        /\ data' = [c \in Cell |-> IF c <= n THEN msgs[c] ELSE <<>>]
        /\ head' = 1 /\ tail' = n + 1 /\ size' = n /\ pool' = <<>> /\ cells' = n + 1
        /\ M2_prev' = start - 1
        /\ M2_next' = NextOf(start, count, n)
        /\ stage_cur' = 0
        /\ pc' = "mutate"
        /\ UNCHANGED <<prev_last_message, todo, cur_it, entries>>

\* abandon_entry: delete_kl_messages.
abandon_entry ==
    /\ pc \in {"mutate", "sent"}
    /\ NoList
    /\ stage_cur' = 0
    /\ pc' = "select"
    /\ UNCHANGED entries

-----------------------------------------------------------------------------
(* common_fuzz_stuff                                                        *)

\* All regions from number max_seed_region_count on (from 0) are one message.
\* Mutant: the last message is only the region itself.
Limited_lost(regions) ==
    IF Len(regions) <= max_seed_region_count THEN regions
    ELSE SubSeq(regions, 1, max_seed_region_count + 1)

Limited(regions) ==
    IF Len(regions) <= max_seed_region_count THEN regions
    ELSE Append(SubSeq(regions, 1, max_seed_region_count),
                FlattenSeq(SubSeq(regions, max_seed_region_count + 1, Len(regions))))

common_fuzz_stuff(regions) ==
    /\ pc = "mutate"
    /\ stage_cur < MaxStages
    /\ stage_cur' = stage_cur + 1
    /\ prev_last_message' = get_last_message
    /\ todo' = Limited(regions)
    /\ pc' = "push"
    /\ UNCHANGED <<heap, marks, cur_it, entries>>

\* M2_next follows the sentinel if it was the sentinel.
Moved(new) ==
    IF (IF M2_next = tail THEN new ELSE next[M2_next]) = new THEN new ELSE M2_next

\* kl_pushp: the sentinel takes the message, a cell from the pool or a new one
\* is the next sentinel.
Push ==
    LET new == IF pool # <<>> THEN Last(pool) ELSE cells + 1
    IN  /\ pc = "push"
        /\ todo # <<>>
        /\ new \in Cell
        /\ pool' = IF pool # <<>> THEN Front(pool) ELSE pool
        /\ cells' = IF pool # <<>> THEN cells ELSE cells + 1
        /\ next' = [next EXCEPT ![new] = NULL, ![tail] = new]
        /\ data' = [data EXCEPT ![tail] = Head(todo)]
        /\ tail' = new
        /\ size' = size + 1
        /\ M2_next' = Moved(new)
        /\ todo' = Tail(todo)
        /\ UNCHANGED <<pc, head, M2_prev, prev_last_message, cur_it, stage_cur, entries>>

\* The new messages take the place of M2, the end of the list goes back to where
\* the pushing began.
Linked(cur_last, first) ==
    LET m == IF M2_prev = NULL THEN next ELSE [next EXCEPT ![M2_prev] = first]
        n == [m EXCEPT ![cur_last] = M2_next]
    IN  [n EXCEPT ![prev_last_message] = tail]

Splice ==
    LET first == next[prev_last_message]
    IN  /\ pc = "push"
        /\ todo = <<>>
        /\ next' = Linked(get_last_message, first)
        /\ head' = IF M2_prev = NULL THEN first ELSE head
        /\ cur_it' = IF M2_prev = NULL THEN head ELSE next[M2_prev]
        /\ pc' = "free"
        /\ UNCHANGED <<data, tail, size, pool, cells, marks, prev_last_message,
                       todo, stage_cur, entries>>

\* The loop has read where to go on before it gives a cell to kmp_free.
\* Mutant: the cell is not given back.
Freed_not(c) == pool

\* Mutant: the cell is given back twice.
Freed_twice(c) == pool \o <<c, c>>

Freed(c) == Append(pool, c)

FreeCell ==
    /\ pc = "free"
    /\ pool' = Freed(cur_it)
    /\ data' = [data EXCEPT ![cur_it] = <<>>]
    /\ next' = [next EXCEPT ![cur_it] = NULL]
    /\ size' = size - 1
    /\ cur_it' = next[cur_it]
    /\ pc' = IF next[cur_it] = M2_next THEN "sent" ELSE "free"
    /\ UNCHANGED <<head, tail, cells, marks, prev_last_message, todo,
                   stage_cur, entries>>

\* add_to_queue: regions for the messages sent.
\* Mutant: one region more.
convert_kl_messages_to_regions_more(msgs, messages_sent) ==
    Lengths(SubSeq(msgs, 1, IF messages_sent < Len(msgs) THEN messages_sent + 1
                            ELSE messages_sent))

convert_kl_messages_to_regions(msgs, messages_sent) ==
    Lengths(SubSeq(msgs, 1, messages_sent))

save_kl_messages_to_file(msgs, messages_sent) ==
    FlattenSeq(SubSeq(msgs, 1, messages_sent))

\* run_target sends some of the messages, save_if_interesting keeps them or not.
run_target(messages_sent, keep) ==
    LET msgs == Messages(Path(head, tail))
    IN  /\ pc = "sent"
        /\ messages_sent <= Len(msgs)
        /\ \/ /\ keep
              /\ Len(entries) < MaxEntries
              /\ entries' = Append(entries,
                     [file |-> save_kl_messages_to_file(msgs, messages_sent),
                      lens |-> convert_kl_messages_to_regions(msgs, messages_sent)])
           \/ ~keep /\ UNCHANGED entries
        /\ pc' = "mutate"
        /\ UNCHANGED <<heap, marks, prev_last_message, cur_it, todo, stage_cur>>

-----------------------------------------------------------------------------
Next ==
    \/ \E e \in 1 .. Len(entries) : \E start \in DOMAIN entries[e].lens :
           \E count \in 1 .. Len(entries[e].lens) - start + 1 :
               fuzz_one(entries[e], start, count)
    \/ \E regions \in Mutated : common_fuzz_stuff(regions)
    \/ Push
    \/ Splice
    \/ FreeCell
    \/ \E n \in 0 .. size, keep \in BOOLEAN : run_target(n, keep)
    \/ abandon_entry

Spec == Init /\ [][Next]_vars

-----------------------------------------------------------------------------
\* Type invariant: what the list and the pool hold are cells that were allocated,
\* and the pool holds none twice.
TypeOK ==
    /\ pc \in {"select", "mutate", "push", "free", "sent"}
    /\ next \in [Cell -> Cell \cup {NULL}]
    /\ data \in [Cell -> Seq(Pieces)]
    /\ {head, tail, M2_prev, M2_next, prev_last_message, cur_it} \subseteq Cell \cup {NULL}
    /\ pool \in Seq(1 .. cells) /\ IsInjective(pool)
    /\ cells \in 0 .. NCells
    /\ size \in Nat /\ stage_cur \in Nat
    /\ todo \in Seq(Message)
    /\ entries \in Seq([file : Seq(Pieces), lens : Seq(Nat)])

Ready == pc \in {"mutate", "sent"}

\* Between two test cases each cell is in one place: in the list, its sentinel,
\* or in the pool.  So none is lost, and none is freed that is still in use,
\* and kl_messages->size is the number of messages, after pushing, splicing and
\* freeing.
CellsPartition ==
    Ready => LET list == Path(head, tail)
             IN  /\ ToSet(list) \cup {tail} \cup ToSet(pool) = 1 .. cells
                 /\ Len(list) + 1 + Len(pool) = cells
                 /\ size = Len(list)

\* The regions of an entry are those of its file: they add up to it and none is
\* empty, so that cutting it again gives the messages that were sent, however
\* often it has been mutated and saved.
RegionsFitFile ==
    \A e \in DOMAIN entries :
        /\ Bytes(entries[e].lens) = Len(entries[e].file)
        /\ \A i \in DOMAIN entries[e].lens : entries[e].lens[i] > 0

\* The list implements MessageList.  While messages are pushed they are not yet
\* part of it: it ends where the pushing began.
End == IF pc = "push" THEN next[prev_last_message] ELSE tail
Start2 == IF M2_prev = NULL THEN head ELSE next[M2_prev]
Start3 == IF M2_next = tail THEN End ELSE M2_next
ML == INSTANCE MessageList WITH
        Buffers <- {FlattenSeq(m) : m \in Mutated},
        Limit <- max_seed_region_count + 1,
        M1 <- Messages(Path(head, Start2)),
        M2 <- Messages(Path(Start2, Start3)),
        M3 <- Messages(Path(Start3, End))
\* Pushing, splicing and freeing, a cell at a time, replace M2 in one step and
\* leave M1 and M3 alone.
ListSpec == ML!Spec

-----------------------------------------------------------------------------
(* The inductive invariant                                                  *)

\* Before a seed is selected there is no list.
NoCells ==
    /\ {head, tail, M2_prev, M2_next} = {NULL}
    /\ size = 0 /\ pool = <<>> /\ cells = 0 /\ todo = <<>>

\* The list, its sentinel included, is the sequence list of different cells.
Listed(list) ==
    /\ list \in Seq(1 .. cells) /\ Len(list) > 1
    /\ IsInjective(list)
    /\ head = list[1] /\ tail = Last(list)
    /\ \A i \in 1 .. Len(list) - 1 : next[list[i]] = list[i + 1] /\ data[list[i]] # <<>>

\* The first p of its messages are M1, those up to q are M2, those up to r are
\* M3, and what follows is being pushed.
Marked(list, p, q, r) ==
    /\ p \in Nat /\ q \in Nat /\ r \in Nat
    /\ p < q /\ q <= r /\ r < Len(list)
    /\ M2_prev = IF p = 0 THEN NULL ELSE list[p]
    /\ M2_next = IF q = r THEN tail ELSE list[q + 1]
    /\ pc = "push" => prev_last_message = list[r]
    /\ pc # "push" => r = Len(list) - 1

\* What remains of the old M2 while it is freed.
Loose(old) ==
    /\ old \in Seq(1 .. cells)
    /\ IsInjective(old)
    /\ pc = "free" => old # <<>> /\ cur_it = old[1] /\ next[Last(old)] = M2_next
    /\ pc # "free" => old = <<>>
    /\ \A i \in 1 .. Len(old) - 1 : next[old[i]] = old[i + 1]

\* Each cell is in one place, and counted.
Counted(list, old) ==
    /\ ToSet(list) \cap ToSet(old) = {}
    /\ ToSet(pool) \cap (ToSet(list) \cup ToSet(old)) = {}
    /\ 1 .. cells \subseteq ToSet(list) \cup ToSet(old) \cup ToSet(pool)
    /\ Len(list) + Len(old) + Len(pool) = cells
    /\ size = Len(list) - 1 + Len(old)

\* What was pushed and what is still to be pushed is a mutated buffer.
Pushing(list, r) ==
    IF pc = "push"
    THEN \E m \in Mutated : Messages(SubSeq(list, r + 1, Len(list) - 1)) \o todo = Limited(m)
    ELSE todo = <<>>

\* Cutting the file of an entry gives messages whose file and regions it has.
Kept ==
    \A e \in DOMAIN entries :
        Cut(entries[e]) \in Seq(Message) /\ entries[e] = Entry(Cut(entries[e]))

Linking(list, p, q, r, old) ==
    /\ Listed(list) /\ Marked(list, p, q, r) /\ Loose(old)
    /\ Counted(list, old) /\ Pushing(list, r)

IInv ==
    /\ TypeOK /\ Kept
    /\ IF pc = "select" THEN NoCells
       ELSE Linking(Append(Path(head, tail), tail), Len(Path(head, Start2)),
                    Len(Path(head, Start3)), Len(Path(head, End)),
                    IF pc = "free" THEN Path(cur_it, M2_next) ELSE <<>>)
=============================================================================
