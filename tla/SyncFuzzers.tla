---------------------------- MODULE SyncFuzzers ----------------------------
(***************************************************************************)
(* Several fuzzers working in one synchronisation directory                *)
(* (sync_fuzzers, and what it meets in the queue/ directories of the       *)
(* others: save_if_interesting, which creates a file and then writes it,   *)
(* and an in-place resume, which moves queue/ to _resume/, fills a new     *)
(* queue/ from it and deletes it).                                         *)
(*                                                                         *)
(* A test case is the set of map bits its run covers.  File id_n of a      *)
(* queue is at position n + 1, so that min_accept = n means that the files *)
(* up to position n have been dealt with.  As a resume may give a case     *)
(* another number, each case has a serial number that stays; a position    *)
(* and a serial number stand for a file name.                              *)
(***************************************************************************)
EXTENDS Integers, Sequences, FiniteSets

CONSTANTS
    Fuzzer,       \* the fuzzers, one output directory each
    Cases,        \* what test cases may cover
    FirstBits,    \* what the initial test case covers
    MaxCrashes,   \* bound on the number of crashes of each fuzzer
    MaxAtWork,    \* a fuzzer that has crashed so often dies in a resume at most
    MaxSaved,     \* a fuzzer that has saved so many cases finds no more by itself
    Flaky,        \* the cases whose run may time out or crash when a fuzzer repeats it
    Mute          \* the cases whose run may end before a message is sent

ASSUME SyncAssumption ==
    /\ FirstBits \in Cases
    /\ FirstBits # {}
    /\ MaxCrashes \in [Fuzzer -> Nat]
    /\ MaxAtWork \in [Fuzzer -> Nat]
    /\ MaxSaved \in [Fuzzer -> Nat]
    /\ Flaky \in [Fuzzer -> SUBSET Cases]
    /\ Mute \in [Fuzzer -> SUBSET Cases]

VARIABLES
    pc,           \* where the main loop of each fuzzer stands
    queue,        \* the files of queue/, by position
    resume,       \* the files of _resume/, by position
    made,         \* cases saved so far: the last serial number
    top,          \* the highest position a case of queue/ ever had
    seen,         \* complement of virgin_bits
    mark,         \* the files .synced/<other>: min_accept
    dirs,         \* entries of the sync directory still to be visited
    party,        \* syncing_party: the directory being read
    listed,       \* how many names it had when it was opened
    moved,        \* has it been renamed or removed since?
    old,          \* the names it had then, as serial numbers by position
    returned,     \* names readdir has returned, as serial numbers
    next_min,     \* next_min_accept
    crashes,
    excused,      \* history: cases passed over, each for a known reason
    lost          \* history: bits of the own cases that left no contents

scanVars == <<dirs, party, listed, moved, old, returned, next_min>>
histVars == <<crashes, excused, lost>>
vars == <<pc, queue, resume, made, top, seen, mark, scanVars, histVars>>

Others(f) == Fuzzer \ {f}
Bits == UNION Cases

\* run tells how the case came into the queue of this session: found or imported,
\* or run by perform_dry_run, or passed over there because its run failed.
File == [serial : Nat, bits : Cases, written : BOOLEAN,
         run : {"kept", "dry", "failed"}]

NoFiles == <<>>
Whole(q) == {i \in DOMAIN q : q[i].written}
BitsAt(q, S) == UNION {q[i].bits : i \in S}

FirstFile == [serial |-> 1, bits |-> FirstBits, written |-> TRUE, run |-> "dry"]

Init ==
    /\ pc = [f \in Fuzzer |-> "fuzz"]
    /\ queue = [f \in Fuzzer |-> <<FirstFile>>]
    /\ resume = [f \in Fuzzer |-> NoFiles]
    /\ made = [f \in Fuzzer |-> 1]
    /\ top = [f \in Fuzzer |-> 1]
    /\ seen = [f \in Fuzzer |-> FirstBits]
    /\ mark = [f \in Fuzzer |-> [g \in Fuzzer |-> 0]]
    /\ dirs = [f \in Fuzzer |-> {}]
    /\ party = [f \in Fuzzer |-> f]
    /\ listed = [f \in Fuzzer |-> 0]
    /\ moved = [f \in Fuzzer |-> FALSE]
    /\ old = [f \in Fuzzer |-> <<>>]
    /\ returned = [f \in Fuzzer |-> {}]
    /\ next_min = [f \in Fuzzer |-> 0]
    /\ crashes = [f \in Fuzzer |-> 0]
    /\ excused = [f \in Fuzzer |-> [g \in Fuzzer |-> {}]]
    /\ lost = [f \in Fuzzer |-> {}]

-----------------------------------------------------------------------------
(* save_if_interesting: has_new_bits tells whether the case is kept; its    *)
(* file appears empty and is written in a step of its own.                  *)

\* Mutant: a case is kept whatever it covers.
Interesting_always(f, B) == TRUE

Interesting(f, B) == ~(B \subseteq seen[f])

\* Case x of f is given position n.  Whoever has a mark at n or beyond will never
\* look at it.
Overlooked(f, n, x) ==
    excused' = [g \in Fuzzer |-> [excused[g] EXCEPT ![f] =
                   IF n <= mark[g][f] THEN @ \cup {x} ELSE @]]

\* The new file gets the next number.  After a resume that lost cases it may be a
\* number that was in use before.
Keep(f, B) ==
    LET n == Len(queue[f]) + 1
        x == made[f] + 1
    IN  /\ seen' = [seen EXCEPT ![f] = @ \cup B]
        /\ queue' = [queue EXCEPT ![f] =
              Append(@, [serial |-> x, bits |-> B, written |-> FALSE, run |-> "kept"])]
        /\ made' = [made EXCEPT ![f] = x]
        /\ top' = [top EXCEPT ![f] = IF n > @ THEN n ELSE @]
        /\ IF n <= top[f] THEN Overlooked(f, n, x) ELSE UNCHANGED excused

\* fuzz_one finds a case that covers something new.
Discover(f, B) ==
    /\ pc[f] = "fuzz"
    /\ made[f] < MaxSaved[f]
    /\ Interesting(f, B)
    /\ Keep(f, B)
    /\ pc' = [pc EXCEPT ![f] = "save"]
    /\ UNCHANGED <<resume, mark, scanVars, crashes, lost>>

\* The file just created gets the messages sent, if there are any; back to
\* fuzz_one or to the scan.
Write(f) ==
    LET n == Len(queue[f])
        B == queue[f][n].bits
    IN  /\ pc[f] \in {"save", "import"}
        /\ \/ /\ queue' = [queue EXCEPT ![f][n].written = TRUE]
              /\ UNCHANGED lost
           \/ /\ B \in Mute[f]
              /\ lost' = [lost EXCEPT ![f] = @ \cup B]
              /\ UNCHANGED queue
        /\ pc' = [pc EXCEPT ![f] = IF @ = "save" THEN "fuzz" ELSE "read"]
        /\ UNCHANGED <<resume, made, top, seen, mark, scanVars, crashes, excused>>

-----------------------------------------------------------------------------
(* sync_fuzzers                                                             *)

\* The next directory, or back to the main loop after the last.
NextDir(D) == IF D = {} THEN "fuzz" ELSE "scan"

BeginSync(f) ==
    /\ pc[f] = "fuzz"
    /\ dirs' = [dirs EXCEPT ![f] = Others(f)]
    /\ pc' = [pc EXCEPT ![f] = NextDir(Others(f))]
    /\ UNCHANGED <<queue, resume, made, top, seen, mark, party, listed, moved, old,
                   returned, next_min, histVars>>

\* Opening queue/ of another fuzzer and reading the mark kept for it.  While
\* that fuzzer resumes, there may be no such directory: nothing is done.
OpenQueue(f, g) ==
    /\ pc[f] = "scan"
    /\ g \in dirs[f]
    /\ dirs' = [dirs EXCEPT ![f] = @ \ {g}]
    /\ \/ /\ pc[g] = "pivot" /\ queue[g] = NoFiles
          /\ pc' = [pc EXCEPT ![f] = NextDir(dirs[f] \ {g})]
          /\ UNCHANGED <<party, listed, next_min>>
       \/ /\ party' = [party EXCEPT ![f] = g]
          /\ listed' = [listed EXCEPT ![f] = Len(queue[g])]
          /\ next_min' = [next_min EXCEPT ![f] = mark[f][g]]
          /\ pc' = [pc EXCEPT ![f] = "read"]
    /\ UNCHANGED <<queue, resume, made, top, seen, mark, moved, old, returned, histVars>>

\* The locals of the loop over one directory go out of scope.
CloseQueue(f) ==
    /\ party' = [party EXCEPT ![f] = f]
    /\ listed' = [listed EXCEPT ![f] = 0]
    /\ moved' = [moved EXCEPT ![f] = FALSE]
    /\ old' = [old EXCEPT ![f] = <<>>]
    /\ returned' = [returned EXCEPT ![f] = {}]
    /\ next_min' = [next_min EXCEPT ![f] = 0]

Serials(q) == [i \in DOMAIN q |-> q[i].serial]

\* The directory being read, and the positions of the names the loop may still come
\* to: those not below the mark, created since the directory was opened or before.
Directory(f) == IF moved[f] THEN old[f] ELSE Serials(queue[party[f]])

\* Mutant: the first new file is taken for an old one.
Accepted_next(f, i) == i > mark[f][party[f]] + 1

Accepted(f, i) == i > mark[f][party[f]]

Names(f) ==
    {i \in DOMAIN Directory(f) : Accepted(f, i) /\ Directory(f)[i] \notin returned[f]}

\* Is there still a file of that name under queue/, and has it contents?
Readable(f, i) ==
    LET q == queue[party[f]]
    IN  i \in Whole(q) /\ q[i].serial = Directory(f)[i]

Excuse(f, X) == excused' = [excused EXCEPT ![f][party[f]] = @ \cup X]

\* One entry of the directory.  The mark moves before the file is opened.

\* Mutant: the mark moves two files ahead.
Ahead_two(f, i) ==
    next_min' = [next_min EXCEPT ![f] = IF i > @ THEN i + 1 ELSE @]

Ahead(f, i) ==
    next_min' = [next_min EXCEPT ![f] = IF i > @ THEN i ELSE @]

\* open fails, or the file is empty.
SkipUnreadable(f, i) ==
    /\ ~Readable(f, i)
    /\ Ahead(f, i)
    /\ Excuse(f, {Directory(f)[i]})
    /\ UNCHANGED <<pc, queue, made, top, seen>>

\* The run times out or crashes: the case is not added to the queue.
RunFails(f, i) ==
    /\ Readable(f, i)
    /\ queue[party[f]][i].bits \in Flaky[f]
    /\ Ahead(f, i)
    /\ Excuse(f, {Directory(f)[i]})
    /\ UNCHANGED <<pc, queue, made, top, seen>>

RunImport(f, i) ==
    LET B == queue[party[f]][i].bits
    IN  /\ Readable(f, i)
        /\ Ahead(f, i)
        /\ \/ /\ Interesting(f, B)
              /\ Keep(f, B)
              /\ pc' = [pc EXCEPT ![f] = "import"]
           \/ /\ ~Interesting(f, B)
              /\ UNCHANGED <<pc, queue, made, top, seen, excused>>

ReadEntry(f, i) ==
    /\ pc[f] = "read"
    /\ i \in Names(f)
    /\ returned' = [returned EXCEPT ![f] = @ \cup {Directory(f)[i]}]
    /\ SkipUnreadable(f, i) \/ RunFails(f, i) \/ RunImport(f, i)
    /\ UNCHANGED <<resume, mark, dirs, party, listed, moved, old, crashes, lost>>

NewMark(f) ==
    mark' = [mark EXCEPT ![f][party[f]] = next_min[f]]

\* Has every entry been returned that was there when the directory was opened?
\* Entries created later may be missed, and all of them once the directory is
\* being emptied under its new name or has been removed.
Exhausted(f) == moved[f] \/ \A i \in Names(f) : i > listed[f]

\* Cases the new mark passes that readdir did not return: their file appeared
\* behind its back, or is in a directory that was moved away or is not read.
Passed(f, i) == mark[f][party[f]] < i /\ i <= next_min[f]

Missed(f) ==
    LET g == party[f]
    IN  {queue[g][i].serial : i \in {j \in DOMAIN queue[g] :
            Passed(f, j) /\ (moved[f] \/ j > listed[f])}}
        \cup {resume[g][i].serial : i \in {j \in DOMAIN resume[g] : Passed(f, j)}}

\* The end of the directory: the mark is written.
EndQueue(f) ==
    /\ pc[f] = "read"
    /\ Exhausted(f)
    /\ NewMark(f)
    /\ Excuse(f, Missed(f) \ returned[f])
    /\ CloseQueue(f)
    /\ pc' = [pc EXCEPT ![f] = NextDir(dirs[f])]
    /\ UNCHANGED <<queue, resume, made, top, seen, dirs, crashes, lost>>

-----------------------------------------------------------------------------
(* A fuzzer dies at any point, or is stopped: sync_fuzzers then returns     *)
(* without writing the mark.  It is resumed in place later.                 *)

\* The cases of _resume/ still to be linked into queue/.
Unlinked(f) ==
    {i \in Whole(resume[f]) :
        \A j \in DOMAIN queue[f] : queue[f][j].serial # resume[f][i].serial}

\* nuke_resume_dir deletes the files of _resume/ one by one, in any order, once all
\* are linked.  A crash leaves some.
Left(f) ==
    IF pc[f] = "pivot" /\ queue[f] # NoFiles /\ Unlinked(f) = {}
    THEN SUBSET DOMAIN resume[f]
    ELSE {DOMAIN resume[f]}

\* The next session takes them for the queue and deletes the complete one.
LostBits(f, S) ==
    IF S = {} THEN {} ELSE BitsAt(resume[f], Whole(resume[f]) \ S)

Crash(f) ==
    /\ pc[f] # "down"
    /\ crashes[f] < MaxCrashes[f]
    /\ pc[f] \notin {"pivot", "dry"} => crashes[f] < MaxAtWork[f]
    /\ crashes' = [crashes EXCEPT ![f] = @ + 1]
    /\ \E S \in Left(f) :
          /\ resume' = [resume EXCEPT ![f] = [i \in S |-> @[i]]]
          /\ lost' = [lost EXCEPT ![f] = @ \cup LostBits(f, S)]
    /\ CloseQueue(f)
    /\ dirs' = [dirs EXCEPT ![f] = {}]
    /\ seen' = [seen EXCEPT ![f] = {}]
    /\ pc' = [pc EXCEPT ![f] = "down"]
    /\ UNCHANGED <<queue, made, top, mark, excused>>

\* Has g the queue/ of f open?
Reading(g) == pc[g] \in {"read", "import"}
Reads(g, f) == Reading(g) /\ party[g] = f

\* maybe_delete_out_dir renames queue/ to _resume/, which fails if there is one that
\* is not empty; what is left of queue/ is deleted.  The marks are kept.
MoveQueue(f) ==
    /\ pc[f] = "down"
    /\ resume' = [resume EXCEPT ![f] = IF DOMAIN @ = {} THEN queue[f] ELSE @]
    /\ queue' = [queue EXCEPT ![f] = NoFiles]
    /\ moved' = [g \in Fuzzer |-> moved[g] \/ Reads(g, f)]
    /\ old' = [g \in Fuzzer |-> IF Reads(g, f) /\ ~moved[g]
                                THEN Serials(queue[f]) ELSE old[g]]
    /\ pc' = [pc EXCEPT ![f] = "pivot"]
    /\ UNCHANGED <<made, top, seen, mark, dirs, party, listed, returned, next_min, histVars>>

\* read_testcases takes the files in the order of their names and skips an empty
\* one, and pivot_inputs links them back one by one under the next number.  A case
\* that moves below the mark of another fuzzer will not be looked at by it.
PivotInput(f, i) ==
    LET n == Len(queue[f]) + 1
        x == resume[f][i].serial
    IN  /\ pc[f] = "pivot"
        /\ i \in Unlinked(f)
        /\ \A j \in Unlinked(f) : i <= j
        /\ queue' = [queue EXCEPT ![f] = Append(@, [resume[f][i] EXCEPT !.run = "dry"])]
        /\ excused' = [g \in Fuzzer |-> [excused[g] EXCEPT ![f] =
                          IF n <= mark[g][f] /\ mark[g][f] < i THEN @ \cup {x} ELSE @]]
        /\ UNCHANGED <<pc, resume, made, top, seen, mark, scanVars, crashes, lost>>

\* With no usable file in _resume/ the fuzzer never gets here, however often it is
\* started: read_testcases gives up.
Hopeless(f) == pc[f] = "pivot" /\ Whole(resume[f]) = {}

NukeResumeDir(f) ==
    /\ pc[f] = "pivot"
    /\ queue[f] # NoFiles
    /\ Unlinked(f) = {}
    /\ resume' = [resume EXCEPT ![f] = NoFiles]
    /\ pc' = [pc EXCEPT ![f] = "dry"]
    /\ UNCHANGED <<queue, made, top, seen, mark, scanVars, histVars>>

\* calibrate_case leaves the virgin map alone when the first run fails.
DryRunBits(f, S) == BitsAt(queue[f], DOMAIN queue[f] \ S)

Ran(q, S) ==
    [i \in DOMAIN q |-> IF i \in S THEN [q[i] EXCEPT !.run = "failed"] ELSE q[i]]

\* perform_dry_run runs all cases again, and goes on where one times out.
DryRun(f) ==
    /\ pc[f] = "dry"
    /\ \E S \in SUBSET {i \in DOMAIN queue[f] : queue[f][i].bits \in Flaky[f]} :
          /\ seen' = [seen EXCEPT ![f] = DryRunBits(f, S)]
          /\ queue' = [queue EXCEPT ![f] = Ran(@, S)]
    /\ pc' = [pc EXCEPT ![f] = "fuzz"]
    /\ UNCHANGED <<resume, made, top, mark, scanVars, histVars>>

-----------------------------------------------------------------------------
Sync(f) ==
    \/ BeginSync(f)
    \/ \E g \in Fuzzer : OpenQueue(f, g)
    \/ \E i \in Names(f) : ReadEntry(f, i)
    \/ EndQueue(f)
    \/ Write(f)

Resume(f) ==
    \/ MoveQueue(f)
    \/ \E i \in DOMAIN resume[f] : PivotInput(f, i)
    \/ NukeResumeDir(f)
    \/ DryRun(f)

Next ==
    \E f \in Fuzzer :
        \/ \E B \in Cases : Discover(f, B)
        \/ Sync(f)
        \/ Crash(f)
        \/ Resume(f)

Spec == Init /\ [][Next]_vars

\* The main loop comes to sync_fuzzers again and again, a scan ends, and a
\* fuzzer that died is started again.  Nothing is found unless by luck.
FairSpec ==
    /\ Spec
    /\ \A f \in Fuzzer : WF_vars(Sync(f) \/ Resume(f))

-----------------------------------------------------------------------------
\* Type invariant: no scan takes the mark below zero or names a directory that is
\* none of a fuzzer's.
TypeOK ==
    /\ pc \in [Fuzzer -> {"fuzz", "save", "import", "scan", "read", "down", "pivot", "dry"}]
    /\ queue \in [Fuzzer -> Seq(File)]
    /\ resume = [f \in Fuzzer |-> resume[f]]
    /\ \A f \in Fuzzer : /\ DOMAIN resume[f] \subseteq Nat \ {0}
                         /\ resume[f] \in [DOMAIN resume[f] -> File]
    /\ made \in [Fuzzer -> Nat]
    /\ top \in [Fuzzer -> Nat]
    /\ seen \in [Fuzzer -> SUBSET Bits]
    /\ mark \in [Fuzzer -> [Fuzzer -> Nat]]
    /\ dirs \in [Fuzzer -> SUBSET Fuzzer]
    /\ party \in [Fuzzer -> Fuzzer]
    /\ listed \in [Fuzzer -> Nat]
    /\ moved \in [Fuzzer -> BOOLEAN]
    /\ old \in [Fuzzer -> Seq(Nat)]
    /\ returned \in [Fuzzer -> SUBSET Nat]
    /\ next_min \in [Fuzzer -> Nat]
    /\ crashes \in [Fuzzer -> Nat]
    /\ excused \in [Fuzzer -> [Fuzzer -> SUBSET Nat]]
    /\ lost \in [Fuzzer -> SUBSET Bits]

\* What the own files cover, and those that left no contents: the case was empty,
\* or a crash in nuke_resume_dir deleted it.
OnDisk(f) == BitsAt(queue[f], Whole(queue[f])) \cup BitsAt(resume[f], Whole(resume[f]))

Covered(f) == OnDisk(f) \cup lost[f]

\* Whatever case of another fuzzer lies below the mark has been tried, and what
\* it covers is covered by the own queue; unless it was passed over for one of the
\* reasons above: its file could not be read or its run failed, it appeared behind
\* the back of readdir, or a resume gave it a number that was in use before.
NothingSkipped ==
    \A f \in Fuzzer : \A g \in Others(f) : \A i \in Whole(queue[g]) :
        i <= mark[f][g] /\ queue[g][i].serial \notin excused[f][g]
            => queue[g][i].bits \subseteq Covered(f)

\* The files before position j whose run counts.
Counting(f, j) == {i \in 1 .. j - 1 : queue[f][i].run # "failed"}

\* The exchange ends: each case found or imported in a session covers a bit that
\* none before it covers, so that two fuzzers do not import each other's imports
\* again and again; but a case whose dry run failed does not count.
QueueProgress ==
    \A f \in Fuzzer : \A j \in DOMAIN queue[f] :
        queue[f][j].run = "kept"
            => ~(queue[f][j].bits \subseteq BitsAt(queue[f], Counting(f, j)))

\* The virgin map is what the queue says, but for the cases whose dry run failed:
\* nothing counts as seen without a case for it, and a resumed fuzzer does not
\* count as new what its queue covers.
SeenByQueue ==
    \A f \in Fuzzer : pc[f] \notin {"down", "pivot", "dry"}
        => seen[f] = BitsAt(queue[f], Counting(f, Len(queue[f]) + 1))

\* A mark on disk never goes back, over crashes and resumed sessions.
MarkKept ==
    [][\A f, g \in Fuzzer : mark'[f][g] >= mark[f][g]]_vars

\* The inductive invariant.  A serial number stands for one case, before and after a
\* resume:
Files(f) == {queue[f][i] : i \in DOMAIN queue[f]} \cup {resume[f][i] : i \in DOMAIN resume[f]}

SerialsOf(f) ==
    /\ \A x \in Files(f) : x.serial <= made[f]
    /\ \A x, y \in Files(f) : x.serial = y.serial => x.bits = y.bits

\* No position is above the highest ever given, as a resume moves no case up.
TopOf(f) ==
    /\ Len(queue[f]) <= top[f]
    /\ \A i \in DOMAIN resume[f] : i <= top[f]
    /\ pc[f] = "pivot" => \A i \in Unlinked(f) : Len(queue[f]) < i

\* At work every file has contents, but for those known to be lost and the one just
\* created; a queue/ being filled from _resume/ holds nothing else.
Working(f) == pc[f] \notin {"down", "pivot", "dry"}
Saving(f) == pc[f] \in {"save", "import"}

ContentsOf(f) ==
    /\ Saving(f) => Len(queue[f]) > 0
    /\ Working(f) => \A i \in DOMAIN queue[f] :
          \/ queue[f][i].written
          \/ queue[f][i].bits \subseteq lost[f]
          \/ Saving(f) /\ i = Len(queue[f])
    /\ pc[f] \in {"pivot", "dry"} => \A i \in DOMAIN queue[f] :
          queue[f][i].written /\ queue[f][i].run = "dry"
    /\ DOMAIN resume[f] # {} =>
          /\ pc[f] \in {"down", "pivot"}
          /\ \A i \in DOMAIN queue[f] :
                queue[f][i].bits \subseteq BitsAt(resume[f], Whole(resume[f])) \cup lost[f]

\* Files below the mark have been dealt with, wherever they are,
Handled(f, g, x) == x.serial \in excused[f][g] \/ x.bits \subseteq Covered(f)

Below(f, g) ==
    {queue[g][i] : i \in {j \in DOMAIN queue[g] : j <= mark[f][g]}}
    \cup {resume[g][i] : i \in {j \in DOMAIN resume[g] : j <= mark[f][g]}}

MarkOf(f, g) ==
    /\ mark[f][g] <= top[g]
    /\ \A x \in Below(f, g) : Handled(f, g, x)

\* and so have those returned by the directory being read.
ScanOf(f) ==
    /\ dirs[f] \subseteq Others(f)
    /\ ~Reading(f) => returned[f] = {} /\ old[f] = <<>>
    /\ Reading(f) =>
        /\ party[f] \in Others(f)
        /\ mark[f][party[f]] <= next_min[f] /\ next_min[f] <= top[party[f]]
        /\ \A i \in DOMAIN old[f] : i <= top[party[f]] /\ old[f][i] <= made[party[f]]
        /\ \A s \in returned[f] : s <= made[party[f]]
        /\ \A x \in Files(party[f]) : x.serial \in returned[f]
              => x.serial \in excused[f][party[f]] \/ x.bits \subseteq seen[f]

SerialsKept == \A f \in Fuzzer : SerialsOf(f)
Tops == \A f \in Fuzzer : TopOf(f)
Contents == \A f \in Fuzzer : ContentsOf(f)
Marks == \A f \in Fuzzer : \A g \in Others(f) : MarkOf(f, g)
Scans == \A f \in Fuzzer : ScanOf(f)

\* Together with what the virgin map says (SeenByQueue) and the progress of each
\* queue they are inductive under every step of sync_fuzzers and of a resume.
IInv ==
    /\ TypeOK /\ SerialsKept /\ Tops /\ Contents
    /\ SeenByQueue /\ QueueProgress /\ Marks /\ Scans

\* In the end each fuzzer covers what every other one found, but for the cases
\* passed over; unless it cannot be started any more.
Converged ==
    \A f \in Fuzzer : ~Hopeless(f) =>
        \A g \in Others(f) : \A i \in Whole(queue[g]) :
            queue[g][i].serial \notin excused[f][g]
                => queue[g][i].bits \subseteq Covered(f)

\* The scans of sync_fuzzers make the fuzzers agree and stay so, over crashes and
\* resumed sessions.
Convergence == <>[]Converged
=============================================================================
