------------------------------- MODULE OutDir -------------------------------
(***************************************************************************)
(* The output directory of one fuzzer over several sessions: an in-place   *)
(* resume (setup_dirs_fds, maybe_delete_out_dir, read_testcases,           *)
(* pivot_inputs, nuke_resume_dir) and the saving of new cases, with the    *)
(* process killed between any two changes of the file system.              *)
(*                                                                         *)
(* A directory is a function from the numbers of its files to their        *)
(* contents; file id_n has number n + 1.  The contents of a case tell when *)
(* it was saved: the c-th case ever written has the contents c.            *)
(***************************************************************************)
EXTENDS Integers, Sequences, FiniteSets, Positions

CONSTANTS
    Initial,      \* number of cases in the directory at first
    MaxCases,     \* bound on the number of files in a directory
    MaxCrashes,   \* bound on the number of crashes
    CrashIn       \* the phases in which the process may be killed

Phases == {"rename", "delete", "mkdir", "read", "pivot", "nuke", "run", "save"}

ASSUME OutDirAssumption ==
    /\ Initial \in Nat \ {0}
    /\ MaxCases \in Nat /\ Initial <= MaxCases
    /\ MaxCrashes \in Nat
    /\ CrashIn \subseteq Phases

VARIABLES
    pc,           \* phase of the session, "down" between sessions
    qdir, queue,  \* does queue/ exist, and its files
    rdir, resume, \* does _resume/ exist, and its files
    mem,          \* the queue in memory: queued_paths entries
    saved,        \* number of cases ever written
    crashes

vars == <<pc, qdir, queue, rdir, resume, mem, saved, crashes>>

Empty == 0

Without(dir, i) == [j \in DOMAIN dir \ {i} |-> dir[j]]
With(dir, i, c) == [j \in DOMAIN dir \cup {i} |-> IF j = i THEN c ELSE dir[j]]

Init ==
    /\ pc = "run"
    /\ qdir = TRUE
    /\ queue = [i \in 1 .. Initial |-> i]
    /\ rdir = FALSE
    /\ resume = <<>>
    /\ mem = [i \in 1 .. Initial |-> i]
    /\ saved = Initial
    /\ crashes = 0

-----------------------------------------------------------------------------
(* Saving a case: save_kl_messages_to_file creates the file, then writes the *)
(* messages sent; add_to_queue counts the file afterwards, also if it has    *)
(* stayed empty because the run sent none.                                   *)

SaveOpen ==
    /\ pc = "run"
    /\ Len(mem) < MaxCases
    /\ queue' = With(queue, Len(mem) + 1, Empty)
    /\ pc' = "save"
    /\ UNCHANGED <<qdir, rdir, resume, mem, saved, crashes>>

\* Mutant: the file keeps the number of the one before.
SaveWrite_last ==
    /\ pc = "save"
    /\ \/ /\ saved' = saved + 1
          /\ queue' = With(queue, Len(mem), saved + 1)
          /\ mem' = Append(mem, saved + 1)
       \/ /\ mem' = Append(mem, Empty)
          /\ UNCHANGED <<queue, saved>>
    /\ pc' = "run"
    /\ UNCHANGED <<qdir, rdir, resume, crashes>>

SaveWrite ==
    /\ pc = "save"
    /\ \/ /\ saved' = saved + 1
          /\ queue' = With(queue, Len(mem) + 1, saved + 1)
          /\ mem' = Append(mem, saved + 1)
       \/ /\ mem' = Append(mem, Empty)
          /\ UNCHANGED <<queue, saved>>
    /\ pc' = "run"
    /\ UNCHANGED <<qdir, rdir, resume, crashes>>

Crash ==
    /\ pc \in CrashIn
    /\ crashes < MaxCrashes
    /\ crashes' = crashes + 1
    /\ mem' = <<>>
    /\ pc' = "down"
    /\ UNCHANGED <<qdir, queue, rdir, resume, saved>>

-----------------------------------------------------------------------------
(* afl-fuzz -i -                                                            *)

Start ==
    /\ pc = "down"
    /\ pc' = "rename"
    /\ UNCHANGED <<qdir, queue, rdir, resume, mem, saved, crashes>>

\* rename(queue, _resume) works if there is a queue/ and nothing in the way.
\* Mutant: what is left of _resume/ is thrown away.
CanRename_always == qdir

CanRename == qdir /\ (rdir => DOMAIN resume = {})

\* Mutant: a rename that fails is an error.
RenameQueue_strict ==
    /\ pc = "rename"
    /\ CanRename
    /\ resume' = queue
    /\ rdir' = TRUE
    /\ queue' = <<>>
    /\ qdir' = FALSE
    /\ pc' = "delete"
    /\ UNCHANGED <<mem, saved, crashes>>

\* The result of rename is ignored.
RenameQueue ==
    /\ pc = "rename"
    /\ \/ /\ CanRename
          /\ resume' = queue
          /\ rdir' = TRUE
          /\ queue' = <<>>
          /\ qdir' = FALSE
       \/ /\ ~CanRename
          /\ UNCHANGED <<qdir, queue, rdir, resume>>
    /\ pc' = "delete"
    /\ UNCHANGED <<mem, saved, crashes>>

\* delete_files(queue): the files one by one in any order, then the directory.
DeleteCase(i) ==
    /\ pc = "delete"
    /\ i \in DOMAIN queue
    /\ queue' = Without(queue, i)
    /\ UNCHANGED <<pc, qdir, rdir, resume, mem, saved, crashes>>

DeleteQueue ==
    /\ pc = "delete"
    /\ DOMAIN queue = {}
    /\ qdir' = FALSE
    /\ pc' = "mkdir"
    /\ UNCHANGED <<queue, rdir, resume, mem, saved, crashes>>

MakeQueue ==
    /\ pc = "mkdir"
    /\ qdir' = TRUE
    /\ pc' = "read"
    /\ UNCHANGED <<queue, rdir, resume, mem, saved, crashes>>

\* The files of a directory that are not empty, in the order of their names.
Usable(dir) == {i \in DOMAIN dir : dir[i] # Empty}

InOrder(dir) == Picked(dir, Usable(dir))

\* With no usable test case the session ends.
ReadTestcases ==
    /\ pc = "read"
    /\ mem' = InOrder(resume)
    /\ pc' = IF Usable(resume) = {} THEN "fatal" ELSE "pivot"
    /\ UNCHANGED <<qdir, queue, rdir, resume, saved, crashes>>

\* The next input gets its link in queue/, numbered by its place in memory.
PivotInput ==
    LET id == Cardinality(DOMAIN queue) + 1
    IN  /\ pc = "pivot"
        /\ id <= Len(mem)
        /\ queue' = With(queue, id, mem[id])
        /\ UNCHANGED <<pc, qdir, rdir, resume, mem, saved, crashes>>

PivotEnd ==
    /\ pc = "pivot"
    /\ Cardinality(DOMAIN queue) = Len(mem)
    /\ pc' = "nuke"
    /\ UNCHANGED <<qdir, queue, rdir, resume, mem, saved, crashes>>

\* nuke_resume_dir: the files one by one in any order, then the directory.
NukeCase(i) ==
    /\ pc = "nuke"
    /\ i \in DOMAIN resume
    /\ resume' = Without(resume, i)
    /\ UNCHANGED <<pc, qdir, queue, rdir, mem, saved, crashes>>

\* Mutant: the directory stays.
NukeEnd_kept ==
    /\ pc = "nuke"
    /\ pc' = "run"
    /\ UNCHANGED <<qdir, queue, rdir, resume, mem, saved, crashes>>

NukeEnd ==
    /\ pc = "nuke"
    /\ DOMAIN resume = {}
    /\ rdir' = FALSE
    /\ pc' = "run"
    /\ UNCHANGED <<qdir, queue, resume, mem, saved, crashes>>

-----------------------------------------------------------------------------
ResumeStep ==
    \/ Start
    \/ RenameQueue
    \/ \E i \in DOMAIN queue : DeleteCase(i)
    \/ DeleteQueue
    \/ MakeQueue
    \/ ReadTestcases
    \/ PivotInput
    \/ PivotEnd
    \/ \E i \in DOMAIN resume : NukeCase(i)
    \/ NukeEnd

Next == SaveOpen \/ SaveWrite \/ Crash \/ ResumeStep

Spec == Init /\ [][Next]_vars

\* A killed fuzzer is started again, and its steps end.
FairSpec == Spec /\ WF_vars(ResumeStep) /\ WF_vars(SaveWrite)

-----------------------------------------------------------------------------
Contents == 0 .. saved

\* Type invariant: no file gets a number beyond the bound, and none has contents
\* that were never written.
TypeOK ==
    /\ pc \in Phases \cup {"down", "fatal"}
    /\ qdir \in BOOLEAN
    /\ rdir \in BOOLEAN
    /\ DOMAIN queue \subseteq 1 .. MaxCases /\ queue \in [DOMAIN queue -> Contents]
    /\ DOMAIN resume \subseteq 1 .. MaxCases /\ resume \in [DOMAIN resume -> Contents]
    /\ mem \in Seq(Contents) /\ Len(mem) <= MaxCases
    /\ saved \in Initial .. MaxCases
    /\ crashes \in Nat

\* The directory the next session would start from.
Kept == IF rdir /\ pc # "nuke" THEN resume ELSE queue

\* No case is lost: whenever the process is killed, the next session reads every
\* case ever written, each once and in the order they were written, whatever
\* numbers empty files have taken or given back.
NothingLost == InOrder(Kept) = [c \in 1 .. saved |-> c]

\* What the fuzzer works on, once resumed, is what is in queue/: queued_paths is
\* the number of the last file, and every earlier number that of an entry.
MemoryIsQueue ==
    pc = "run" => /\ DOMAIN queue = 1 .. Len(mem)
                  /\ \A i \in DOMAIN queue : queue[i] = mem[i]

\* The inductive invariant.  The cases up to k and nothing else, each under its
\* own number:
CasesTo(dir, k) == dir = [i \in 1 .. k |-> i]

\* All cases in their order, with empty files anywhere between them:
AllCases(dir) ==
    /\ \A i, j \in Usable(dir) : i < j => dir[i] < dir[j]
    /\ \A c \in 1 .. saved : \E i \in Usable(dir) : dir[i] = c

\* where they are in each phase of a session, or after its end.
WhereCasesAre ==
    /\ pc \in {"run", "save", "nuke"} => qdir
    /\ pc \in {"run", "save"} =>
         /\ ~rdir
         /\ AllCases(queue)
         /\ \A i \in 1 .. Len(mem) : i \in DOMAIN queue /\ queue[i] = mem[i]
    /\ pc = "run" => DOMAIN queue = 1 .. Len(mem)
    /\ pc = "save" => /\ Len(mem) < MaxCases
                      /\ DOMAIN queue = 1 .. Len(mem) + 1
                      /\ queue[Len(mem) + 1] = Empty
    /\ pc = "nuke" => CasesTo(mem, saved) /\ CasesTo(queue, saved)
    /\ pc \in {"down", "rename"} =>
         \/ qdir /\ ~rdir /\ AllCases(queue)
         \/ rdir /\ AllCases(resume)
    /\ pc \in {"delete", "mkdir", "read", "pivot"} => rdir /\ AllCases(resume)
    /\ pc \in {"mkdir", "read"} => DOMAIN queue = {}
    /\ pc = "read" => qdir
    /\ pc = "pivot" => /\ qdir
                       /\ CasesTo(mem, saved)
                       /\ \E k \in 0 .. saved : CasesTo(queue, k)
    /\ pc # "fatal"

\* It is inductive as long as no crash meets nuke_resume_dir.
IInv == TypeOK /\ WhereCasesAre

\* The directory implements the store of cases.
Stored == InOrder(Kept)
CS == INSTANCE CaseStore WITH
        Case <- 1 .. MaxCases, cases <- Stored, up <- (pc \in {"run", "save"})
\* Sessions, crashes and in-place resumes do no more than CaseStore allows: cases
\* are appended one at a time, by SaveWrite alone.
StoreSpec == CS!Spec

\* A killed fuzzer works again in the end.
Resumed == []<>(pc \in {"run", "save"})
=============================================================================
