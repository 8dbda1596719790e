----------------------------- MODULE Persistent -----------------------------
(***************************************************************************)
(* The fork server of a persistent target (__AFL_LOOP): run_target, the    *)
(* fork server, the processes it makes and the timer.  A process that has  *)
(* finished a test case stops itself; the fork server wakes it for the     *)
(* next one unless the request says that it was killed.                    *)
(*                                                                         *)
(* Both dialogues occur: under SnapFuzz it ends when the process is gone   *)
(* or the time is over, the plain one when the process is gone or, without *)
(* looking at the process, when no connection is made or (option -F) when  *)
(* the last request had no answer.  Processes are numbered in the order of *)
(* their creation.  Option -K and the stop signal are left to SnapRun.     *)
(***************************************************************************)
EXTENDS Integers, Sequences, FiniteSets

CONSTANTS
    Dialogues,    \* of "sbr" and "plain": the kinds of dialogue considered
    MaxRuns,      \* bound on the number of runs
    MaxCnt        \* test cases one process serves, the operand of __AFL_LOOP

ASSUME PersistentAssumption ==
    /\ Dialogues \subseteq {"sbr", "plain"}
    /\ MaxRuns \in Nat \ {0}
    /\ MaxCnt \in Nat \ {0}

VARIABLES
    net,              \* the dialogue of this fuzzer
    pc, runs,         \* run_target, and how often it was called
    child_pid,        \* 0 for none
    child_timed_out, prev_timed_out,
    status,           \* the status word read last
    verdict,          \* of the run that ended last
    timer,            \* is the timer armed?
    ctl, st,          \* the pipes: requests (was_killed), pids and statuses
    fs, fs_pid,       \* the fork server and its child_pid
    child_stopped,
    forks,            \* number of processes made
    life,             \* of each process: how it ended until it is reaped
    killed,           \* has SIGKILL been sent to it?
    cycle_cnt,        \* test cases left to it
    serves            \* history: the run each process was last started for

fuzzer == <<pc, runs, child_pid, child_timed_out, prev_timed_out, status, verdict>>
server == <<fs, fs_pid, child_stopped, forks>>
procs == <<life, killed, cycle_cnt, serves>>
vars == <<net, fuzzer, timer, ctl, st, server, procs>>

Proc == 1 .. MaxRuns
Ends == {"EXIT", "SEGV", "KILL"}
Statuses == Ends \cup {"STOP"}
Pid(p) == [kind |-> "pid", of |-> p, how |-> "NONE"]
Status(p, how) == [kind |-> "status", of |-> p, how |-> how]
Words == [kind : {"pid", "status"}, of : Proc \cup {0}, how : Statuses \cup {"NONE"}]
NoStatus == Status(0, "NONE")
Alive == {p \in Proc : life[p] \in {"run", "stopped"}}

Init ==
    /\ net \in Dialogues
    /\ pc = "idle" /\ runs = 0 /\ child_pid = 0
    /\ child_timed_out = FALSE /\ prev_timed_out = FALSE
    /\ status = NoStatus /\ verdict = "FAULT_NONE" /\ timer = FALSE
    /\ ctl = <<>> /\ st = <<>>
    /\ fs = "read" /\ fs_pid = 0 /\ child_stopped = FALSE /\ forks = 0
    /\ life = [p \in Proc |-> "none"]
    /\ killed = [p \in Proc |-> FALSE]
    /\ cycle_cnt = [p \in Proc |-> 0]
    /\ serves = [p \in Proc |-> 0]

-----------------------------------------------------------------------------
(* run_target                                                               *)

Request ==
    /\ pc = "idle"
    /\ runs < MaxRuns
    /\ runs' = runs + 1
    /\ child_timed_out' = FALSE
    /\ ctl' = Append(ctl, prev_timed_out)
    /\ pc' = "pid"
    /\ UNCHANGED <<net, child_pid, prev_timed_out, status, verdict, timer, st,
                   server, procs>>

ReadPid ==
    /\ pc = "pid"
    /\ st # <<>>
    /\ child_pid' = Head(st).of
    /\ st' = Tail(st)
    /\ timer' = TRUE
    /\ pc' = "talk"
    /\ UNCHANGED <<net, runs, child_timed_out, prev_timed_out, status, verdict,
                   ctl, server, procs>>

\* kill(child_pid, 0) succeeds until the process has been reaped.
target_is_dead == life[child_pid] = "gone"

DialogueEnds ==
    /\ pc = "talk"
    /\ target_is_dead \/ (net = "sbr" /\ child_timed_out)
    /\ pc' = "status"
    /\ UNCHANGED <<net, runs, child_pid, child_timed_out, prev_timed_out, status,
                   verdict, timer, ctl, st, server, procs>>

\* send_over_network: no connection is made, or -F and no answer.
DialogueGivesUp ==
    /\ pc = "talk"
    /\ net = "plain"
    /\ pc' = "status"
    /\ UNCHANGED <<net, runs, child_pid, child_timed_out, prev_timed_out, status,
                   verdict, timer, ctl, st, server, procs>>

\* Mutant: no status is waited for after a timeout.
ReadStatus_unless_timed_out ==
    /\ pc = "status"
    /\ child_timed_out
    /\ status' = Status(child_pid, "KILL")
    /\ child_pid' = 0
    /\ pc' = "report"
    /\ UNCHANGED <<net, runs, child_timed_out, prev_timed_out, verdict, timer,
                   ctl, st, server, procs>>

\* The pid of a process that only stopped is kept.
ReadStatus ==
    /\ pc = "status"
    /\ st # <<>>
    /\ status' = Head(st)
    /\ st' = Tail(st)
    /\ child_pid' = IF Head(st).how = "STOP" THEN child_pid ELSE 0
    /\ pc' = "report"
    /\ UNCHANGED <<net, runs, child_timed_out, prev_timed_out, verdict, timer,
                   ctl, server, procs>>

Fault ==
    IF status.how = "KILL" /\ child_timed_out THEN "FAULT_TMOUT"
    ELSE IF status.how \in {"KILL", "SEGV"} THEN "FAULT_CRASH" ELSE "FAULT_NONE"

\* Mutant: only a run reported as a timeout counts as one.
TimedOut_reported == Fault = "FAULT_TMOUT"

\* What the next request will say.
TimedOut == child_timed_out

\* The timer is disarmed, the outcome reported.
Report ==
    /\ pc = "report"
    /\ timer' = FALSE
    /\ prev_timed_out' = TimedOut
    /\ verdict' = Fault
    /\ pc' = "idle"
    /\ UNCHANGED <<net, runs, child_pid, child_timed_out, status, ctl, st,
                   server, procs>>

\* The timer fires at any point while it is armed.
handle_timeout ==
    /\ timer
    /\ timer' = FALSE
    /\ child_timed_out' = (child_timed_out \/ child_pid > 0)
    /\ killed' = [p \in Proc |-> killed[p] \/ (p = child_pid /\ p \in Alive)]
    /\ UNCHANGED <<net, pc, runs, child_pid, prev_timed_out, status, verdict,
                   ctl, st, server, life, cycle_cnt, serves>>

-----------------------------------------------------------------------------
(* __afl_start_forkserver                                                   *)

\* Mutant: any killed process is waited for.
ReadRequest_killed ==
    /\ fs = "read"
    /\ ctl # <<>>
    /\ ctl' = Tail(ctl)
    /\ fs' = IF Head(ctl) THEN "write_off" ELSE "start"
    /\ child_stopped' = (child_stopped /\ ~Head(ctl))
    /\ UNCHANGED <<net, fuzzer, timer, st, fs_pid, forks, procs>>

ReadRequest ==
    /\ fs = "read"
    /\ ctl # <<>>
    /\ ctl' = Tail(ctl)
    /\ fs' = IF child_stopped /\ Head(ctl) THEN "write_off" ELSE "start"
    /\ child_stopped' = (child_stopped /\ ~Head(ctl))
    /\ UNCHANGED <<net, fuzzer, timer, st, fs_pid, forks, procs>>

\* waitpid for a process that has been killed after it stopped.
WriteOff ==
    /\ fs = "write_off"
    /\ life[fs_pid] \in Ends
    /\ life' = [life EXCEPT ![fs_pid] = "gone"]
    /\ fs' = "start"
    /\ UNCHANGED <<net, fuzzer, timer, ctl, st, fs_pid, child_stopped, forks,
                   killed, cycle_cnt, serves>>

Fork ==
    /\ fs = "start"
    /\ ~child_stopped
    /\ forks' = forks + 1
    /\ fs_pid' = forks + 1
    /\ life' = [life EXCEPT ![forks + 1] = "run"]
    /\ cycle_cnt' = [cycle_cnt EXCEPT ![forks + 1] = MaxCnt]
    /\ serves' = [serves EXCEPT ![forks + 1] = runs]
    /\ st' = Append(st, Pid(forks + 1))
    /\ fs' = "wait"
    /\ UNCHANGED <<net, fuzzer, timer, ctl, child_stopped, killed>>

\* SIGCONT does nothing to a process that is dead.
Continue ==
    /\ fs = "start"
    /\ child_stopped
    /\ child_stopped' = FALSE
    /\ life' = [life EXCEPT ![fs_pid] = IF @ = "stopped" THEN "run" ELSE @]
    /\ serves' = [serves EXCEPT ![fs_pid] = runs]
    /\ st' = Append(st, Pid(fs_pid))
    /\ fs' = "wait"
    /\ UNCHANGED <<net, fuzzer, timer, ctl, fs_pid, forks, killed, cycle_cnt>>

\* waitpid with WUNTRACED returns for a process that has stopped ...
ChildStopped ==
    /\ fs = "wait"
    /\ life[fs_pid] = "stopped"
    /\ child_stopped' = TRUE
    /\ st' = Append(st, Status(fs_pid, "STOP"))
    /\ fs' = "read"
    /\ UNCHANGED <<net, fuzzer, timer, ctl, fs_pid, forks, procs>>

\* ... and for one that has died.
ChildDied ==
    /\ fs = "wait"
    /\ life[fs_pid] \in Ends
    /\ life' = [life EXCEPT ![fs_pid] = "gone"]
    /\ st' = Append(st, Status(fs_pid, life[fs_pid]))
    /\ fs' = "read"
    /\ UNCHANGED <<net, fuzzer, timer, ctl, fs_pid, child_stopped, forks, killed,
                   cycle_cnt, serves>>

-----------------------------------------------------------------------------
(* The processes                                                            *)

Again(p) == cycle_cnt[p] > 1

\* __afl_persistent_loop after a test case: SIGSTOP, or out of the loop.
EndOfCycle(p) ==
    /\ life[p] = "run"
    /\ cycle_cnt' = [cycle_cnt EXCEPT ![p] = @ - 1]
    /\ life' = [life EXCEPT ![p] = IF Again(p) THEN "stopped" ELSE "EXIT"]
    /\ UNCHANGED <<net, fuzzer, timer, ctl, st, server, killed, serves>>

\* The server ends by itself in the middle of a test case.
Ended(p) ==
    /\ life[p] = "run"
    /\ \E how \in {"EXIT", "SEGV"} : life' = [life EXCEPT ![p] = how]
    /\ UNCHANGED <<net, fuzzer, timer, ctl, st, server, killed, cycle_cnt, serves>>

\* SIGKILL takes effect, on a stopped process too.
Killed(p) ==
    /\ killed[p]
    /\ p \in Alive
    /\ life' = [life EXCEPT ![p] = "KILL"]
    /\ UNCHANGED <<net, fuzzer, timer, ctl, st, server, killed, cycle_cnt, serves>>

-----------------------------------------------------------------------------
run_target ==
    Request \/ ReadPid \/ DialogueEnds \/ DialogueGivesUp \/ ReadStatus \/ Report

forkserver ==
    ReadRequest \/ WriteOff \/ Fork \/ Continue \/ ChildStopped \/ ChildDied

Next ==
    \/ run_target
    \/ handle_timeout
    \/ forkserver
    \/ \E p \in Proc : EndOfCycle(p) \/ Ended(p) \/ Killed(p)

Spec == Init /\ [][Next]_vars

\* Fuzzer and fork server are scheduled, an armed timer fires, SIGKILL is
\* delivered.  The server may hang for ever, and the dialogue need not give up.
FairSpec ==
    /\ Spec
    /\ WF_vars(ReadPid \/ DialogueEnds \/ ReadStatus \/ Report)
    /\ WF_vars(forkserver)
    /\ WF_vars(handle_timeout)
    /\ \A p \in Proc : WF_vars(Killed(p))

-----------------------------------------------------------------------------
\* Type invariant: no process is made beyond one per run, and none counts its
\* test cases below zero.
TypeOK ==
    /\ net \in {"sbr", "plain"}
    /\ pc \in {"idle", "pid", "talk", "status", "report"}
    /\ runs \in 0 .. MaxRuns
    /\ child_pid \in Proc \cup {0}
    /\ child_timed_out \in BOOLEAN /\ prev_timed_out \in BOOLEAN
    /\ status \in Words
    /\ verdict \in {"FAULT_NONE", "FAULT_TMOUT", "FAULT_CRASH"}
    /\ timer \in BOOLEAN
    /\ ctl \in Seq(BOOLEAN)
    /\ st \in Seq(Words)
    /\ fs \in {"read", "write_off", "start", "wait"}
    /\ fs_pid \in Proc \cup {0}
    /\ child_stopped \in BOOLEAN
    /\ forks \in 0 .. MaxRuns
    /\ life \in [Proc -> {"none", "run", "stopped", "gone"} \cup Ends]
    /\ killed \in [Proc -> BOOLEAN]
    /\ cycle_cnt \in [Proc -> 0 .. MaxCnt]
    /\ serves \in [Proc -> 0 .. MaxRuns]

\* The race named in the fork server: a process that was stopped when afl-fuzz
\* killed it is never woken as if it were there, and one that was not killed is
\* never waited for, which would block the fork server.
WakesTheLiving ==
    /\ fs = "start" /\ child_stopped => life[fs_pid] = "stopped" /\ ~killed[fs_pid]
    /\ fs = "write_off" => killed[fs_pid]

\* No process is forgotten: at most one is not reaped, and it is the one the
\* fork server knows.
OneProcess ==
    \A p \in Proc : life[p] \notin {"none", "gone"} => p = fs_pid

\* The words on the pipe are those the fuzzer waits for, about the process
\* started or woken for this run.
WordsOwn ==
    \A i \in DOMAIN st :
        /\ i = 1 /\ pc = "pid" => st[i].kind = "pid"
        /\ i = 1 /\ pc # "pid" => st[i].kind = "status" /\ st[i].of = child_pid
        /\ serves[st[i].of] = runs

\* The coverage map is not written while the fuzzer reads it.
MapQuiet == pc \in {"idle", "report"} => \A p \in Proc : life[p] # "run"

\* A run is reported as a timeout exactly if the timer killed its process while
\* it was at work, and as a crash exactly if it crashed.
VerdictOwn ==
    pc = "idle" /\ runs > 0 =>
        /\ verdict = "FAULT_TMOUT" <=> status.how = "KILL"
        /\ verdict = "FAULT_CRASH" <=> status.how = "SEGV"

\* The inductive invariant: how far the two pipes and the fork server have come
\* in each phase of run_target,
Handshake ==
    \/ pc \in {"idle", "report"} /\ fs = "read" /\ ctl = <<>> /\ st = <<>>
    \/ pc = "pid" /\ fs = "read" /\ ctl = <<prev_timed_out>> /\ st = <<>>
    \/ pc = "pid" /\ fs \in {"write_off", "start"} /\ ctl = <<>> /\ st = <<>>
    \/ pc = "pid" /\ fs = "wait" /\ ctl = <<>> /\ st = <<Pid(fs_pid)>>
    \/ pc = "pid" /\ fs = "read" /\ ctl = <<>>
         /\ \E how \in {"STOP", "EXIT", "SEGV"} :
                st = <<Pid(fs_pid), Status(fs_pid, how)>> /\ (how = "STOP" <=> child_stopped)
    \/ pc \in {"talk", "status"} /\ fs = "wait" /\ ctl = <<>> /\ st = <<>>
    \/ pc \in {"talk", "status"} /\ fs = "read" /\ ctl = <<>>
         /\ \E how \in Statuses :
                /\ st = <<Status(fs_pid, how)>>
                /\ how = "STOP" <=> child_stopped
                /\ how = "KILL" => child_timed_out

\* what the last process may be doing then,
LastLife ==
    /\ fs = "wait" => life[forks] \in {"run", "stopped"} \cup Ends /\ ~child_stopped
    /\ fs = "write_off" => life[forks] \in {"stopped", "KILL"} /\ ~child_stopped
    /\ fs \in {"read", "start"} /\ child_stopped => life[forks] \in {"stopped", "KILL"}
    /\ fs \in {"read", "start"} /\ ~child_stopped => life[forks] = "gone"
    /\ life[forks] = "KILL" => killed[forks]
    /\ pc \in {"talk", "status"} \/ st # <<>> => serves[forks] = runs

\* that all others are gone,
LastProcess ==
    /\ fs_pid = forks
    /\ forks <= runs
    /\ pc = "pid" /\ st = <<>> => forks < runs
    /\ \A p \in Proc : p < forks => life[p] = "gone"
    /\ \A p \in Proc : p > forks => life[p] = "none" /\ ~killed[p]
    /\ \A p \in Proc : life[p] \in {"run", "stopped"} => cycle_cnt[p] > 0
    /\ forks = 0 => fs \in {"read", "start"} /\ ~child_stopped /\ st = <<>>
    /\ forks > 0 => LastLife

\* and that a process which has not ended by itself has been killed exactly if the
\* fuzzer knows that its time was over, and the request says so.
KillKnown ==
    /\ timer => pc \in {"talk", "status", "report"}
    /\ pc \in {"talk", "status"} => forks > 0 /\ child_pid = forks
    /\ pc = "report" => child_pid = IF child_stopped THEN forks ELSE 0
    /\ pc = "report" => (status.how = "KILL" => child_timed_out)
    /\ pc = "pid" => ~child_timed_out
    /\ forks > 0 =>
         /\ pc \in {"talk", "status", "report"} /\ life[forks] \in {"run", "stopped", "KILL"}
                => (killed[forks] <=> child_timed_out)
         /\ child_stopped /\ (pc = "idle" \/ (pc = "pid" /\ ctl # <<>>))
                => (killed[forks] <=> prev_timed_out)
         /\ fs = "write_off" => killed[forks]
         /\ fs = "start" /\ child_stopped => ~killed[forks]
         /\ pc = "pid" /\ st # <<>> => ~killed[forks]

\* They are inductive under the steps of run_target, the timer, the fork server
\* and the processes.
IInv == TypeOK /\ Handshake /\ LastProcess /\ KillKnown /\ VerdictOwn

\* A run ends, but for a plain dialogue that waits for a process killed after it
\* stopped: the fork server reaps it only with the next request.
Spins == net = "plain" /\ pc = "talk" /\ fs = "read" /\ life[child_pid] = "KILL"
\* Every run of run_target ends otherwise, although the server may hang.
RunsEnd == pc # "idle" ~> pc = "idle" \/ Spins
=============================================================================
