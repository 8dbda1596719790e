-------------------------- MODULE PersistentProofs --------------------------
(***************************************************************************)
(* Proofs about Persistent, for every number of runs and of test cases per *)
(* process and for both dialogues.                                         *)
(***************************************************************************)
EXTENDS Persistent, SequenceTheorems, TLAPS

USE PersistentAssumption DEF Proc, Alive, Ends

\* Pids and statuses are words.
LEMMA WordTypes ==
  /\ \A p \in Proc : Pid(p) \in Words
  /\ \A p \in Proc \cup {0}, how \in Statuses \cup {"NONE"} : Status(p, how) \in Words
  /\ NoStatus \in Words
  BY DEF Words, Pid, Status, NoStatus, Statuses

\* What a pipe of at most one word is after another one is written.
LEMMA AppendOne ==
  ASSUME NEW x \in Words, NEW y \in Words
  PROVE  Append(<<x>>, y) = <<x, y>> /\ Append(<<>>, y) = <<y>>
  <1>1. <<x>> \in Seq(Words) /\ Len(<<x>>) = 1 /\ <<x>>[1] = x
    OBVIOUS
  <1>2. <<x, y>> \in Seq(Words) /\ Len(<<x, y>>) = 2 /\ <<x, y>>[1] = x /\ <<x, y>>[2] = y
    OBVIOUS
  <1>3. /\ Append(<<x>>, y) \in Seq(Words) /\ Len(Append(<<x>>, y)) = 2
        /\ Append(<<x>>, y)[1] = x /\ Append(<<x>>, y)[2] = y
    BY <1>1, AppendProperties
  <1>4. \A i \in 1 .. 2 : Append(<<x>>, y)[i] = <<x, y>>[i]
    BY <1>2, <1>3
  <1>5. Append(<<x>>, y) = <<x, y>>
    BY <1>2, <1>3, <1>4, SeqEqual
  <1> QED
    BY <1>5

\* At the start the fork server waits for a request and there is no process.
LEMMA InitInv == Init => IInv
  <1> SUFFICES ASSUME Init PROVE IInv
    OBVIOUS
  <1>1. TypeOK
    <2>1. /\ st \in Seq(Words) /\ status \in Words /\ ctl \in Seq(BOOLEAN)
          /\ fs_pid \in Proc \cup {0} /\ child_pid \in Proc \cup {0}
      BY WordTypes DEF Init
    <2>2. /\ life \in [Proc -> {"none", "run", "stopped", "gone"} \cup Ends]
          /\ killed \in [Proc -> BOOLEAN]
          /\ cycle_cnt \in [Proc -> 0 .. MaxCnt]
          /\ serves \in [Proc -> 0 .. MaxRuns]
      BY DEF Init
    <2>3. runs \in 0 .. MaxRuns /\ forks \in 0 .. MaxRuns /\ net \in {"sbr", "plain"}
      BY DEF Init
    <2> QED
      BY <2>1, <2>2, <2>3 DEF Init, TypeOK
  <1>2. Handshake
    BY DEF Init, Handshake
  <1>3. LastProcess
    BY DEF Init, LastProcess, LastLife
  <1>4. KillKnown
    BY DEF Init, KillKnown
  <1>5. VerdictOwn
    BY DEF Init, VerdictOwn
  <1> QED
    BY <1>1, <1>2, <1>3, <1>4, <1>5 DEF IInv

\* The types of the variables that are no functions or sequences.
LEMMA Scalars ==
  ASSUME IInv
  PROVE  /\ MaxRuns \in Nat /\ MaxCnt \in Nat /\ MaxRuns > 0 /\ MaxCnt > 0
         /\ runs \in 0 .. MaxRuns /\ forks \in 0 .. MaxRuns /\ forks <= runs
         /\ fs_pid = forks
         /\ child_pid \in 0 .. MaxRuns
  <1>1. runs \in 0 .. MaxRuns /\ forks \in 0 .. MaxRuns /\ child_pid \in 0 .. MaxRuns
    BY DEF IInv, TypeOK
  <1>2. fs_pid = forks /\ forks <= runs
    BY DEF IInv, LastProcess
  <1> QED
    BY <1>1, <1>2

\* A process that is there is the last one made.
LEMMA ThereIsLast ==
  ASSUME IInv, NEW p \in Proc, life[p] \notin {"none", "gone"}
  PROVE  p = forks
  BY Scalars DEF IInv, LastProcess

\* While the fork server waits, the pid is on the pipe or has been read.
LEMMA WhileWaiting ==
  ASSUME IInv, fs = "wait"
  PROVE  /\ forks \in Proc /\ ctl = <<>> /\ ~child_stopped
         /\ life[forks] \in {"run", "stopped"} \cup Ends
         /\ \/ pc = "pid" /\ st = <<Pid(forks)>>
            \/ pc \in {"talk", "status"} /\ st = <<>>
  BY Scalars DEF IInv, Handshake, LastProcess, LastLife

\* The pid is the first word on the pipe, the process the last one made.
LEMMA PidFirst ==
  ASSUME IInv, pc = "pid", st # <<>>
  PROVE  /\ forks \in Proc /\ ctl = <<>>
         /\ \/ fs = "wait" /\ st = <<Pid(forks)>>
            \/ fs = "read" /\ \E how \in {"STOP", "EXIT", "SEGV"} :
                 /\ st = <<Pid(forks), Status(forks, how)>>
                 /\ how = "STOP" <=> child_stopped
  <1>1. forks \in Proc
    BY Scalars DEF IInv, LastProcess
  <1> QED
    BY <1>1, Scalars DEF IInv, Handshake

\* The status is the only one, and about the process the fuzzer knows.
LEMMA StatusFirst ==
  ASSUME IInv, pc \in {"talk", "status"}, st # <<>>
  PROVE  /\ fs = "read" /\ ctl = <<>> /\ forks \in Proc /\ child_pid = forks
         /\ \E how \in Statuses :
              /\ st = <<Status(forks, how)>>
              /\ how = "STOP" <=> child_stopped
              /\ how = "KILL" => child_timed_out
  <1>1. forks \in Proc /\ child_pid = forks
    BY Scalars DEF IInv, KillKnown
  <1> QED
    BY <1>1, Scalars DEF IInv, Handshake

\* The request says whether the last process was killed.
LEMMA StepRequest ==
  ASSUME IInv, Request
  PROVE  IInv'
  <1>1. TypeOK'
    <2>1. /\ st' \in Seq(Words) /\ status' \in Words /\ ctl' \in Seq(BOOLEAN)
          /\ fs_pid' \in Proc \cup {0} /\ child_pid' \in Proc \cup {0}
      BY Scalars, WordTypes DEF IInv, Request, TypeOK, Handshake, LastProcess, fuzzer,
         server, procs, LastLife
    <2>2. /\ life' \in [Proc -> {"none", "run", "stopped", "gone"} \cup Ends]
          /\ killed' \in [Proc -> BOOLEAN]
          /\ cycle_cnt' \in [Proc -> 0 .. MaxCnt]
          /\ serves' \in [Proc -> 0 .. MaxRuns]
      BY DEF IInv, Request, TypeOK, Handshake, LastProcess, fuzzer, server, procs, LastLife
    <2>3. /\ runs' \in 0 .. MaxRuns /\ forks' \in 0 .. MaxRuns
          /\ net' \in {"sbr", "plain"} /\ fs' \in {"read", "write_off", "start", "wait"}
      BY DEF IInv, Request, TypeOK, Handshake, LastProcess, fuzzer, server, procs, LastLife
    <2> QED
      BY <2>1, <2>2, <2>3 DEF IInv, Request, TypeOK, Handshake, LastProcess, fuzzer,
         server, procs, LastLife
  <1>2. Handshake'
    BY Scalars DEF IInv, Request, TypeOK, Handshake, LastProcess, KillKnown, fuzzer,
       server, procs, LastLife
  <1>3. LastProcess'
    BY Scalars DEF IInv, Request, TypeOK, Handshake, LastProcess, KillKnown, fuzzer,
       server, procs, LastLife
  <1>4. KillKnown'
    BY Scalars DEF IInv, Request, TypeOK, Handshake, LastProcess, KillKnown, fuzzer,
       server, procs, LastLife
  <1>5. VerdictOwn'
    BY Scalars DEF IInv, Request, TypeOK, KillKnown, VerdictOwn, fuzzer, server, procs
  <1> QED
    BY <1>1, <1>2, <1>3, <1>4, <1>5 DEF IInv

\* The first word is the pid of the last process.
LEMMA StepReadPid ==
  ASSUME IInv, ReadPid
  PROVE  IInv'
  <1>0. /\ forks \in Proc /\ fs_pid = forks /\ ctl = <<>> /\ child_pid' = forks
        /\ \/ fs = "wait" /\ st' = <<>>
           \/ fs = "read" /\ \E how \in {"STOP", "EXIT", "SEGV"} :
                st' = <<Status(forks, how)>> /\ (how = "STOP" <=> child_stopped)
    <2>1. forks \in Proc /\ fs_pid = forks /\ ctl = <<>>
      BY PidFirst, Scalars DEF ReadPid
    <2>2. CASE fs = "wait" /\ st = <<Pid(forks)>>
      <3>1. Head(st) = Pid(forks) /\ Tail(st) = <<>>
        BY <2>2
      <3> QED
        BY <2>1, <2>2, <3>1 DEF ReadPid, Pid
    <2>3. CASE fs = "read" /\ \E how \in {"STOP", "EXIT", "SEGV"} :
                 /\ st = <<Pid(forks), Status(forks, how)>>
                 /\ how = "STOP" <=> child_stopped
      <3>1. PICK how \in {"STOP", "EXIT", "SEGV"} :
                 /\ st = <<Pid(forks), Status(forks, how)>>
                 /\ how = "STOP" <=> child_stopped
        BY <2>3
      <3>2. Head(st) = Pid(forks) /\ Tail(st) = <<Status(forks, how)>>
        BY <3>1
      <3> QED
        BY <2>1, <2>3, <3>1, <3>2 DEF ReadPid, Pid
    <2> QED
      BY <2>2, <2>3, PidFirst DEF ReadPid
  <1>1. TypeOK'
    <2>1. st' \in Seq(Words)
      BY DEF IInv, ReadPid, TypeOK
    <2>2. child_pid' \in Proc
      BY <1>0
    <2> QED
      BY <2>1, <2>2 DEF IInv, ReadPid, TypeOK, server, procs
  <1>2. Handshake'
    <2>1. CASE fs = "wait" /\ st' = <<>>
      BY <1>0, <2>1 DEF ReadPid, Handshake, server
    <2>2. CASE /\ fs = "read"
               /\ \E how \in {"STOP", "EXIT", "SEGV"} :
                    st' = <<Status(forks, how)>> /\ (how = "STOP" <=> child_stopped)
      <3>1. PICK how \in {"STOP", "EXIT", "SEGV"} :
                    st' = <<Status(forks, how)>> /\ (how = "STOP" <=> child_stopped)
        BY <2>2
      <3>2. how \in Statuses /\ how # "KILL"
        BY DEF Statuses
      <3> QED
        BY <1>0, <2>2, <3>1, <3>2 DEF ReadPid, Handshake, server
    <2> QED
      BY <1>0, <2>1, <2>2
  <1>3. LastProcess'
    BY Scalars, PidFirst DEF IInv, ReadPid, TypeOK, Handshake, LastProcess, KillKnown,
       fuzzer, server, procs, LastLife
  <1>4. KillKnown'
    <2>1. ~killed[forks] /\ ~child_timed_out
      BY <1>0 DEF IInv, ReadPid, KillKnown
    <2>2. child_stopped => fs = "read"
      BY <1>0, WhileWaiting
    <2> QED
      BY <1>0, <2>1, <2>2 DEF IInv, ReadPid, LastProcess, LastLife, KillKnown, server, procs
  <1>5. VerdictOwn'
    BY Scalars, PidFirst DEF IInv, ReadPid, TypeOK, KillKnown, VerdictOwn, fuzzer,
       server, procs
  <1> QED
    BY <1>1, <1>2, <1>3, <1>4, <1>5 DEF IInv

\* The end of a dialogue changes nothing but the place.
LEMMA StepDialogueEnds ==
  ASSUME IInv, DialogueEnds
  PROVE  IInv'
  <1>1. TypeOK'
    BY Scalars DEF IInv, DialogueEnds, TypeOK, Handshake, LastProcess, fuzzer, server,
       procs, LastLife, target_is_dead
  <1>2. Handshake'
    BY Scalars DEF IInv, DialogueEnds, TypeOK, Handshake, LastProcess, KillKnown,
       fuzzer, server, procs, LastLife, target_is_dead
  <1>3. LastProcess'
    BY Scalars DEF IInv, DialogueEnds, TypeOK, Handshake, LastProcess, KillKnown,
       fuzzer, server, procs, LastLife, target_is_dead
  <1>4. KillKnown'
    BY Scalars DEF IInv, DialogueEnds, TypeOK, Handshake, LastProcess, KillKnown,
       fuzzer, server, procs, LastLife, target_is_dead
  <1>5. VerdictOwn'
    BY Scalars DEF IInv, DialogueEnds, TypeOK, KillKnown, VerdictOwn, fuzzer, server,
       procs, target_is_dead
  <1> QED
    BY <1>1, <1>2, <1>3, <1>4, <1>5 DEF IInv

\* Nor does a dialogue that gives up.
LEMMA StepDialogueGivesUp ==
  ASSUME IInv, DialogueGivesUp
  PROVE  IInv'
  <1>1. TypeOK'
    BY Scalars DEF IInv, DialogueGivesUp, TypeOK, Handshake, LastProcess, fuzzer,
       server, procs, LastLife
  <1>2. Handshake'
    BY Scalars DEF IInv, DialogueGivesUp, TypeOK, Handshake, LastProcess, KillKnown,
       fuzzer, server, procs, LastLife
  <1>3. LastProcess'
    BY Scalars DEF IInv, DialogueGivesUp, TypeOK, Handshake, LastProcess, KillKnown,
       fuzzer, server, procs, LastLife
  <1>4. KillKnown'
    BY Scalars DEF IInv, DialogueGivesUp, TypeOK, Handshake, LastProcess, KillKnown,
       fuzzer, server, procs, LastLife
  <1>5. VerdictOwn'
    BY Scalars DEF IInv, DialogueGivesUp, TypeOK, KillKnown, VerdictOwn, fuzzer, server,
       procs
  <1> QED
    BY <1>1, <1>2, <1>3, <1>4, <1>5 DEF IInv

\* The second word is its status; the pid is kept if it stopped.
LEMMA StepReadStatus ==
  ASSUME IInv, ReadStatus
  PROVE  IInv'
  <1>0. /\ forks \in Proc /\ fs_pid = forks /\ ctl = <<>> /\ st' = <<>> /\ fs = "read"
        /\ status' \in Words
        /\ \E how \in Statuses :
             /\ status' = Status(forks, how)
             /\ how = "STOP" <=> child_stopped
             /\ how = "KILL" => child_timed_out
        /\ child_pid' = IF child_stopped THEN forks ELSE 0
    <2>1. PICK how \in Statuses : /\ st = <<Status(forks, how)>>
                                  /\ how = "STOP" <=> child_stopped
                                  /\ how = "KILL" => child_timed_out
      BY StatusFirst DEF ReadStatus
    <2>2. Head(st) = Status(forks, how) /\ Tail(st) = <<>>
      BY <2>1
    <2>3. Status(forks, how) \in Words /\ Status(forks, how).how = how
      BY WordTypes, StatusFirst DEF ReadStatus, Status
    <2> QED
      BY <2>1, <2>2, <2>3, StatusFirst, Scalars DEF ReadStatus
  <1>1. TypeOK'
    <2>1. child_pid' \in Proc \cup {0} /\ st' \in Seq(Words)
      BY <1>0
    <2> QED
      BY <1>0, <2>1 DEF IInv, ReadStatus, TypeOK, server, procs
  <1>2. Handshake'
    BY <1>0 DEF ReadStatus, Handshake, server
  <1>3. LastProcess'
    BY <1>0, Scalars DEF IInv, ReadStatus, LastProcess, LastLife, server, procs
  <1>4. KillKnown'
    <2>1. status'.how = "KILL" => child_timed_out
      BY <1>0 DEF Status
    <2> QED
      BY <1>0, <2>1, Scalars DEF IInv, ReadStatus, LastProcess, LastLife, KillKnown,
         server, procs
  <1>5. VerdictOwn'
    BY DEF ReadStatus, VerdictOwn
  <1> QED
    BY <1>1, <1>2, <1>3, <1>4, <1>5 DEF IInv

\* The outcome becomes the verdict and the next request.
LEMMA StepReport ==
  ASSUME IInv, Report
  PROVE  IInv'
  <1>1. TypeOK'
    BY Scalars DEF IInv, Report, TypeOK, Handshake, LastProcess, fuzzer, server, procs,
       LastLife, TimedOut, Fault
  <1>2. Handshake'
    BY Scalars DEF IInv, Report, TypeOK, Handshake, LastProcess, KillKnown, fuzzer,
       server, procs, LastLife, TimedOut, Fault
  <1>3. LastProcess'
    BY Scalars DEF IInv, Report, TypeOK, Handshake, LastProcess, KillKnown, fuzzer,
       server, procs, LastLife, TimedOut, Fault
  <1>4. KillKnown'
    BY Scalars DEF IInv, Report, TypeOK, Handshake, LastProcess, KillKnown, fuzzer,
       server, procs, LastLife, TimedOut, Fault
  <1>5. VerdictOwn'
    BY Scalars DEF IInv, Report, TypeOK, KillKnown, VerdictOwn, fuzzer, server, procs,
       TimedOut, Fault
  <1> QED
    BY <1>1, <1>2, <1>3, <1>4, <1>5 DEF IInv

\* The timer kills the process the fuzzer knows, in a run only.
LEMMA StepTimeout ==
  ASSUME IInv, handle_timeout
  PROVE  IInv'
  <1>1. TypeOK'
    BY Scalars DEF IInv, handle_timeout, TypeOK, Handshake, LastProcess, fuzzer, server,
       procs, LastLife
  <1>2. Handshake'
    BY Scalars DEF IInv, handle_timeout, TypeOK, Handshake, LastProcess, KillKnown,
       fuzzer, server, procs, LastLife
  <1>3. LastProcess'
    <2>1. fs_pid' = forks' /\ forks' <= runs' /\ (pc' = "pid" /\ st' = <<>> => forks' < runs')
      BY Scalars DEF IInv, handle_timeout, TypeOK, Handshake, LastProcess, KillKnown,
         fuzzer, server, procs
    <2>2. \A q \in Proc : q < forks' => life'[q] = "gone"
      BY Scalars, ThereIsLast DEF IInv, handle_timeout, TypeOK, Handshake, LastProcess,
         KillKnown, fuzzer, server, procs
    <2>3. \A q \in Proc : q > forks' => life'[q] = "none" /\ ~killed'[q]
      BY Scalars, ThereIsLast DEF IInv, handle_timeout, TypeOK, Handshake, LastProcess,
         KillKnown, fuzzer, server, procs
    <2>4. \A q \in Proc : life'[q] \in {"run", "stopped"} => cycle_cnt'[q] > 0
      BY Scalars, ThereIsLast DEF IInv, handle_timeout, TypeOK, Handshake, LastProcess,
         KillKnown, fuzzer, server, procs
    <2>5. forks' = 0 => fs' \in {"read", "start"} /\ ~child_stopped' /\ st' = <<>>
      BY Scalars, ThereIsLast DEF IInv, handle_timeout, TypeOK, Handshake, LastProcess,
         KillKnown, fuzzer, server, procs
    <2>6. forks' > 0 => LastLife'
      BY Scalars, ThereIsLast DEF IInv, handle_timeout, TypeOK, Handshake, LastProcess,
         KillKnown, fuzzer, server, procs, LastLife
    <2> QED
      BY <2>1, <2>2, <2>3, <2>4, <2>5, <2>6 DEF LastProcess
  <1>4. KillKnown'
    BY Scalars DEF IInv, handle_timeout, TypeOK, Handshake, LastProcess, KillKnown,
       fuzzer, server, procs, LastLife
  <1>5. VerdictOwn'
    BY Scalars DEF IInv, handle_timeout, TypeOK, KillKnown, VerdictOwn, fuzzer, server,
       procs
  <1> QED
    BY <1>1, <1>2, <1>3, <1>4, <1>5 DEF IInv

\* A stopped process is written off exactly if it was killed.
LEMMA StepReadRequest ==
  ASSUME IInv, ReadRequest
  PROVE  IInv'
  <1>0. /\ pc = "pid" /\ st = <<>> /\ ctl' = <<>> /\ Head(ctl) = prev_timed_out
        /\ prev_timed_out \in BOOLEAN
    <2>1. pc = "pid" /\ st = <<>> /\ ctl = <<prev_timed_out>>
      BY DEF IInv, ReadRequest, Handshake
    <2>2. Head(ctl) = prev_timed_out /\ Tail(ctl) = <<>>
      BY <2>1
    <2> QED
      BY <2>1, <2>2 DEF IInv, ReadRequest, TypeOK
  <1>1. TypeOK'
    <2>1. ctl' \in Seq(BOOLEAN)
      BY <1>0
    <2> QED
      BY <1>0, <2>1 DEF IInv, ReadRequest, TypeOK, fuzzer, procs
  <1>2. Handshake'
    BY <1>0 DEF IInv, ReadRequest, Handshake, fuzzer
  <1>3. LastProcess'
    BY <1>0, Scalars DEF IInv, ReadRequest, TypeOK, LastProcess, LastLife, KillKnown,
       fuzzer, procs
  <1>4. KillKnown'
    BY <1>0, Scalars DEF IInv, ReadRequest, TypeOK, LastProcess, LastLife, KillKnown,
       fuzzer, procs
  <1>5. VerdictOwn'
    BY DEF IInv, ReadRequest, VerdictOwn, fuzzer
  <1> QED
    BY <1>1, <1>2, <1>3, <1>4, <1>5 DEF IInv

\* Once it is reaped there is no process.
LEMMA StepWriteOff ==
  ASSUME IInv, WriteOff
  PROVE  IInv'
  <1>1. TypeOK'
    BY Scalars DEF IInv, WriteOff, TypeOK, Handshake, LastProcess, fuzzer, server,
       procs, LastLife
  <1>2. Handshake'
    BY Scalars DEF IInv, WriteOff, TypeOK, Handshake, LastProcess, KillKnown, fuzzer,
       server, procs, LastLife
  <1>3. LastProcess'
    BY Scalars DEF IInv, WriteOff, TypeOK, Handshake, LastProcess, KillKnown, fuzzer,
       server, procs, LastLife
  <1>4. KillKnown'
    BY Scalars DEF IInv, WriteOff, TypeOK, Handshake, LastProcess, KillKnown, fuzzer,
       server, procs, LastLife
  <1>5. VerdictOwn'
    BY Scalars DEF IInv, WriteOff, TypeOK, KillKnown, VerdictOwn, fuzzer, server, procs
  <1> QED
    BY <1>1, <1>2, <1>3, <1>4, <1>5 DEF IInv

\* A new process is made when the last one is gone.
LEMMA StepFork ==
  ASSUME IInv, Fork
  PROVE  IInv'
  <1>0. /\ pc = "pid" /\ ctl = <<>> /\ st = <<>> /\ forks < runs
        /\ forks + 1 \in Proc /\ st' = <<Pid(forks + 1)>>
    <2>1. pc = "pid" /\ ctl = <<>> /\ st = <<>>
      BY DEF IInv, Fork, Handshake
    <2>2. forks < runs
      BY <2>1 DEF IInv, LastProcess, LastLife
    <2> QED
      BY <2>1, <2>2, Scalars DEF Fork
  <1>1. TypeOK'
    <2>1. st' \in Seq(Words)
      BY <1>0, WordTypes
    <2>2. life' \in [Proc -> {"none", "run", "stopped", "gone"} \cup Ends]
      BY Scalars DEF IInv, Fork, TypeOK
    <2>3. cycle_cnt' \in [Proc -> 0 .. MaxCnt] /\ serves' \in [Proc -> 0 .. MaxRuns]
      <3>1. MaxCnt \in 0 .. MaxCnt /\ runs \in 0 .. MaxRuns
        BY Scalars
      <3>2. cycle_cnt \in [Proc -> 0 .. MaxCnt] /\ serves \in [Proc -> 0 .. MaxRuns]
        BY DEF IInv, TypeOK
      <3> QED
        BY <3>1, <3>2 DEF Fork
    <2>4. forks' \in 0 .. MaxRuns /\ fs_pid' \in Proc
      BY <1>0, Scalars DEF Fork
    <2> QED
      BY <2>1, <2>2, <2>3, <2>4 DEF IInv, Fork, TypeOK, fuzzer
  <1>2. Handshake'
    BY <1>0 DEF Fork, Handshake, fuzzer
  <1>3. LastProcess'
    <2>1. /\ fs_pid' = forks' /\ forks' = forks + 1 /\ forks' > 0 /\ forks' <= runs'
          /\ pc' = "pid" /\ st' # <<>>
      BY <1>0, Scalars DEF Fork, fuzzer
    <2>2. forks > 0 => life[forks] = "gone"
      BY DEF IInv, Fork, LastProcess, LastLife
    <2>3. \A q \in Proc : q < forks' => life'[q] = "gone"
      BY <2>1, <2>2, Scalars DEF IInv, Fork, TypeOK, LastProcess
    <2>4. ASSUME NEW q \in Proc, q > forks'
          PROVE  life'[q] = "none" /\ ~killed'[q]
      <3>1. q > forks /\ q # forks + 1
        BY <2>1, <2>4, Scalars
      <3> QED
        BY <3>1, Scalars DEF IInv, Fork, TypeOK, LastProcess
    <2>5. \A q \in Proc : life'[q] \in {"run", "stopped"} => cycle_cnt'[q] > 0
      BY <2>1, Scalars DEF IInv, Fork, TypeOK, LastProcess
    <2>6. LastLife'
      BY <1>0, <2>1, Scalars DEF IInv, Fork, TypeOK, LastLife, fuzzer
    <2> QED
      BY <2>1, <2>3, <2>4, <2>5, <2>6 DEF LastProcess
  <1>4. KillKnown'
    <2>1. killed[forks + 1] = FALSE
      BY <1>0, Scalars DEF IInv, TypeOK, LastProcess, LastLife
    <2> QED
      BY <1>0, <2>1, Scalars DEF IInv, Fork, TypeOK, KillKnown, fuzzer
  <1>5. VerdictOwn'
    BY Scalars DEF IInv, Fork, TypeOK, KillKnown, VerdictOwn, fuzzer, server, procs
  <1> QED
    BY <1>1, <1>2, <1>3, <1>4, <1>5 DEF IInv

\* The stopped process serves the new run.
LEMMA StepContinue ==
  ASSUME IInv, Continue
  PROVE  IInv'
  <1>1. TypeOK'
    <2>1. /\ st' \in Seq(Words) /\ status' \in Words /\ ctl' \in Seq(BOOLEAN)
          /\ fs_pid' \in Proc \cup {0} /\ child_pid' \in Proc \cup {0}
      BY Scalars, WordTypes DEF IInv, Continue, TypeOK, Handshake, LastProcess, fuzzer,
         server, procs, LastLife
    <2>2. /\ life' \in [Proc -> {"none", "run", "stopped", "gone"} \cup Ends]
          /\ killed' \in [Proc -> BOOLEAN]
          /\ cycle_cnt' \in [Proc -> 0 .. MaxCnt]
          /\ serves' \in [Proc -> 0 .. MaxRuns]
      BY DEF IInv, Continue, TypeOK, Handshake, LastProcess, fuzzer, server, procs, LastLife
    <2>3. /\ runs' \in 0 .. MaxRuns /\ forks' \in 0 .. MaxRuns
          /\ net' \in {"sbr", "plain"} /\ fs' \in {"read", "write_off", "start", "wait"}
      BY DEF IInv, Continue, TypeOK, Handshake, LastProcess, fuzzer, server, procs, LastLife
    <2> QED
      BY <2>1, <2>2, <2>3 DEF IInv, Continue, TypeOK, Handshake, LastProcess, fuzzer,
         server, procs, LastLife
  <1>2. Handshake'
    BY Scalars DEF IInv, Continue, TypeOK, Handshake, LastProcess, KillKnown, fuzzer,
       server, procs, LastLife
  <1>3. LastProcess'
    BY Scalars DEF IInv, Continue, TypeOK, Handshake, LastProcess, KillKnown, fuzzer,
       server, procs, LastLife
  <1>4. KillKnown'
    BY Scalars DEF IInv, Continue, TypeOK, Handshake, LastProcess, KillKnown, fuzzer,
       server, procs, LastLife
  <1>5. VerdictOwn'
    BY Scalars DEF IInv, Continue, TypeOK, KillKnown, VerdictOwn, fuzzer, server, procs
  <1> QED
    BY <1>1, <1>2, <1>3, <1>4, <1>5 DEF IInv

\* The status STOP goes with child_stopped.
LEMMA StepChildStopped ==
  ASSUME IInv, ChildStopped
  PROVE  IInv'
  <1>0. /\ forks \in Proc /\ fs_pid = forks /\ ctl = <<>> /\ ~child_stopped
        /\ \/ pc = "pid" /\ st' = <<Pid(forks), Status(forks, "STOP")>>
           \/ pc \in {"talk", "status"} /\ st' = <<Status(forks, "STOP")>>
    <2>1. /\ fs = "wait" /\ fs_pid = forks
          /\ st' = Append(st, Status(forks, "STOP"))
      BY Scalars DEF ChildStopped
    <2>2. /\ forks \in Proc /\ ctl = <<>> /\ ~child_stopped
          /\ \/ pc = "pid" /\ st = <<Pid(forks)>>
             \/ pc \in {"talk", "status"} /\ st = <<>>
      BY <2>1, WhileWaiting
    <2>3. Pid(forks) \in Words /\ Status(forks, "STOP") \in Words
      BY <2>1, <2>2, WordTypes DEF ChildStopped, Statuses
    <2> QED
      BY <2>1, <2>2, <2>3, AppendOne
  <1>1. TypeOK'
    <2>1. Pid(forks) \in Words /\ Status(forks, "STOP") \in Words
      BY <1>0, WordTypes DEF ChildStopped, Statuses
    <2>2. \A x, y \in Words : <<x, y>> \in Seq(Words) /\ <<y>> \in Seq(Words)
      OBVIOUS
    <2>3. st' \in Seq(Words)
      BY <1>0, <2>1, <2>2
    <2> QED
      BY <1>0, <2>3 DEF IInv, ChildStopped, TypeOK, fuzzer, procs
  <1>2. Handshake'
    BY <1>0 DEF ChildStopped, Handshake, Statuses, fuzzer
  <1>3. LastProcess'
    <2>1. st # <<>> \/ pc \in {"talk", "status"}
      BY WhileWaiting DEF ChildStopped
    <2>2. st' # <<>>
      BY <1>0
    <2>3. serves[forks] = runs
      BY <1>0, <2>1 DEF IInv, LastProcess, LastLife
    <2> QED
      BY <1>0, <2>2, <2>3, Scalars DEF IInv, ChildStopped, TypeOK, LastProcess,
         LastLife, fuzzer, procs
  <1>4. KillKnown'
    <2>1. pc = "pid" => ~killed[forks]
      BY <1>0, WhileWaiting DEF IInv, ChildStopped, KillKnown
    <2> QED
      BY <1>0, <2>1 DEF IInv, ChildStopped, KillKnown, fuzzer, procs
  <1>5. VerdictOwn'
    BY DEF IInv, ChildStopped, VerdictOwn, fuzzer
  <1> QED
    BY <1>1, <1>2, <1>3, <1>4, <1>5 DEF IInv

\* Every other status goes with a process that is gone.
LEMMA StepChildDied ==
  ASSUME IInv, ChildDied
  PROVE  IInv'
  <1>0. /\ forks \in Proc /\ fs_pid = forks /\ ctl = <<>> /\ ~child_stopped
        /\ \/ pc = "pid" /\ st' = <<Pid(forks), Status(forks, life[forks])>>
           \/ pc \in {"talk", "status"} /\ st' = <<Status(forks, life[forks])>>
    <2>1. /\ fs = "wait" /\ fs_pid = forks
          /\ st' = Append(st, Status(forks, life[forks]))
      BY Scalars DEF ChildDied
    <2>2. /\ forks \in Proc /\ ctl = <<>> /\ ~child_stopped
          /\ \/ pc = "pid" /\ st = <<Pid(forks)>>
             \/ pc \in {"talk", "status"} /\ st = <<>>
      BY <2>1, WhileWaiting
    <2>3. Pid(forks) \in Words /\ Status(forks, life[forks]) \in Words
      BY <2>1, <2>2, WordTypes DEF ChildDied, Statuses
    <2> QED
      BY <2>1, <2>2, <2>3, AppendOne
  <1>1. TypeOK'
    <2>1. Pid(forks) \in Words /\ Status(forks, life[forks]) \in Words
      BY <1>0, WordTypes DEF ChildDied, Statuses
    <2>2. \A x, y \in Words : <<x, y>> \in Seq(Words) /\ <<y>> \in Seq(Words)
      OBVIOUS
    <2>3. st' \in Seq(Words)
      BY <1>0, <2>1, <2>2
    <2> QED
      BY <1>0, <2>3 DEF IInv, ChildDied, TypeOK, fuzzer, procs
  <1>2. Handshake'
    <2>1. life[forks] \in Ends /\ (life[forks] = "KILL" => killed[forks])
      BY <1>0 DEF IInv, ChildDied, LastProcess, LastLife
    <2>2. pc = "pid" => ~killed[forks]
      BY <1>0, WhileWaiting DEF IInv, ChildDied, KillKnown
    <2>3. pc \in {"talk", "status"} /\ life[forks] = "KILL" => child_timed_out
      BY <1>0, <2>1, Scalars DEF IInv, KillKnown
    <2>4. CASE pc = "pid"
      <3>1. life[forks] \in {"STOP", "EXIT", "SEGV"} /\ life[forks] # "STOP"
        BY <2>1, <2>2, <2>4
      <3> QED
        BY <1>0, <2>4, <3>1 DEF ChildDied, Handshake, fuzzer
    <2>5. CASE pc \in {"talk", "status"}
      <3>1. life[forks] \in Statuses /\ life[forks] # "STOP"
        BY <2>1 DEF Statuses
      <3> QED
        BY <1>0, <2>3, <2>5, <3>1 DEF ChildDied, Handshake, fuzzer
    <2> QED
      BY <1>0, <2>4, <2>5
  <1>3. LastProcess'
    <2>1. st # <<>> \/ pc \in {"talk", "status"}
      BY WhileWaiting DEF ChildDied
    <2>2. st' # <<>>
      BY <1>0
    <2>3. serves[forks] = runs
      BY <1>0, <2>1 DEF IInv, LastProcess, LastLife
    <2> QED
      BY <1>0, <2>2, <2>3, Scalars DEF IInv, ChildDied, TypeOK, LastProcess, LastLife,
         fuzzer, procs
  <1>4. KillKnown'
    <2>1. pc = "pid" => ~killed[forks]
      BY <1>0, WhileWaiting DEF IInv, ChildDied, KillKnown
    <2> QED
      BY <1>0, <2>1 DEF IInv, ChildDied, TypeOK, KillKnown, fuzzer, procs
  <1>5. VerdictOwn'
    BY DEF IInv, ChildDied, VerdictOwn, fuzzer
  <1> QED
    BY <1>1, <1>2, <1>3, <1>4, <1>5 DEF IInv

\* Only the last process, while it is waited for, comes to the end of a cycle,
LEMMA StepEndOfCycle ==
  ASSUME IInv, NEW p \in Proc, EndOfCycle(p)
  PROVE  IInv'
  <1>1. TypeOK'
    <2>1. cycle_cnt[p] \in 0 .. MaxCnt /\ cycle_cnt[p] > 0
      BY DEF IInv, EndOfCycle, TypeOK, LastProcess
    <2>2. cycle_cnt' \in [Proc -> 0 .. MaxCnt]
      BY <2>1 DEF IInv, EndOfCycle, TypeOK
    <2>3. life' \in [Proc -> {"none", "run", "stopped", "gone"} \cup Ends]
      BY DEF IInv, EndOfCycle, TypeOK
    <2> QED
      BY <2>2, <2>3 DEF IInv, EndOfCycle, TypeOK, fuzzer, server
  <1>2. Handshake'
    BY Scalars DEF IInv, EndOfCycle, TypeOK, Handshake, LastProcess, KillKnown, fuzzer,
       server, procs, LastLife, Again
  <1>3. LastProcess'
    <2>1. fs_pid' = forks' /\ forks' <= runs' /\ (pc' = "pid" /\ st' = <<>> => forks' < runs')
      BY Scalars DEF IInv, EndOfCycle, TypeOK, Handshake, LastProcess, KillKnown,
         fuzzer, server, procs, Again
    <2>2. \A q \in Proc : q < forks' => life'[q] = "gone"
      BY Scalars, ThereIsLast DEF IInv, EndOfCycle, TypeOK, Handshake, LastProcess,
         KillKnown, fuzzer, server, procs, Again
    <2>3. \A q \in Proc : q > forks' => life'[q] = "none" /\ ~killed'[q]
      BY Scalars, ThereIsLast DEF IInv, EndOfCycle, TypeOK, Handshake, LastProcess,
         KillKnown, fuzzer, server, procs, Again
    <2>4. \A q \in Proc : life'[q] \in {"run", "stopped"} => cycle_cnt'[q] > 0
      BY Scalars, ThereIsLast DEF IInv, EndOfCycle, TypeOK, Handshake, LastProcess,
         KillKnown, fuzzer, server, procs, Again
    <2>5. forks' = 0 => fs' \in {"read", "start"} /\ ~child_stopped' /\ st' = <<>>
      BY Scalars, ThereIsLast DEF IInv, EndOfCycle, TypeOK, Handshake, LastProcess,
         KillKnown, fuzzer, server, procs, Again
    <2>6. forks' > 0 => LastLife'
      BY Scalars, ThereIsLast DEF IInv, EndOfCycle, TypeOK, Handshake, LastProcess,
         KillKnown, fuzzer, server, procs, Again, LastLife
    <2> QED
      BY <2>1, <2>2, <2>3, <2>4, <2>5, <2>6 DEF LastProcess
  <1>4. KillKnown'
    BY Scalars DEF IInv, EndOfCycle, TypeOK, Handshake, LastProcess, KillKnown, fuzzer,
       server, procs, LastLife, Again
  <1>5. VerdictOwn'
    BY Scalars DEF IInv, EndOfCycle, TypeOK, KillKnown, VerdictOwn, fuzzer, server,
       procs, Again
  <1> QED
    BY <1>1, <1>2, <1>3, <1>4, <1>5 DEF IInv

\* ends by itself,
LEMMA StepEnded ==
  ASSUME IInv, NEW p \in Proc, Ended(p)
  PROVE  IInv'
  <1>1. TypeOK'
    <2>1. /\ st' \in Seq(Words) /\ status' \in Words /\ ctl' \in Seq(BOOLEAN)
          /\ fs_pid' \in Proc \cup {0} /\ child_pid' \in Proc \cup {0}
      BY Scalars, WordTypes DEF IInv, Ended, TypeOK, Handshake, LastProcess, fuzzer,
         server, procs, LastLife
    <2>2. /\ life' \in [Proc -> {"none", "run", "stopped", "gone"} \cup Ends]
          /\ killed' \in [Proc -> BOOLEAN]
          /\ cycle_cnt' \in [Proc -> 0 .. MaxCnt]
          /\ serves' \in [Proc -> 0 .. MaxRuns]
      BY DEF IInv, Ended, TypeOK, Handshake, LastProcess, fuzzer, server, procs, LastLife
    <2>3. /\ runs' \in 0 .. MaxRuns /\ forks' \in 0 .. MaxRuns
          /\ net' \in {"sbr", "plain"} /\ fs' \in {"read", "write_off", "start", "wait"}
      BY DEF IInv, Ended, TypeOK, Handshake, LastProcess, fuzzer, server, procs, LastLife
    <2> QED
      BY <2>1, <2>2, <2>3 DEF IInv, Ended, TypeOK, Handshake, LastProcess, fuzzer,
         server, procs, LastLife
  <1>2. Handshake'
    BY Scalars DEF IInv, Ended, TypeOK, Handshake, LastProcess, KillKnown, fuzzer,
       server, procs, LastLife
  <1>3. LastProcess'
    <2>1. fs_pid' = forks' /\ forks' <= runs' /\ (pc' = "pid" /\ st' = <<>> => forks' < runs')
      BY Scalars DEF IInv, Ended, TypeOK, Handshake, LastProcess, KillKnown, fuzzer,
         server, procs
    <2>2. \A q \in Proc : q < forks' => life'[q] = "gone"
      BY Scalars, ThereIsLast DEF IInv, Ended, TypeOK, Handshake, LastProcess,
         KillKnown, fuzzer, server, procs
    <2>3. \A q \in Proc : q > forks' => life'[q] = "none" /\ ~killed'[q]
      BY Scalars, ThereIsLast DEF IInv, Ended, TypeOK, Handshake, LastProcess,
         KillKnown, fuzzer, server, procs
    <2>4. \A q \in Proc : life'[q] \in {"run", "stopped"} => cycle_cnt'[q] > 0
      BY Scalars, ThereIsLast DEF IInv, Ended, TypeOK, Handshake, LastProcess,
         KillKnown, fuzzer, server, procs
    <2>5. forks' = 0 => fs' \in {"read", "start"} /\ ~child_stopped' /\ st' = <<>>
      BY Scalars, ThereIsLast DEF IInv, Ended, TypeOK, Handshake, LastProcess,
         KillKnown, fuzzer, server, procs
    <2>6. forks' > 0 => LastLife'
      BY Scalars, ThereIsLast DEF IInv, Ended, TypeOK, Handshake, LastProcess,
         KillKnown, fuzzer, server, procs, LastLife
    <2> QED
      BY <2>1, <2>2, <2>3, <2>4, <2>5, <2>6 DEF LastProcess
  <1>4. KillKnown'
    BY Scalars DEF IInv, Ended, TypeOK, Handshake, LastProcess, KillKnown, fuzzer,
       server, procs, LastLife
  <1>5. VerdictOwn'
    BY Scalars DEF IInv, Ended, TypeOK, KillKnown, VerdictOwn, fuzzer, server, procs
  <1> QED
    BY <1>1, <1>2, <1>3, <1>4, <1>5 DEF IInv

\* or dies of the timer, also while it is stopped.
LEMMA StepKilled ==
  ASSUME IInv, NEW p \in Proc, Killed(p)
  PROVE  IInv'
  <1>1. TypeOK'
    <2>1. /\ st' \in Seq(Words) /\ status' \in Words /\ ctl' \in Seq(BOOLEAN)
          /\ fs_pid' \in Proc \cup {0} /\ child_pid' \in Proc \cup {0}
      BY Scalars, WordTypes DEF IInv, Killed, TypeOK, Handshake, LastProcess, fuzzer,
         server, procs, LastLife
    <2>2. /\ life' \in [Proc -> {"none", "run", "stopped", "gone"} \cup Ends]
          /\ killed' \in [Proc -> BOOLEAN]
          /\ cycle_cnt' \in [Proc -> 0 .. MaxCnt]
          /\ serves' \in [Proc -> 0 .. MaxRuns]
      BY DEF IInv, Killed, TypeOK, Handshake, LastProcess, fuzzer, server, procs, LastLife
    <2>3. /\ runs' \in 0 .. MaxRuns /\ forks' \in 0 .. MaxRuns
          /\ net' \in {"sbr", "plain"} /\ fs' \in {"read", "write_off", "start", "wait"}
      BY DEF IInv, Killed, TypeOK, Handshake, LastProcess, fuzzer, server, procs, LastLife
    <2> QED
      BY <2>1, <2>2, <2>3 DEF IInv, Killed, TypeOK, Handshake, LastProcess, fuzzer,
         server, procs, LastLife
  <1>2. Handshake'
    BY Scalars DEF IInv, Killed, TypeOK, Handshake, LastProcess, KillKnown, fuzzer,
       server, procs, LastLife
  <1>3. LastProcess'
    <2>1. fs_pid' = forks' /\ forks' <= runs' /\ (pc' = "pid" /\ st' = <<>> => forks' < runs')
      BY Scalars DEF IInv, Killed, TypeOK, Handshake, LastProcess, KillKnown, fuzzer,
         server, procs
    <2>2. \A q \in Proc : q < forks' => life'[q] = "gone"
      BY Scalars, ThereIsLast DEF IInv, Killed, TypeOK, Handshake, LastProcess,
         KillKnown, fuzzer, server, procs
    <2>3. \A q \in Proc : q > forks' => life'[q] = "none" /\ ~killed'[q]
      BY Scalars, ThereIsLast DEF IInv, Killed, TypeOK, Handshake, LastProcess,
         KillKnown, fuzzer, server, procs
    <2>4. \A q \in Proc : life'[q] \in {"run", "stopped"} => cycle_cnt'[q] > 0
      BY Scalars, ThereIsLast DEF IInv, Killed, TypeOK, Handshake, LastProcess,
         KillKnown, fuzzer, server, procs
    <2>5. forks' = 0 => fs' \in {"read", "start"} /\ ~child_stopped' /\ st' = <<>>
      BY Scalars, ThereIsLast DEF IInv, Killed, TypeOK, Handshake, LastProcess,
         KillKnown, fuzzer, server, procs
    <2>6. forks' > 0 => LastLife'
      BY Scalars, ThereIsLast DEF IInv, Killed, TypeOK, Handshake, LastProcess,
         KillKnown, fuzzer, server, procs, LastLife
    <2> QED
      BY <2>1, <2>2, <2>3, <2>4, <2>5, <2>6 DEF LastProcess
  <1>4. KillKnown'
    BY Scalars DEF IInv, Killed, TypeOK, Handshake, LastProcess, KillKnown, fuzzer,
       server, procs, LastLife
  <1>5. VerdictOwn'
    BY Scalars DEF IInv, Killed, TypeOK, KillKnown, VerdictOwn, fuzzer, server, procs
  <1> QED
    BY <1>1, <1>2, <1>3, <1>4, <1>5 DEF IInv

\* One case per action.
LEMMA NextInv == IInv /\ [Next]_vars => IInv'
  <1> SUFFICES ASSUME IInv, [Next]_vars PROVE IInv'
    OBVIOUS
  <1>1. CASE run_target
    BY <1>1, StepRequest, StepReadPid, StepDialogueEnds, StepDialogueGivesUp,
       StepReadStatus, StepReport DEF run_target
  <1>2. CASE handle_timeout
    BY <1>2, StepTimeout
  <1>3. CASE forkserver
    BY <1>3, StepReadRequest, StepWriteOff, StepFork, StepContinue,
       StepChildStopped, StepChildDied DEF forkserver
  <1>4. CASE \E p \in Proc : EndOfCycle(p) \/ Ended(p) \/ Killed(p)
    BY <1>4, StepEndOfCycle, StepEnded, StepKilled
  <1>5. CASE UNCHANGED vars
    <2>1. TypeOK'
      BY <1>5 DEF vars, fuzzer, server, procs, IInv, TypeOK
    <2>2. Handshake'
      BY <1>5 DEF vars, fuzzer, server, procs, IInv, Handshake
    <2>3. LastProcess'
      BY <1>5 DEF vars, fuzzer, server, procs, IInv, LastProcess, LastLife
    <2>4. KillKnown' /\ VerdictOwn'
      BY <1>5 DEF vars, fuzzer, server, procs, IInv, KillKnown, VerdictOwn
    <2> QED
      BY <2>1, <2>2, <2>3, <2>4 DEF IInv
  <1> QED
    BY <1>1, <1>2, <1>3, <1>4, <1>5 DEF Next

\* The two pipes, the fork server and the processes stay in step through every
\* sequence of runs, stops, wake-ups, kills and deaths.
THEOREM HandOver == Spec => []IInv
  BY InitInv, NextInv, PTL DEF Spec

\* Every variable keeps to its range: no process is made beyond one per run, and
\* none counts its test cases below zero.
THEOREM TypeCorrect == Spec => []TypeOK
  <1>1. IInv => TypeOK
    BY DEF IInv
  <1> QED
    BY <1>1, HandOver, PTL

\* A stopped process that was killed is waited for and never woken, one that was
\* not killed is woken and never waited for.
THEOREM NoRaceOnWaking == Spec => []WakesTheLiving
  <1>1. IInv => WakesTheLiving
    <2> SUFFICES ASSUME IInv PROVE WakesTheLiving
      OBVIOUS
    <2>1. forks > 0 => WakesTheLiving
      BY Scalars DEF IInv, LastProcess, LastLife, KillKnown, WakesTheLiving
    <2>2. forks = 0 => WakesTheLiving
      BY Scalars DEF IInv, LastProcess, WakesTheLiving
    <2> QED
      BY <2>1, <2>2, Scalars
  <1> QED
    BY <1>1, HandOver, PTL

\* Every process but the one the fork server knows has been reaped.
THEOREM NoneForgotten == Spec => []OneProcess
  <1>1. IInv => OneProcess
    BY Scalars, ThereIsLast DEF OneProcess
  <1> QED
    BY <1>1, HandOver, PTL

\* The fuzzer never takes a word of an earlier run for one of its own.
THEOREM WordsInStep == Spec => []WordsOwn
  <1>1. IInv => WordsOwn
    <2> SUFFICES ASSUME IInv, NEW i \in DOMAIN st
                 PROVE  /\ i = 1 /\ pc = "pid" => st[i].kind = "pid"
                        /\ i = 1 /\ pc # "pid" => st[i].kind = "status" /\ st[i].of = child_pid
                        /\ serves[st[i].of] = runs
      BY DEF WordsOwn
    <2>1. st # <<>>
      OBVIOUS
    <2>2. forks \in Proc /\ serves[forks] = runs
      BY <2>1, Scalars DEF IInv, LastProcess, LastLife
    <2>3. CASE pc = "pid"
      <3>1. PICK how : st = <<Pid(forks)>> \/ st = <<Pid(forks), Status(forks, how)>>
        BY <2>1, <2>3, PidFirst
      <3> QED
        BY <2>2, <2>3, <3>1 DEF Pid, Status
    <2>4. CASE pc \in {"talk", "status"}
      <3>1. PICK how : st = <<Status(forks, how)>> /\ child_pid = forks
        BY <2>1, <2>4, StatusFirst
      <3> QED
        BY <2>2, <2>4, <3>1 DEF Status
    <2> QED
      BY <2>1, <2>3, <2>4 DEF IInv, Handshake
  <1> QED
    BY <1>1, HandOver, PTL

\* No process is at work while afl-fuzz clears or reads the coverage map.
THEOREM MapUndisturbed == Spec => []MapQuiet
  <1>1. IInv => MapQuiet
    <2> SUFFICES ASSUME IInv, pc \in {"idle", "report"}, NEW p \in Proc
                 PROVE  life[p] # "run"
      BY DEF MapQuiet
    <2>1. fs = "read"
      BY DEF IInv, Handshake
    <2>2. ASSUME life[p] = "run" PROVE FALSE
      <3>1. p = forks /\ forks > 0
        BY <2>2, ThereIsLast, Scalars
      <3>2. life[forks] \in {"stopped", "KILL", "gone"}
        BY <2>1, <3>1 DEF IInv, LastProcess, LastLife
      <3> QED
        BY <2>2, <3>1, <3>2
    <2> QED
      BY <2>2
  <1> QED
    BY <1>1, HandOver, PTL

\* A run is called a timeout exactly when the timer ended its process at work.
THEOREM VerdictIsOwn == Spec => []VerdictOwn
  <1>1. IInv => VerdictOwn
    BY DEF IInv
  <1> QED
    BY <1>1, HandOver, PTL

=============================================================================
