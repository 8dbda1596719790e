--------------------------- MODULE SnapRunProofs ---------------------------
(***************************************************************************)
(* Proofs about SnapRun, for every number of requests, runs and moves and  *)
(* every set of faults.                                                    *)
(***************************************************************************)
EXTENDS SnapRun, TLAPS, SequenceTheorems, FiniteSetTheorems

(***************************************************************************)
(* Type correctness.  Flags and data are proved apart: the flags are       *)
(* propositional, the data needs arithmetic and sequences.                 *)
(***************************************************************************)

\* An assignment to an entry keeps a sequence of numbers one of that length.
LEMMA ExceptNatSeq ==
  ASSUME NEW s \in Seq(Nat), NEW i, NEW v \in Nat
  PROVE  /\ [s EXCEPT ![i] = v] \in Seq(Nat)
         /\ Len([s EXCEPT ![i] = v]) = Len(s)
<1>1. PICK n \in Nat : s \in [1 .. n -> Nat]
  OBVIOUS
<1>2. [s EXCEPT ![i] = v] \in [1 .. n -> Nat]
  BY <1>1
<1>3. QED
  BY <1>1, <1>2

\* response_bytes stays a sequence of sizes when a size is recorded in it.
LEMMA RecordOK == StateOK => RecordResponse(response_bytes) \in Seq(Nat)
<1> SUFFICES ASSUME StateOK PROVE RecordResponse(response_bytes) \in Seq(Nat)
  OBVIOUS
<1>1. response_bytes \in Seq(Nat) /\ Len(response_buf) \in Nat
  BY DEF StateOK
<1>2. QED
  BY <1>1, ExceptNatSeq DEF RecordResponse

\* What target_will_do receives is an announcement.
LEMMA HeadAct ==
  ASSUME NEW q \in Seq(Announcements), q # <<>>
  PROVE  Head(q).act \in {"Send", "Recv"}
<1>1. Head(q) \in Announcements
  OBVIOUS
<1>2. QED
  BY <1>1 DEF Announcements

\* A state sequence long enough for has_new_targetstate has a last but one.
LEMMA TargetInNat ==
  ASSUME NEW seq \in Seq(Nat), IsNewTarget(seq)
  PROVE  TargetState(seq) \in Nat
<1>1. Len(seq) - 1 \in 1 .. Len(seq)
  BY DEF IsNewTarget
<1>2. QED
  BY <1>1 DEF TargetState

\* The handlers send SIGKILL and nothing unknown.
LEMMA KillChildOK == StateOK /\ KillChild => csig' \subseteq {"KILL", "TERM"}
<1> SUFFICES ASSUME StateOK, KillChild PROVE csig' \subseteq {"KILL", "TERM"}
  OBVIOUS
<1>1. CASE cpc \in Live
  BY <1>1 DEF StateOK, KillChild
<1>2. CASE cpc \notin Live
  BY <1>2 DEF StateOK, KillChild
<1>3. QED
  BY <1>1, <1>2

\* The fuzzer starts well typed.
LEMMA TypeInit == Init => TypeOK
<1>1. Init => FlagsOK
  BY DEF Init, FlagsOK
<1>2. Init => StateOK
  BY ConstantsAssumption DEF Init, StateOK, PCs, Verdicts, Live, Statuses
<1>3. QED
  BY <1>1, <1>2 DEF TypeOK

\* The flags stay flags, whoever moves.
LEMMA FlagsStep == FlagsOK /\ [Next]_vars => FlagsOK'
<1> SUFFICES ASSUME FlagsOK, [Next]_vars PROVE FlagsOK'
  OBVIOUS
<1> USE ConstantsAssumption
<1> USE DEF FlagsOK, test, turn, progress, response, states, exchange, signals,
        fuzzer, forkvars, channels, process, shm, server, childvars, world
<1>1. CASE StartRun
  BY <1>1, Zenon DEF StartRun
<1>2. CASE ReadPid
  BY <1>2, Zenon DEF ReadPid
<1>3. CASE ReadStatus
  BY <1>3, Zenon DEF ReadStatus
<1>4. CASE PipeClosed
  BY <1>4, Zenon DEF PipeClosed
<1>5. CASE Classify
  BY <1>5, Zenon DEF Classify
<1>6. CASE WillRecv
  BY <1>6, Zenon DEF WillRecv
<1>7. CASE WillRetry
  BY <1>7, Zenon DEF WillRetry
<1>8. CASE WillTimeout
  BY <1>8, Zenon DEF WillTimeout
<1>9. CASE WillSend
  BY <1>9, Zenon DEF WillSend
<1>10. CASE WillRecvTurn
  BY <1>10, Zenon DEF WillRecvTurn
<1>11. CASE NetRecv
  BY <1>11, Zenon DEF NetRecv
<1>12. CASE NetRecvFails
  BY <1>12, Zenon DEF NetRecvFails
<1>13. CASE SendMsg
  BY <1>13, Zenon DEF SendMsg
<1>14. CASE SendFails
  BY <1>14, Zenon DEF SendFails
<1>15. CASE ExtractState
  BY <1>15, Zenon DEF ExtractState
<1>16. CASE DrainOwnEnds
  BY <1>16, Zenon DEF DrainOwnEnds
<1>17. CASE DrainDead
  BY <1>17, Zenon DEF DrainDead, HandleResponses
<1>18. CASE DrainSigterm
  BY <1>18, Zenon DEF DrainSigterm
<1>19. CASE DrainGivesUp
  BY <1>19, Zenon DEF DrainGivesUp, HandleResponses
<1>20. CASE DrainAgain
  BY <1>20, Zenon DEF DrainAgain
<1>21. CASE Fork
  BY <1>21, Zenon DEF Fork
<1>22. CASE WritePid
  BY <1>22, Zenon DEF WritePid
<1>23. CASE Reap
  BY <1>23, Zenon DEF Reap
<1>24. CASE InitReaps
  BY <1>24, Zenon DEF InitReaps
<1>25. CASE handle_timeout
  BY <1>25, Zenon DEF handle_timeout
<1>26. CASE handle_stop_sig
  BY <1>26, Zenon DEF handle_stop_sig
<1>27. CASE SetGroup
  BY <1>27, Zenon DEF SetGroup
<1>28. CASE NotifySend
  BY <1>28, Zenon DEF NotifySend
<1>29. CASE WriteData
  BY <1>29, Zenon DEF WriteData
<1>30. CASE NotifyRecv
  BY <1>30, Zenon DEF NotifyRecv
<1>31. CASE ReadRequest
  BY <1>31, Zenon DEF ReadRequest
<1>32. CASE ReadEOF
  BY <1>32, Zenon DEF ReadEOF
<1>33. CASE RecvFails
  BY <1>33, Zenon DEF RecvFails
<1>34. CASE ServePending
  BY <1>34, Zenon DEF ServePending
<1>35. CASE Exits
  BY <1>35, Zenon DEF Exits, Die
<1>36. CASE Crashes
  BY <1>36, Zenon DEF Crashes, Die
<1>37. CASE Killed
  BY <1>37, Zenon DEF Killed, Die
<1>38. CASE Termed
  BY <1>38, Zenon DEF Termed, Die
<1>39. CASE UNCHANGED vars
  BY <1>39, Zenon DEF vars
<1>40. QED
  BY <1>1, <1>2, <1>3, <1>4, <1>5, <1>6, <1>7, <1>8, <1>9, <1>10, <1>11, <1>12,
     <1>13, <1>14, <1>15, <1>16, <1>17, <1>18, <1>19, <1>20, <1>21, <1>22,
     <1>23, <1>24, <1>25, <1>26, <1>27, <1>28, <1>29, <1>30, <1>31, <1>32,
     <1>33, <1>34, <1>35, <1>36, <1>37, <1>38, <1>39 DEF Next, Fuzzer,
     run_target, target_will_do, drain_pending_msgs, send_over_network_sbr,
     ForkServer, Signals, Child, Finished

\* Data keeps its type; the poll counter of target_will_do below its period.
LEMMA StateStep == StateOK /\ [Next]_vars => StateOK'
<1> SUFFICES ASSUME StateOK, [Next]_vars PROVE StateOK'
  OBVIOUS
<1> USE ConstantsAssumption DEF StateOK, PCs, Verdicts, Live, Statuses, test,
        turn, progress, response, states, exchange, signals, fuzzer, forkvars,
        channels, process, shm, server, childvars, world, Packet, Announcements
<1>1. CASE StartRun
  BY <1>1 DEF StartRun
<1>2. CASE ReadPid
  BY <1>2 DEF ReadPid
<1>3. CASE ReadStatus
  BY <1>3 DEF ReadStatus
<1>4. CASE PipeClosed
  BY <1>4 DEF PipeClosed, Verdicts
<1>5. CASE Classify
  BY <1>5 DEF Classify, Fault, Verdicts
<1>6. CASE WillRecv
  <2>1. ta' \in {"GetNext", "Send", "Recv"}
    <3>1. CASE ctlIn = <<>>
      BY <1>6, <3>1 DEF WillRecv
    <3>2. CASE ctlIn # <<>>
      BY <1>6, <3>2, HeadAct DEF WillRecv
    <3>3. QED
      BY <3>1, <3>2
  <2>2. QED
    BY <1>6, <2>1 DEF WillRecv
<1>7. CASE WillRetry
  BY <1>7 DEF WillRetry
<1>8. CASE WillTimeout
  <2>1. response_bytes' \in Seq(Nat)
    BY <1>8, RecordOK DEF WillTimeout
  <2>2. QED
    BY <1>8, <2>1 DEF WillTimeout
<1>9. CASE WillSend
  BY <1>9 DEF WillSend
<1>10. CASE WillRecvTurn
  <2>1. response_bytes' \in Seq(Nat)
    BY <1>10, RecordOK DEF WillRecvTurn
  <2>2. dataOut' \in Seq([run : Nat, msg : Nat])
    <3>1. CASE dataOut' = dataOut
      BY <3>1
    <3>2. CASE emulate_disconnect
      <4>1. Packet(run, 0) \in [run : Nat, msg : Nat]
        OBVIOUS
      <4>2. QED
        BY <4>1, <3>2 DEF emulate_disconnect
    <3>3. QED
      BY <1>10, <3>1, <3>2 DEF WillRecvTurn
  <2>3. QED
    BY <1>10, <2>1, <2>2 DEF WillRecvTurn
<1>11. CASE NetRecv
  BY <1>11 DEF NetRecv
<1>12. CASE NetRecvFails
  BY <1>12 DEF NetRecvFails
<1>13. CASE SendMsg
  BY <1>13 DEF SendMsg
<1>14. CASE SendFails
  BY <1>14 DEF SendFails, emulate_disconnect
<1>15. CASE ExtractState
  <2>1. state_sequence' \in Seq(Nat)
    BY <1>15 DEF ExtractState, extract_state_codes
  <2>2. state_targets' \in Seq(Nat)
    <3>1. CASE IsNewTarget(state_sequence')
      <4>1. TargetState(state_sequence') \in Nat
        BY <2>1, <3>1, TargetInNat
      <4>2. QED
        BY <1>15, <4>1 DEF ExtractState
    <3>2. CASE ~IsNewTarget(state_sequence')
      BY <1>15, <3>2 DEF ExtractState
    <3>3. QED
      BY <3>1, <3>2
  <2>3. response_bytes' \in Seq(Nat)
    BY <1>15 DEF ExtractState
  <2>4. QED
    BY <1>15, <2>1, <2>2, <2>3 DEF ExtractState
<1>16. CASE DrainOwnEnds
  BY <1>16 DEF DrainOwnEnds
<1>17. CASE DrainDead
  <2>1. response_bytes' \in Seq(Nat)
    BY <1>17, RecordOK DEF DrainDead, HandleResponses
  <2>2. dataOut' \in Seq([run : Nat, msg : Nat])
    BY <1>17 DEF DrainDead, DrainTargetEnd
  <2>3. state_sequence' \in Seq(Nat)
    BY <1>17 DEF DrainDead, HandleResponses, extract_state_codes
  <2>4. QED
    BY <1>17, <2>1, <2>2, <2>3 DEF DrainDead, HandleResponses
<1>18. CASE DrainSigterm
  BY <1>18 DEF DrainSigterm
<1>19. CASE DrainGivesUp
  <2>1. response_bytes' \in Seq(Nat)
    BY <1>19, RecordOK DEF DrainGivesUp, HandleResponses
  <2>2. state_sequence' \in Seq(Nat)
    BY <1>19 DEF DrainGivesUp, HandleResponses, extract_state_codes
  <2>3. QED
    BY <1>19, <2>1, <2>2 DEF DrainGivesUp, HandleResponses
<1>20. CASE DrainAgain
  BY <1>20 DEF DrainAgain
<1>21. CASE Fork
  BY <1>21 DEF Fork
<1>22. CASE WritePid
  BY <1>22 DEF WritePid
<1>23. CASE Reap
  BY <1>23 DEF Reap
<1>24. CASE InitReaps
  BY <1>24 DEF InitReaps
<1>25. CASE handle_timeout
  <2>1. csig' \subseteq {"KILL", "TERM"}
    BY <1>25, KillChildOK DEF handle_timeout
  <2>2. QED
    BY <1>25, <2>1 DEF handle_timeout
<1>26. CASE handle_stop_sig
  <2>1. csig' \subseteq {"KILL", "TERM"}
    BY <1>26, KillChildOK DEF handle_stop_sig
  <2>2. QED
    BY <1>26, <2>1 DEF handle_stop_sig
<1>27. CASE SetGroup
  BY <1>27 DEF SetGroup
<1>28. CASE NotifySend
  BY <1>28 DEF NotifySend
<1>29. CASE WriteData
  BY <1>29 DEF WriteData
<1>30. CASE NotifyRecv
  BY <1>30 DEF NotifyRecv
<1>31. CASE ReadRequest
  BY <1>31 DEF ReadRequest
<1>32. CASE ReadEOF
  BY <1>32 DEF ReadEOF
<1>33. CASE RecvFails
  BY <1>33 DEF RecvFails
<1>34. CASE ServePending
  BY <1>34 DEF ServePending
<1>35. CASE Exits
  BY <1>35 DEF Exits, Die
<1>36. CASE Crashes
  BY <1>36 DEF Crashes, Die
<1>37. CASE Killed
  BY <1>37 DEF Killed, Die
<1>38. CASE Termed
  BY <1>38 DEF Termed, Die
<1>39. CASE UNCHANGED vars
  BY <1>39 DEF vars
<1>40. QED
  BY <1>1, <1>2, <1>3, <1>4, <1>5, <1>6, <1>7, <1>8, <1>9, <1>10, <1>11, <1>12,
     <1>13, <1>14, <1>15, <1>16, <1>17, <1>18, <1>19, <1>20, <1>21, <1>22,
     <1>23, <1>24, <1>25, <1>26, <1>27, <1>28, <1>29, <1>30, <1>31, <1>32,
     <1>33, <1>34, <1>35, <1>36, <1>37, <1>38, <1>39 DEF Next, Fuzzer,
     run_target, target_will_do, drain_pending_msgs, send_over_network_sbr,
     ForkServer, Signals, Child, Finished

\* Both together.
LEMMA TypeStep == TypeOK /\ [Next]_vars => TypeOK'
BY FlagsStep, StateStep DEF TypeOK

\* The variables keep their types: no packet, word or counter of one kind ever
\* turns up where the code expects another.
THEOREM TypeCorrect == Spec => []TypeOK
BY TypeInit, TypeStep, PTL DEF Spec

(***************************************************************************)
(* The hand-over between the fuzzer, the fork server and the child.        *)
(***************************************************************************)

\* What reading and writing do to a pipe of at most two words.
LEMMA PipeWords ==
  ASSUME NEW a, NEW b
  PROVE  /\ Tail(<<a>>) = <<>>
         /\ Tail(<<a, b>>) = <<b>>
         /\ Append(<<>>, a) = <<a>>
         /\ Append(<<a>>, b) = <<a, b>>
         /\ <<a>> # <<>> /\ <<a, b>> # <<>> /\ <<a, b>> # <<b>>
<1>1. Tail(<<a>>) = <<>> /\ Tail(<<a, b>>) = <<b>> /\ Append(<<>>, a) = <<a>>
  OBVIOUS
<1>2. Append(<<a>>, b) = <<a, b>>
  <2>1. Append(<<a>>, b) \in Seq({a, b}) /\ <<a, b>> \in Seq({a, b})
    OBVIOUS
  <2>2. /\ Len(Append(<<a>>, b)) = Len(<<a, b>>)
        /\ \A i \in 1 .. Len(<<a, b>>) : Append(<<a>>, b)[i] = <<a, b>>[i]
    OBVIOUS
  <2>3. QED
    BY <2>1, <2>2, SeqEqual
<1>3. <<a>> # <<>> /\ <<a, b>> # <<>> /\ <<a, b>> # <<b>>
  OBVIOUS
<1>4. QED
  BY <1>1, <1>2, <1>3

\* Request, pid, status and the life of the child stay in lock step.
LEMMA HandshakeStep == TypeOK /\ Handshake /\ [Next]_vars => Handshake'
<1> SUFFICES ASSUME TypeOK, Handshake, [Next]_vars PROVE Handshake'
  OBVIOUS
<1> USE DEF TypeOK, StateOK, Handshake, InRun, PCs, Live, Statuses, test, turn,
        progress, response, states, exchange, signals, fuzzer, forkvars,
        channels, process, shm, server, childvars, world
<1>1. CASE StartRun
  BY <1>1 DEF StartRun
<1>2. CASE ReadPid
  <2>1. ~req /\ run > 0
    BY <1>2 DEF ReadPid
  <2>2. CASE st_pipe = <<"PID">> /\ (fs = "waitpid" \/ stop_soon)
    <3>1. st_pipe' = <<>>
      BY <1>2, <2>2, PipeWords DEF ReadPid
    <3>2. QED
      BY <1>2, <2>1, <2>2, <3>1 DEF ReadPid
  <2>3. CASE st_pipe = <<"PID", cstatus>> /\ cpc = "gone"
    <3>1. st_pipe' = <<cstatus>>
      BY <1>2, <2>3, PipeWords DEF ReadPid
    <3>2. QED
      BY <1>2, <2>1, <2>3, <3>1 DEF ReadPid
  <2>4. QED
    BY <1>2, <2>1, <2>2, <2>3 DEF ReadPid
<1>3. CASE ReadStatus
  <2>1. st_pipe' = <<>> /\ cpc = "gone"
    BY <1>3, PipeWords DEF ReadStatus
  <2>2. QED
    BY <1>3, <2>1 DEF ReadStatus
<1>4. CASE PipeClosed
  BY <1>4 DEF PipeClosed
<1>5. CASE Classify
  BY <1>5 DEF Classify
<1>6. CASE WillRecv
  BY <1>6 DEF WillRecv
<1>7. CASE WillRetry
  BY <1>7 DEF WillRetry
<1>8. CASE WillTimeout
  BY <1>8 DEF WillTimeout
<1>9. CASE WillSend
  BY <1>9 DEF WillSend
<1>10. CASE WillRecvTurn
  BY <1>10 DEF WillRecvTurn
<1>11. CASE NetRecv
  BY <1>11 DEF NetRecv
<1>12. CASE NetRecvFails
  BY <1>12 DEF NetRecvFails
<1>13. CASE SendMsg
  BY <1>13 DEF SendMsg
<1>14. CASE SendFails
  BY <1>14 DEF SendFails
<1>15. CASE ExtractState
  BY <1>15 DEF ExtractState
<1>16. CASE DrainOwnEnds
  BY <1>16 DEF DrainOwnEnds
<1>17. CASE DrainDead
  BY <1>17 DEF DrainDead, HandleResponses
<1>18. CASE DrainSigterm
  BY <1>18 DEF DrainSigterm
<1>19. CASE DrainGivesUp
  BY <1>19 DEF DrainGivesUp, HandleResponses
<1>20. CASE DrainAgain
  BY <1>20 DEF DrainAgain
<1>21. CASE Fork
  BY <1>21 DEF Fork
<1>22. CASE WritePid
  <2>1. pc = "getpid" /\ ~req /\ st_pipe = <<>> /\ ~stop_soon
    BY <1>22 DEF WritePid
  <2>2. st_pipe' = <<"PID">> /\ fs' = "waitpid"
    BY <1>22, <2>1 DEF WritePid
  <2>3. QED
    BY <1>22, <2>1, <2>2 DEF WritePid
<1>23. CASE Reap
  <2>1. CASE pc = "getpid"
    <3>1. st_pipe' = <<"PID", cstatus>>
      BY <1>23, <2>1, PipeWords DEF Reap
    <3>2. QED
      BY <1>23, <2>1, <3>1 DEF Reap
  <2>2. CASE pc \in InRun
    <3>1. st_pipe' = <<cstatus>>
      BY <1>23, <2>2, PipeWords DEF Reap
    <3>2. QED
      BY <1>23, <2>2, <3>1 DEF Reap
  <2>3. CASE pc \in {"idle", "classify"}
    BY <1>23, <2>3 DEF Reap
  <2>4. QED
    BY <2>1, <2>2, <2>3
<1>24. CASE InitReaps
  BY <1>24 DEF InitReaps
<1>25. CASE handle_timeout
  BY <1>25 DEF handle_timeout
<1>26. CASE handle_stop_sig
  BY <1>26 DEF handle_stop_sig
<1>27. CASE SetGroup
  BY <1>27 DEF SetGroup
<1>28. CASE NotifySend
  BY <1>28 DEF NotifySend
<1>29. CASE WriteData
  BY <1>29 DEF WriteData
<1>30. CASE NotifyRecv
  BY <1>30 DEF NotifyRecv
<1>31. CASE ReadRequest
  BY <1>31 DEF ReadRequest
<1>32. CASE ReadEOF
  BY <1>32 DEF ReadEOF
<1>33. CASE RecvFails
  BY <1>33 DEF RecvFails
<1>34. CASE ServePending
  BY <1>34 DEF ServePending
<1>35. CASE Exits
  BY <1>35 DEF Exits, Die
<1>36. CASE Crashes
  BY <1>36 DEF Crashes, Die
<1>37. CASE Killed
  BY <1>37 DEF Killed, Die
<1>38. CASE Termed
  BY <1>38 DEF Termed, Die
<1>39. CASE UNCHANGED vars
  BY <1>39 DEF vars
<1>40. QED
  BY <1>1, <1>2, <1>3, <1>4, <1>5, <1>6, <1>7, <1>8, <1>9, <1>10, <1>11, <1>12,
     <1>13, <1>14, <1>15, <1>16, <1>17, <1>18, <1>19, <1>20, <1>21, <1>22,
     <1>23, <1>24, <1>25, <1>26, <1>27, <1>28, <1>29, <1>30, <1>31, <1>32,
     <1>33, <1>34, <1>35, <1>36, <1>37, <1>38, <1>39 DEF Next, Fuzzer,
     run_target, target_will_do, drain_pending_msgs, send_over_network_sbr,
     ForkServer, Signals, Child, Finished

\* SIGKILL is sent only by the handlers, which leave their mark.
LEMMA KillStep ==
  Handshake /\ KillAccountedFor /\ [Next]_vars => KillAccountedFor'
<1> SUFFICES ASSUME Handshake, KillAccountedFor, [Next]_vars
             PROVE  KillAccountedFor'
  OBVIOUS
<1> USE DEF Handshake, KillAccountedFor, InRun, Live, test, turn, progress,
        response, states, exchange, signals, fuzzer, forkvars, channels,
        process, shm, server, childvars, world
<1>1. CASE StartRun
  BY <1>1 DEF StartRun
<1>2. CASE ReadPid
  BY <1>2 DEF ReadPid
<1>3. CASE ReadStatus
  BY <1>3 DEF ReadStatus
<1>4. CASE PipeClosed
  BY <1>4 DEF PipeClosed
<1>5. CASE Classify
  BY <1>5 DEF Classify
<1>6. CASE WillRecv
  BY <1>6 DEF WillRecv
<1>7. CASE WillRetry
  BY <1>7 DEF WillRetry
<1>8. CASE WillTimeout
  BY <1>8 DEF WillTimeout
<1>9. CASE WillSend
  BY <1>9 DEF WillSend
<1>10. CASE WillRecvTurn
  BY <1>10 DEF WillRecvTurn
<1>11. CASE NetRecv
  BY <1>11 DEF NetRecv
<1>12. CASE NetRecvFails
  BY <1>12 DEF NetRecvFails
<1>13. CASE SendMsg
  BY <1>13 DEF SendMsg
<1>14. CASE SendFails
  BY <1>14 DEF SendFails
<1>15. CASE ExtractState
  BY <1>15 DEF ExtractState
<1>16. CASE DrainOwnEnds
  BY <1>16 DEF DrainOwnEnds
<1>17. CASE DrainDead
  BY <1>17 DEF DrainDead, HandleResponses
<1>18. CASE DrainSigterm
  BY <1>18 DEF DrainSigterm
<1>19. CASE DrainGivesUp
  BY <1>19 DEF DrainGivesUp, HandleResponses
<1>20. CASE DrainAgain
  BY <1>20 DEF DrainAgain
<1>21. CASE Fork
  BY <1>21 DEF Fork
<1>22. CASE WritePid
  BY <1>22 DEF WritePid
<1>23. CASE Reap
  BY <1>23 DEF Reap
<1>24. CASE InitReaps
  BY <1>24 DEF InitReaps
<1>25. CASE handle_timeout
  BY <1>25 DEF handle_timeout, KillChild
<1>26. CASE handle_stop_sig
  BY <1>26 DEF handle_stop_sig, KillChild
<1>27. CASE SetGroup
  BY <1>27 DEF SetGroup
<1>28. CASE NotifySend
  BY <1>28 DEF NotifySend
<1>29. CASE WriteData
  BY <1>29 DEF WriteData
<1>30. CASE NotifyRecv
  BY <1>30 DEF NotifyRecv
<1>31. CASE ReadRequest
  BY <1>31 DEF ReadRequest
<1>32. CASE ReadEOF
  BY <1>32 DEF ReadEOF
<1>33. CASE RecvFails
  BY <1>33 DEF RecvFails
<1>34. CASE ServePending
  BY <1>34 DEF ServePending
<1>35. CASE Exits
  BY <1>35 DEF Exits, Die
<1>36. CASE Crashes
  BY <1>36 DEF Crashes, Die
<1>37. CASE Killed
  BY <1>37 DEF Killed, Die
<1>38. CASE Termed
  BY <1>38 DEF Termed, Die
<1>39. CASE UNCHANGED vars
  BY <1>39 DEF vars
<1>40. QED
  BY <1>1, <1>2, <1>3, <1>4, <1>5, <1>6, <1>7, <1>8, <1>9, <1>10, <1>11, <1>12,
     <1>13, <1>14, <1>15, <1>16, <1>17, <1>18, <1>19, <1>20, <1>21, <1>22,
     <1>23, <1>24, <1>25, <1>26, <1>27, <1>28, <1>29, <1>30, <1>31, <1>32,
     <1>33, <1>34, <1>35, <1>36, <1>37, <1>38, <1>39 DEF Next, Fuzzer,
     run_target, target_will_do, drain_pending_msgs, send_over_network_sbr,
     ForkServer, Signals, Child, Finished

\* The timer is armed after the pid is read and disarmed before the report.
LEMMA TimerStep == TypeOK /\ TimerInRun /\ [Next]_vars => TimerInRun'
<1> SUFFICES ASSUME TypeOK, TimerInRun, [Next]_vars PROVE TimerInRun'
  OBVIOUS
<1> USE DEF TimerInRun, InRun, test, turn, progress, response, states,
        exchange, signals, fuzzer, forkvars, channels, process, shm, server,
        childvars, world
<1>1. CASE StartRun
  BY <1>1 DEF StartRun
<1>2. CASE ReadPid
  BY <1>2 DEF ReadPid
<1>3. CASE ReadStatus
  BY <1>3 DEF ReadStatus
<1>4. CASE PipeClosed
  BY <1>4 DEF PipeClosed
<1>5. CASE Classify
  BY <1>5 DEF Classify
<1>6. CASE WillRecv
  BY <1>6 DEF WillRecv
<1>7. CASE WillRetry
  BY <1>7 DEF WillRetry
<1>8. CASE WillTimeout
  BY <1>8 DEF WillTimeout
<1>9. CASE WillSend
  BY <1>9 DEF WillSend
<1>10. CASE WillRecvTurn
  BY <1>10 DEF WillRecvTurn
<1>11. CASE NetRecv
  BY <1>11 DEF NetRecv
<1>12. CASE NetRecvFails
  BY <1>12 DEF NetRecvFails
<1>13. CASE SendMsg
  BY <1>13 DEF SendMsg
<1>14. CASE SendFails
  BY <1>14 DEF SendFails
<1>15. CASE ExtractState
  BY <1>15 DEF ExtractState
<1>16. CASE DrainOwnEnds
  BY <1>16 DEF DrainOwnEnds
<1>17. CASE DrainDead
  BY <1>17 DEF DrainDead, HandleResponses
<1>18. CASE DrainSigterm
  BY <1>18 DEF DrainSigterm
<1>19. CASE DrainGivesUp
  BY <1>19 DEF DrainGivesUp, HandleResponses
<1>20. CASE DrainAgain
  BY <1>20 DEF DrainAgain
<1>21. CASE Fork
  BY <1>21 DEF Fork
<1>22. CASE WritePid
  BY <1>22 DEF WritePid
<1>23. CASE Reap
  BY <1>23 DEF Reap
<1>24. CASE InitReaps
  BY <1>24 DEF InitReaps
<1>25. CASE handle_timeout
  BY <1>25 DEF handle_timeout
<1>26. CASE handle_stop_sig
  BY <1>26 DEF handle_stop_sig
<1>27. CASE SetGroup
  BY <1>27 DEF SetGroup
<1>28. CASE NotifySend
  BY <1>28 DEF NotifySend
<1>29. CASE WriteData
  BY <1>29 DEF WriteData
<1>30. CASE NotifyRecv
  BY <1>30 DEF NotifyRecv
<1>31. CASE ReadRequest
  BY <1>31 DEF ReadRequest
<1>32. CASE ReadEOF
  BY <1>32 DEF ReadEOF
<1>33. CASE RecvFails
  BY <1>33 DEF RecvFails
<1>34. CASE ServePending
  BY <1>34 DEF ServePending
<1>35. CASE Exits
  BY <1>35 DEF Exits, Die
<1>36. CASE Crashes
  BY <1>36 DEF Crashes, Die
<1>37. CASE Killed
  BY <1>37 DEF Killed, Die
<1>38. CASE Termed
  BY <1>38 DEF Termed, Die
<1>39. CASE UNCHANGED vars
  BY <1>39 DEF vars
<1>40. QED
  BY <1>1, <1>2, <1>3, <1>4, <1>5, <1>6, <1>7, <1>8, <1>9, <1>10, <1>11, <1>12,
     <1>13, <1>14, <1>15, <1>16, <1>17, <1>18, <1>19, <1>20, <1>21, <1>22,
     <1>23, <1>24, <1>25, <1>26, <1>27, <1>28, <1>29, <1>30, <1>31, <1>32,
     <1>33, <1>34, <1>35, <1>36, <1>37, <1>38, <1>39 DEF Next, Fuzzer,
     run_target, target_will_do, drain_pending_msgs, send_over_network_sbr,
     ForkServer, Signals, Child, Finished

\* run_target's report is right when made and stays right until the next run.
LEMMA VerdictStep ==
  TypeOK /\ Handshake /\ KillAccountedFor /\ VerdictFaithful /\ [Next]_vars
    => VerdictFaithful'
<1> SUFFICES ASSUME TypeOK, Handshake, KillAccountedFor, VerdictFaithful,
                    [Next]_vars
             PROVE  VerdictFaithful'
  OBVIOUS
<1> USE DEF TypeOK, StateOK, Handshake, KillAccountedFor, VerdictFaithful,
        InRun, Live, Statuses, test, turn, progress, response, states,
        exchange, signals, fuzzer, forkvars, channels, process, shm, server,
        childvars, world
<1>1. CASE StartRun
  BY <1>1 DEF StartRun
<1>2. CASE ReadPid
  BY <1>2 DEF ReadPid
<1>3. CASE ReadStatus
  BY <1>3 DEF ReadStatus
<1>4. CASE PipeClosed
  BY <1>4 DEF PipeClosed
<1>5. CASE Classify
  BY <1>5 DEF Classify, Fault
<1>6. CASE WillRecv
  BY <1>6 DEF WillRecv
<1>7. CASE WillRetry
  BY <1>7 DEF WillRetry
<1>8. CASE WillTimeout
  BY <1>8 DEF WillTimeout
<1>9. CASE WillSend
  BY <1>9 DEF WillSend
<1>10. CASE WillRecvTurn
  BY <1>10 DEF WillRecvTurn
<1>11. CASE NetRecv
  BY <1>11 DEF NetRecv
<1>12. CASE NetRecvFails
  BY <1>12 DEF NetRecvFails
<1>13. CASE SendMsg
  BY <1>13 DEF SendMsg
<1>14. CASE SendFails
  BY <1>14 DEF SendFails
<1>15. CASE ExtractState
  BY <1>15 DEF ExtractState
<1>16. CASE DrainOwnEnds
  BY <1>16 DEF DrainOwnEnds
<1>17. CASE DrainDead
  BY <1>17 DEF DrainDead, HandleResponses
<1>18. CASE DrainSigterm
  BY <1>18 DEF DrainSigterm
<1>19. CASE DrainGivesUp
  BY <1>19 DEF DrainGivesUp, HandleResponses
<1>20. CASE DrainAgain
  BY <1>20 DEF DrainAgain
<1>21. CASE Fork
  BY <1>21 DEF Fork
<1>22. CASE WritePid
  BY <1>22 DEF WritePid
<1>23. CASE Reap
  BY <1>23 DEF Reap
<1>24. CASE InitReaps
  BY <1>24 DEF InitReaps
<1>25. CASE handle_timeout
  BY <1>25 DEF handle_timeout
<1>26. CASE handle_stop_sig
  BY <1>26 DEF handle_stop_sig
<1>27. CASE SetGroup
  BY <1>27 DEF SetGroup
<1>28. CASE NotifySend
  BY <1>28 DEF NotifySend
<1>29. CASE WriteData
  BY <1>29 DEF WriteData
<1>30. CASE NotifyRecv
  BY <1>30 DEF NotifyRecv
<1>31. CASE ReadRequest
  BY <1>31 DEF ReadRequest
<1>32. CASE ReadEOF
  BY <1>32 DEF ReadEOF
<1>33. CASE RecvFails
  BY <1>33 DEF RecvFails
<1>34. CASE ServePending
  BY <1>34 DEF ServePending
<1>35. CASE Exits
  BY <1>35 DEF Exits, Die
<1>36. CASE Crashes
  BY <1>36 DEF Crashes, Die
<1>37. CASE Killed
  BY <1>37 DEF Killed, Die
<1>38. CASE Termed
  BY <1>38 DEF Termed, Die
<1>39. CASE UNCHANGED vars
  BY <1>39 DEF vars
<1>40. QED
  BY <1>1, <1>2, <1>3, <1>4, <1>5, <1>6, <1>7, <1>8, <1>9, <1>10, <1>11, <1>12,
     <1>13, <1>14, <1>15, <1>16, <1>17, <1>18, <1>19, <1>20, <1>21, <1>22,
     <1>23, <1>24, <1>25, <1>26, <1>27, <1>28, <1>29, <1>30, <1>31, <1>32,
     <1>33, <1>34, <1>35, <1>36, <1>37, <1>38, <1>39 DEF Next, Fuzzer,
     run_target, target_will_do, drain_pending_msgs, send_over_network_sbr,
     ForkServer, Signals, Child, Finished

\* The invariant of the hand-over holds at the start.
LEMMA IInvInit == Init => IInv
<1>1. Init => Handshake /\ KillAccountedFor /\ TimerInRun /\ VerdictFaithful
  BY DEF Init, Handshake, KillAccountedFor, TimerInRun, VerdictFaithful, InRun,
         Live, Statuses
<1>2. QED
  BY <1>1, TypeInit DEF IInv

\* Every step of every process keeps the invariant of the hand-over.
LEMMA IInvStep == IInv /\ [Next]_vars => IInv'
BY TypeStep, HandshakeStep, KillStep, TimerStep, VerdictStep DEF IInv

\* The inductive invariant of the hand-over holds in every behaviour.
THEOREM HandOver == Spec => []IInv
BY IInvInit, IInvStep, PTL DEF Spec

\* The report of a run names the way its child died, however the timer, the
\* signals, the drain and the reaping are interleaved.
THEOREM VerdictCorrect == Spec => []VerdictFaithful
<1>1. IInv => VerdictFaithful
  BY DEF IInv
<1>2. QED
  BY <1>1, HandOver, PTL

\* The pid is never read as a status nor a status as a pid.
THEOREM PipeCorrect == Spec => []PipeInStep
<1>1. IInv => PipeInStep
  <2> SUFFICES ASSUME IInv PROVE PipeInStep
    OBVIOUS
  <2> USE DEF IInv, TypeOK, StateOK, Handshake, InRun
  <2>1. pc = "getpid" /\ st_pipe # <<>> => st_pipe[1] = "PID"
    OBVIOUS
  <2>2. pc = "status" /\ st_pipe # <<>> => st_pipe[1] = cstatus
    OBVIOUS
  <2>3. pc = "idle" => stop_soon \/ st_pipe = <<>>
    OBVIOUS
  <2>4. QED
    BY <2>1, <2>2, <2>3 DEF PipeInStep
<1>2. QED
  BY <1>1, HandOver, PTL

\* A child is forked only when the one before has been reaped.
THEOREM OneChildCorrect == Spec => OneChild
<1>1. IInv /\ [Next]_vars =>
        [fs = "wait" /\ fs' = "forked" => cpc \in {"none", "gone"}]_vars
  BY DEF IInv, Handshake
<1>2. QED
  BY <1>1, HandOver, PTL DEF Spec, OneChild

(***************************************************************************)
(* Refinement: run_target keeps the promise of TestCase.                   *)
(***************************************************************************)

\* Each step is a step of TestCase or invisible to it.
LEMMA RefinesStep == IInv /\ [Next]_vars => [TC!Next]_TC!vars
<1> SUFFICES ASSUME IInv, [Next]_vars PROVE [TC!Next]_TC!vars
  OBVIOUS
<1> USE DEF IInv, Handshake, InRun, Live, Statuses, test, turn, progress,
        response, states, exchange, signals, fuzzer, forkvars, channels,
        process, shm, server, childvars, world
<1>1. CASE StartRun
  <2>1. TC!Begin
    BY <1>1 DEF StartRun, TC!Begin
  <2>2. QED
    BY <2>1 DEF TC!Next
<1>2. CASE ReadPid
  BY <1>2 DEF ReadPid, TC!vars
<1>3. CASE ReadStatus
  BY <1>3 DEF ReadStatus, TC!vars
<1>4. CASE PipeClosed
  <2>1. TC!Report
    BY <1>4 DEF PipeClosed, TC!Fates, TC!Outcome, TypeOK, StateOK, TC!Report
  <2>2. QED
    BY <2>1 DEF TC!Next
<1>5. CASE Classify
  <2>1. TC!Report
    BY <1>5 DEF Classify, Fault, KillAccountedFor, TimerInRun, TC!Fates,
       TC!Outcome, TC!Report
  <2>2. QED
    BY <2>1 DEF TC!Next
<1>6. CASE WillRecv
  BY <1>6 DEF WillRecv, TC!vars
<1>7. CASE WillRetry
  BY <1>7 DEF WillRetry, TC!vars
<1>8. CASE WillTimeout
  BY <1>8 DEF WillTimeout, TC!vars
<1>9. CASE WillSend
  BY <1>9 DEF WillSend, TC!vars
<1>10. CASE WillRecvTurn
  BY <1>10 DEF WillRecvTurn, TC!vars
<1>11. CASE NetRecv
  BY <1>11 DEF NetRecv, TC!vars
<1>12. CASE NetRecvFails
  BY <1>12 DEF NetRecvFails, TC!vars
<1>13. CASE SendMsg
  BY <1>13 DEF SendMsg, TC!vars
<1>14. CASE SendFails
  BY <1>14 DEF SendFails, TC!vars
<1>15. CASE ExtractState
  BY <1>15 DEF ExtractState, TC!vars
<1>16. CASE DrainOwnEnds
  BY <1>16 DEF DrainOwnEnds, TC!vars
<1>17. CASE DrainDead
  BY <1>17 DEF DrainDead, HandleResponses, TC!vars
<1>18. CASE DrainSigterm
  BY <1>18 DEF DrainSigterm, TC!vars
<1>19. CASE DrainGivesUp
  BY <1>19 DEF DrainGivesUp, HandleResponses, TC!vars
<1>20. CASE DrainAgain
  BY <1>20 DEF DrainAgain, TC!vars
<1>21. CASE Fork
  <2>1. TC!Spawn
    BY <1>21 DEF Fork, TC!Spawn
  <2>2. QED
    BY <2>1 DEF TC!Next
<1>22. CASE WritePid
  BY <1>22 DEF WritePid, TC!vars
<1>23. CASE Reap
  BY <1>23 DEF Reap, TC!vars
<1>24. CASE InitReaps
  BY <1>24 DEF InitReaps, TC!vars
<1>25. CASE handle_timeout
  <2>1. TC!Expire \/ UNCHANGED TC!vars
    BY <1>25 DEF handle_timeout, KillAccountedFor, TimerInRun, TC!vars, TC!Expire
  <2>2. QED
    BY <2>1 DEF TC!Next
<1>26. CASE handle_stop_sig
  <2>1. TC!Stop
    BY <1>26 DEF handle_stop_sig, TC!Stop
  <2>2. QED
    BY <2>1 DEF TC!Next
<1>27. CASE SetGroup
  BY <1>27 DEF SetGroup, TC!vars
<1>28. CASE NotifySend
  BY <1>28 DEF NotifySend, TC!vars
<1>29. CASE WriteData
  BY <1>29 DEF WriteData, TC!vars
<1>30. CASE NotifyRecv
  BY <1>30 DEF NotifyRecv, TC!vars
<1>31. CASE ReadRequest
  BY <1>31 DEF ReadRequest, TC!vars
<1>32. CASE ReadEOF
  <2>1. TC!End
    BY <1>32 DEF ReadEOF, TC!Fates, TC!End
  <2>2. QED
    BY <2>1 DEF TC!Next
<1>33. CASE RecvFails
  BY <1>33 DEF RecvFails, TC!vars
<1>34. CASE ServePending
  BY <1>34 DEF ServePending, TC!vars
<1>35. CASE Exits
  <2>1. TC!End
    BY <1>35 DEF Exits, Die, TC!Fates, TC!End
  <2>2. QED
    BY <2>1 DEF TC!Next
<1>36. CASE Crashes
  <2>1. TC!End
    BY <1>36 DEF Crashes, Die, TC!Fates, TC!End
  <2>2. QED
    BY <2>1 DEF TC!Next
<1>37. CASE Killed
  <2>1. TC!End
    BY <1>37 DEF Killed, Die, KillAccountedFor, TimerInRun, TC!Fates, TC!End
  <2>2. QED
    BY <2>1 DEF TC!Next
<1>38. CASE Termed
  <2>1. TC!End
    BY <1>38 DEF Termed, Die, TC!Fates, TC!End
  <2>2. QED
    BY <2>1 DEF TC!Next
<1>39. CASE UNCHANGED vars
  BY <1>39 DEF vars, TC!vars
<1>40. QED
  BY <1>1, <1>2, <1>3, <1>4, <1>5, <1>6, <1>7, <1>8, <1>9, <1>10, <1>11, <1>12,
     <1>13, <1>14, <1>15, <1>16, <1>17, <1>18, <1>19, <1>20, <1>21, <1>22,
     <1>23, <1>24, <1>25, <1>26, <1>27, <1>28, <1>29, <1>30, <1>31, <1>32,
     <1>33, <1>34, <1>35, <1>36, <1>37, <1>38, <1>39 DEF Next, Fuzzer,
     run_target, target_will_do, drain_pending_msgs, send_over_network_sbr,
     ForkServer, Signals, Child, Finished

\* Seen through phase, fate, expired, stopping and report, the pipes, turns and
\* signals of run_target do what TestCase says and nothing else.
THEOREM Refinement == Spec => ImplementsTestCase
<1>1. Init => TC!Init
  BY DEF Init, TC!Init, Live
<1>2. QED
  BY <1>1, RefinesStep, HandOver, PTL DEF Spec, TC!Spec,
     ImplementsTestCase

(***************************************************************************)
(* The sizes of the responses.                                             *)
(***************************************************************************)

\* What an assignment to one entry does to a sequence of numbers.
LEMMA RecordAt ==
  ASSUME NEW s \in Seq(Nat), NEW k \in Nat, NEW v \in Nat
  PROVE  /\ [s EXCEPT ![k] = v] \in Seq(Nat)
         /\ Len([s EXCEPT ![k] = v]) = Len(s)
         /\ \A i \in 1 .. Len(s) :
              [s EXCEPT ![k] = v][i] = IF i = k THEN v ELSE s[i]
<1>1. \A i \in DOMAIN s : [s EXCEPT ![k] = v][i] = IF i = k THEN v ELSE s[i]
  OBVIOUS
<1>2. DOMAIN s = 1 .. Len(s)
  OBVIOUS
<1>3. QED
  BY <1>1, <1>2, ExceptNatSeq

\* RecordResponse changes the entry of the last request sent and no other.
LEMMA Recorded ==
  TypeOK =>
    LET rb == RecordResponse(response_bytes)
    IN  /\ rb \in Seq(Nat)
        /\ Len(rb) = Len(response_bytes)
        /\ \A i \in 1 .. Len(response_bytes) :
             rb[i] = IF i = messages_sent THEN Len(response_buf)
                     ELSE response_bytes[i]
<1> SUFFICES ASSUME TypeOK PROVE Recorded!2
  OBVIOUS
<1>1. /\ response_bytes \in Seq(Nat) /\ messages_sent \in Nat
      /\ Len(response_buf) \in Nat
  BY DEF TypeOK, StateOK
<1>2. QED
  BY <1>1, RecordAt DEF RecordResponse

\* Every step keeps the entries of response_bytes final, ordered and bounded.
LEMMA ResponseStep == TypeOK /\ ResponseInv /\ [Next]_vars => ResponseInv'
<1> SUFFICES ASSUME TypeOK, ResponseInv, [Next]_vars PROVE ResponseInv'
  OBVIOUS
<1>0. /\ response_bytes \in Seq(Nat) /\ Len(response_bytes) \in Nat
      /\ response_buf \in Seq(Nat) /\ Len(response_buf) \in Nat
      /\ messages_sent \in Nat /\ it \in Nat /\ pc \in PCs
  BY ConstantsAssumption DEF TypeOK, StateOK
<1> USE <1>0
<1> USE DEF ResponseInv, PCs, test, turn, progress, response, states, exchange,
        signals, fuzzer, forkvars, channels, process, shm, server, childvars,
        world
<1>1. CASE StartRun
  BY <1>1 DEF StartRun
<1>2. CASE ReadPid
  BY <1>2 DEF ReadPid
<1>3. CASE ReadStatus
  BY <1>3 DEF ReadStatus
<1>4. CASE PipeClosed
  BY <1>4 DEF PipeClosed
<1>5. CASE Classify
  BY <1>5 DEF Classify
<1>6. CASE WillRecv
  BY <1>6 DEF WillRecv
<1>7. CASE WillRetry
  BY <1>7 DEF WillRetry
<1>8. CASE WillTimeout
  <2>1. CASE it = 0
    BY <1>8, <2>1 DEF WillTimeout
  <2>2. CASE it # 0
    BY <1>8, <2>2, Recorded DEF WillTimeout
  <2>3. QED
    BY <2>1, <2>2
<1>9. CASE WillSend
  BY <1>9 DEF WillSend
<1>10. CASE WillRecvTurn
  <2>1. CASE it = 0
    BY <1>10, <2>1 DEF WillRecvTurn
  <2>2. CASE it # 0
    BY <1>10, <2>2, Recorded DEF WillRecvTurn
  <2>3. QED
    BY <2>1, <2>2
<1>11. CASE NetRecv
  BY <1>11 DEF NetRecv
<1>12. CASE NetRecvFails
  BY <1>12 DEF NetRecvFails
<1>13. CASE SendMsg
  BY <1>13 DEF SendMsg
<1>14. CASE SendFails
  BY <1>14 DEF SendFails
<1>15. CASE ExtractState
  BY <1>15 DEF ExtractState
<1>16. CASE DrainOwnEnds
  BY <1>16 DEF DrainOwnEnds
<1>17. CASE DrainDead
  <2>1. CASE messages_sent > 0 /\ response_bytes # <<>>
    <3> DEFINE n == Len(response_bytes)
    <3>1. /\ n = messages_sent /\ n > 0 /\ n \in Nat
          /\ pc' = "status" /\ response_buf' = response_buf
          /\ messages_sent' = messages_sent /\ it' = it
          /\ response_bytes' = RecordResponse(response_bytes)
      BY <1>17, <2>1 DEF DrainDead, HandleResponses
    <3>2. /\ Len(response_bytes') = n
          /\ response_bytes'[n] = Len(response_buf)
          /\ \A i \in 1 .. n - 1 : response_bytes'[i] = response_bytes[i]
      BY <3>1, Recorded
    <3>3. \A i \in 1 .. n - 1 :
             /\ response_bytes[i] <= Len(response_buf)
             /\ i < n - 1 => response_bytes[i] <= response_bytes[i + 1]
      BY <1>17 DEF DrainDead
    <3>4. it = 0 => n = 0
      BY <1>17 DEF DrainDead
    <3>5. QED
      BY <3>1, <3>2, <3>3, <3>4
  <2>2. CASE ~(messages_sent > 0 /\ response_bytes # <<>>)
    BY <1>17, <2>2 DEF DrainDead, HandleResponses
  <2>3. QED
    BY <2>1, <2>2
<1>18. CASE DrainSigterm
  BY <1>18 DEF DrainSigterm
<1>19. CASE DrainGivesUp
  <2>1. CASE messages_sent > 0 /\ response_bytes # <<>>
    <3> DEFINE n == Len(response_bytes)
    <3>1. /\ n = messages_sent /\ n > 0 /\ n \in Nat
          /\ pc' = "status" /\ response_buf' = response_buf
          /\ messages_sent' = messages_sent /\ it' = it
          /\ response_bytes' = RecordResponse(response_bytes)
      BY <1>19, <2>1 DEF DrainGivesUp, HandleResponses
    <3>2. /\ Len(response_bytes') = n
          /\ response_bytes'[n] = Len(response_buf)
          /\ \A i \in 1 .. n - 1 : response_bytes'[i] = response_bytes[i]
      BY <3>1, Recorded
    <3>3. \A i \in 1 .. n - 1 :
             /\ response_bytes[i] <= Len(response_buf)
             /\ i < n - 1 => response_bytes[i] <= response_bytes[i + 1]
      BY <1>19 DEF DrainGivesUp
    <3>4. it = 0 => n = 0
      BY <1>19 DEF DrainGivesUp
    <3>5. QED
      BY <3>1, <3>2, <3>3, <3>4
  <2>2. CASE ~(messages_sent > 0 /\ response_bytes # <<>>)
    BY <1>19, <2>2 DEF DrainGivesUp, HandleResponses
  <2>3. QED
    BY <2>1, <2>2
<1>20. CASE DrainAgain
  BY <1>20 DEF DrainAgain
<1>21. CASE Fork
  BY <1>21 DEF Fork
<1>22. CASE WritePid
  BY <1>22 DEF WritePid
<1>23. CASE Reap
  BY <1>23 DEF Reap
<1>24. CASE InitReaps
  BY <1>24 DEF InitReaps
<1>25. CASE handle_timeout
  BY <1>25 DEF handle_timeout
<1>26. CASE handle_stop_sig
  BY <1>26 DEF handle_stop_sig
<1>27. CASE SetGroup
  BY <1>27 DEF SetGroup
<1>28. CASE NotifySend
  BY <1>28 DEF NotifySend
<1>29. CASE WriteData
  BY <1>29 DEF WriteData
<1>30. CASE NotifyRecv
  BY <1>30 DEF NotifyRecv
<1>31. CASE ReadRequest
  BY <1>31 DEF ReadRequest
<1>32. CASE ReadEOF
  BY <1>32 DEF ReadEOF
<1>33. CASE RecvFails
  BY <1>33 DEF RecvFails
<1>34. CASE ServePending
  BY <1>34 DEF ServePending
<1>35. CASE Exits
  BY <1>35 DEF Exits, Die
<1>36. CASE Crashes
  BY <1>36 DEF Crashes, Die
<1>37. CASE Killed
  BY <1>37 DEF Killed, Die
<1>38. CASE Termed
  BY <1>38 DEF Termed, Die
<1>39. CASE UNCHANGED vars
  BY <1>39 DEF vars
<1>40. QED
  BY <1>1, <1>2, <1>3, <1>4, <1>5, <1>6, <1>7, <1>8, <1>9, <1>10, <1>11, <1>12,
     <1>13, <1>14, <1>15, <1>16, <1>17, <1>18, <1>19, <1>20, <1>21, <1>22,
     <1>23, <1>24, <1>25, <1>26, <1>27, <1>28, <1>29, <1>30, <1>31, <1>32,
     <1>33, <1>34, <1>35, <1>36, <1>37, <1>38, <1>39 DEF Next, Fuzzer,
     run_target, target_will_do, drain_pending_msgs, send_over_network_sbr,
     ForkServer, Signals, Child, Finished

\* On every path out of send_over_network_sbr there is one size per request
\* sent, in order, and the last accounts for everything received.
THEOREM ResponseBytesCorrect == Spec => []ResponseBytes
<1>1. Init => ResponseInv
  BY DEF Init, ResponseInv
<1>2. TypeOK /\ ResponseInv => ResponseBytes
  <2> SUFFICES ASSUME TypeOK, ResponseInv, pc \in {"status", "classify"},
                      response_bytes # <<>>
               PROVE  ResponseBytes
    BY DEF ResponseBytes
  <2>1. response_bytes \in Seq(Nat) /\ Len(response_bytes) > 0
    BY DEF TypeOK, StateOK
  <2>2. Len(response_bytes) = messages_sent
    BY <2>1 DEF ResponseInv
  <2>3. response_bytes[messages_sent] = Len(response_buf)
    BY <2>1, <2>2 DEF ResponseInv
  <2>4. ASSUME NEW i \in 1 .. messages_sent - 1
        PROVE  response_bytes[i] <= response_bytes[i + 1]
    <3>1. i <= Len(response_bytes) - 1 /\ i \in Nat /\ i >= 1
      BY <2>1, <2>2 DEF TypeOK, StateOK
    <3>2. response_bytes[i] <= Len(response_buf)
      BY <2>1, <3>1 DEF ResponseInv
    <3>3. CASE i = messages_sent - 1
      BY <2>1, <2>2, <2>3, <3>2, <3>3
    <3>4. CASE i < messages_sent - 1
      BY <2>1, <2>2, <3>1, <3>4 DEF ResponseInv
    <3>5. QED
      BY <3>1, <3>3, <3>4, <2>2, <2>1
  <2>5. QED
    BY <2>2, <2>3, <2>4 DEF ResponseBytes
<1>3. QED
  BY <1>1, <1>2, TypeCorrect, ResponseStep, PTL DEF Spec

(***************************************************************************)
(* The dialogue.  As long as no wait is cut short, the turns announced on  *)
(* the control channel keep the fuzzer and the server in step.             *)
(***************************************************************************)

\* A length is zero, one or more.
LEMMA OneOrMore ==
  \A n \in Nat : (n = 0 \/ n = 1 \/ n > 1) /\ (n > 0 <=> n # 0) /\ (n > 1 => n # 1)
                /\ (n <= 1 <=> n = 0 \/ n = 1)
OBVIOUS

\* A new announcement is the last one; the earlier ones stay where they are.
LEMMA AppendTurn ==
  ASSUME NEW q \in Seq(Announcements), NEW e \in Announcements
  PROVE  /\ Append(q, e) # <<>>
         /\ Len(Append(q, e)) = Len(q) + 1
         /\ Append(q, e)[Len(Append(q, e))] = e
         /\ \A i \in 1 .. Len(q) : Append(q, e)[i] = q[i]
OBVIOUS

\* Taking the first announcement moves the others up and keeps the last.
LEMMA TailTurn ==
  ASSUME NEW q \in Seq(Announcements), q # <<>>
  PROVE  /\ Tail(q) \in Seq(Announcements)
         /\ Len(q) > 0 /\ Len(Tail(q)) = Len(q) - 1
         /\ Head(q) = q[1]
         /\ \A i \in 1 .. Len(q) - 1 : Tail(q)[i] = q[i + 1]
         /\ Tail(q) # <<>> <=> Len(q) > 1
         /\ Tail(q) # <<>> => Tail(q)[Len(Tail(q))] = q[Len(q)]
<1>1. /\ Tail(q) \in Seq(Announcements)
      /\ Len(q) > 0 /\ Len(q) \in Nat /\ Len(Tail(q)) = Len(q) - 1
      /\ Head(q) = q[1]
  OBVIOUS
<1>2. \A i \in 1 .. Len(q) - 1 : Tail(q)[i] = q[i + 1]
  OBVIOUS
<1>3. Tail(q) # <<>> <=> Len(q) > 1
  <2>1. Tail(q) = <<>> <=> Len(Tail(q)) = 0
    BY <1>1, EmptySeq
  <2>2. \A n \in Nat : n - 1 = 0 \/ n > 1 \/ n = 0
    OBVIOUS
  <2>3. Len(q) > 1 => Len(q) - 1 # 0
    BY <1>1
  <2>4. QED
    BY <1>1, <2>1, <2>2, <2>3
<1>4. ASSUME Tail(q) # <<>> PROVE Tail(q)[Len(Tail(q))] = q[Len(q)]
  <2>1. Len(q) - 1 \in 1 .. Len(q) - 1
    BY <1>1, <1>3, <1>4
  <2>2. Tail(q)[Len(q) - 1] = q[Len(q) - 1 + 1]
    BY <1>2, <2>1
  <2>3. Len(q) - 1 + 1 = Len(q)
    BY <1>1
  <2>4. QED
    BY <1>1, <2>2, <2>3
<1>5. QED
  BY <1>1, <1>2, <1>3, <1>4

\* The two announcements there are.
LEMMA Acts ==
  ASSUME run \in Nat
  PROVE  /\ [run |-> run, act |-> "Send"] \in Announcements
         /\ [run |-> run, act |-> "Recv"] \in Announcements
         /\ \A q \in Seq(Announcements) : \A i \in 1 .. Len(q) :
              q[i].act \in {"Send", "Recv"}
<1>1. ASSUME NEW q \in Seq(Announcements), NEW i \in 1 .. Len(q)
      PROVE  q[i].act \in {"Send", "Recv"}
  <2>1. q[i] \in Announcements
    BY <1>1
  <2>2. QED
    BY <2>1 DEF Announcements
<1>2. QED
  BY <1>1 DEF Announcements

\* What one recv of target_will_do takes off a channel that is not empty: the
\* turn, if it is alone, and an announced response otherwise.
LEMMA TakeTurn ==
  ASSUME ctlIn \in Seq(Announcements), run \in Nat, Turns, WillRecv, ctlIn # <<>>
  PROVE  /\ RecvQueued' <=> RecvQueued /\ Len(ctlIn) > 1
         /\ RecvInHand' <=> RecvQueued /\ Len(ctlIn) = 1
         /\ ta' = "Send" <=> ~(RecvQueued /\ Len(ctlIn) = 1)
         /\ Len(ctlIn') = Len(ctlIn) - 1
         /\ pc = "will" /\ pc' = "chk"
         /\ \A i \in 1 .. Len(ctlIn') - 1 : ctlIn'[i].act = "Send"
<1>1. ctlIn' = Tail(ctlIn) /\ ta' = ctlIn[1].act /\ pc = "will" /\ pc' = "chk"
  BY TailTurn DEF WillRecv
<1>2. RecvQueued' <=> RecvQueued /\ Len(ctlIn) > 1
  BY <1>1, TailTurn DEF RecvQueued
<1>3. Len(ctlIn) \in Nat /\ Len(ctlIn) > 0
  BY TailTurn
<1>4. ta' = "Recv" <=> RecvQueued /\ Len(ctlIn) = 1
  <2>1. Len(ctlIn) > 1 => ctlIn[1].act = "Send"
    BY DEF Turns
  <2>2. CASE Len(ctlIn) = 1
    BY <1>1, <2>2 DEF RecvQueued
  <2>3. CASE Len(ctlIn) > 1
    BY <1>1, <1>3, <2>1, <2>3, OneOrMore
  <2>4. QED
    BY <1>3, <2>2, <2>3, OneOrMore
<1>5. ta' \in {"Send", "Recv"}
  <2>1. 1 \in 1 .. Len(ctlIn)
    BY <1>3
  <2>2. QED
    BY <1>1, <2>1, Acts
<1>6. Len(ctlIn') = Len(ctlIn) - 1
      /\ \A i \in 1 .. Len(ctlIn') : ctlIn'[i] = ctlIn[i + 1]
  BY <1>1, TailTurn
<1>7. ASSUME NEW i \in 1 .. Len(ctlIn') - 1
      PROVE  ctlIn'[i].act = "Send"
  <2>1. i + 1 \in 1 .. Len(ctlIn) - 1 /\ i \in 1 .. Len(ctlIn')
    BY <1>3, <1>6, <1>7
  <2>2. ctlIn'[i] = ctlIn[i + 1] /\ ctlIn[i + 1].act = "Send"
    BY <1>6, <2>1 DEF Turns
  <2>3. QED
    BY <2>2
<1>8. RecvInHand' <=> ta' = "Recv"
  BY <1>1 DEF RecvInHand
<1>9. QED
  BY <1>1, <1>2, <1>4, <1>5, <1>6, <1>7, <1>8

\* A queue of at most one packet: its head is all there is.
LEMMA ShortQueue ==
  \A q \in Seq([run : Nat, msg : Nat]) :
    q # <<>> /\ Len(q) <= 1 => Len(q) = 1 /\ Tail(q) = <<>>
<1>1. ASSUME NEW q \in Seq([run : Nat, msg : Nat]), q # <<>>, Len(q) <= 1
      PROVE  Len(q) = 1 /\ Tail(q) = <<>>
  <2>1. Len(q) \in Nat /\ Len(q) # 0
    BY <1>1
  <2>2. Len(q) = 1
    BY <1>1, <2>1, OneOrMore
  <2>3. Tail(q) \in Seq([run : Nat, msg : Nat]) /\ Len(Tail(q)) = Len(q) - 1
    BY <1>1
  <2>4. Len(Tail(q)) = 0
    BY <2>2, <2>3
  <2>5. QED
    BY <2>2, <2>3, <2>4, EmptySeq
<1>2. QED
  BY <1>1

\* A turn passes from the server to the fuzzer and back and is never in two
\* places: no packet is sent that the server has not asked for.
LEMMA TurnsStep == InTime /\ IInv /\ DialogueInv /\ [Next]_vars => Turns'
<1> SUFFICES ASSUME InTime, IInv, DialogueInv, [Next]_vars PROVE Turns'
  OBVIOUS
<1>f1. /\ ctlIn \in Seq(Announcements) /\ dataIn \in Seq(Nat)
        /\ dataOut \in Seq([run : Nat, msg : Nat])
        /\ it \in Nat /\ consumed \in Nat /\ messages_sent \in Nat
        /\ run \in Nat /\ state_code \in Nat
  BY DEF IInv, TypeOK, StateOK
<1>f2. /\ "timeout" \notin Faults /\ "eagain" \notin Faults
        /\ "slow" \notin Faults
  BY DEF InTime
<1>f3. /\ Turns /\ Drained
  BY DEF DialogueInv
<1>f4. Handshake
  BY DEF IInv
<1>f5. Fork => pc = "getpid" /\ cpc \in {"none", "gone"} /\ ~stop_soon
  BY DEF Fork, IInv, Handshake
<1> USE <1>f1, <1>f2, <1>f3, <1>f4, <1>f5
<1> USE DEF test, turn, progress, response, states, exchange, signals, fuzzer,
        forkvars, channels, process, shm, server, childvars, world, Turns,
        TurnOpen, RecvQueued, RecvInHand, Live
<1>1. CASE StartRun
  BY <1>1 DEF StartRun
<1>2. CASE ReadPid
  BY <1>2 DEF ReadPid
<1>3. CASE ReadStatus
  BY <1>3 DEF ReadStatus
<1>4. CASE PipeClosed
  BY <1>4 DEF PipeClosed
<1>5. CASE Classify
  BY <1>5 DEF Classify
<1>6. CASE WillRecv
  <2>1. CASE ctlIn = <<>>
    BY <1>6, <2>1 DEF WillRecv
  <2>2. CASE ctlIn # <<>>
    <3> HIDE DEF Turns, TurnOpen, RecvQueued, RecvInHand
    <3>1. /\ UNCHANGED <<dataOut, cpc, stop_soon>> /\ ctlIn' = Tail(ctlIn)
          /\ pc = "will"
      BY <1>6, <2>2 DEF WillRecv
    <3>2. RecvQueued' <=> RecvQueued /\ Len(ctlIn) > 1
      BY <1>6, <2>2, TakeTurn
    <3>3. RecvInHand' <=> RecvQueued /\ Len(ctlIn) = 1
      BY <1>6, <2>2, TakeTurn
    <3>5. \A i \in 1 .. Len(ctlIn') - 1 : ctlIn'[i].act = "Send"
      BY <1>6, <2>2, TakeTurn
    <3>4. Len(ctlIn) \in Nat /\ Len(ctlIn) # 0 /\ ~RecvInHand
      BY <2>2, <3>1 DEF RecvInHand
    <3>6. RecvInHand' => ctlIn' = <<>>
      BY <2>2, <3>1, <3>3, <3>4, OneOrMore, TailTurn
    <3>7. TurnOpen' <=> TurnOpen
      BY <3>1, <3>2, <3>3, <3>4, OneOrMore DEF TurnOpen
    <3>8. QED
      BY <3>1, <3>2, <3>3, <3>5, <3>6, <3>7 DEF Turns
  <2>3. QED
    BY <2>1, <2>2
<1>7. CASE WillRetry
  BY <1>7 DEF WillRetry, GivesUp
<1>8. CASE WillTimeout
  BY <1>8 DEF WillTimeout, GivesUp, target_is_dead, Drained
<1>9. CASE WillSend
  BY <1>9 DEF WillSend, GivesUp
<1>10. CASE WillRecvTurn
  <2>1. CASE it < NumMsgs
    BY <1>10, <2>1, ConstantsAssumption DEF WillRecvTurn
  <2>2. CASE ~(it < NumMsgs)
    <3>1. dataOut = <<>> /\ dataOut' = Append(dataOut, Packet(run, 0))
      BY <1>10, <2>2 DEF WillRecvTurn, emulate_disconnect
    <3>2. dataOut' # <<>> /\ Len(dataOut') = 1
      BY <3>1
    <3>3. QED
      BY <1>10, <2>2, <3>2 DEF WillRecvTurn
  <2>3. QED
    BY <2>1, <2>2
<1>11. CASE NetRecv
  BY <1>11 DEF NetRecv
<1>12. CASE NetRecvFails
  BY <1>12 DEF NetRecvFails
<1>13. CASE SendMsg
  BY <1>13 DEF SendMsg, Packet, IsEOF
<1>14. CASE SendFails
  BY <1>14 DEF SendFails, emulate_disconnect, Packet, IsEOF
<1>15. CASE ExtractState
  BY <1>15 DEF ExtractState
<1>16. CASE DrainOwnEnds
  BY <1>16 DEF DrainOwnEnds, Drained, Draining
<1>17. CASE DrainDead
  BY <1>17 DEF DrainDead, HandleResponses, DrainTargetEnd, target_is_dead
<1>18. CASE DrainSigterm
  BY <1>18 DEF DrainSigterm
<1>19. CASE DrainGivesUp
  BY <1>19 DEF DrainGivesUp, HandleResponses
<1>20. CASE DrainAgain
  BY <1>20 DEF DrainAgain
<1>21. CASE Fork
  <2>1. ctlIn = <<>> /\ dataOut = <<>> /\ pc = "getpid"
    BY <1>21 DEF Fork, Drained
  <2>2. QED
    BY <1>21, <2>1 DEF Fork
<1>22. CASE WritePid
  BY <1>22 DEF WritePid
<1>23. CASE Reap
  BY <1>23 DEF Reap
<1>24. CASE InitReaps
  BY <1>24 DEF InitReaps
<1>25. CASE handle_timeout
  BY <1>25 DEF handle_timeout, KillChild
<1>26. CASE handle_stop_sig
  BY <1>26 DEF handle_stop_sig, KillChild
<1>27. CASE SetGroup
  BY <1>27 DEF SetGroup
<1>28. CASE NotifySend
  <2>1. ctlIn' = Append(ctlIn, [run |-> run, act |-> "Send"])
        /\ UNCHANGED <<pc, ta, dataOut, stop_soon>>
        /\ cpc = "run" /\ cpc' = "sending"
    BY <1>28 DEF NotifySend
  <2>2. ~TurnOpen
    BY <2>1
  <2>3. ctlIn'[Len(ctlIn')].act = "Send"
    BY <2>1, AppendTurn, Acts
  <2>4. \A i \in 1 .. Len(ctlIn) : ctlIn[i].act = "Send"
    BY <2>2, Acts
  <2>5. \A i \in 1 .. Len(ctlIn') - 1 : ctlIn'[i].act = "Send"
    BY <2>1, <2>4, AppendTurn, Acts
  <2>6. ~TurnOpen'
    BY <2>1, <2>2, <2>3
  <2>7. QED
    BY <2>1, <2>2, <2>5, <2>6
<1>29. CASE WriteData
  BY <1>29 DEF WriteData
<1>30. CASE NotifyRecv
  <2>1. ctlIn' = Append(ctlIn, [run |-> run, act |-> "Recv"])
        /\ UNCHANGED <<pc, ta, dataOut, stop_soon>>
        /\ cpc = "run" /\ cpc' = "recving"
    BY <1>30 DEF NotifyRecv
  <2>2. ~TurnOpen
    BY <2>1
  <2>3. ctlIn' # <<>> /\ ctlIn'[Len(ctlIn')].act = "Recv"
    <3>1. [run |-> run, act |-> "Recv"] \in Announcements
      BY Acts
    <3>2. ctlIn' # <<>> /\ ctlIn'[Len(ctlIn')] = [run |-> run, act |-> "Recv"]
      BY <2>1, <3>1, AppendTurn
    <3>3. QED
      BY <3>2
  <2>4. \A i \in 1 .. Len(ctlIn) : ctlIn[i].act = "Send"
    BY <2>2, Acts
  <2>5. \A i \in 1 .. Len(ctlIn') - 1 : ctlIn'[i].act = "Send"
    BY <2>1, <2>4, AppendTurn, Acts
  <2>6. RecvQueued' /\ ~RecvInHand' /\ dataOut' = <<>>
    BY <2>1, <2>2, <2>3
  <2>7. QED
    BY <2>1, <2>5, <2>6
<1>31. CASE ReadRequest
  BY <1>31 DEF ReadRequest
<1>32. CASE ReadEOF
  BY <1>32 DEF ReadEOF
<1>33. CASE RecvFails
  BY <1>33 DEF RecvFails
<1>34. CASE ServePending
  BY <1>34 DEF ServePending
<1>35. CASE Exits
  BY <1>35 DEF Exits, Die
<1>36. CASE Crashes
  BY <1>36 DEF Crashes, Die
<1>37. CASE Killed
  BY <1>37 DEF Killed, Die
<1>38. CASE Termed
  BY <1>38 DEF Termed, Die
<1>39. CASE UNCHANGED vars
  BY <1>39 DEF vars
<1>40. QED
  BY <1>1, <1>2, <1>3, <1>4, <1>5, <1>6, <1>7, <1>8, <1>9, <1>10, <1>11, <1>12,
     <1>13, <1>14, <1>15, <1>16, <1>17, <1>18, <1>19, <1>20, <1>21, <1>22,
     <1>23, <1>24, <1>25, <1>26, <1>27, <1>28, <1>29, <1>30, <1>31, <1>32,
     <1>33, <1>34, <1>35, <1>36, <1>37, <1>38, <1>39 DEF Next, Fuzzer,
     run_target, target_will_do, drain_pending_msgs, send_over_network_sbr,
     ForkServer, Signals, Child, Finished

\* Every response is announced before it is written and taken once.
LEMMA AnswersStep == InTime /\ IInv /\ DialogueInv /\ [Next]_vars => Answers'
<1> SUFFICES ASSUME InTime, IInv, DialogueInv, [Next]_vars PROVE Answers'
  OBVIOUS
<1>f1. /\ ctlIn \in Seq(Announcements) /\ dataIn \in Seq(Nat)
        /\ dataOut \in Seq([run : Nat, msg : Nat])
        /\ it \in Nat /\ consumed \in Nat /\ messages_sent \in Nat
        /\ run \in Nat /\ state_code \in Nat
  BY DEF IInv, TypeOK, StateOK
<1>f2. /\ "timeout" \notin Faults /\ "eagain" \notin Faults
        /\ "slow" \notin Faults
  BY DEF InTime
<1>f3. /\ Turns /\ Answers /\ Drained
  BY DEF DialogueInv
<1>f4. Handshake
  BY DEF IInv
<1>f5. Fork => pc = "getpid" /\ cpc \in {"none", "gone"} /\ ~stop_soon
  BY DEF Fork, IInv, Handshake
<1>f6. Awaited \in Int
  BY DEF IInv, TypeOK, StateOK, Awaited
<1> USE <1>f1, <1>f2, <1>f3, <1>f4, <1>f5, <1>f6
<1> USE DEF test, turn, progress, response, states, exchange, signals, fuzzer,
        forkvars, channels, process, shm, server, childvars, world, Answers,
        Talking, Live
<1>1. CASE StartRun
  <2>1. ctlIn' = <<>> /\ dataIn' = <<>> /\ pc' = "getpid"
    BY <1>1 DEF StartRun, Drained
  <2>2. cpc' \in {"none", "gone"}
    BY <1>1 DEF StartRun, Handshake
  <2>3. Awaited' = 0 /\ Len(dataIn') = 0
    BY <2>1 DEF Awaited, RecvQueued
  <2>4. QED
    BY <2>2, <2>3
<1>2. CASE ReadPid
  BY <1>2 DEF ReadPid, Awaited, RecvQueued
<1>3. CASE ReadStatus
  BY <1>3 DEF ReadStatus, Awaited, RecvQueued
<1>4. CASE PipeClosed
  BY <1>4 DEF PipeClosed, Awaited, RecvQueued
<1>5. CASE Classify
  BY <1>5 DEF Classify, Awaited, RecvQueued
<1>6. CASE WillRecv
  <2>1. CASE ctlIn = <<>>
    BY <1>6, <2>1 DEF WillRecv, Awaited, RecvQueued, Talking
  <2>2. CASE ctlIn # <<>>
    <3>1. /\ RecvQueued' <=> RecvQueued /\ Len(ctlIn) > 1
          /\ ta' = "Send" <=> ~(RecvQueued /\ Len(ctlIn) = 1)
          /\ Len(ctlIn') = Len(ctlIn) - 1
          /\ pc = "will" /\ pc' = "chk"
      BY <1>6, <2>2, TakeTurn
    <3>2. Len(ctlIn) \in Nat /\ Len(ctlIn) # 0 /\ Len(ctlIn') \in Nat
      BY <2>2, <3>1
    <3>3. Awaited' = Awaited
      <4>1. CASE RecvQueued /\ Len(ctlIn) = 1
        BY <3>1, <3>2, <4>1 DEF Awaited
      <4>2. CASE RecvQueued /\ Len(ctlIn) > 1
        <5>1. RecvQueued' /\ ta' = "Send"
          BY <3>1, <3>2, <4>2, OneOrMore
        <5>2. Awaited' = Len(ctlIn') - 1 + 1
          BY <3>1, <5>1 DEF Awaited
        <5>3. Awaited = Len(ctlIn) - 1 + 0
          BY <3>1, <4>2 DEF Awaited
        <5>4. QED
          BY <3>1, <3>2, <5>2, <5>3
      <4>3. CASE ~RecvQueued
        <5>1. ~RecvQueued' /\ ta' = "Send"
          BY <3>1, <4>3
        <5>2. Awaited' = Len(ctlIn') + 1
          BY <3>1, <5>1 DEF Awaited
        <5>3. Awaited = Len(ctlIn) + 0
          BY <3>1, <4>3 DEF Awaited
        <5>4. QED
          BY <3>1, <3>2, <5>2, <5>3
      <4>4. QED
        BY <3>2, <4>1, <4>2, <4>3, OneOrMore
    <3>4. QED
      BY <1>6, <3>3 DEF WillRecv, Talking
  <2>3. QED
    BY <2>1, <2>2
<1>7. CASE WillRetry
  BY <1>7 DEF WillRetry, GivesUp, Awaited, RecvQueued
<1>8. CASE WillTimeout
  BY <1>8 DEF WillTimeout, GivesUp, Awaited, RecvQueued
<1>9. CASE WillSend
  BY <1>9 DEF WillSend, GivesUp, Awaited, RecvQueued
<1>10. CASE WillRecvTurn
  BY <1>10 DEF WillRecvTurn, GivesUp, emulate_disconnect, Packet, IsEOF, Awaited, RecvQueued
<1>11. CASE NetRecv
  <2>1. /\ dataIn # <<>> /\ dataIn' = Tail(dataIn) /\ ta = "Send"
        /\ pc = "netrecv" /\ pc' = "will" /\ UNCHANGED <<ctlIn, cpc>>
    BY <1>11 DEF NetRecv, Drained
  <2>2. Len(dataIn) \in Nat /\ Len(dataIn') = Len(dataIn) - 1
    BY <2>1
  <2>3. Awaited' = Awaited - 1
    BY <2>1 DEF Awaited, RecvQueued
  <2>4. Len(dataIn) <= Awaited /\ Awaited <= Len(dataIn) + 1
    BY <2>1
  <2>5. Len(dataIn') <= Awaited' /\ Awaited' <= Len(dataIn') + 1
    BY <2>2, <2>3, <2>4
  <2>6. cpc = "sending" => Awaited' = Len(dataIn') + 1
    BY <2>1, <2>2, <2>3
  <2>7. cpc \in {"none", "born", "run", "recving"} => Awaited' = Len(dataIn')
    BY <2>1, <2>2, <2>3
  <2>8. QED
    BY <2>1, <2>5, <2>6, <2>7
<1>12. CASE NetRecvFails
  BY <1>12 DEF NetRecvFails, Awaited, RecvQueued
<1>13. CASE SendMsg
  BY <1>13 DEF SendMsg, Packet, IsEOF, Awaited, RecvQueued
<1>14. CASE SendFails
  BY <1>14 DEF SendFails, emulate_disconnect, Packet, IsEOF, Awaited, RecvQueued
<1>15. CASE ExtractState
  BY <1>15 DEF ExtractState, Awaited, RecvQueued
<1>16. CASE DrainOwnEnds
  BY <1>16 DEF DrainOwnEnds, Awaited, RecvQueued
<1>17. CASE DrainDead
  BY <1>17 DEF DrainDead, HandleResponses, DrainTargetEnd, target_is_dead, Awaited, RecvQueued
<1>18. CASE DrainSigterm
  BY <1>18 DEF DrainSigterm, Awaited, RecvQueued
<1>19. CASE DrainGivesUp
  BY <1>19 DEF DrainGivesUp, HandleResponses, Awaited, RecvQueued
<1>20. CASE DrainAgain
  BY <1>20 DEF DrainAgain, Awaited, RecvQueued
<1>21. CASE Fork
  <2>1. ctlIn' = <<>> /\ dataIn' = <<>> /\ pc' = "getpid" /\ cpc' = "born"
    BY <1>21 DEF Fork, Drained, fuzzer, channels
  <2>2. Awaited' = 0 /\ Len(dataIn') = 0
    BY <2>1 DEF Awaited, RecvQueued
  <2>3. QED
    BY <2>1, <2>2
<1>22. CASE WritePid
  BY <1>22 DEF WritePid, Awaited, RecvQueued
<1>23. CASE Reap
  BY <1>23 DEF Reap, Awaited, RecvQueued
<1>24. CASE InitReaps
  BY <1>24 DEF InitReaps, Awaited, RecvQueued
<1>25. CASE handle_timeout
  BY <1>25 DEF handle_timeout, KillChild, Awaited, RecvQueued
<1>26. CASE handle_stop_sig
  BY <1>26 DEF handle_stop_sig, KillChild, Awaited, RecvQueued
<1>27. CASE SetGroup
  BY <1>27 DEF SetGroup, Awaited, RecvQueued
<1>28. CASE NotifySend
  <2>1. ctlIn' = Append(ctlIn, [run |-> run, act |-> "Send"])
        /\ UNCHANGED <<pc, ta, dataIn>> /\ cpc = "run" /\ cpc' = "sending"
    BY <1>28 DEF NotifySend
  <2>2. ~RecvQueued
    BY <2>1 DEF Turns, TurnOpen
  <2>3. Len(ctlIn') = Len(ctlIn) + 1 /\ ctlIn'[Len(ctlIn')].act = "Send"
    BY <2>1, AppendTurn, Acts
  <2>4. ~RecvQueued'
    BY <2>3 DEF RecvQueued
  <2>5. Awaited' = Awaited + 1
    BY <2>1, <2>2, <2>3, <2>4 DEF Awaited
  <2>6. QED
    BY <2>1, <2>5
<1>29. CASE WriteData
  <2>1. dataIn' = Append(dataIn, run) /\ cpc = "sending" /\ cpc' = "run"
        /\ UNCHANGED <<pc, ta, ctlIn>>
    BY <1>29 DEF WriteData
  <2>2. Len(dataIn') = Len(dataIn) + 1
    BY <2>1
  <2>3. Awaited' = Awaited
    BY <2>1 DEF Awaited, RecvQueued
  <2>4. QED
    BY <2>1, <2>2, <2>3
<1>30. CASE NotifyRecv
  <2>1. ctlIn' = Append(ctlIn, [run |-> run, act |-> "Recv"])
        /\ UNCHANGED <<pc, ta, dataIn>> /\ cpc = "run" /\ cpc' = "recving"
    BY <1>30 DEF NotifyRecv
  <2>2. ~RecvQueued
    BY <2>1 DEF Turns, TurnOpen
  <2>3. [run |-> run, act |-> "Recv"] \in Announcements
    BY Acts
  <2>4. /\ ctlIn' # <<>> /\ Len(ctlIn') = Len(ctlIn) + 1
        /\ ctlIn'[Len(ctlIn')] = [run |-> run, act |-> "Recv"]
    BY <2>1, <2>3, AppendTurn
  <2>5. RecvQueued'
    BY <2>4 DEF RecvQueued
  <2>6. Awaited' = Awaited
    BY <2>1, <2>2, <2>4, <2>5 DEF Awaited
  <2>7. QED
    BY <2>1, <2>6
<1>31. CASE ReadRequest
  BY <1>31 DEF ReadRequest, Awaited, RecvQueued
<1>32. CASE ReadEOF
  BY <1>32 DEF ReadEOF, Awaited, RecvQueued
<1>33. CASE RecvFails
  BY <1>33 DEF RecvFails, Awaited, RecvQueued
<1>34. CASE ServePending
  BY <1>34 DEF ServePending, Awaited, RecvQueued
<1>35. CASE Exits
  BY <1>35 DEF Exits, Die, Awaited, RecvQueued
<1>36. CASE Crashes
  BY <1>36 DEF Crashes, Die, Awaited, RecvQueued
<1>37. CASE Killed
  BY <1>37 DEF Killed, Die, Awaited, RecvQueued
<1>38. CASE Termed
  BY <1>38 DEF Termed, Die, Awaited, RecvQueued
<1>39. CASE UNCHANGED vars
  BY <1>39 DEF vars, Awaited, RecvQueued
<1>40. QED
  BY <1>1, <1>2, <1>3, <1>4, <1>5, <1>6, <1>7, <1>8, <1>9, <1>10, <1>11, <1>12,
     <1>13, <1>14, <1>15, <1>16, <1>17, <1>18, <1>19, <1>20, <1>21, <1>22,
     <1>23, <1>24, <1>25, <1>26, <1>27, <1>28, <1>29, <1>30, <1>31, <1>32,
     <1>33, <1>34, <1>35, <1>36, <1>37, <1>38, <1>39 DEF Next, Fuzzer,
     run_target, target_will_do, drain_pending_msgs, send_over_network_sbr,
     ForkServer, Signals, Child, Finished

\* The drain leaves the channels empty, and nobody fills them behind its back.
LEMMA DrainedStep == InTime /\ IInv /\ DialogueInv /\ [Next]_vars => Drained'
<1> SUFFICES ASSUME InTime, IInv, DialogueInv, [Next]_vars PROVE Drained'
  OBVIOUS
<1>f1. /\ ctlIn \in Seq(Announcements) /\ dataIn \in Seq(Nat)
        /\ dataOut \in Seq([run : Nat, msg : Nat])
        /\ it \in Nat /\ consumed \in Nat /\ messages_sent \in Nat
        /\ run \in Nat /\ state_code \in Nat
  BY DEF IInv, TypeOK, StateOK
<1>f2. /\ "timeout" \notin Faults /\ "eagain" \notin Faults
        /\ "slow" \notin Faults
  BY DEF InTime
<1>f3. /\ Turns /\ Answers /\ Drained
  BY DEF DialogueInv
<1>f4. Handshake
  BY DEF IInv
<1>f5. Fork => pc = "getpid" /\ cpc \in {"none", "gone"} /\ ~stop_soon
  BY DEF Fork, IInv, Handshake
<1> USE <1>f1, <1>f2, <1>f3, <1>f4, <1>f5
<1> USE DEF test, turn, progress, response, states, exchange, signals, fuzzer,
        forkvars, channels, process, shm, server, childvars, world, Drained,
        Draining, Live
<1>1. CASE StartRun
  BY <1>1 DEF StartRun
<1>2. CASE ReadPid
  BY <1>2 DEF ReadPid
<1>3. CASE ReadStatus
  BY <1>3 DEF ReadStatus
<1>4. CASE PipeClosed
  BY <1>4 DEF PipeClosed
<1>5. CASE Classify
  BY <1>5 DEF Classify
<1>6. CASE WillRecv
  BY <1>6 DEF WillRecv
<1>7. CASE WillRetry
  BY <1>7 DEF WillRetry, GivesUp
<1>8. CASE WillTimeout
  BY <1>8 DEF WillTimeout, GivesUp, target_is_dead, Handshake, InRun, Statuses
<1>9. CASE WillSend
  BY <1>9 DEF WillSend, GivesUp
<1>10. CASE WillRecvTurn
  <2>1. CASE it < NumMsgs
    BY <1>10, <2>1, ConstantsAssumption DEF WillRecvTurn
  <2>2. CASE ~(it < NumMsgs)
    <3>1. RecvInHand /\ cpc \in {"recving", "zombie", "gone"}
      BY <1>10 DEF WillRecvTurn, RecvInHand, Turns, TurnOpen, TypeOK, StateOK, IInv, Live
    <3>2. dataOut' = <<Packet(run, 0)>>
      BY <1>10, <2>2, <3>1 DEF WillRecvTurn, emulate_disconnect, Turns
    <3>3. dataOut' # <<>> /\ IsEOF(dataOut'[1])
      BY <3>2 DEF IsEOF, Packet
    <3>4. QED
      BY <1>10, <2>2, <3>1, <3>3 DEF WillRecvTurn
  <2>3. QED
    BY <2>1, <2>2
<1>11. CASE NetRecv
  BY <1>11 DEF NetRecv
<1>12. CASE NetRecvFails
  <2>1. pc = "netrecv" /\ ta = "Send" /\ dataIn = <<>>
    BY <1>12 DEF NetRecvFails
  <2>2. Awaited > 0
    BY <2>1 DEF Awaited, RecvQueued
  <2>3. stop_soon \/ cpc \in {"zombie", "gone"}
    BY <1>12, <2>1, <2>2 DEF NetRecvFails, Answers, Talking, TypeOK, StateOK, IInv, Live
  <2>4. QED
    BY <1>12, <2>3 DEF NetRecvFails
<1>13. CASE SendMsg
  BY <1>13 DEF SendMsg, Packet, IsEOF
<1>14. CASE SendFails
  <2>1. RecvInHand /\ cpc \in {"recving", "zombie", "gone"}
    BY <1>14 DEF SendFails, RecvInHand, Turns, TurnOpen, TypeOK, StateOK, IInv, Live
  <2>2. dataOut' = <<Packet(run, 0)>>
    BY <1>14, <2>1 DEF SendFails, emulate_disconnect, Turns
  <2>3. dataOut' # <<>> /\ IsEOF(dataOut'[1])
    BY <2>2 DEF IsEOF, Packet
  <2>4. QED
    BY <1>14, <2>1, <2>3 DEF SendFails
<1>15. CASE ExtractState
  BY <1>15 DEF ExtractState
<1>16. CASE DrainOwnEnds
  BY <1>16 DEF DrainOwnEnds
<1>17. CASE DrainDead
  <2>1. DrainTargetEnd(dataOut) = <<>>
    BY ShortQueue DEF DrainTargetEnd, Turns
  <2>2. ~stop_soon => cpc = "gone"
    BY <1>17 DEF DrainDead, target_is_dead, Handshake, InRun, Statuses, TypeOK, StateOK, IInv, Live
  <2>3. QED
    BY <1>17, <2>1, <2>2 DEF DrainDead, HandleResponses
<1>18. CASE DrainSigterm
  BY <1>18 DEF DrainSigterm
<1>19. CASE DrainGivesUp
  BY <1>19 DEF DrainGivesUp, HandleResponses
<1>20. CASE DrainAgain
  BY <1>20 DEF DrainAgain
<1>21. CASE Fork
  BY <1>21 DEF Fork
<1>22. CASE WritePid
  BY <1>22 DEF WritePid
<1>23. CASE Reap
  BY <1>23 DEF Reap
<1>24. CASE InitReaps
  BY <1>24 DEF InitReaps
<1>25. CASE handle_timeout
  BY <1>25 DEF handle_timeout, KillChild
<1>26. CASE handle_stop_sig
  BY <1>26 DEF handle_stop_sig, KillChild
<1>27. CASE SetGroup
  BY <1>27 DEF SetGroup
<1>28. CASE NotifySend
  <2>1. cpc \in Live /\ cpc # "recving"
    BY <1>28 DEF NotifySend
  <2>2. ~stop_soon => pc \notin {"drain", "drainchk", "status", "classify", "idle"}
    BY <2>1 DEF Handshake
  <2>3. req => cpc \notin Live
    BY DEF Handshake
  <2>4. QED
    BY <1>28, <2>1, <2>2, <2>3 DEF NotifySend
<1>29. CASE WriteData
  <2>1. cpc \in Live /\ cpc # "recving"
    BY <1>29 DEF WriteData
  <2>2. ~stop_soon => pc \notin {"drain", "drainchk", "status", "classify", "idle"}
    BY <2>1 DEF Handshake
  <2>3. req => cpc \notin Live
    BY DEF Handshake
  <2>4. QED
    BY <1>29, <2>1, <2>2, <2>3 DEF WriteData
<1>30. CASE NotifyRecv
  <2>1. cpc \in Live /\ cpc # "recving"
    BY <1>30 DEF NotifyRecv
  <2>2. ~stop_soon => pc \notin {"drain", "drainchk", "status", "classify", "idle"}
    BY <2>1 DEF Handshake
  <2>3. req => cpc \notin Live
    BY DEF Handshake
  <2>4. QED
    BY <1>30, <2>1, <2>2, <2>3 DEF NotifyRecv
<1>31. CASE ReadRequest
  BY <1>31 DEF ReadRequest
<1>32. CASE ReadEOF
  BY <1>32 DEF ReadEOF
<1>33. CASE RecvFails
  BY <1>33 DEF RecvFails
<1>34. CASE ServePending
  BY <1>34 DEF ServePending
<1>35. CASE Exits
  BY <1>35 DEF Exits, Die
<1>36. CASE Crashes
  BY <1>36 DEF Crashes, Die
<1>37. CASE Killed
  BY <1>37 DEF Killed, Die
<1>38. CASE Termed
  BY <1>38 DEF Termed, Die
<1>39. CASE UNCHANGED vars
  BY <1>39 DEF vars
<1>40. QED
  BY <1>1, <1>2, <1>3, <1>4, <1>5, <1>6, <1>7, <1>8, <1>9, <1>10, <1>11, <1>12,
     <1>13, <1>14, <1>15, <1>16, <1>17, <1>18, <1>19, <1>20, <1>21, <1>22,
     <1>23, <1>24, <1>25, <1>26, <1>27, <1>28, <1>29, <1>30, <1>31, <1>32,
     <1>33, <1>34, <1>35, <1>36, <1>37, <1>38, <1>39 DEF Next, Fuzzer,
     run_target, target_will_do, drain_pending_msgs, send_over_network_sbr,
     ForkServer, Signals, Child, Finished

\* The server reads the requests it was sent in the order it asked for them.
LEMMA RequestsStep == InTime /\ IInv /\ DialogueInv /\ [Next]_vars => Requests'
<1> SUFFICES ASSUME InTime, IInv, DialogueInv, [Next]_vars PROVE Requests'
  OBVIOUS
<1>f1. /\ ctlIn \in Seq(Announcements) /\ dataIn \in Seq(Nat)
        /\ dataOut \in Seq([run : Nat, msg : Nat])
        /\ it \in Nat /\ consumed \in Nat /\ messages_sent \in Nat
        /\ run \in Nat /\ state_code \in Nat
  BY DEF IInv, TypeOK, StateOK
<1>f2. /\ "timeout" \notin Faults /\ "eagain" \notin Faults
        /\ "slow" \notin Faults
  BY DEF InTime
<1>f3. /\ Turns /\ Drained /\ Requests
  BY DEF DialogueInv
<1>f4. Handshake
  BY DEF IInv
<1>f5. Fork => pc = "getpid" /\ cpc \in {"none", "gone"} /\ ~stop_soon
  BY DEF Fork, IInv, Handshake
<1> USE <1>f1, <1>f2, <1>f3, <1>f4, <1>f5
<1> USE DEF test, turn, progress, response, states, exchange, signals, fuzzer,
        forkvars, channels, process, shm, server, childvars, world, Requests,
        Talking, Live
<1>1. CASE StartRun
  <2>1. dataOut' = <<>> /\ pc' = "getpid" /\ req' /\ state_code' = 0
    BY <1>1 DEF StartRun, Drained
  <2>2. QED
    BY <2>1
<1>2. CASE ReadPid
  <2>1. ~req /\ consumed = 0 /\ dataOut = <<>>
    BY <1>2 DEF ReadPid, Handshake, Drained
  <2>2. QED
    BY <1>2, <2>1 DEF ReadPid
<1>3. CASE ReadStatus
  BY <1>3 DEF ReadStatus
<1>4. CASE PipeClosed
  BY <1>4 DEF PipeClosed
<1>5. CASE Classify
  BY <1>5 DEF Classify
<1>6. CASE WillRecv
  BY <1>6 DEF WillRecv
<1>7. CASE WillRetry
  BY <1>7 DEF WillRetry, GivesUp
<1>8. CASE WillTimeout
  BY <1>8 DEF WillTimeout, GivesUp
<1>9. CASE WillSend
  BY <1>9 DEF WillSend, GivesUp
<1>10. CASE WillRecvTurn
  <2>1. dataOut = <<>>
    BY <1>10 DEF WillRecvTurn, Turns, RecvInHand
  <2>2. consumed = it
    BY <1>10, <2>1 DEF WillRecvTurn
  <2>3. CASE it < NumMsgs
    BY <1>10, <2>1, <2>2, <2>3, ConstantsAssumption DEF WillRecvTurn
  <2>4. CASE ~(it < NumMsgs)
    <3>1. dataOut' = <<Packet(run, 0)>> /\ pc' = "drain"
      BY <1>10, <2>1, <2>4 DEF WillRecvTurn, emulate_disconnect
    <3>2. dataOut'[1].run = run /\ IsEOF(dataOut'[1])
      BY <3>1 DEF Packet, IsEOF
    <3>3. QED
      BY <1>10, <2>4, <3>1, <3>2 DEF WillRecvTurn
  <2>5. QED
    BY <2>3, <2>4
<1>11. CASE NetRecv
  BY <1>11 DEF NetRecv
<1>12. CASE NetRecvFails
  BY <1>12 DEF NetRecvFails
<1>13. CASE SendMsg
  <2>1. dataOut = <<>>
    BY <1>13 DEF SendMsg, Turns, RecvInHand
  <2>2. dataOut' = <<Packet(run, it)>> /\ Len(dataOut') = 1
    BY <1>13, <2>1 DEF SendMsg
  <2>3. dataOut'[1].run = run /\ dataOut'[1].msg = it
    BY <2>2 DEF Packet
  <2>4. QED
    BY <1>13, <2>2, <2>3 DEF SendMsg
<1>14. CASE SendFails
  <2>1. dataOut = <<>>
    BY <1>14 DEF SendFails, Turns, RecvInHand
  <2>2. dataOut' = <<Packet(run, 0)>> /\ pc' = "drain"
    BY <1>14, <2>1 DEF SendFails, emulate_disconnect
  <2>3. dataOut'[1].run = run /\ IsEOF(dataOut'[1])
    BY <2>2 DEF Packet, IsEOF
  <2>4. QED
    BY <1>14, <2>2, <2>3 DEF SendFails
<1>15. CASE ExtractState
  BY <1>15 DEF ExtractState
<1>16. CASE DrainOwnEnds
  BY <1>16 DEF DrainOwnEnds
<1>17. CASE DrainDead
  <2>1. DrainTargetEnd(dataOut) = <<>>
    BY ShortQueue DEF DrainTargetEnd, Turns
  <2>2. QED
    BY <1>17, <2>1 DEF DrainDead, HandleResponses
<1>18. CASE DrainSigterm
  BY <1>18 DEF DrainSigterm
<1>19. CASE DrainGivesUp
  BY <1>19 DEF DrainGivesUp, HandleResponses
<1>20. CASE DrainAgain
  BY <1>20 DEF DrainAgain
<1>21. CASE Fork
  <2>1. dataOut = <<>> /\ req
    BY <1>21 DEF Fork, Drained
  <2>2. QED
    BY <1>21, <2>1 DEF Fork
<1>22. CASE WritePid
  BY <1>22 DEF WritePid
<1>23. CASE Reap
  BY <1>23 DEF Reap
<1>24. CASE InitReaps
  BY <1>24 DEF InitReaps
<1>25. CASE handle_timeout
  BY <1>25 DEF handle_timeout, KillChild
<1>26. CASE handle_stop_sig
  BY <1>26 DEF handle_stop_sig, KillChild
<1>27. CASE SetGroup
  BY <1>27 DEF SetGroup
<1>28. CASE NotifySend
  BY <1>28 DEF NotifySend
<1>29. CASE WriteData
  BY <1>29 DEF WriteData
<1>30. CASE NotifyRecv
  BY <1>30 DEF NotifyRecv
<1>31. CASE ReadRequest
  <2>1. dataOut # <<>> /\ ~IsEOF(dataOut[1])
    BY <1>31 DEF ReadRequest
  <2>2. Len(dataOut) = 1 /\ dataOut' = <<>>
    BY <1>31, <2>1, ShortQueue DEF ReadRequest, Turns
  <2>3. pc # "getpid" /\ pc # "send"
    BY <2>1 DEF Drained, Turns, RecvInHand
  <2>4. ~req
    BY <1>31 DEF ReadRequest, Handshake, Live
  <2>5. dataOut[1].msg = consumed + 1
    BY <2>1
  <2>6. pc \in Talking => consumed' + Len(dataOut') = it
    <3>1. Len(dataOut') = 0 /\ consumed' = consumed + 1
      BY <1>31, <2>2 DEF ReadRequest
    <3>2. pc \in Talking => consumed + 1 = it
      BY <2>2, <2>3
    <3>3. QED
      BY <3>1, <3>2
  <2>7. UNCHANGED <<pc, it, messages_sent, run, req>> /\ state_code' = consumed'
    BY <1>31 DEF ReadRequest
  <2>8. QED
    BY <2>2, <2>3, <2>4, <2>6, <2>7
<1>32. CASE ReadEOF
  <2>1. dataOut # <<>> /\ IsEOF(dataOut[1])
    BY <1>32 DEF ReadEOF
  <2>2. Len(dataOut) = 1 /\ dataOut' = <<>>
    BY <1>32, <2>1, ShortQueue DEF ReadEOF, Turns
  <2>3. pc \notin Talking
    BY <2>1 DEF IsEOF
  <2>4. QED
    BY <1>32, <2>1, <2>2, <2>3 DEF ReadEOF
<1>33. CASE RecvFails
  BY <1>33 DEF RecvFails
<1>34. CASE ServePending
  BY <1>34 DEF ServePending
<1>35. CASE Exits
  BY <1>35 DEF Exits, Die
<1>36. CASE Crashes
  BY <1>36 DEF Crashes, Die
<1>37. CASE Killed
  BY <1>37 DEF Killed, Die
<1>38. CASE Termed
  BY <1>38 DEF Termed, Die
<1>39. CASE UNCHANGED vars
  BY <1>39 DEF vars
<1>40. QED
  BY <1>1, <1>2, <1>3, <1>4, <1>5, <1>6, <1>7, <1>8, <1>9, <1>10, <1>11, <1>12,
     <1>13, <1>14, <1>15, <1>16, <1>17, <1>18, <1>19, <1>20, <1>21, <1>22,
     <1>23, <1>24, <1>25, <1>26, <1>27, <1>28, <1>29, <1>30, <1>31, <1>32,
     <1>33, <1>34, <1>35, <1>36, <1>37, <1>38, <1>39 DEF Next, Fuzzer,
     run_target, target_will_do, drain_pending_msgs, send_over_network_sbr,
     ForkServer, Signals, Child, Finished

\* Before the first turn nothing was sent and nothing read.
LEMMA NothingSent ==
  ASSUME InTime, IInv, Requests, pc \in {"chk", "netrecv"}, it = 0
  PROVE  consumed = 0 /\ dataOut = <<>>
<1>1. consumed \in Nat /\ dataOut \in Seq([run : Nat, msg : Nat])
  BY DEF IInv, TypeOK, StateOK
<1>2. consumed + Len(dataOut) = 0 /\ Len(dataOut) \in Nat
  BY <1>1 DEF Requests, Talking
<1>3. \A m, n \in Nat : m + n = 0 => m = 0 /\ n = 0
  OBVIOUS
<1>4. consumed = 0 /\ Len(dataOut) = 0
  BY <1>1, <1>2, <1>3
<1>5. QED
  BY <1>1, <1>4, EmptySeq

\* What extract_state_codes appends stands behind the entries there were.
LEMMA AppendState ==
  \A s \in Seq(Nat) : \A v \in Nat :
    /\ Len(Append(s, v)) = Len(s) + 1
    /\ Append(s, v)[Len(s) + 1] = v
    /\ \A j \in 1 .. Len(s) : Append(s, v)[j] = s[j]
OBVIOUS

\* The state sequence is NULL before the first request, and only then.
LEMMA SampledSoFar ==
  ASSUME IInv, Samples, Requests
  PROVE  /\ pc \in {"will", "chk", "netrecv"} =>
              IF it = 0 THEN state_sequence = <<>>
              ELSE state_sequence # <<>> /\ Len(state_sequence) = it + 1
         /\ pc \in {"send", "extract"} =>
              IF it = 1 THEN state_sequence = <<>>
              ELSE state_sequence # <<>> /\ Len(state_sequence) = it
<1>1. state_sequence \in Seq(Nat) /\ it \in Nat /\ messages_sent \in Nat
  BY DEF IInv, TypeOK, StateOK
<1>2. pc \in {"send", "extract"} => it # 0
  BY <1>1 DEF Requests
<1>3. state_sequence = <<>> <=> Len(state_sequence) = 0
  BY <1>1, EmptySeq
<1>4. it + 1 # 0
  BY <1>1
<1>5. QED
  BY <1>1, <1>2, <1>3, <1>4 DEF Samples

\* The state code sampled after request i is the state before it or after it.
LEMMA SamplesStep == InTime /\ IInv /\ DialogueInv /\ [Next]_vars => Samples'
<1> SUFFICES ASSUME InTime, IInv, DialogueInv, [Next]_vars PROVE Samples'
  OBVIOUS
<1>f1. /\ ctlIn \in Seq(Announcements) /\ dataIn \in Seq(Nat)
        /\ dataOut \in Seq([run : Nat, msg : Nat])
        /\ it \in Nat /\ consumed \in Nat /\ messages_sent \in Nat
        /\ run \in Nat /\ state_code \in Nat
  BY DEF IInv, TypeOK, StateOK
<1>f2. state_sequence \in Seq(Nat)
  BY DEF IInv, TypeOK, StateOK
<1>f3. /\ "timeout" \notin Faults /\ "eagain" \notin Faults
        /\ "slow" \notin Faults
  BY DEF InTime
<1>f4. Handshake
  BY DEF IInv
<1>f5. /\ Turns /\ Drained /\ Requests /\ Samples
  BY DEF DialogueInv
<1> USE <1>f1, <1>f2, <1>f3, <1>f4, <1>f5
<1> USE DEF test, turn, progress, response, states, exchange, signals, fuzzer,
        forkvars, channels, process, shm, server, childvars, world, Samples,
        StateSample, Requests, Draining, Talking, Live
<1>1. CASE StartRun
  BY <1>1 DEF StartRun
<1>2. CASE ReadPid
  BY <1>2 DEF ReadPid
<1>3. CASE ReadStatus
  BY <1>3 DEF ReadStatus
<1>4. CASE PipeClosed
  BY <1>4 DEF PipeClosed
<1>5. CASE Classify
  BY <1>5 DEF Classify
<1>6. CASE WillRecv
  BY <1>6 DEF WillRecv
<1>7. CASE WillRetry
  BY <1>7 DEF WillRetry, GivesUp
<1>8. CASE WillTimeout
  <2>1. pc \in {"chk", "netrecv"} /\ pc' = "drain"
        /\ UNCHANGED <<it, messages_sent, state_sequence, consumed, dataOut>>
    BY <1>8 DEF WillTimeout
  <2>2. it = 0 => consumed = 0 /\ dataOut = <<>>
    BY <2>1, NothingSent
  <2>3. it > 0 => messages_sent = it
    BY <2>1
  <2>4. QED
    BY <2>1, <2>2, <2>3, SampledSoFar
<1>9. CASE WillSend
  BY <1>9 DEF WillSend, GivesUp
<1>10. CASE WillRecvTurn
  <2>1. pc = "chk" /\ dataOut = <<>>
        /\ messages_sent' = (IF it = 0 THEN 0 ELSE messages_sent)
        /\ UNCHANGED <<state_sequence, consumed>>
    BY <1>10 DEF WillRecvTurn, Turns, RecvInHand
  <2>2. consumed = it /\ messages_sent' = it
    BY <2>1
  <2>3. \A j \in 2 .. Len(state_sequence) :
          j <= it + 1 => state_sequence[j] \in {j - 2, j - 1}
    BY <2>1
  <2>4. CASE it < NumMsgs
    <3>1. pc' = "send" /\ it' = it + 1
      BY <1>10, <2>4, ConstantsAssumption DEF WillRecvTurn
    <3>2. Len(state_sequence) = IF it' = 1 THEN 0 ELSE it'
      BY <2>1, <3>1
    <3>3. QED
      BY <2>1, <2>2, <2>3, <3>1, <3>2
  <2>5. CASE ~(it < NumMsgs)
    <3>1. dataOut' = <<Packet(run, 0)>> /\ pc' = "drain"
      BY <1>10, <2>1, <2>5 DEF WillRecvTurn, emulate_disconnect
    <3>2. IsEOF(dataOut'[1])
      BY <3>1 DEF Packet, IsEOF
    <3>3. QED
      BY <2>1, <2>2, <2>3, <3>1, <3>2, SampledSoFar
  <2>6. QED
    BY <2>4, <2>5
<1>11. CASE NetRecv
  BY <1>11 DEF NetRecv
<1>12. CASE NetRecvFails
  <2>1. pc \in {"chk", "netrecv"} /\ pc' = "drain"
        /\ UNCHANGED <<it, messages_sent, state_sequence, consumed, dataOut>>
    BY <1>12 DEF NetRecvFails
  <2>2. it = 0 => consumed = 0 /\ dataOut = <<>>
    BY <2>1, NothingSent
  <2>3. it > 0 => messages_sent = it
    BY <2>1
  <2>4. QED
    BY <2>1, <2>2, <2>3, SampledSoFar
<1>13. CASE SendMsg
  <2>1. pc = "send" /\ pc' = "extract" /\ messages_sent' = messages_sent + 1
        /\ UNCHANGED <<it, state_sequence>>
    BY <1>13 DEF SendMsg
  <2>2. Len(state_sequence) <= messages_sent + 1
    BY <2>1
  <2>3. \A j \in 2 .. Len(state_sequence) :
          state_sequence[j] \in {j - 2, j - 1}
    BY <2>2
  <2>4. QED
    BY <2>1, <2>3
<1>14. CASE SendFails
  <2>1. pc = "send" /\ dataOut = <<>>
        /\ UNCHANGED <<it, messages_sent, state_sequence, consumed>>
    BY <1>14 DEF SendFails, Turns, RecvInHand
  <2>2. dataOut' = <<Packet(run, 0)>> /\ pc' = "drain"
    BY <1>14, <2>1 DEF SendFails, emulate_disconnect
  <2>3. IsEOF(dataOut'[1])
    BY <2>2 DEF Packet, IsEOF
  <2>4. it = messages_sent + 1 /\ consumed = messages_sent
    BY <2>1
  <2>5. QED
    BY <2>1, <2>2, <2>3, <2>4, SampledSoFar
<1>15. CASE ExtractState
  <2>1. pc = "extract" /\ pc' = "will" /\ messages_sent = it /\ it > 0
        /\ UNCHANGED <<it, messages_sent>>
    BY <1>15 DEF ExtractState
  <2>2. state_code \in {it - 1, it}
    <3>1. ~req
      BY <2>1 DEF Handshake
    <3>2. Len(dataOut) \in {0, 1} /\ consumed + Len(dataOut) = it
      <4>1. Len(dataOut) \in Nat /\ Len(dataOut) <= 1
        BY DEF Turns
      <4>2. consumed + Len(dataOut) = it
        BY <2>1
      <4>3. QED
        BY <4>1, <4>2, OneOrMore
    <3>3. state_code = consumed
      BY <3>1
    <3>4. \A c, n, i \in Nat : n \in {0, 1} /\ c + n = i => c \in {i - 1, i}
      OBVIOUS
    <3>5. QED
      BY <3>2, <3>3, <3>4
  <2>3. PICK base \in Seq(Nat) : /\ state_sequence' = Append(base, state_code)
                                 /\ Len(base) = it
                                 /\ \A j \in 2 .. it : base[j] \in {j - 2, j - 1}
    <3>1. CASE it = 1
      <4>1. state_sequence' = Append(<<0>>, state_code)
        BY <1>15, <2>1, <3>1, EmptySeq DEF ExtractState, extract_state_codes
      <4>2. <<0>> \in Seq(Nat) /\ Len(<<0>>) = it
        BY <3>1
      <4>3. \A j \in 2 .. it : <<0>>[j] \in {j - 2, j - 1}
        BY <3>1
      <4>4. QED
        BY <4>1, <4>2, <4>3
    <3>2. CASE it # 1
      <4>1. state_sequence # <<>> /\ Len(state_sequence) = it
        BY <2>1, <3>2
      <4>2. state_sequence' = Append(state_sequence, state_code)
        BY <1>15, <4>1 DEF ExtractState, extract_state_codes
      <4>3. \A j \in 2 .. it : state_sequence[j] \in {j - 2, j - 1}
        BY <2>1, <4>1
      <4>4. QED
        BY <4>1, <4>2, <4>3
    <3>3. QED
      BY <3>1, <3>2
  <2>4. Len(state_sequence') = it + 1 /\ state_sequence'[it + 1] = state_code
        /\ \A j \in 1 .. it : state_sequence'[j] = base[j]
    BY <2>3, AppendState
  <2>5. ASSUME NEW j \in 2 .. it + 1
        PROVE  state_sequence'[j] \in {j - 2, j - 1}
    <3>1. CASE j = it + 1
      BY <2>2, <2>4, <3>1
    <3>2. CASE j # it + 1
      <4>1. j \in 2 .. it /\ j \in 1 .. it
        <5>1. \A n \in Nat, i \in Int : i \in 2 .. n + 1 /\ i # n + 1 => i \in 2 .. n
          OBVIOUS
        <5>2. j \in 2 .. it
          BY <3>2, <5>1
        <5>3. QED
          BY <5>2
      <4>2. QED
        BY <2>3, <2>4, <4>1
    <3>3. QED
      BY <3>1, <3>2
  <2>6. QED
    BY <2>1, <2>4, <2>5
<1>16. CASE DrainOwnEnds
  BY <1>16 DEF DrainOwnEnds
<1>17. CASE DrainDead
  <2>1. /\ state_sequence' = extract_state_codes(state_sequence)
        /\ pc = "drainchk" /\ pc' = "status" /\ UNCHANGED messages_sent
    BY <1>17 DEF DrainDead, HandleResponses
  <2>2. \A j \in 2 .. Len(state_sequence') :
          j <= messages_sent + 1 => state_sequence'[j] \in {j - 2, j - 1}
    <3>1. CASE state_sequence = <<>>
      <4>1. state_code = 0
        BY <2>1, <3>1
      <4>2. state_sequence' = <<0, 0>>
        BY <2>1, <3>1, <4>1, PipeWords DEF extract_state_codes
      <4>3. QED
        BY <4>2
    <3>2. CASE state_sequence # <<>>
      <4>1. state_sequence' = Append(state_sequence, state_code)
            /\ Len(state_sequence) = messages_sent + 1
        BY <2>1, <3>2 DEF extract_state_codes
      <4>2. \A j \in 1 .. messages_sent + 1 : state_sequence'[j] = state_sequence[j]
        BY <4>1
      <4>3. QED
        BY <4>1, <4>2
    <3>3. QED
      BY <3>1, <3>2
  <2>3. QED
    BY <2>1, <2>2
<1>18. CASE DrainSigterm
  BY <1>18 DEF DrainSigterm
<1>19. CASE DrainGivesUp
  <2>1. /\ state_sequence' = extract_state_codes(state_sequence)
        /\ pc = "drainchk" /\ pc' = "status" /\ UNCHANGED messages_sent
    BY <1>19 DEF DrainGivesUp, HandleResponses
  <2>2. \A j \in 2 .. Len(state_sequence') :
          j <= messages_sent + 1 => state_sequence'[j] \in {j - 2, j - 1}
    <3>1. CASE state_sequence = <<>>
      <4>1. state_code = 0
        BY <2>1, <3>1
      <4>2. state_sequence' = <<0, 0>>
        BY <2>1, <3>1, <4>1, PipeWords DEF extract_state_codes
      <4>3. QED
        BY <4>2
    <3>2. CASE state_sequence # <<>>
      <4>1. state_sequence' = Append(state_sequence, state_code)
            /\ Len(state_sequence) = messages_sent + 1
        BY <2>1, <3>2 DEF extract_state_codes
      <4>2. \A j \in 1 .. messages_sent + 1 : state_sequence'[j] = state_sequence[j]
        BY <4>1
      <4>3. QED
        BY <4>1, <4>2
    <3>3. QED
      BY <3>1, <3>2
  <2>3. QED
    BY <2>1, <2>2
<1>20. CASE DrainAgain
  BY <1>20 DEF DrainAgain
<1>21. CASE Fork
  BY <1>21 DEF Fork
<1>22. CASE WritePid
  BY <1>22 DEF WritePid
<1>23. CASE Reap
  BY <1>23 DEF Reap
<1>24. CASE InitReaps
  BY <1>24 DEF InitReaps
<1>25. CASE handle_timeout
  BY <1>25 DEF handle_timeout, KillChild
<1>26. CASE handle_stop_sig
  BY <1>26 DEF handle_stop_sig, KillChild
<1>27. CASE SetGroup
  BY <1>27 DEF SetGroup
<1>28. CASE NotifySend
  BY <1>28 DEF NotifySend
<1>29. CASE WriteData
  BY <1>29 DEF WriteData
<1>30. CASE NotifyRecv
  BY <1>30 DEF NotifyRecv
<1>31. CASE ReadRequest
  BY <1>31 DEF ReadRequest
<1>32. CASE ReadEOF
  <2>1. dataOut # <<>> /\ IsEOF(dataOut[1])
        /\ UNCHANGED <<pc, it, messages_sent, state_sequence, consumed>>
    BY <1>32 DEF ReadEOF
  <2>2. dataOut' = <<>>
    BY <1>32, <2>1, ShortQueue DEF ReadEOF, Turns
  <2>3. QED
    BY <2>1, <2>2
<1>33. CASE RecvFails
  BY <1>33 DEF RecvFails
<1>34. CASE ServePending
  BY <1>34 DEF ServePending
<1>35. CASE Exits
  BY <1>35 DEF Exits, Die
<1>36. CASE Crashes
  BY <1>36 DEF Crashes, Die
<1>37. CASE Killed
  BY <1>37 DEF Killed, Die
<1>38. CASE Termed
  BY <1>38 DEF Termed, Die
<1>39. CASE UNCHANGED vars
  BY <1>39 DEF vars
<1>40. QED
  BY <1>1, <1>2, <1>3, <1>4, <1>5, <1>6, <1>7, <1>8, <1>9, <1>10, <1>11, <1>12,
     <1>13, <1>14, <1>15, <1>16, <1>17, <1>18, <1>19, <1>20, <1>21, <1>22,
     <1>23, <1>24, <1>25, <1>26, <1>27, <1>28, <1>29, <1>30, <1>31, <1>32,
     <1>33, <1>34, <1>35, <1>36, <1>37, <1>38, <1>39 DEF Next, Fuzzer,
     run_target, target_will_do, drain_pending_msgs, send_over_network_sbr,
     ForkServer, Signals, Child, Finished


\* The dialogue starts with nobody's turn and nothing on the channels.
LEMMA DialogueInit == Init => DialogueInv
<1> SUFFICES ASSUME Init PROVE DialogueInv
  OBVIOUS
<1> USE DEF Init
<1>1. Turns
  BY DEF Turns, TurnOpen, RecvQueued, RecvInHand
<1>2. Answers
  BY DEF Answers, Talking
<1>3. Drained
  BY DEF Drained, Draining
<1>4. Requests
  BY DEF Requests, Talking
<1>5. Samples
  BY DEF Samples, StateSample, Draining
<1>6. QED
  BY <1>1, <1>2, <1>3, <1>4, <1>5 DEF DialogueInv

\* Every step of every process preserves it when nobody's wait is cut short.
LEMMA DialogueStep ==
  InTime /\ IInv /\ DialogueInv /\ [Next]_vars => DialogueInv'
BY TurnsStep, AnswersStep, DrainedStep, RequestsStep, SamplesStep DEF DialogueInv

\* Fuzzer and server stay in step through all the runs: one turn open at most,
\* every response announced and taken once, empty channels after the drain.
THEOREM Dialogue == ASSUME InTime PROVE Spec => []DialogueInv
<1>1. IInv /\ DialogueInv /\ [Next]_vars => DialogueInv'
  BY DialogueStep
<1>2. QED
  BY <1>1, DialogueInit, HandOver, PTL DEF Spec

\* The fuzzer is never more than one packet ahead of the server.
THEOREM OneUnreadPacketCorrect == ASSUME InTime PROVE Spec => []OneUnreadPacket
<1>1. DialogueInv => OneUnreadPacket
  BY DEF DialogueInv, Turns, OneUnreadPacket
<1>2. QED
  BY <1>1, Dialogue, PTL

\* Counted one by one, the announced responses are those Awaited counts.
LEMMA SendsAwaited == IInv /\ Turns => Sends = Awaited
<1> SUFFICES ASSUME IInv, Turns PROVE Sends = Awaited
  OBVIOUS
<1> DEFINE n == IF RecvQueued THEN Len(ctlIn) - 1 ELSE Len(ctlIn)
<1>1. ctlIn \in Seq(Announcements) /\ run \in Nat
  BY DEF IInv, TypeOK, StateOK
<1>2. Len(ctlIn) \in Nat /\ (RecvQueued => Len(ctlIn) # 0)
  BY <1>1, EmptySeq DEF RecvQueued
<1>3. n \in Nat /\ n <= Len(ctlIn)
  BY <1>2
<1>4. {i \in 1 .. Len(ctlIn) : ctlIn[i].act = "Send"} = 1 .. n
  <2>1. ASSUME NEW i \in 1 .. Len(ctlIn)
        PROVE  ctlIn[i].act = "Send" <=> i \in 1 .. n
    <3>1. CASE i \in 1 .. Len(ctlIn) - 1
      <4>1. ctlIn[i].act = "Send" /\ i \in 1 .. n
        BY <1>2, <3>1 DEF Turns
      <4>2. QED
        BY <4>1
    <3>2. CASE i = Len(ctlIn)
      <4>1. ctlIn[i].act \in {"Send", "Recv"}
        BY <1>1, Acts
      <4>2. ctlIn # <<>>
        BY <1>1, <2>1, <3>2
      <4>3. ctlIn[i].act = "Send" <=> ~RecvQueued
        BY <3>2, <4>1, <4>2 DEF RecvQueued
      <4>4. i \in 1 .. n <=> ~RecvQueued
        BY <1>2, <2>1, <3>2
      <4>5. QED
        BY <4>3, <4>4
    <3>3. QED
      BY <1>2, <2>1, <3>1, <3>2
  <2>2. 1 .. n \subseteq 1 .. Len(ctlIn)
    BY <1>2, <1>3
  <2>3. QED
    BY <2>1, <2>2
<1>5. Cardinality(1 .. n) = n
  BY <1>3, FS_Interval
<1>6. QED
  BY <1>4, <1>5 DEF Sends, Awaited

\* While the dialogue goes on every response in the socket was announced, and
\* every announced one is there or about to be written.
THEOREM AnnouncedResponsesCorrect ==
  ASSUME InTime PROVE Spec => []AnnouncedResponses
<1>1. IInv /\ DialogueInv => AnnouncedResponses
  <2> SUFFICES ASSUME IInv, DialogueInv,
                      pc \in {"will", "chk", "netrecv", "send", "extract"}
               PROVE  /\ Len(dataIn) <= Sends
                      /\ Sends <= Len(dataIn) + (IF cpc \in {"sending", "zombie", "gone"}
                                                 THEN 1 ELSE 0)
    BY DEF AnnouncedResponses
  <2>1. Sends = Awaited
    BY SendsAwaited DEF DialogueInv
  <2>2. /\ Len(dataIn) <= Awaited
        /\ Awaited <= Len(dataIn) + 1
        /\ cpc \in {"none", "born", "run", "recving"} => Awaited = Len(dataIn)
    BY DEF DialogueInv, Answers, Talking
  <2>3. cpc \in {"none", "born", "run", "recving", "sending", "zombie", "gone"}
    BY DEF IInv, TypeOK, StateOK, Live
  <2>4. Len(dataIn) \in Nat
    BY DEF IInv, TypeOK, StateOK
  <2>5. QED
    BY <2>1, <2>2, <2>3, <2>4
<1>2. QED
  BY <1>1, Dialogue, HandOver, PTL

\* Each sampled state code is the state before its request or after it.
THEOREM StateSampleCorrect == ASSUME InTime PROVE Spec => []StateSample
<1>1. DialogueInv => StateSample
  BY DEF DialogueInv, Samples
<1>2. QED
  BY <1>1, Dialogue, PTL

\* Reading a request is the only step that counts one.
LEMMA OnlyReadCounts ==
  ASSUME consumed \in Nat, consumed' = consumed + 1, [Next]_vars
  PROVE  ReadRequest
<1> USE DEF test, turn, progress, response, states, exchange, signals, fuzzer,
        forkvars, channels, process, shm, server, childvars, world
<1>1. CASE StartRun
  BY <1>1 DEF StartRun
<1>2. CASE ReadPid
  BY <1>2 DEF ReadPid
<1>3. CASE ReadStatus
  BY <1>3 DEF ReadStatus
<1>4. CASE PipeClosed
  BY <1>4 DEF PipeClosed
<1>5. CASE Classify
  BY <1>5 DEF Classify
<1>6. CASE WillRecv
  BY <1>6 DEF WillRecv
<1>7. CASE WillRetry
  BY <1>7 DEF WillRetry, GivesUp
<1>8. CASE WillTimeout
  BY <1>8 DEF WillTimeout, GivesUp
<1>9. CASE WillSend
  BY <1>9 DEF WillSend, GivesUp
<1>10. CASE WillRecvTurn
  BY <1>10 DEF WillRecvTurn, GivesUp, emulate_disconnect, Packet, IsEOF
<1>11. CASE NetRecv
  BY <1>11 DEF NetRecv
<1>12. CASE NetRecvFails
  BY <1>12 DEF NetRecvFails
<1>13. CASE SendMsg
  BY <1>13 DEF SendMsg, Packet, IsEOF
<1>14. CASE SendFails
  BY <1>14 DEF SendFails, emulate_disconnect, Packet, IsEOF
<1>15. CASE ExtractState
  BY <1>15 DEF ExtractState
<1>16. CASE DrainOwnEnds
  BY <1>16 DEF DrainOwnEnds
<1>17. CASE DrainDead
  BY <1>17 DEF DrainDead, HandleResponses, DrainTargetEnd, target_is_dead
<1>18. CASE DrainSigterm
  BY <1>18 DEF DrainSigterm
<1>19. CASE DrainGivesUp
  BY <1>19 DEF DrainGivesUp, HandleResponses
<1>20. CASE DrainAgain
  BY <1>20 DEF DrainAgain
<1>21. CASE Fork
  BY <1>21 DEF Fork
<1>22. CASE WritePid
  BY <1>22 DEF WritePid
<1>23. CASE Reap
  BY <1>23 DEF Reap
<1>24. CASE InitReaps
  BY <1>24 DEF InitReaps
<1>25. CASE handle_timeout
  BY <1>25 DEF handle_timeout, KillChild
<1>26. CASE handle_stop_sig
  BY <1>26 DEF handle_stop_sig, KillChild
<1>27. CASE SetGroup
  BY <1>27 DEF SetGroup
<1>28. CASE NotifySend
  BY <1>28 DEF NotifySend
<1>29. CASE WriteData
  BY <1>29 DEF WriteData
<1>30. CASE NotifyRecv
  BY <1>30 DEF NotifyRecv
<1>31. CASE ReadRequest
  BY <1>31 DEF ReadRequest
<1>32. CASE ReadEOF
  BY <1>32 DEF ReadEOF
<1>33. CASE RecvFails
  BY <1>33 DEF RecvFails
<1>34. CASE ServePending
  BY <1>34 DEF ServePending
<1>35. CASE Exits
  BY <1>35 DEF Exits, Die
<1>36. CASE Crashes
  BY <1>36 DEF Crashes, Die
<1>37. CASE Killed
  BY <1>37 DEF Killed, Die
<1>38. CASE Termed
  BY <1>38 DEF Termed, Die
<1>39. CASE UNCHANGED vars
  BY <1>39 DEF vars
<1>40. QED
  BY <1>1, <1>2, <1>3, <1>4, <1>5, <1>6, <1>7, <1>8, <1>9, <1>10, <1>11, <1>12,
     <1>13, <1>14, <1>15, <1>16, <1>17, <1>18, <1>19, <1>20, <1>21, <1>22,
     <1>23, <1>24, <1>25, <1>26, <1>27, <1>28, <1>29, <1>30, <1>31, <1>32,
     <1>33, <1>34, <1>35, <1>36, <1>37, <1>38, <1>39 DEF Next, Fuzzer,
     run_target, target_will_do, drain_pending_msgs, send_over_network_sbr,
     ForkServer, Signals, Child, Finished

\* The server reads the requests of its own run, each once and in order.
THEOREM InOrderDeliveryCorrect == ASSUME InTime PROVE Spec => InOrderDelivery
<1>1. ASSUME IInv, DialogueInv, [Next]_vars, consumed' = consumed + 1
      PROVE  dataOut[1] = Packet(run, consumed + 1)
  <2>1. consumed \in Nat /\ dataOut \in Seq([run : Nat, msg : Nat])
    BY <1>1 DEF IInv, TypeOK, StateOK
  <2>2. ReadRequest
    BY <1>1, <2>1, OnlyReadCounts
  <2>3. dataOut # <<>> /\ ~IsEOF(dataOut[1])
    BY <2>1, <2>2 DEF ReadRequest
  <2>4. dataOut[1].run = run /\ dataOut[1].msg = consumed + 1
    BY <1>1, <2>3 DEF DialogueInv, Requests
  <2>5. dataOut[1] \in [run : Nat, msg : Nat]
    <3>1. Len(dataOut) \in Nat /\ Len(dataOut) # 0
      BY <2>1, <2>3
    <3>2. 1 \in 1 .. Len(dataOut)
      BY <3>1, OneOrMore
    <3>3. QED
      BY <2>1, <3>2, ElementOfSeq
  <2>6. QED
    BY <2>4, <2>5 DEF Packet
<1>2. IInv /\ DialogueInv /\ [Next]_vars =>
        [consumed' = consumed + 1 => dataOut[1] = Packet(run, consumed + 1)]_vars
  BY <1>1
<1>3. QED
  BY <1>2, Dialogue, HandOver, PTL DEF Spec, InOrderDelivery

\* Only the signal handler sets stop_soon.
LEMMA StopOnlyBySignal ==
  ASSUME "stop" \notin Faults, ~stop_soon, [Next]_vars
  PROVE  ~stop_soon'
<1> USE DEF test, turn, progress, response, states, exchange, signals, fuzzer,
        forkvars, channels, process, shm, server, childvars, world
<1>1. CASE StartRun
  BY <1>1 DEF StartRun
<1>2. CASE ReadPid
  BY <1>2 DEF ReadPid
<1>3. CASE ReadStatus
  BY <1>3 DEF ReadStatus
<1>4. CASE PipeClosed
  BY <1>4 DEF PipeClosed
<1>5. CASE Classify
  BY <1>5 DEF Classify
<1>6. CASE WillRecv
  BY <1>6 DEF WillRecv
<1>7. CASE WillRetry
  BY <1>7 DEF WillRetry, GivesUp
<1>8. CASE WillTimeout
  BY <1>8 DEF WillTimeout, GivesUp
<1>9. CASE WillSend
  BY <1>9 DEF WillSend, GivesUp
<1>10. CASE WillRecvTurn
  BY <1>10 DEF WillRecvTurn, GivesUp, emulate_disconnect, Packet, IsEOF
<1>11. CASE NetRecv
  BY <1>11 DEF NetRecv
<1>12. CASE NetRecvFails
  BY <1>12 DEF NetRecvFails
<1>13. CASE SendMsg
  BY <1>13 DEF SendMsg, Packet, IsEOF
<1>14. CASE SendFails
  BY <1>14 DEF SendFails, emulate_disconnect, Packet, IsEOF
<1>15. CASE ExtractState
  BY <1>15 DEF ExtractState
<1>16. CASE DrainOwnEnds
  BY <1>16 DEF DrainOwnEnds
<1>17. CASE DrainDead
  BY <1>17 DEF DrainDead, HandleResponses, DrainTargetEnd, target_is_dead
<1>18. CASE DrainSigterm
  BY <1>18 DEF DrainSigterm
<1>19. CASE DrainGivesUp
  BY <1>19 DEF DrainGivesUp, HandleResponses
<1>20. CASE DrainAgain
  BY <1>20 DEF DrainAgain
<1>21. CASE Fork
  BY <1>21 DEF Fork
<1>22. CASE WritePid
  BY <1>22 DEF WritePid
<1>23. CASE Reap
  BY <1>23 DEF Reap
<1>24. CASE InitReaps
  BY <1>24 DEF InitReaps
<1>25. CASE handle_timeout
  BY <1>25 DEF handle_timeout, KillChild
<1>26. CASE handle_stop_sig
  BY <1>26 DEF handle_stop_sig, KillChild
<1>27. CASE SetGroup
  BY <1>27 DEF SetGroup
<1>28. CASE NotifySend
  BY <1>28 DEF NotifySend
<1>29. CASE WriteData
  BY <1>29 DEF WriteData
<1>30. CASE NotifyRecv
  BY <1>30 DEF NotifyRecv
<1>31. CASE ReadRequest
  BY <1>31 DEF ReadRequest
<1>32. CASE ReadEOF
  BY <1>32 DEF ReadEOF
<1>33. CASE RecvFails
  BY <1>33 DEF RecvFails
<1>34. CASE ServePending
  BY <1>34 DEF ServePending
<1>35. CASE Exits
  BY <1>35 DEF Exits, Die
<1>36. CASE Crashes
  BY <1>36 DEF Crashes, Die
<1>37. CASE Killed
  BY <1>37 DEF Killed, Die
<1>38. CASE Termed
  BY <1>38 DEF Termed, Die
<1>39. CASE UNCHANGED vars
  BY <1>39 DEF vars
<1>40. QED
  BY <1>1, <1>2, <1>3, <1>4, <1>5, <1>6, <1>7, <1>8, <1>9, <1>10, <1>11, <1>12,
     <1>13, <1>14, <1>15, <1>16, <1>17, <1>18, <1>19, <1>20, <1>21, <1>22,
     <1>23, <1>24, <1>25, <1>26, <1>27, <1>28, <1>29, <1>30, <1>31, <1>32,
     <1>33, <1>34, <1>35, <1>36, <1>37, <1>38, <1>39 DEF Next, Fuzzer,
     run_target, target_will_do, drain_pending_msgs, send_over_network_sbr,
     ForkServer, Signals, Child, Finished

\* Without the stop signal the fuzzer is never stopping.
LEMMA NeverStops == ASSUME "stop" \notin Faults PROVE Spec => []~stop_soon
<1>1. Init => ~stop_soon
  BY DEF Init
<1>2. ~stop_soon /\ [Next]_vars => ~stop_soon'
  BY StopOnlyBySignal
<1>3. QED
  BY <1>1, <1>2, PTL DEF Spec

\* Nothing of one run is left on the channels when the next one starts.
THEOREM CleanChannelsCorrect ==
  ASSUME InTime, "stop" \notin Faults PROVE Spec => []CleanChannels
<1>1. DialogueInv /\ ~stop_soon => CleanChannels
  BY DEF DialogueInv, Drained, CleanChannels
<1>2. QED
  BY <1>1, Dialogue, NeverStops, PTL

=============================================================================
