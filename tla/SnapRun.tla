------------------------------ MODULE SnapRun ------------------------------
(***************************************************************************)
(* One test case after another under SnapFuzz: run_target of afl-fuzz asks *)
(* the fork server for a child, send_over_network_sbr plays the requests   *)
(* to the child in turns announced on a control channel, the SaBRe plugin  *)
(* inside the child announces every send and recv of the server, a one-    *)
(* shot timer and the stop signal may interrupt any of it.                 *)
(*                                                                         *)
(* Processes: the fuzzer (its signal handlers included), the fork server,  *)
(* the child.  Abstractions: a packet is the number of the run it belongs  *)
(* to (and, towards the child, the number of the request); a response is   *)
(* one byte long; the state code the server keeps in shared memory is the  *)
(* number of requests it has read.  The ENUM_VALUE state mode, a target    *)
(* that is not persistent, options -F and -c off.                          *)
(***************************************************************************)
EXTENDS Integers, Sequences, FiniteSets

CONSTANTS
  NumMsgs,         \* requests in kl_messages
  CheckEvery,      \* periodic_check of target_will_do, 5 in the code
  TerminateChild,  \* terminate_child, option -K
  ReachesTarget,   \* the server can run into the target code
  Faults,          \* what the environment may do, a subset of AllFaults
  MaxRuns,         \* bound: test cases executed
  MaxMoves         \* bound: sends and failing recvs of one child

AllFaults == {"timeout", "crash", "stop", "slow", "sendfail", "eagain"}

ASSUME ConstantsAssumption ==
  /\ NumMsgs \in Nat
  /\ CheckEvery \in Nat \ {0}
  /\ TerminateChild \in BOOLEAN
  /\ ReachesTarget \in BOOLEAN
  /\ Faults \subseteq AllFaults
  /\ MaxRuns \in Nat
  /\ MaxMoves \in Nat

VARIABLES
  \* The fuzzer.
  pc,                \* where run_target and its callees stand
  run,               \* test cases started so far; the pid of the run's child
  it,                \* request being handled, 0 before the first
  ta,                \* what the last recv on sbr_ctl_fd returned
  periodic_check,
  messages_sent,
  response_buf,      \* the run each byte came from
  response_bytes,    \* <<>> stands for NULL
  state_sequence,    \* <<>> stands for NULL
  state_targets,     \* the states found to lead into the target code
  child_pid,
  child_timed_out,
  stop_soon,
  timer,             \* ITIMER_REAL is armed
  sent_sig_once,
  verdict,           \* what run_target returned last
  \* The fork server and its two pipes.
  fs,
  req,               \* a word is waiting in the control pipe
  st_pipe,           \* words waiting in the status pipe
  \* The two SEQPACKET socket pairs.
  ctlIn,             \* child to fuzzer on sbr_ctl_fd
  dataIn,            \* child to fuzzer on sbr_data_fd
  dataOut,           \* fuzzer to child on sbr_data_fd
  \* The child.
  cpc,
  csig,              \* signals sent to it and not yet acted on
  cstatus,           \* its wait status once it is dead
  consumed,          \* requests it has read
  moves,
  pending_buf,
  state_code,        \* the word of shared memory extract_state_codes reads
  target_hit         \* *count_target_execute > 0, the word before it

\* Groups of variables, for the frames of the actions.
test      == <<run, verdict>>
turn      == <<ta, periodic_check>>
progress  == <<it, messages_sent>>
response  == <<response_buf, response_bytes>>
states    == <<state_sequence, state_targets>>
exchange  == <<turn, progress, response, states, sent_sig_once>>
signals   == <<child_pid, child_timed_out, stop_soon, timer>>
fuzzer    == <<pc, test, exchange, signals>>
forkvars  == <<fs, req, st_pipe>>
channels  == <<ctlIn, dataIn, dataOut>>
process   == <<cpc, csig, cstatus>>
shm       == <<state_code, target_hit>>
server    == <<consumed, moves, pending_buf, shm>>
childvars == <<process, server>>
world     == <<signals, forkvars, channels, childvars>>
vars      == <<pc, test, exchange, world>>

\* A child that has not left the process group of the fork server yet is "born".
Live     == {"born", "run", "sending", "recving"}
Statuses == {"EXIT", "SEGV", "KILL", "TERM"}
Verdicts == {"FAULT_NONE", "FAULT_TMOUT", "FAULT_CRASH"}

Announcements == [run : Nat, act : {"Send", "Recv"}]

\* A request has a positive number; the empty packet of emulate_disconnect,
\* on which the plugin ends the server, has number 0.
Packet(r, m) == [run |-> r, msg |-> m]
IsEOF(p) == p.msg = 0

\* kill(pid, 0) succeeds on a zombie: only a reaped child is dead.
target_is_dead == cpc \notin Live \cup {"zombie"}

(***************************************************************************)
(* The fuzzer: run_target.                                                 *)
(***************************************************************************)

StartRun ==
  /\ pc = "idle"
  /\ ~stop_soon
  /\ run < MaxRuns
  /\ child_timed_out' = FALSE
  /\ state_code' = 0
  /\ target_hit' = FALSE
  /\ req' = TRUE
  /\ run' = run + 1
  /\ pc' = "getpid"
  /\ UNCHANGED <<verdict, exchange, child_pid, stop_soon, timer, fs, st_pipe,
                 channels, process, consumed, moves, pending_buf>>

\* The pid has come: arm the timer, enter send_over_network_sbr and reset
\* everything there that describes a run except messages_sent.
ReadPid ==
  /\ pc = "getpid"
  /\ st_pipe # <<>>
  /\ child_pid' = run
  /\ st_pipe' = Tail(st_pipe)
  /\ timer' = TRUE
  /\ it' = 0
  /\ ta' = "GetNext"
  /\ periodic_check' = 0
  /\ response_buf' = <<>>
  /\ response_bytes' = <<>>
  /\ state_sequence' = <<>>
  /\ sent_sig_once' = FALSE
  /\ pc' = "will"
  /\ UNCHANGED <<test, messages_sent, state_targets, child_timed_out,
                 stop_soon, fs, req, channels, childvars>>

\* Mutant: a run that timed out does not wait for the status.
ReadStatusUnlessTimedOut ==
  /\ pc = "status"
  /\ st_pipe # <<>> \/ child_timed_out
  /\ st_pipe' = IF child_timed_out THEN st_pipe ELSE Tail(st_pipe)
  /\ pc' = "classify"
  /\ UNCHANGED <<test, exchange, signals, fs, req, channels, childvars>>

ReadStatus ==
  /\ pc = "status"
  /\ st_pipe # <<>>
  /\ st_pipe' = Tail(st_pipe)
  /\ pc' = "classify"
  /\ UNCHANGED <<test, exchange, signals, fs, req, channels, childvars>>

\* The fork server and every holder of the pipe are gone: a short read or
\* write, and run_target returns 0 because stop_soon is set.
PipeClosed ==
  /\ pc \in {"getpid", "status"}
  /\ fs = "dead"
  /\ st_pipe = <<>>
  /\ cpc \notin Live
  /\ stop_soon
  /\ verdict' = "FAULT_NONE"
  /\ pc' = "idle"
  /\ UNCHANGED <<run, exchange, world>>

\* Mutant: any death by a signal after the timer fired is a timeout.
FaultAnySignal(status) ==
  IF status \in {"KILL", "SEGV", "TERM"} /\ ~stop_soon
  THEN IF child_timed_out THEN "FAULT_TMOUT"
       ELSE IF status = "TERM" THEN "FAULT_NONE" ELSE "FAULT_CRASH"
  ELSE "FAULT_NONE"

Fault(status) ==
  IF status \in {"KILL", "SEGV", "TERM"} /\ ~stop_soon
  THEN IF child_timed_out /\ status = "KILL" THEN "FAULT_TMOUT"
       ELSE IF status = "TERM" THEN "FAULT_NONE" ELSE "FAULT_CRASH"
  ELSE "FAULT_NONE"

Classify ==
  /\ pc = "classify"
  /\ child_pid' = 0
  /\ timer' = FALSE
  /\ verdict' = Fault(cstatus)
  /\ pc' = "idle"
  /\ UNCHANGED <<run, exchange, child_timed_out, stop_soon, forkvars, channels,
                 childvars>>

(***************************************************************************)
(* The fuzzer: send_over_network_sbr.                                      *)
(***************************************************************************)

emulate_disconnect == dataOut' = Append(dataOut, Packet(run, 0))

\* Mutant: the slot of the next request.
RecordNextResponse(rb) ==
  [rb EXCEPT ![messages_sent + 1] = Len(response_buf)]

\* response_bytes[messages_sent - 1] = response_buf_size
RecordResponse(rb) ==
  [rb EXCEPT ![messages_sent] = Len(response_buf)]

\* Mutant: the initial state is forgotten.
extract_without_initial(seq) == Append(seq, state_code)

\* The first extraction of a run puts the initial state 0 in front.
extract_state_codes(seq) ==
  Append(IF seq = <<>> THEN <<0>> ELSE seq, state_code)

\* One iteration of target_will_do up to its recv ...
WillRecv ==
  /\ pc = "will"
  /\ ta' = IF ctlIn = <<>> THEN "GetNext" ELSE Head(ctlIn).act
  /\ ctlIn' = IF ctlIn = <<>> THEN <<>> ELSE Tail(ctlIn)
  /\ periodic_check' = periodic_check + 1
  /\ pc' = "chk"
  /\ UNCHANGED <<test, progress, response, states, sent_sig_once, signals,
                 forkvars, dataIn, dataOut, childvars>>

\* ... and the rest of it, which may find the target dead or the run timed
\* out after the recv took a packet, and then drops what it took.
GivesUp ==
  \/ periodic_check = CheckEvery /\ target_is_dead
  \/ child_timed_out
  \/ stop_soon

WillRetry ==
  /\ pc = "chk"
  /\ ~GivesUp
  /\ ta = "GetNext"
  /\ periodic_check' = IF periodic_check = CheckEvery THEN 0 ELSE periodic_check
  /\ pc' = "will"
  /\ UNCHANGED <<test, ta, progress, response, states, sent_sig_once, world>>

WillTimeout ==
  /\ pc = "chk"
  /\ GivesUp
  /\ response_bytes' = IF it = 0 THEN response_bytes
                                 ELSE RecordResponse(response_bytes)
  /\ periodic_check' = 0
  /\ pc' = "drain"
  /\ UNCHANGED <<test, ta, progress, response_buf, states, sent_sig_once,
                 world>>

WillSend ==
  /\ pc = "chk"
  /\ ~GivesUp
  /\ ta = "Send"
  /\ periodic_check' = 0
  /\ pc' = "netrecv"
  /\ UNCHANGED <<test, ta, progress, response, states, sent_sig_once, world>>

\* The server waits for a request: close the books on the last one, then take
\* the next or, after the last, disconnect.
WillRecvTurn ==
  /\ pc = "chk"
  /\ ~GivesUp
  /\ ta = "Recv"
  /\ periodic_check' = 0
  /\ messages_sent' = IF it = 0 THEN 0 ELSE messages_sent
  /\ response_bytes' = IF it = 0 THEN response_bytes
                                 ELSE RecordResponse(response_bytes)
  /\ \/ /\ it < NumMsgs
        /\ it' = it + 1
        /\ pc' = "send"
        /\ UNCHANGED dataOut
     \/ /\ it >= NumMsgs
        /\ emulate_disconnect
        /\ pc' = "drain"
        /\ UNCHANGED it
  /\ UNCHANGED <<test, ta, response_buf, states, sent_sig_once, signals,
                 forkvars, ctlIn, dataIn, childvars>>

\* net_recv_sbr, which blocks for at most a second.
NetRecv ==
  /\ pc = "netrecv"
  /\ dataIn # <<>>
  /\ response_buf' = Append(response_buf, Head(dataIn))
  /\ dataIn' = Tail(dataIn)
  /\ pc' = "will"
  /\ UNCHANGED <<test, turn, progress, response_bytes, states, sent_sig_once,
                 signals, forkvars, ctlIn, dataOut, childvars>>

\* A child that has announced a send and is alive writes it within the second
\* unless the "slow" fault is allowed; SIGALRM ends the wait with EINTR.
NetRecvFails ==
  /\ pc = "netrecv"
  /\ dataIn = <<>>
  /\ "slow" \in Faults \/ child_timed_out \/ stop_soon \/ cpc # "sending"
  /\ pc' = "drain"
  /\ UNCHANGED <<test, exchange, world>>

SendMsg ==
  /\ pc = "send"
  /\ dataOut' = Append(dataOut, Packet(run, it))
  /\ messages_sent' = messages_sent + 1
  /\ pc' = "extract"
  /\ UNCHANGED <<test, turn, it, response, states, sent_sig_once, signals,
                 forkvars, ctlIn, dataIn, childvars>>

SendFails ==
  /\ pc = "send"
  /\ "sendfail" \in Faults
  /\ emulate_disconnect
  /\ pc' = "drain"
  /\ UNCHANGED <<test, exchange, signals, forkvars, ctlIn, dataIn, childvars>>

\* The server was in the last state but one when it ran into the target code.
TargetState(seq) == seq[Len(seq) - 1]

\* has_new_targetstate
IsNewTarget(seq) ==
  /\ Len(seq) > 2
  /\ state_targets # <<>> =>
       /\ TargetState(seq) # 0
       /\ \A i \in 1 .. Len(state_targets) : state_targets[i] # TargetState(seq)

\* After the send: the state code as it is at this moment, the target state if
\* the target code was run, and one more slot of response_bytes.
ExtractState ==
  /\ pc = "extract"
  /\ state_sequence' = extract_state_codes(state_sequence)
  /\ state_targets' = IF target_hit /\ IsNewTarget(state_sequence')
                      THEN Append(state_targets, TargetState(state_sequence'))
                      ELSE state_targets
  /\ target_hit' = FALSE
  /\ response_bytes' = Append(response_bytes, 0)
  /\ pc' = "will"
  /\ UNCHANGED <<test, turn, progress, response_buf, sent_sig_once, signals,
                 forkvars, channels, process, consumed, moves, pending_buf,
                 state_code>>

(***************************************************************************)
(* The fuzzer: drain_pending_msgs and the end of send_over_network_sbr.    *)
(***************************************************************************)

\* Mutant: only the control channel is drained.
DrainControlEnd ==
  /\ pc = "drain"
  /\ ctlIn' = <<>>
  /\ pc' = "drainchk"
  /\ UNCHANGED <<test, exchange, signals, forkvars, dataIn, dataOut, childvars>>

DrainOwnEnds ==
  /\ pc = "drain"
  /\ ctlIn' = <<>>
  /\ dataIn' = <<>>
  /\ pc' = "drainchk"
  /\ UNCHANGED <<test, exchange, signals, forkvars, dataOut, childvars>>

\* Mutant: the target's ends are left alone.
DrainNoTargetEnd(q) == q

\* rc keeps adding up in the loop on the target's ends, so an empty packet at
\* the head stops it; a request (longer than the queue) empties it.
DrainTargetEnd(q) ==
  IF q # <<>> /\ IsEOF(Head(q)) THEN Tail(q) ELSE <<>>

\* What follows the drain.
HandleResponses ==
  /\ response_bytes' = IF messages_sent > 0 /\ response_bytes # <<>>
                       THEN RecordResponse(response_bytes) ELSE response_bytes
  /\ state_sequence' = extract_state_codes(state_sequence)
  /\ pc' = "status"
  /\ UNCHANGED state_targets

DrainDead ==
  /\ pc = "drainchk"
  /\ target_is_dead
  /\ dataOut' = DrainTargetEnd(dataOut)
  /\ HandleResponses
  /\ UNCHANGED <<test, turn, progress, response_buf, sent_sig_once, signals,
                 forkvars, ctlIn, dataIn, childvars>>

MaySigterm == TerminateChild /\ child_pid > 0 /\ ~sent_sig_once

DrainSigterm ==
  /\ pc = "drainchk"
  /\ ~target_is_dead
  /\ MaySigterm
  /\ csig' = IF cpc \in Live THEN csig \cup {"TERM"} ELSE csig
  /\ sent_sig_once' = TRUE
  /\ pc' = "drain"
  /\ UNCHANGED <<test, turn, progress, response, states, signals, forkvars,
                 channels, cpc, cstatus, server>>

DrainGivesUp ==
  /\ pc = "drainchk"
  /\ ~target_is_dead
  /\ ~MaySigterm
  /\ child_timed_out \/ stop_soon
  /\ HandleResponses
  /\ UNCHANGED <<test, turn, progress, response_buf, sent_sig_once, world>>

DrainAgain ==
  /\ pc = "drainchk"
  /\ ~target_is_dead
  /\ ~MaySigterm
  /\ ~child_timed_out /\ ~stop_soon
  /\ pc' = "drain"
  /\ UNCHANGED <<test, exchange, world>>

(***************************************************************************)
(* Signal handlers of the fuzzer.                                          *)
(***************************************************************************)

\* Mutant: a signal the server may ignore.
TermChild == csig' = IF cpc \in Live THEN csig \cup {"TERM"} ELSE csig

\* kill(child_pid, SIGKILL): nothing happens to a zombie or a reaped child.
KillChild == csig' = IF cpc \in Live THEN csig \cup {"KILL"} ELSE csig

handle_timeout ==
  /\ "timeout" \in Faults
  /\ timer
  /\ timer' = FALSE
  /\ IF child_pid > 0
     THEN child_timed_out' = TRUE /\ KillChild
     ELSE UNCHANGED <<child_timed_out, csig>>
  /\ UNCHANGED <<pc, test, exchange, child_pid, stop_soon, forkvars, channels,
                 cpc, cstatus, server>>

\* The child is killed by its pid, if that has been read, or with the process
\* group of the fork server, as long as it belongs to that.
handle_stop_sig ==
  /\ "stop" \in Faults
  /\ ~stop_soon
  /\ stop_soon' = TRUE
  /\ IF child_pid > 0 \/ cpc = "born" THEN KillChild ELSE UNCHANGED csig
  /\ fs' = "dead"
  /\ UNCHANGED <<pc, test, exchange, child_pid, child_timed_out, timer, req,
                 st_pipe, channels, cpc, cstatus, server>>

(***************************************************************************)
(* The fork server, __afl_start_forkserver.                                *)
(***************************************************************************)

Fork ==
  /\ fs = "wait"
  /\ req
  /\ req' = FALSE
  /\ fs' = "forked"
  /\ cpc' = "born"
  /\ csig' = {}
  /\ cstatus' = "NONE"
  /\ consumed' = 0
  /\ moves' = 0
  /\ pending_buf' = FALSE
  /\ UNCHANGED <<fuzzer, st_pipe, channels, shm>>

WritePid ==
  /\ fs = "forked"
  /\ st_pipe' = Append(st_pipe, "PID")
  /\ fs' = "waitpid"
  /\ UNCHANGED <<fuzzer, req, channels, childvars>>

\* Mutant: waitpid with WNOHANG.
ReapAny ==
  /\ fs = "waitpid"
  /\ cpc' = IF cpc = "zombie" THEN "gone" ELSE cpc
  /\ st_pipe' = Append(st_pipe, cstatus)
  /\ fs' = "wait"
  /\ UNCHANGED <<fuzzer, req, channels, csig, cstatus, server>>

Reap ==
  /\ fs = "waitpid"
  /\ cpc = "zombie"
  /\ cpc' = "gone"
  /\ st_pipe' = Append(st_pipe, cstatus)
  /\ fs' = "wait"
  /\ UNCHANGED <<fuzzer, req, channels, csig, cstatus, server>>

\* A child that outlives the fork server is reaped by init.
InitReaps ==
  /\ fs = "dead"
  /\ cpc = "zombie"
  /\ cpc' = "gone"
  /\ UNCHANGED <<fuzzer, forkvars, channels, csig, cstatus, server>>

(***************************************************************************)
(* The child: the server with the SaBRe plugin under its system calls.     *)
(***************************************************************************)

\* afl_manual_init, back from the fork server function: the child leaves the
\* process group of the fork server.  iclose has kept the two pipes open in it.
SetGroup ==
  /\ cpc = "born"
  /\ cpc' = "run"
  /\ UNCHANGED <<fuzzer, forkvars, channels, csig, cstatus, server>>

\* isendto and iwrite: announce, then write, both under the plugin's lock.
NotifySend ==
  /\ cpc = "run"
  /\ moves < MaxMoves
  /\ moves' = moves + 1
  /\ ctlIn' = Append(ctlIn, [run |-> run, act |-> "Send"])
  /\ cpc' = "sending"
  /\ UNCHANGED <<fuzzer, forkvars, dataIn, dataOut, csig, cstatus, consumed,
                 pending_buf, shm>>

WriteData ==
  /\ cpc = "sending"
  /\ dataIn' = Append(dataIn, run)
  /\ cpc' = "run"
  /\ UNCHANGED <<fuzzer, forkvars, ctlIn, dataOut, csig, cstatus, server>>

\* irecvfrom and iread: announce, then block for a packet.
NotifyRecv ==
  /\ cpc = "run"
  /\ ~pending_buf
  /\ ctlIn' = Append(ctlIn, [run |-> run, act |-> "Recv"])
  /\ cpc' = "recving"
  /\ UNCHANGED <<fuzzer, forkvars, dataIn, dataOut, csig, cstatus, server>>

\* The rest of a request longer than the server's buffer stays in tmpbuf.
ReadRequest ==
  /\ cpc = "recving"
  /\ dataOut # <<>>
  /\ ~IsEOF(Head(dataOut))
  /\ dataOut' = Tail(dataOut)
  /\ consumed' = consumed + 1
  /\ state_code' = consumed + 1
  /\ \E hit \in {FALSE, ReachesTarget} : target_hit' = (target_hit \/ hit)
  /\ pending_buf' \in BOOLEAN
  /\ cpc' = "run"
  /\ UNCHANGED <<fuzzer, forkvars, ctlIn, dataIn, csig, cstatus, moves>>

\* rc == 0: the plugin ends the server.
ReadEOF ==
  /\ cpc = "recving"
  /\ dataOut # <<>>
  /\ IsEOF(Head(dataOut))
  /\ dataOut' = Tail(dataOut)
  /\ cpc' = "zombie"
  /\ cstatus' = "EXIT"
  /\ UNCHANGED <<fuzzer, forkvars, ctlIn, dataIn, csig, server>>

\* rc < 0 (MSG_DONTWAIT, EINTR): the turn was announced all the same.
RecvFails ==
  /\ "eagain" \in Faults
  /\ cpc = "recving"
  /\ moves < MaxMoves
  /\ moves' = moves + 1
  /\ cpc' = "run"
  /\ UNCHANGED <<fuzzer, forkvars, channels, csig, cstatus, consumed,
                 pending_buf, shm>>

\* Mutant: a recv served from tmpbuf is announced.
AnnouncePending ==
  /\ cpc = "run"
  /\ pending_buf
  /\ pending_buf' = FALSE
  /\ ctlIn' = Append(ctlIn, [run |-> run, act |-> "Recv"])
  /\ UNCHANGED <<fuzzer, forkvars, dataIn, dataOut, process, consumed, moves,
                 shm>>

\* A recv served from tmpbuf, without a word to the fuzzer.
ServePending ==
  /\ cpc = "run"
  /\ pending_buf
  /\ pending_buf' = FALSE
  /\ UNCHANGED <<fuzzer, forkvars, channels, process, consumed, moves, shm>>

Die(status) ==
  /\ cpc \in Live
  /\ cpc' = "zombie"
  /\ cstatus' = status
  /\ UNCHANGED <<fuzzer, forkvars, channels, csig, server>>

Exits   == cpc = "run" /\ Die("EXIT")
Crashes == "crash" \in Faults /\ Die("SEGV")
Killed  == "KILL" \in csig /\ Die("KILL")
Termed  == "TERM" \in csig /\ Die("TERM")

(***************************************************************************)
(* The specification.                                                      *)
(***************************************************************************)

Init ==
  /\ pc = "idle" /\ run = 0 /\ it = 0 /\ ta = "GetNext"
  /\ periodic_check = 0 /\ messages_sent = 0
  /\ response_buf = <<>> /\ response_bytes = <<>> /\ state_sequence = <<>>
  /\ child_pid = 0 /\ child_timed_out = FALSE /\ stop_soon = FALSE
  /\ timer = FALSE /\ sent_sig_once = FALSE /\ verdict = "FAULT_NONE"
  /\ fs = "wait" /\ req = FALSE /\ st_pipe = <<>>
  /\ ctlIn = <<>> /\ dataIn = <<>> /\ dataOut = <<>>
  /\ cpc = "none" /\ csig = {} /\ cstatus = "NONE" /\ consumed = 0
  /\ moves = 0 /\ pending_buf = FALSE /\ state_code = 0
  /\ target_hit = FALSE /\ state_targets = <<>>

run_target == StartRun \/ ReadPid \/ ReadStatus \/ PipeClosed \/ Classify

target_will_do ==
  WillRecv \/ WillRetry \/ WillTimeout \/ WillSend \/ WillRecvTurn

drain_pending_msgs ==
  DrainOwnEnds \/ DrainDead \/ DrainSigterm \/ DrainGivesUp \/ DrainAgain

send_over_network_sbr ==
  \/ target_will_do \/ NetRecv \/ NetRecvFails
  \/ SendMsg \/ SendFails \/ ExtractState
  \/ drain_pending_msgs

Fuzzer     == run_target \/ send_over_network_sbr
ForkServer == Fork \/ WritePid \/ Reap
Signals    == handle_timeout \/ handle_stop_sig

Child ==
  \/ SetGroup \/ NotifySend \/ WriteData \/ NotifyRecv \/ ReadRequest \/ ReadEOF
  \/ RecvFails \/ ServePending
  \/ Exits \/ Crashes \/ Killed \/ Termed

\* The main loop has no test case left, or saw stop_soon.
Finished ==
  /\ pc = "idle"
  /\ stop_soon \/ run = MaxRuns
  /\ UNCHANGED vars

Next == Fuzzer \/ ForkServer \/ InitReaps \/ Signals \/ Child \/ Finished

Spec == Init /\ [][Next]_vars

\* The processes run, the timer fires, SIGKILL is delivered, init reaps.
\* Nothing is asked of what the server itself does.
Fairness ==
  /\ WF_vars(Fuzzer)
  /\ WF_vars(ForkServer)
  /\ WF_vars(InitReaps)
  /\ WF_vars(handle_timeout)
  /\ WF_vars(Killed)

FairSpec == Spec /\ Fairness

(***************************************************************************)
(* Properties.                                                             *)
(***************************************************************************)

PCs == {"idle", "getpid", "will", "chk", "netrecv", "send", "extract", "drain",
        "drainchk", "status", "classify"}

FlagsOK ==
  /\ child_timed_out \in BOOLEAN
  /\ stop_soon \in BOOLEAN
  /\ timer \in BOOLEAN
  /\ sent_sig_once \in BOOLEAN
  /\ req \in BOOLEAN
  /\ pending_buf \in BOOLEAN
  /\ target_hit \in BOOLEAN

StateOK ==
  /\ pc \in PCs
  /\ run \in Nat
  /\ it \in 0 .. NumMsgs
  /\ ta \in {"GetNext", "Send", "Recv"}
  /\ periodic_check \in 0 .. CheckEvery
  /\ pc # "chk" => periodic_check < CheckEvery
  /\ messages_sent \in Nat
  /\ response_buf \in Seq(Nat)
  /\ response_bytes \in Seq(Nat)
  /\ state_sequence \in Seq(Nat)
  /\ state_targets \in Seq(Nat)
  /\ child_pid \in Nat
  /\ verdict \in Verdicts
  /\ fs \in {"wait", "forked", "waitpid", "dead"}
  /\ st_pipe \in Seq({"PID", "NONE"} \cup Statuses)
  /\ ctlIn \in Seq(Announcements)
  /\ dataIn \in Seq(Nat)
  /\ dataOut \in Seq([run : Nat, msg : Nat])
  /\ cpc \in Live \cup {"none", "zombie", "gone"}
  /\ csig \subseteq {"KILL", "TERM"}
  /\ cstatus \in {"NONE"} \cup Statuses
  /\ consumed \in Nat
  /\ moves \in Nat
  /\ state_code \in Nat

\* Type invariant: flags, channels, counters and places keep to their ranges, and
\* the poll counter of target_will_do stays below its period.
TypeOK == FlagsOK /\ StateOK

\* "We need them to clean channels": between two runs nothing is left in the
\* sockets.  True as long as no run is cut short by the timer.
CleanChannels == pc = "idle" => ctlIn = <<>> /\ dataIn = <<>> /\ dataOut = <<>>

\* The server reads the requests of its own run, each once and in order.
InOrderDelivery ==
  [][consumed' = consumed + 1 => dataOut[1] = Packet(run, consumed + 1)]_vars

\* The turns keep the fuzzer at most one packet ahead of the server, also when
\* the server needs several recvs for one request.
OneUnreadPacket == Len(dataOut) <= 1

Sends == Cardinality({i \in 1 .. Len(ctlIn) : ctlIn[i].act = "Send"})
         + (IF ta = "Send" /\ pc \in {"chk", "netrecv"} THEN 1 ELSE 0)

\* Outside the drain every response the child has written was announced, and
\* every announced one is written or about to be: net_recv_sbr, entered on an
\* announcement, waits for a packet that comes as long as the child lives.
AnnouncedResponses ==
  pc \in {"will", "chk", "netrecv", "send", "extract"} =>
    /\ Len(dataIn) <= Sends
    /\ Sends <= Len(dataIn) + (IF cpc \in {"sending", "zombie", "gone"}
                               THEN 1 ELSE 0)

\* update_region_annotations reads entry i + 1 for request i: the state code
\* sampled right after the send is the state before that request or after it,
\* never an older or a later one.
StateSample ==
  \A j \in 2 .. Len(state_sequence) :
    j <= messages_sent + 1 => state_sequence[j] \in {j - 2, j - 1}

\* When a run is over there is one size per request sent, the sizes never
\* shrink and the last one accounts for the whole response_buf, on every path
\* out of send_over_network_sbr.
ResponseBytes ==
  pc \in {"status", "classify"} /\ response_bytes # <<>> =>
    /\ Len(response_bytes) = messages_sent
    /\ response_bytes[messages_sent] = Len(response_buf)
    /\ \A i \in 1 .. messages_sent - 1 :
         response_bytes[i] <= response_bytes[i + 1]

\* The facts behind it, which every step preserves: all entries but one still
\* open are final, ordered and within response_buf.
ResponseInv ==
  LET n      == Len(response_bytes)
      closed == IF pc \in {"send", "extract"} THEN n ELSE n - 1
  IN  pc \notin {"idle", "getpid"} =>
        /\ it = 0 => n = 0
        /\ pc \in {"send", "extract"} => it > 0
        /\ pc = "send" => n = messages_sent
        /\ pc = "extract" => n + 1 = messages_sent
        /\ pc \in {"will", "chk", "netrecv"} /\ it > 0 =>
             n = messages_sent /\ n > 0
        /\ pc \in {"drain", "drainchk", "status", "classify"} /\ n > 0 =>
             n = messages_sent
        /\ \A i \in 1 .. closed :
             /\ response_bytes[i] <= Len(response_buf)
             /\ i < closed => response_bytes[i] <= response_bytes[i + 1]
        /\ pc \in {"status", "classify"} /\ n > 0 =>
             response_bytes[n] = Len(response_buf)

\* The fork server forks only when the previous child has been reaped, so the
\* shared memory and the sockets never serve two children.
OneChild ==
  [][fs = "wait" /\ fs' = "forked" => cpc \in {"none", "gone"}]_vars

\* The pid and the status travel on one pipe as bare words: the fuzzer never
\* takes one for the other.
PipeInStep ==
  /\ pc = "getpid" /\ st_pipe # <<>> => st_pipe[1] = "PID"
  /\ pc = "status" /\ st_pipe # <<>> => st_pipe[1] = cstatus
  /\ pc = "idle" => stop_soon \/ st_pipe = <<>>

\* The verdict says how the child of this run died, whatever the timer, the
\* child and the reaping raced for.
VerdictFaithful ==
  pc = "idle" /\ run > 0 /\ ~stop_soon =>
    /\ verdict = "FAULT_TMOUT" <=> cstatus = "KILL"
    /\ verdict = "FAULT_CRASH" <=> cstatus = "SEGV"

\* The facts behind the last three, which every step preserves.  fs is dead
\* exactly when the fuzzer is stopping; otherwise the request, the two words
\* on the pipe and the life of the child follow each other in lock step.
InRun == {"will", "chk", "netrecv", "send", "extract", "drain", "drainchk",
          "status"}

Handshake ==
  /\ fs = "dead" <=> stop_soon
  /\ fs \in {"forked", "waitpid"} => cpc \in Live \cup {"zombie"}
  /\ fs = "wait" => cpc \in {"none", "gone"}
  /\ req => st_pipe = <<>> /\ pc \in {"getpid", "idle"}
           /\ cpc \in {"none", "gone"}
  /\ pc = "idle" /\ ~stop_soon =>
       ~req /\ st_pipe = <<>> /\ fs = "wait" /\ (run > 0 => cpc = "gone")
  /\ pc = "getpid" /\ ~req =>
       \/ st_pipe = <<>> /\ (fs = "forked" \/ stop_soon)
       \/ st_pipe = <<"PID">> /\ (fs = "waitpid" \/ stop_soon)
       \/ st_pipe = <<"PID", cstatus>> /\ cpc = "gone"
  /\ pc \in InRun =>
       /\ ~req
       /\ \/ st_pipe = <<>> /\ (fs = "waitpid" \/ stop_soon)
          \/ st_pipe = <<cstatus>> /\ cpc = "gone"
  /\ pc = "classify" => ~req /\ st_pipe = <<>> /\ cpc = "gone"
  /\ pc # "idle" => run > 0
  /\ cpc \in {"zombie", "gone"} <=> cstatus \in Statuses

\* SIGKILL never reaches the child of a run but for the timeout or the stop.
KillAccountedFor ==
  pc # "idle" /\ ~req /\ ("KILL" \in csig \/ cstatus = "KILL") =>
    child_timed_out \/ stop_soon

\* The timer is armed only while run_target is past reading the pid.
TimerInRun ==
  timer /\ ~stop_soon => pc \in InRun \cup {"classify"}

\* The inductive invariant: the hand-over of a run between run_target, the fork
\* server and the child, and the report it leads to.
IInv == TypeOK /\ Handshake /\ KillAccountedFor /\ TimerInRun /\ VerdictFaithful

(***************************************************************************)
(* The facts behind the dialogue's properties.  They hold as long as no    *)
(* wait is cut short: neither by the timer, nor by an answer that comes    *)
(* after the second net_recv_sbr waits, nor by a recv of the server that   *)
(* fails after its turn was announced.                                     *)
(***************************************************************************)

InTime == Faults \cap {"timeout", "slow", "eagain"} = {}

Talking  == {"will", "chk", "netrecv", "send", "extract"}
Draining == {"drain", "drainchk"}

\* A turn the fuzzer has not taken off the control channel yet ...
RecvQueued == ctlIn # <<>> /\ ctlIn[Len(ctlIn)].act = "Recv"

\* ... or has taken and not answered ...
RecvInHand == pc = "send" \/ (pc = "chk" /\ ta = "Recv")

\* ... or has answered, and the server has not read the answer.
TurnOpen == RecvQueued \/ RecvInHand \/ dataOut # <<>>

\* A server that waits for a packet has one turn open, any other none: the
\* announcement of a recv is the last one, and it passes from the channel to
\* the fuzzer and into the packet without ever being in two places.
Turns ==
  /\ \A i \in 1 .. Len(ctlIn) - 1 : ctlIn[i].act = "Send"
  /\ cpc \in {"none", "born", "run", "sending"} => ~TurnOpen
  /\ cpc = "recving" => TurnOpen \/ stop_soon
  /\ RecvInHand => ctlIn = <<>> /\ dataOut = <<>>
  /\ RecvQueued => dataOut = <<>>
  /\ Len(dataOut) <= 1

\* Responses announced and not taken from sbr_data_fd, counted by length.
Awaited == (IF RecvQueued THEN Len(ctlIn) - 1 ELSE Len(ctlIn))
           + (IF ta = "Send" /\ pc \in {"chk", "netrecv"} THEN 1 ELSE 0)

\* The responses in the socket are the announced ones but for the last, which
\* a server in the middle of its send has yet to write.
Answers ==
  pc \in {"getpid"} \cup Talking =>
    /\ Len(dataIn) <= Awaited
    /\ Awaited <= Len(dataIn) + 1
    /\ cpc = "sending" => Awaited = Len(dataIn) + 1
    /\ cpc \in {"none", "born", "run", "recving"} => Awaited = Len(dataIn)

\* The drain starts with a server that is dead or waits for the end, and so
\* finds everything the run put on the channels.
Drained ==
  /\ ~child_timed_out
  /\ pc = "netrecv" => ta = "Send"
  /\ pc = "getpid" => dataOut = <<>>
  /\ pc = "getpid" /\ req => ctlIn = <<>> /\ dataIn = <<>>
  /\ ~stop_soon =>
       /\ pc \in Draining =>
            /\ cpc \in {"recving", "zombie", "gone"}
            /\ cpc = "recving" => dataOut # <<>> /\ IsEOF(dataOut[1])
       /\ pc = "drainchk" => ctlIn = <<>> /\ dataIn = <<>>
       /\ pc = "status" => cpc = "gone"
       /\ pc \in {"status", "classify", "idle"} =>
            ctlIn = <<>> /\ dataIn = <<>> /\ dataOut = <<>>

\* Request, packet and state code keep step: the server has read all requests
\* sent but the one in the socket.
Requests ==
  /\ dataOut # <<>> =>
       /\ dataOut[1].run = run
       /\ \/ dataOut[1].msg = consumed + 1
          \/ IsEOF(dataOut[1]) /\ pc \notin Talking
  /\ state_code = IF req THEN 0 ELSE consumed
  /\ pc = "getpid" /\ ~req => consumed = 0
  /\ pc \in Talking /\ pc # "send" => consumed + Len(dataOut) = it
  /\ pc \in {"will", "chk", "netrecv"} /\ it > 0 => messages_sent = it
  /\ pc = "send" => it = messages_sent + 1 /\ consumed = messages_sent
  /\ pc = "extract" => messages_sent = it /\ it > 0

\* One entry per request behind the initial state, sampled with at most the
\* last request still unread.
Samples ==
  /\ StateSample
  /\ pc \in {"will", "chk", "netrecv"} =>
       Len(state_sequence) = IF it = 0 THEN 0 ELSE it + 1
  /\ pc \in {"send", "extract"} =>
       Len(state_sequence) = IF it = 1 THEN 0 ELSE it
  /\ pc \in Draining =>
       IF state_sequence = <<>>
       THEN consumed = 0 /\ (dataOut # <<>> => IsEOF(dataOut[1]))
       ELSE Len(state_sequence) = messages_sent + 1

\* The inductive invariant of the dialogue, on top of the hand-over's.
DialogueInv == Turns /\ Answers /\ Drained /\ Requests /\ Samples

\* run_target keeps the promise TestCase states.
TC == INSTANCE TestCase WITH
  phase    <- IF pc = "idle" THEN "idle" ELSE "running",
  fate     <- IF req THEN "NONE" ELSE IF cpc \in Live THEN "ALIVE" ELSE cstatus,
  expired  <- child_timed_out,
  stopping <- stop_soon,
  report   <- verdict

\* run_target with its pipes, signals and the dialogue implements TestCase.
ImplementsTestCase == TC!Spec

\* The one run nothing ends: the fork server was killed between fork() and the
\* write of the pid, and the child, in a group of its own, holds the pipe.
Stranded ==
  pc = "getpid" /\ fs = "dead" /\ st_pipe = <<>> /\ cpc \in Live /\ csig = {}

\* Every test case that is started ends, however the server behaves, unless the
\* fuzzer is stopped in that one moment.
RunsEnd == pc # "idle" ~> pc = "idle" \/ Stranded
=============================================================================
