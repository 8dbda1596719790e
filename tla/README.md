# Verification of the AFLNet-Go / SnapFuzz fuzzer

TLA+ models, TLC checks and TLAPS proofs about the stateful network fuzzer of
this repository. The repository holds six near-identical variants of one
program; everything here is about the newest, `src/aflnet_go_v5`, and paths
below are relative to it.

## 1. Inventory

The fuzzer (`afl-fuzz.c`) is one thread with signal handlers. It talks to a
*fork server* injected into the target (`llvm_mode/afl-llvm-rt.o.c`) over two
pipes, and, under SnapFuzz, to the *plugin* loaded into the target
(`SnapFuzz/snapfuzz/main.c`) over two `SEQPACKET` socket pairs, one for data
and one for control. Target and fuzzer also share the coverage map, with four
extra words behind it (among them "target code was run" and "state code").
Several fuzzers may share a synchronisation directory, where each reads the
queues of the others; one fuzzer may be killed and resumed in place.

| Component | State | Operations | Interacts with |
|---|---|---|---|
| test case execution (`run_target`) | `child_pid`, `child_timed_out`, `stop_soon`, the timer | request, pid, timer, dialogue, status, report; SIGALRM and SIGINT handlers | fork server (pipes), child (signals) |
| SnapFuzz dialogue (`send_over_network_sbr`) | `response_buf`, `response_bytes`, `messages_sent`, `state_sequence`, `state_targets` | `target_will_do`, send, receive, sample the state, `drain_pending_msgs` | plugin (sockets), shared memory |
| fork server, also for a persistent target | the child, `child_stopped`, `was_killed` | fork, wake, wait, relay | `run_target`, child |
| plugin | `pending_buf`, the connection state | announce and transfer, fake readiness | dialogue |
| state-aware seeds | `state_ids`, IPSM, seeds per state, `was_fuzzed_map` | `update_state_aware_variables`, `choose_target_state`, `choose_seed` | queue, dialogue |
| queue and favourites | queue entries, `top_rated`, `tc_ref`, pending counters | `add_to_queue`, `update_bitmap_score`, `cull_queue` | seeds, coverage |
| message list | `kl_messages`, its pool, `M2_prev`, `M2_next` | build, splice, free, save | dialogue, queue |
| key byte regions | a sorted list per seed | insert, inherit, merge, fade, find | mutation, queue |
| corpus synchronisation | the marks in `.synced/`, the open directory | `sync_fuzzers` | queues of other fuzzers |
| output directory | `queue/`, `_resume/` | save, in-place resume | synchronisation |
| coverage and calibration | virgin maps, traces | `has_new_bits`, `calibrate_case` | queue |

What is hard here, and what the properties are for:

* two words on one pipe, a timer, a stop signal, a dying child and its reaping
  interleave in every run; the report must still name how *this* child died;
* the turns announced on the control channel, the data and the shared memory
  are three unsynchronised channels between the same two processes;
* a run may be cut short at any point by a timeout, a crash or a failing send,
  and what it leaves behind (packets, counters, partly filled arrays) is input
  of the next;
* a process that stopped itself may be killed afterwards, which the fork server
  learns one run late;
* tables indexed by state and by seed grow independently and are indexed by
  positions computed elsewhere;
* counters of pending work are decremented far from where they are counted;
* a directory is read while its owner adds to it, renames it or dies, and the
  fuzzer that reads it may itself die before it has written its mark;
* linked lists are cut, spliced and freed by code that keeps pointers into them.

`PROJECT.json` lists the single hazards, each at its line.

## 2. Plan

In order of importance: test case execution, the state tables, the favourites,
then what crosses processes and sessions, then the data structures of one stage.

| | Modules | Checked | Proved |
|---|---|---|---|
| 1 | `SnapRun`, `TestCase` | yes | every invariant, `InOrderDelivery`, refinement |
| 2 | `StateAware` | yes | every invariant |
| 3 | `Favored` | yes | every invariant |
| 4 | `Persistent` | yes | every invariant |
| 5 | `OutDir`, `CaseStore` | yes | every invariant, refinement |
| 6 | `SyncFuzzers` | yes | every invariant, `MarkKept` |
| 7 | `KlSplice`, `MessageList` | yes | every invariant, refinement |
| 8 | `KeyRegions` | yes | every invariant, `StartsKept` |

Left: the readiness part of the plugin (select, poll, accept), the contents of
the plain dialogue, coverage and calibration (see section 6).

## 3. What is modelled

### SnapRun

Three processes: the fuzzer, the fork server, the child.

* Fuzzer: `pc` is where `run_target` and its callees stand. One action per step
  between two points where another process, or a signal handler, may act: each
  system call that blocks or looks at a channel ends a step. `target_will_do`
  is `WillRecv` followed by one of `WillRetry`, `WillTimeout`, `WillSend`,
  `WillRecvTurn`, so that the timer may fire between its `recv` and its test
  of `child_timed_out`. The two handlers are actions enabled at every point.
* Fork server: `fs`, the pending request `req` and the words on the status pipe
  `st_pipe`.
* Channels: `ctlIn` (turns), `dataIn` (responses), `dataOut` (requests and the
  empty packet of `emulate_disconnect`). `CleanChannels` is about all three.
* Child: `cpc` is its life (`born`, `run`, `sending`, `recving`, `zombie`,
  `gone`), `csig` the signals sent and not yet acted upon, `cstatus` its wait status.
  What the server does is free: it may send, receive, exit or crash at any
  point; the plugin's system calls are what is modelled.

`Faults` says what the environment may do: `timeout` (the timer may fire),
`crash`, `stop` (SIGINT), `slow` (more than a second passes between announcing
and sending), `sendfail` (a send fails), `eagain` (the server's recv fails).

Abstractions. A packet carries the number of its run and of its request, a
response is one byte tagged with its run, the state code is the number of
requests the server has read. `ENUM_VALUE` state mode (in `RESPONSE_CODE` mode
the sequence is a function of `response_buf` alone); options -F and -c off; no
dumb mode. A request is longer than the drain's queue of failed receives (two
bytes or more), so a request met by the drain never stops it. `waitpid` and the
write of the status are one step: nothing reads or writes between them, and a
stop signal there finds the child dead. `fork()` and the write of the pid are
two (`Fork`, `WritePid`), and the child leaves the process group of the fork
server in a step of its own (`SetGroup`, until then it is `born`): the stop
handler, which knows no pid yet, kills a group. `child_pid` 0 also stands
for the initial -1. A process id is never reused and no other process sends
signals. The plugin's lock makes one client process of the server. The pipe
closes only after the child is dead, because the plugin's `iclose` keeps
descriptors 198 and 199 open in the child (`PipeClosed`).
`PFATAL("Unexpected TargetAction")` is unreachable by the structure of the
loops; the guard `ta = "Recv"` of `WillRecvTurn` shows it.

### TestCase

What `run_target` promises, without pipes, sockets, signals or turns: a test
case begins, gets one child, the child meets one fate, the report names that
fate; SIGKILL is a fate only after the time is over or when stopping.
`SnapRun!TC` maps it onto `pc`, `cpc`, `cstatus`, `child_timed_out`,
`stop_soon` and `verdict`.

### Persistent

The fork server where the target runs `__AFL_LOOP`: `run_target` reduced to
request, pid, dialogue, status and report; the fork server with `WUNTRACED`,
`was_killed`, `child_stopped` and SIGCONT; the processes, which stop themselves
after a test case and end after `MaxCnt` of them; the timer. The request carries
`prev_timed_out`. Both dialogues are there, each by how it can end: the SnapFuzz
one with the process or the time, the plain one also without looking at the
process. It turns out that SIGCONT can only be reached with the plain dialogue:
the SnapFuzz one does not return while the process is there, and one that has
stopped waits for the timer. So under SnapFuzz a persistent target costs a
timeout per test case. Option -K and the stop signal are in `SnapRun`.

### StateAware

The loop around the runs. A run is reduced to what it says about states
(`Outcomes`): in `ENUM_VALUE` mode a sample after each message and one at the
end, in `RESPONSE_CODE` mode a reply before and after each message that is
silent, garbled (which ends the extraction, as in the FTP parser) or a code.
From it follow the state sequence and the annotation of each region: the length
of the sequence then and the state it ended in, all that later code looks at.

* `ReadTestcase`, `DryRun`, `EnterLoop`: the input directory, the dry run, the
  test for "no states".
* `choose_target_state`, `choose_seed`, `fuzz_one` (the split at the target
  state), `save_if_interesting` any number of times, `abandon_entry`,
  `NextRound`: one round of the main loop.
* `update_state_aware_variables` is one operator, since nothing interrupts it:
  new nodes of the graph, then the branch marked XXX, then the seeds and the
  marks. It is called by `DryRun` and `save_if_interesting` together with the
  new column of `add_to_queue`.

`Hash` is a constant operator, so that runs with and without collisions of the
32-bit hash are two instances. The history variable `collided` says that a
sequence with a state unknown to the graph was taken for one seen before.
`Word` is 2^32, the range of the variable `reachableStateID`. Scores and draws
are any choice. Left out: the counters behind the scores, graph edges, imported
entries, `favored` (see `Favored`). `Positions` holds what this module
and `OutDir` use to pick elements of a list in their order.

### Favored

`update_bitmap_score` (operator, called where an entry is calibrated) and
`cull_queue` (called where a state is selected), with `abandon_entry` counting
down. The walk of `cull_queue` over the map is a recursive function on slots,
one turn of which is `Visit`. A row of `was_fuzzed_map` is the set of entries fuzzed for a state; which states
exist and which seed is taken is free here and is what `StateAware` models.

### SyncFuzzers

Several fuzzers, each with its `queue/`, its `_resume/` and the marks it keeps
of the others. A case is the set of map bits it covers, `Interesting` is
`has_new_bits`. Files stand at positions, by which the marks go; as a resume may
give a case another position, a case also has a serial number of its own, and
what the model remembers of cases it remembers by that.

* `BeginSync`, `OpenQueue`, `ReadEntry`, `EndQueue`: one call of `sync_fuzzers`,
  one step per `readdir`. Entries come in any order; files created since the
  directory was opened may be returned or not. A directory that its owner
  renames while it is read stays open under its old names (`moved`, `old`),
  which `open` no longer finds, or finds another file under.
* `Discover`, `Write`: a case appears as an empty file and is written later. A
  case whose run ended before a message was sent (`Mute`) is counted and stays
  empty; the next resume drops it and every later case moves down by one.
* `Crash`, then `MoveQueue`, `PivotInput`, `NukeResumeDir`, `DryRun`: the fuzzer
  dies anywhere, also within a scan or a resume, and is resumed in place. A crash
  in `nuke_resume_dir` leaves any subset of `_resume/` (`Left`), which the next
  session takes for the queue. A dry run that fails (a timeout tolerated by
  `-t nn+`, a crash by `AFL_SKIP_CRASHES`) leaves the bits of its case virgin and
  goes on; one that is fatal ends the session, which is a `Crash`. A `_resume/`
  without a usable file stops every later session (`Hopeless`).

History variables. `excused` holds the cases that a mark passes though they were
not tried, each with its reason in the code: the file could not be opened or was
empty, its run timed out or crashed, it appeared behind the back of `readdir`,
its directory was renamed, it stood in `_resume/`, or a resume or the next case
kept gave it a position that the mark had passed before. `lost` holds what the own cases covered
that left no contents: they stayed empty or were deleted by a resume that took
the remains of `_resume/` for the queue. The properties speak of all other cases.

Left out: the six digits of `%06u`, and a stop signal between the run of an
import and its saving, which is a `Crash` as far as the files are concerned.

### OutDir and CaseStore

`queue/` and `_resume/` are functions from file numbers to contents. A session
goes through `rename`, `delete`, `mkdir`, `read`, `pivot`, `nuke` and then saves
cases; each step is one change of the file system, and the process may be killed
before any of them (`CrashIn` names the phases). A file is created empty; one
whose run sent no message stays so and is counted in `mem` all the same, until a
resume drops it. The contents of the c-th case ever written are c. `CaseStore`
promises that cases are appended, keep their order and survive sessions;
`OutDir!CS` maps its `cases` to the files with contents, in the order of their
names, of the directory the next session would start from. It does not promise
that a case keeps its number, which the code does not: what that does to the
marks of other fuzzers is the matter of `SyncFuzzers`.

### KlSplice and MessageList

`kl_messages` on a heap of cells: the sentinel at the end, the pool of freed
cells, the cut of the seed into M1, M2, M3, then `common_fuzz_stuff` one push
and one freed cell at a time, the test case sent to some message, saved or not.
`MessageList` promises that M1 and M3 stay and M2 becomes the mutated buffer in
at most `max_seed_region_count + 1` messages. Bytes come in pieces. `Path(a, b)`
is the walk from cell `a` up to `b`, `Bytes` the sum of the lengths read from the
file. `NCells` bounds the heap: a seed is only selected, and a message only
pushed, while a cell is left.

### KeyRegions

A seed is its size, whether the run that found it reached the target
(`was_exec_target`), and its list of key byte regions. Whether it seems to reach
the target is asked again by its calibration: the last of those runs leaves its
answer in `cur_testcase_exec_target`, and that is what `find_key_bytes` reads,
both to let the new seed inherit and to see whether the mutation gained or lost
the target. So each new seed has two answers, `exec` and `cal`, which may differ
where the target is reached by chance. The history field `slips` of a seed
counts the ancestors in a row, itself included, whose calibration reached the
target though their own run had missed it. `find_key_bytes` is one action: insertion into the sorted list, the
inheritance of a new seed, thinning and merging; each of its loops is a function
of the number of turns, and one turn an operator (`InheritOne`, `Thin`,
`JoinOne`). Probabilities are counted in
reductions. A seed whose calibration reaches the target inherits the regions of
its parent; new ones are searched for only if that answer differs from what the
run of the parent said. `add_to_queue` is a seed of any other stage. Two
things are as in the code and may surprise. `find_key_bytes` compares a byte with
a pointer, so that an interval never ends before the buffers do. And dropping the
head of the list in `merge_key_regions` assigns the rest to `queue->regions`
instead of the key regions: the head is then freed memory that is still linked,
and the model stops at the place `freed`.

## 4. What TLC checks

| Run | Question | Bounds |
|---|---|---|
| `snap_punctual` | With a server that answers in time but may die anywhere, and a socket that may refuse a request: are requests delivered once and in order, do the channels stay clean between runs, do turns keep one unread packet at most, does each state sample belong to its request? | 2 runs, 2 requests, 2 server moves, poll period 2 |
| `snap_adverse` | Under all faults at once: are the report, the pipe words, the number of children and `response_bytes` right, and is `TestCase` implemented? | 2 runs, 1 request, 1 move, period 2, option -K |
| `snap_live` | Does every run end, whatever the server does, save in the one moment `Stranded` names? | 1 run, all faults |
| `persistent` | Is a stopped process woken exactly if it was not killed, is the map quiet when it is read, and does every run end? | 4 runs, 2 test cases per process, both dialogues |
| `state_collide` | Do the table, the lists, the indexes and the count of unfuzzed entries stay consistent, and which of it survives hash collisions? | sampled states, FAVOR, 2 states besides 0, 2 initial seeds, 3 entries, 1 message, sequences of one length collide |
| `state_turns` | Is every seed split where its target state says, and is every seed of every state tried under round-robin? | response codes, 1 state besides 0, 2 entries, 2 messages |
| `favored` | Are references and traces exact, does the most states win whatever was scored before, do favourites cover the map? | 2 slots, 2 states, 2 initial seeds, 3 entries, `Word` 16 |
| `sync` | Does a mark pass only cases that were tried, does the exchange end, and do the fuzzers agree in the end? | 2 fuzzers, 3 nested cases; the first finds up to 2 cases besides the initial one by itself, repeats one of them flakily, may leave the other empty, dies twice, the second time in a resume; the second fuzzer imports |
| `resume` | Does every case survive any crash outside `nuke_resume_dir`, once and in its order, is memory what `queue/` says, is `CaseStore` implemented, does a killed fuzzer come back? | 4 files, empty ones among them, 3 crashes |
| `resume_nuke` (violated) | Does every case survive a crash in `nuke_resume_dir` too? | 3 files, 3 crashes |
| `splice` | Is each cell in one place and the size right, do the regions of a saved case add up to its file, and is `MessageList` implemented? | a seed of 2 messages, buffers of 1, 2 and 4 regions, 10 cells, 2 entries, 3 test cases |
| `regions` | Are lists sorted with exact gaps, are they bounded and do only seeds that reach the target have regions but for slips, and is the beginning of a strong region covered ever after? | 2 regions at most, size 3, 4 seeds, 1 reduction |

Bounds of `snap_*`. Two runs are the least that show one run disturbing the
next; two requests are the least with a request that has a predecessor and a
successor state; a server move is a send or a failing receive, and two allow two
responses to one request or one response before and one after. The poll period
is 5 in the code and 2 here: both the poll that checks the target and the one
that does not occur.

`persistent`: four runs allow a process to be woken, killed while stopped,
written off and replaced, and the replacement to be woken.

`state_*` and `favored`: an initial entry and one found later are the least that
lets every list grow between two uses; three entries occur in `state_collide`
and `favored`. Two messages are the least for a seed with a prefix and something
to mutate behind it; two states besides 0 for new states within and between
sequences. FAVOR turns to draws above two seeds instead of ten. Two slots let an
entry hold several and lose one; two initial seeds are the least of which one is
scored before its states are counted, and the third entry is scored after both.

`sync`: the three cases are nested, so that the order of imports decides what is
kept. Two crashes of one fuzzer are the least for one in a resume, and the first
may come at any point: a scan cut short, a directory renamed under the other's
feet, a file just created. `MaxAtWork` lets the last crash come only in a resume
and `MaxSaved` bounds what a fuzzer finds by itself, imports not counted; both
keep the run small and are off in the proofs, which hold for any number of
fuzzers, crashes and cases. `resume`: three crashes allow a session that is
killed while it repairs what another left, and four files an empty one between
others, so that a resume renumbers. `splice`: buffers below, at and beyond the
limit of messages. `regions`: two regions is the least limit at which thinning
and merging both happen; four seeds are the least for a slip whose regions are
handed on twice; one reduction both makes a region weak and is the floor.

Fairness. `SnapRun` (`snap_live`) and `Persistent`: the fuzzer and the fork
server are scheduled, the timer fires once armed, SIGKILL is delivered, init
reaps orphans. Nothing is assumed of the server, which may hang for ever. In
`state_turns` the main loop keeps going: every stage of `fuzz_one` is finite. In
`sync` each fuzzer gets to `sync_fuzzers` again and again (the main loop calls
it every few cycles), a directory has an end, and a killed fuzzer is started
again and resumed; in `resume` a killed fuzzer is started again and its steps end. New
coverage, crashes and the stop signal are never assumed.

`resume_nuke` is the one disagreement of code and comment kept as a run:
`nuke_resume_dir` empties `_resume/` after `queue/` is complete, and a session
killed there makes the next one prefer the incomplete directory, contrary to
what the comment expects. The finding in `PROJECT.json` quotes both.

Some limits of the properties say as much about the code.

* The properties of `snap_punctual` hold as long as no wait is cut short
  (`InTime`): not by the timer (after a timeout the drain returns at once and
  may leave a packet to the next run), not by a response that comes after the
  second `net_recv_sbr` waits, not by a recv of the server that fails after its
  turn was announced. `CleanChannels` also needs that the fuzzer is not being
  stopped, since SIGINT kills the server in mid-turn.
* `RunsEnd` of `SnapRun` exempts one moment, `Stranded`. A stop signal between
  `fork()` and the write of the pid kills the fork server
  (`handle_stop_sig`, no pid being known yet); if the child has left its process
  group by then, it lives on, and as the plugin keeps descriptors 198 and 199
  open in it (`iclose`), the fuzzer stays in the read of the pid, for which no
  timer is armed yet, until the child ends by itself.
* `RunsEnd` of `Persistent` exempts the plain dialogue with a process killed
  while stopped (`Spins`): it stays a zombie until the next request, and the
  dialogue waits for it.
* `StatesAgree` and `SeedsMarked` end with the first hash collision: the branch
  marked XXX then adds a state to hashtable and list but not to the graph, and
  it is inserted again later, losing its seeds. The sizes, the indexes and the
  counter stay right. A first answer without a response code leads to the place
  "no initial state", where the fuzzer gives up.
* `PendingExact` counts entries, not entries and states: the fuzzed mark of
  `was_fuzzed_map` is set only for the first state an entry is fuzzed for.
* `SplitAtTarget` needs states within 32 bits: a state beyond them (nine or more
  instrumented enumerations) is not recognised when a seed is split.
* `MostStatesWin` exempts what the dry run scores too early
  (`ScoredTooEarly`): an initial seed is scored when it is calibrated and its
  states are counted after that, so that behind another initial seed with states
  and the same bit it loses, whatever its states are. No property mentions the cost of an entry,
  which is never compared (line 3114 repeats the test of line 3110), bounds
  `pending_favored`, which can wrap below zero, or says that favourites belong
  to the selected state: `cull_queue` returns early.
* `NothingSkipped` and `Convergence` except the `excused` cases, and count what is
  `lost` as covered, because the virgin map of the session that lost it did. Both
  say how the code works rather than how it might: a file met while empty is
  passed for ever, and when a resume drops an empty file, or starts from what a
  crash left of `_resume/`, the cases behind it move down, some of them below the
  marks of others, which never look there again. A mark may then be beyond the
  end of a queue for long. `Convergence` also needs a fuzzer that can be started
  (`Hopeless`).
* `QueueProgress` is about the cases a session finds or imports. A resume links
  cases back as they are, and one whose dry run fails leaves its bits virgin, so
  that a case covering no more than it may be kept again; `SeenByQueue`, which is
  proved only, says exactly that.
* `NothingLost` speaks of cases with contents: an empty file is no case, though
  `queued_paths` counts it.
* `Bounded` and `RegionsOfTarget` allow for the slips of section 3. The comment at
  `afl-fuzz.c:7111` says that only a seed that executed the target has key byte
  regions; the code gives them to a seed whose own run missed the target when its
  calibration reaches it, and as such a seed hands its list on without having been
  merged, its descendants may have one region more than the limit for each slip.
  Without slips, both hold as the comments say.
* `StartsKept` is about starts only: a merge takes the end of the second region,
  which may lie within the first, so that later bytes lose their protection.

Each property has a mutant, a plausible slip in one definition, stated next to
that definition (`\* Mutant: ...`), under which TLC finds the property violated.

## 5. What is proved

All theorems are for every value of the constants under the named assumptions
of the modules (`ConstantsAssumption`, `StateAwareConstants`, ...). In each
module `IInv` is the inductive invariant. Properties that follow from it and say
little beyond it (type invariants, the words on the pipes of `Persistent`, the
marks and virgin maps of `SyncFuzzers`, ...) are only proved; the runs keep those
worth seeing in a model, and what cannot be proved.

`SnapRunProofs`

* `TypeCorrect`: `TypeOK`. Flags and data are separate inductive invariants.
* `HandOver`: `IInv`. `Handshake` is its heart: request, words on the status
  pipe, fork server and life of the child are in lock step, one disjunct per
  phase of a run. `KillAccountedFor` adds that a child of the current run has
  SIGKILL only if a handler left its mark, and `TimerInRun` that the timer
  cannot fire between two runs.
* `VerdictCorrect`, `PipeCorrect`, `OneChildCorrect`: consequences.
* `Refinement`: `SnapRun` implements `TestCase`.
* `ResponseBytesCorrect`: from `ResponseInv`, which says for each `pc` how many
  entries of `response_bytes` there are and that all but the open one are final.

The second part of `SnapRunProofs` is about the dialogue, for every number of
requests, runs and moves, under the assumption `InTime` on `Faults` explained in
section 4

* `Dialogue`: `DialogueInv`, inductive on top of `IInv`. `Turns`: a server that
  waits for a packet has one turn open, which is in one place only: on the
  control channel, in the fuzzer's hand, or answered and in the socket.
  `Answers`: the responses in the socket are those announced and not yet taken,
  save the last while the server is in its send. `Requests` and `Samples` count
  requests, packets and state codes against one another. `Drained`: the drain
  begins with a server that is dead or waits for the end, and finds everything.
* `OneUnreadPacketCorrect`, `AnnouncedResponsesCorrect`, `StateSampleCorrect`,
  the action property `InOrderDeliveryCorrect`, and `CleanChannelsCorrect`, the
  last for sessions that are not being stopped.

`PersistentProofs`: `HandOver` (`IInv`), `TypeCorrect`, `NoRaceOnWaking`,
`NoneForgotten`, `WordsInStep`, `MapUndisturbed`, `VerdictIsOwn`. The invariant
again ties pipes and fork server to the phase of the run; what is new is
`KillKnown`: at the moment a request is sent, `prev_timed_out` tells exactly
whether the stopped process has been killed. That is what makes waking safe.

`StateAwareProofs`: `Consistent` (`IInv`), and from it `TypeCorrect`,
`TableLargeEnough`, `IndexesStay`, `RowOfInitialState`, `ListsAgree`,
`MarksCorrect`, `PendingCorrect` and `SplitCorrect`. Nothing is assumed of the
hash; `SplitCorrect` assumes that states fit the variable `reachableStateID`.
The tables depend on one another, so that they are proved together: the row that
is marked is that of a state which the list got in the same step, and a state is
new to the list because it is new to the graph. `Phase` says which entry and
state are being worked on, `StatesKnown` that hashtable and list hold what the
annotations mention and state 0 first, `SeedsKnown` that seeds reach their
state. The proof separates the update of a run with an answer (a lemma per table
over `NewNodes` and `LateStates`) from the steps of the main loop.

`FavoredProofs`: `RatingsExact` (`IInv`), `RefsCorrect`, `MostStatesCorrect`
for any number of initial seeds, and `FavoredCoverCorrect`. The
invariant is carried through the loop of `update_bitmap_score` as a statement
about all slots at once. The walk of `cull_queue` goes by induction over the
slots: after `b` of them, each slot up to `b` that the target's entries cover is
covered by an entry picked so far.

`KeyRegionsProofs`: `Invariance` (`IInv`), `TypeCorrect`, `GapsExactCorrect`,
`BoundedCorrect`, `RegionsOfTargetCorrect` and the action property
`StartsKeptCorrect`, for lists, seeds and limits of any size. The proof has
three layers. First the loops: a loop function exists and stays in a set its
turns do not leave (`Loop`), so that inheriting, thinning and merging are
functions whose every turn can be named. Then one list: insertion, each turn of
thinning and each join keep it `Good`, which is sorted, with exact gaps and no
region turned round, and a merge ends at the limit because each turn takes one
region away. Then the steps. `Bounded` is not inductive: a list is merged only in the
seed being fuzzed, so what a seed hands on must fit as well. `ListsFit` says how
much room each seed has: the limit and its slips; one less if its own run missed
the target, as a seed inheriting from it may gain a region and has one slip more;
none without slips. `StartsKept` is not about what a join keeps, as a join may cut the end of
a region: what each turn keeps is that a byte lies in a region and not behind
the start of the next one (`Held`), which is true of a start.

`KlSpliceProofs`: `Invariance` (`IInv`), `TypeCorrect`,
`CellsPartitionCorrect`, `RegionsFitFileCorrect` and `ListImplemented` (the
refinement of `MessageList`), for seeds, buffers, heaps and queues of any size,
assuming only that test cases have messages and messages have bytes. `IInv` has
two parts. `Linking`: the cells of the list, its sentinel included, are one
sequence without repetition, along which `next` leads; the marks cut it into M1,
M2, M3 and what has been pushed (`Marked`); the old M2 is a sequence that ends at
the new one (`Loose`); and each cell is in the list, in the old M2 or in the pool
(`Counted`). `Kept`: a file cut by its regions gives these regions back. The
proof works with sequences that exist (`Fit`) and shows at the end that the walks
of the model find them. A push takes a cell from the pool or a new one and
appends it; the splice rearranges the sequence (`Index` says where each place
comes from, `Rearranged` what follows); a freed cell goes from the head of the
old M2 to the pool; the other steps do not touch the links. For the refinement
the segments are read as messages: M1 and M3 are what they were, and what was
pushed and is still to push is `Limited` of the mutated buffer.

Induction. `NatSet` is induction over the natural numbers for a set instead of a
predicate, proved from the well-foundedness of `<`; `FavoredProofs`,
`KeyRegionsProofs` and `KlSpliceProofs` state what is to be proved of a turn, of
a place of the walk or of a prefix of the file as membership in a set and cite
it.

`OutDirProofs`: `CasesKept` (`IInv`), `TypeCorrect`, `NoCaseLost`,
`MemoryMatches`, `ImplementsStore` (refinement of `CaseStore`), all under the
assumption that no crash meets `nuke_resume_dir`, for any number of cases, empty
files and crashes. The invariant says for each phase which directory holds all
cases, in their order and with empty files anywhere between them (`AllCases`);
once a resume has read them, they are the numbers from 1 on (`CasesTo`).

`SyncProofs`: `Dealt` (`IInv`), `TypeCorrect`, `NoCaseSkipped`, `ImportsEnd`,
`SeenIsQueue`, `MarkNeverBack`, for any number of fuzzers, cases and crashes.
`NothingSkipped` is not inductive. What lies below a mark has to be known
wherever it is, in `queue/` or in `_resume/`, empty or not (`Below`, `Handled`):
a resume moves files down, never up (`TopOf`), so one below the mark stays
there, one that comes below it is excused, and serial numbers carry what is
known of a case from one place to the other (`SerialsOf`). A scan knows of the
entries it returned, in any order, before the mark says so (`ScanOf`), and knows
it through the virgin map: that `seen` is covered by the own files is
`SeenByQueue` with `ContentsOf`, which says where an empty file may be. What is
covered stays covered (`CoveredStep`) because a resume deletes `_resume/` only
when every usable file is linked, and what a crash in between loses is in
`lost`.

Only model-checked: liveness (`RunsEnd`, `SeedsTried`, `Convergence`,
`Resumed`), which the proof system does not support.

## 6. What is not modelled

`PROJECT.json` lists every component with its status and reason. In short:

* the plugin's select, poll and accept, which decide when the server learns of
  the connection; `SnapRun` starts where the server holds it;
* what the plain dialogue sends and receives: it guesses ends of responses by
  poll timeouts and sleeps, on which the code guarantees nothing;
* the bytes of the coverage maps, calibration runs and their averages, mutation
  operators, protocol parsers: computations on data without state of their own;
  their results are inputs of the models;
* distances and the annealing schedule: floating-point arithmetic;
* statistics, user interface, compile-time instrumentation, distance calculator,
  companion tools: no state that outlives a call, or pure output;
* the five earlier variants of the fuzzer, which differ from the one modelled in
  details, and vendored code (SaBRe, libsqlfs, QEMU mode, libdislocator,
  libtokencap).
