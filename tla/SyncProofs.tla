----------------------------- MODULE SyncProofs -----------------------------
(***************************************************************************)
(* Proofs about SyncFuzzers, for any number of fuzzers, any set of cases   *)
(* and any number of crashes.                                              *)
(***************************************************************************)
EXTENDS SyncFuzzers, TLAPS

-----------------------------------------------------------------------------
(* Files and directories.                                                   *)

\* What a file is, and where files are.
LEMMA FilesTyped ==
  ASSUME TypeOK, NEW f \in Fuzzer
  PROVE  /\ queue[f] \in Seq(File) /\ Len(queue[f]) \in Nat
         /\ DOMAIN queue[f] = 1 .. Len(queue[f])
         /\ \A i \in DOMAIN queue[f] : queue[f][i] \in File
         /\ DOMAIN resume[f] \subseteq Nat \ {0}
         /\ \A i \in DOMAIN resume[f] : resume[f][i] \in File
         /\ \A x \in Files(f) : x \in File
         /\ made[f] \in Nat /\ top[f] \in Nat
         /\ lost[f] \subseteq Bits /\ seen[f] \subseteq Bits
  <1>1. queue[f] \in Seq(File)
    BY DEF TypeOK
  <1>2. /\ Len(queue[f]) \in Nat /\ DOMAIN queue[f] = 1 .. Len(queue[f])
        /\ \A i \in DOMAIN queue[f] : queue[f][i] \in File
    BY <1>1
  <1>3. /\ DOMAIN resume[f] \subseteq Nat \ {0}
        /\ \A i \in DOMAIN resume[f] : resume[f][i] \in File
    BY DEF TypeOK
  <1>4. \A x \in Files(f) : x \in File
    BY <1>2, <1>3 DEF Files
  <1>5. made[f] \in Nat /\ top[f] \in Nat /\ lost[f] \subseteq Bits /\ seen[f] \subseteq Bits
    BY DEF TypeOK
  <1> QED
    BY <1>1, <1>2, <1>3, <1>4, <1>5

LEMMA FileFields ==
  ASSUME NEW x \in File
  PROVE  /\ x.serial \in Nat /\ x.bits \in Cases /\ x.bits \subseteq Bits
         /\ x.written \in BOOLEAN /\ x.run \in {"kept", "dry", "failed"}
  BY DEF File, Bits

\* A queue moved away is a directory like any other.
LEMMA QueueIsDirectory ==
  ASSUME NEW q \in Seq(File)
  PROVE  /\ DOMAIN q \subseteq Nat \ {0}
         /\ q \in [DOMAIN q -> File]
  OBVIOUS

LEMMA NoFilesEmpty ==
  /\ NoFiles \in Seq(File) /\ Len(NoFiles) = 0 /\ DOMAIN NoFiles = {}
  /\ Whole(NoFiles) = {} /\ BitsAt(NoFiles, {}) = {}
  <1>1. NoFiles \in Seq(File) /\ Len(NoFiles) = 0
    BY DEF NoFiles
  <1>2. DOMAIN NoFiles = {}
    BY <1>1
  <1> QED
    BY <1>1, <1>2 DEF Whole, BitsAt

LEMMA BitsAtMember ==
  ASSUME NEW q, NEW S, NEW i \in S
  PROVE  q[i].bits \subseteq BitsAt(q, S)
  BY DEF BitsAt

LEMMA BitsAtBits ==
  ASSUME NEW q, NEW S, \A i \in S : q[i] \in File
  PROVE  BitsAt(q, S) \subseteq Bits
  <1>1. \A i \in S : q[i].bits \subseteq Bits
    BY FileFields
  <1> QED
    BY <1>1 DEF BitsAt

\* Two directories with the same cases cover the same.
LEMMA BitsAtMono ==
  ASSUME NEW q, NEW S, NEW r, NEW T,
         \A i \in S : \E j \in T : q[i].bits = r[j].bits
  PROVE  BitsAt(q, S) \subseteq BitsAt(r, T)
  BY DEF BitsAt

LEMMA OneFile ==
  ASSUME NEW x \in File
  PROVE  <<x>> \in Seq(File) /\ Len(<<x>>) = 1 /\ DOMAIN <<x>> = {1} /\ <<x>>[1] = x
  OBVIOUS

\* All fuzzers start with the same case and no marks.
LEMMA InitInv == Init => IInv
  <1> SUFFICES ASSUME Init PROVE IInv
    OBVIOUS
  <1>1. /\ FirstFile \in File /\ FirstFile.bits = FirstBits /\ FirstFile.written
        /\ FirstFile.serial = 1 /\ FirstFile.run = "dry"
    BY SyncAssumption DEF FirstFile, File
  <1>2. \A f \in Fuzzer : /\ queue[f] = <<FirstFile>> /\ resume[f] = NoFiles
                          /\ pc[f] = "fuzz" /\ made[f] = 1 /\ top[f] = 1
                          /\ seen[f] = FirstBits /\ dirs[f] = {}
    BY DEF Init
  <1>3. \A f \in Fuzzer : /\ queue[f] \in Seq(File) /\ Len(queue[f]) = 1
                          /\ DOMAIN queue[f] = {1} /\ queue[f][1] = FirstFile
    <2>1. PICK x \in File : x = FirstFile
      BY <1>1
    <2>2. \A f \in Fuzzer : queue[f] = <<x>>
      BY <1>2, <2>1
    <2>3. <<x>> \in Seq(File) /\ Len(<<x>>) = 1 /\ DOMAIN <<x>> = {1} /\ <<x>>[1] = x
      BY OneFile
    <2> QED
      BY <2>1, <2>2, <2>3
  <1>4. \A f \in Fuzzer : DOMAIN resume[f] = {}
    BY <1>2, NoFilesEmpty
  <1>5. \A f \in Fuzzer : \A x \in Files(f) : x = FirstFile
    BY <1>3, <1>4 DEF Files
  <1>6. TypeOK
    <2>1. queue \in [Fuzzer -> Seq(File)]
      BY <1>3 DEF Init
    <2>2. /\ resume = [f \in Fuzzer |-> resume[f]]
          /\ \A f \in Fuzzer : /\ DOMAIN resume[f] \subseteq Nat \ {0}
                               /\ resume[f] \in [DOMAIN resume[f] -> File]
      BY <1>2, NoFilesEmpty, QueueIsDirectory DEF Init
    <2>3. FirstBits \subseteq Bits
      BY SyncAssumption DEF Bits
    <2> QED
      BY <2>1, <2>2, <2>3 DEF Init, TypeOK
  <1>7. SerialsKept
    BY <1>1, <1>2, <1>5 DEF SerialsKept, SerialsOf
  <1>8. Tops
    <2>1. ASSUME NEW f \in Fuzzer PROVE TopOf(f)
      <3>1. Len(queue[f]) = 1 /\ top[f] = 1
        BY <1>2, <1>3
      <3>2. \A i \in DOMAIN resume[f] : i <= top[f]
        BY <1>4
      <3>3. pc[f] # "pivot"
        BY <1>2
      <3> QED
        BY <3>1, <3>2, <3>3 DEF TopOf
    <2> QED
      BY <2>1 DEF Tops
  <1>9. Contents
    BY <1>1, <1>2, <1>3, <1>4 DEF Contents, ContentsOf, Saving, Working
  <1>10. SeenByQueue
    <2>1. \A f \in Fuzzer : Counting(f, Len(queue[f]) + 1) = {1}
      BY <1>1, <1>3 DEF Counting
    <2>2. \A f \in Fuzzer : BitsAt(queue[f], {1}) = FirstBits
      BY <1>1, <1>3 DEF BitsAt
    <2> QED
      BY <1>2, <2>1, <2>2 DEF SeenByQueue
  <1>11. QueueProgress
    BY <1>1, <1>3 DEF QueueProgress
  <1>12. Marks
    <2>1. \A f, g \in Fuzzer : mark[f][g] = 0
      BY DEF Init
    <2>2. \A f, g \in Fuzzer : Below(f, g) = {}
      BY <1>3, <1>4, <2>1 DEF Below
    <2> QED
      BY <1>2, <2>1, <2>2 DEF Marks, MarkOf, Others
  <1>13. Scans
    <2>1. \A f \in Fuzzer : returned[f] = {} /\ old[f] = <<>>
      BY DEF Init
    <2> QED
      BY <1>2, <2>1 DEF Scans, ScanOf, Reading
  <1> QED
    BY <1>6, <1>7, <1>8, <1>9, <1>10, <1>11, <1>12, <1>13 DEF IInv

-----------------------------------------------------------------------------
(* What each step does to queue/ and _resume/.                              *)

NewFile(f, B) == [serial |-> made[f] + 1, bits |-> B, written |-> FALSE, run |-> "kept"]

\* A case kept appears as an empty file behind the others.
LEMMA KeepQueue ==
  ASSUME TypeOK, NEW f \in Fuzzer, NEW B \in Cases, Keep(f, B)
  PROVE  /\ queue' \in [Fuzzer -> Seq(File)]
         /\ \A g \in Fuzzer \ {f} : queue'[g] = queue[g]
         /\ Len(queue'[f]) = Len(queue[f]) + 1
         /\ DOMAIN queue'[f] = 1 .. Len(queue[f]) + 1
         /\ \A i \in DOMAIN queue[f] : queue'[f][i] = queue[f][i]
         /\ queue'[f][Len(queue[f]) + 1] = NewFile(f, B)
         /\ NewFile(f, B) \in File
  <1>1. queue[f] \in Seq(File) /\ made[f] \in Nat
    BY FilesTyped
  <1>2. NewFile(f, B) \in File
    BY <1>1 DEF NewFile, File
  <1>3. PICK x \in File : x = NewFile(f, B)
    BY <1>2
  <1>4. queue' = [queue EXCEPT ![f] = Append(queue[f], x)]
    BY <1>3 DEF Keep, NewFile
  <1>5. /\ Append(queue[f], x) \in Seq(File)
        /\ Len(Append(queue[f], x)) = Len(queue[f]) + 1
        /\ DOMAIN Append(queue[f], x) = 1 .. Len(queue[f]) + 1
        /\ \A i \in DOMAIN queue[f] : Append(queue[f], x)[i] = queue[f][i]
        /\ Append(queue[f], x)[Len(queue[f]) + 1] = x
    BY <1>1
  <1>6. queue'[f] = Append(queue[f], x)
    BY <1>4 DEF TypeOK
  <1>7. queue' \in [Fuzzer -> Seq(File)] /\ \A g \in Fuzzer \ {f} : queue'[g] = queue[g]
    BY <1>4, <1>5 DEF TypeOK
  <1> QED
    BY <1>2, <1>3, <1>5, <1>6, <1>7

\* It is counted, and whoever has a mark beyond its number is excused.
LEMMA KeepCounts ==
  ASSUME TypeOK, NEW f \in Fuzzer, NEW B \in Cases, Keep(f, B)
  PROVE  /\ made' \in [Fuzzer -> Nat] /\ made'[f] = made[f] + 1
         /\ \A g \in Fuzzer \ {f} : made'[g] = made[g]
         /\ top' \in [Fuzzer -> Nat]
         /\ top'[f] >= top[f] /\ top'[f] >= Len(queue[f]) + 1
         /\ \A g \in Fuzzer \ {f} : top'[g] = top[g]
         /\ seen' \in [Fuzzer -> SUBSET Bits] /\ seen'[f] = seen[f] \cup B
         /\ \A g \in Fuzzer \ {f} : seen'[g] = seen[g]
  <1>1. /\ made[f] \in Nat /\ top[f] \in Nat /\ Len(queue[f]) \in Nat
        /\ made \in [Fuzzer -> Nat] /\ top \in [Fuzzer -> Nat]
        /\ seen \in [Fuzzer -> SUBSET Bits]
    BY FilesTyped DEF TypeOK
  <1>2. PICK n \in Nat : n = Len(queue[f]) + 1
    BY <1>1
  <1>3. /\ made' = [made EXCEPT ![f] = made[f] + 1]
        /\ top' = [top EXCEPT ![f] = IF n > top[f] THEN n ELSE top[f]]
        /\ seen' = [seen EXCEPT ![f] = seen[f] \cup B]
    BY <1>2 DEF Keep
  <1>4. B \subseteq Bits
    BY DEF Bits
  <1>5. top'[f] = IF n > top[f] THEN n ELSE top[f]
    BY <1>1, <1>3
  <1>6. top'[f] \in Nat /\ top'[f] >= top[f] /\ top'[f] >= n
    BY <1>1, <1>2, <1>5
  <1>7. top' \in [Fuzzer -> Nat] /\ \A g \in Fuzzer \ {f} : top'[g] = top[g]
    BY <1>1, <1>2, <1>3
  <1>8. /\ made' \in [Fuzzer -> Nat] /\ made'[f] = made[f] + 1
        /\ \A g \in Fuzzer \ {f} : made'[g] = made[g]
    BY <1>1, <1>3
  <1>9. /\ seen' \in [Fuzzer -> SUBSET Bits] /\ seen'[f] = seen[f] \cup B
        /\ \A g \in Fuzzer \ {f} : seen'[g] = seen[g]
    BY <1>1, <1>3, <1>4
  <1> QED
    BY <1>2, <1>6, <1>7, <1>8, <1>9

\* Excuses of many fuzzers for one case of f are excuses.
LEMMA ExcuseOne ==
  ASSUME TypeOK, NEW f \in Fuzzer, NEW x \in Nat, NEW P \in SUBSET Fuzzer,
         excused' = [g \in Fuzzer |-> [excused[g] EXCEPT ![f] =
                        IF g \in P THEN @ \cup {x} ELSE @]]
  PROVE  /\ excused' \in [Fuzzer -> [Fuzzer -> SUBSET Nat]]
         /\ \A g, h \in Fuzzer : excused[g][h] \subseteq excused'[g][h]
         /\ \A g \in P : x \in excused'[g][f]
  <1>1. excused \in [Fuzzer -> [Fuzzer -> SUBSET Nat]]
    BY DEF TypeOK
  <1>2. ASSUME NEW g \in Fuzzer
        PROVE  /\ excused'[g] \in [Fuzzer -> SUBSET Nat]
               /\ \A h \in Fuzzer : excused[g][h] \subseteq excused'[g][h]
               /\ g \in P => x \in excused'[g][f]
    <2>1. excused[g] \in [Fuzzer -> SUBSET Nat]
      BY <1>1
    <2>2. CASE g \in P
      <3>1. excused'[g] = [excused[g] EXCEPT ![f] = excused[g][f] \cup {x}]
        BY <2>2
      <3> QED
        BY <2>1, <3>1
    <2>3. CASE g \notin P
      <3>1. excused'[g] = [excused[g] EXCEPT ![f] = excused[g][f]]
        BY <2>3
      <3> QED
        BY <2>1, <2>3, <3>1
    <2> QED
      BY <2>2, <2>3
  <1> QED
    BY <1>2

LEMMA KeepExcuse ==
  ASSUME TypeOK, NEW f \in Fuzzer, NEW B \in Cases, Keep(f, B)
  PROVE  /\ excused' \in [Fuzzer -> [Fuzzer -> SUBSET Nat]]
         /\ \A g, h \in Fuzzer : excused[g][h] \subseteq excused'[g][h]
         /\ \A g \in Fuzzer :
               Len(queue[f]) + 1 <= top[f] /\ Len(queue[f]) + 1 <= mark[g][f]
                   => made[f] + 1 \in excused'[g][f]
  <1>1. made[f] + 1 \in Nat
    BY FilesTyped
  <1>2. CASE Len(queue[f]) + 1 <= top[f]
    <2>1. Overlooked(f, Len(queue[f]) + 1, made[f] + 1)
      BY <1>2 DEF Keep
    <2>2. PICK P \in SUBSET Fuzzer : \A g \in Fuzzer : g \in P <=> Len(queue[f]) + 1 <= mark[g][f]
      <3>1. {g \in Fuzzer : Len(queue[f]) + 1 <= mark[g][f]} \in SUBSET Fuzzer
        OBVIOUS
      <3> QED
        BY <3>1
    <2>3. excused' = [g \in Fuzzer |-> [excused[g] EXCEPT ![f] =
                        IF g \in P THEN @ \cup {made[f] + 1} ELSE @]]
      BY <2>1, <2>2, Zenon DEF Overlooked
    <2>4. /\ excused' \in [Fuzzer -> [Fuzzer -> SUBSET Nat]]
          /\ \A g, h \in Fuzzer : excused[g][h] \subseteq excused'[g][h]
          /\ \A g \in P : made[f] + 1 \in excused'[g][f]
      BY <1>1, <2>3, ExcuseOne
    <2> QED
      BY <2>2, <2>4
  <1>3. CASE ~(Len(queue[f]) + 1 <= top[f])
    <2>1. excused' = excused
      BY <1>3 DEF Keep
    <2>2. excused \in [Fuzzer -> [Fuzzer -> SUBSET Nat]]
      BY DEF TypeOK
    <2> QED
      BY <1>3, <2>1, <2>2
  <1> QED
    BY <1>2, <1>3

\* The file just created gets its contents, or its bits are lost.
LEMMA WriteFacts ==
  ASSUME TypeOK, NEW f \in Fuzzer, Len(queue[f]) > 0, Write(f)
  PROVE  /\ queue' \in [Fuzzer -> Seq(File)]
         /\ \A g \in Fuzzer \ {f} : queue'[g] = queue[g] /\ lost'[g] = lost[g]
         /\ Len(queue'[f]) = Len(queue[f]) /\ DOMAIN queue'[f] = DOMAIN queue[f]
         /\ \A i \in DOMAIN queue[f] :
               /\ queue'[f][i].serial = queue[f][i].serial
               /\ queue'[f][i].bits = queue[f][i].bits
               /\ queue'[f][i].run = queue[f][i].run
               /\ queue[f][i].written => queue'[f][i].written
               /\ i # Len(queue[f]) => queue'[f][i] = queue[f][i]
         /\ lost' \in [Fuzzer -> SUBSET Bits] /\ lost[f] \subseteq lost'[f]
         /\ LET n == Len(queue[f])
            IN  queue'[f][n].written \/ queue'[f][n].bits \subseteq lost'[f]
  <1>1. PICK n \in Nat : n = Len(queue[f])
    BY FilesTyped
  <1>2. /\ queue \in [Fuzzer -> Seq(File)] /\ queue[f] \in Seq(File) /\ n \in DOMAIN queue[f]
        /\ queue[f][n] \in File /\ lost \in [Fuzzer -> SUBSET Bits]
    BY <1>1, FilesTyped DEF TypeOK
  <1>3. CASE UNCHANGED lost /\ queue' = [queue EXCEPT ![f][Len(queue[f])].written = TRUE]
    <2>1. PICK y \in File : /\ y = [queue[f][n] EXCEPT !.written = TRUE]
                            /\ y.serial = queue[f][n].serial /\ y.bits = queue[f][n].bits
                            /\ y.run = queue[f][n].run /\ y.written
      <3>1. ASSUME NEW x \in File
            PROVE  LET z == [x EXCEPT !.written = TRUE]
                   IN  z \in File /\ z.serial = x.serial /\ z.bits = x.bits
                       /\ z.run = x.run /\ z.written
        BY DEF File
      <3> QED
        BY <1>2, <3>1
    <2>2. PICK q : q = [queue[f] EXCEPT ![n] = y]
      OBVIOUS
    <2>3. queue' = [queue EXCEPT ![f] = q]
      BY <1>1, <1>3, <2>1, <2>2
    <2>4. /\ q \in Seq(File) /\ Len(q) = n /\ DOMAIN q = DOMAIN queue[f] /\ q[n] = y
          /\ \A i \in DOMAIN queue[f] : i # n => q[i] = queue[f][i]
      BY <1>1, <1>2, <2>1, <2>2
    <2>5. /\ queue' \in [Fuzzer -> Seq(File)] /\ queue'[f] = q
          /\ \A g \in Fuzzer \ {f} : queue'[g] = queue[g]
      BY <1>2, <2>3, <2>4
    <2> QED
      BY <1>1, <1>2, <1>3, <2>1, <2>4, <2>5
  <1>4. CASE UNCHANGED queue /\ lost' = [lost EXCEPT ![f] = @ \cup queue[f][n].bits]
    <2>1. queue[f][n].bits \subseteq Bits
      BY <1>2, FileFields
    <2>2. /\ lost' \in [Fuzzer -> SUBSET Bits] /\ lost'[f] = lost[f] \cup queue[f][n].bits
          /\ \A g \in Fuzzer \ {f} : lost'[g] = lost[g]
      BY <1>2, <1>4, <2>1
    <2> QED
      BY <1>1, <1>2, <1>4, <2>2
  <1> QED
    BY <1>1, <1>3, <1>4 DEF Write

\* A crash while _resume/ is being emptied leaves some of its files.
LEMMA CrashFacts ==
  ASSUME TypeOK, NEW f \in Fuzzer, Crash(f)
  PROVE  \E S \in Left(f) :
            /\ S \subseteq DOMAIN resume[f]
            /\ DOMAIN resume'[f] = S /\ \A i \in S : resume'[f][i] = resume[f][i]
            /\ resume'[f] \in [S -> File]
            /\ resume' = [g \in Fuzzer |-> resume'[g]]
            /\ \A g \in Fuzzer \ {f} : resume'[g] = resume[g] /\ lost'[g] = lost[g]
            /\ lost' \in [Fuzzer -> SUBSET Bits]
            /\ lost'[f] = lost[f] \cup LostBits(f, S)
  <1>1. PICK S \in Left(f) :
            /\ resume' = [resume EXCEPT ![f] = [i \in S |-> resume[f][i]]]
            /\ lost' = [lost EXCEPT ![f] = lost[f] \cup LostBits(f, S)]
    BY DEF Crash
  <1>2. S \subseteq DOMAIN resume[f]
    BY DEF Left
  <1>3. /\ resume = [g \in Fuzzer |-> resume[g]]
        /\ resume[f] \in [DOMAIN resume[f] -> File]
        /\ lost \in [Fuzzer -> SUBSET Bits]
    BY DEF TypeOK
  <1>4. resume'[f] = [i \in S |-> resume[f][i]]
    BY <1>1, <1>3
  <1>5. /\ resume' = [g \in Fuzzer |-> resume'[g]]
        /\ \A g \in Fuzzer \ {f} : resume'[g] = resume[g]
    BY <1>1, <1>3
  <1>6. /\ DOMAIN resume'[f] = S /\ \A i \in S : resume'[f][i] = resume[f][i]
        /\ resume'[f] \in [S -> File]
    BY <1>2, <1>3, <1>4
  <1>7. LostBits(f, S) \subseteq Bits
    <2>1. \A i \in Whole(resume[f]) \ S : resume[f][i] \in File
      BY <1>3 DEF Whole
    <2> QED
      BY <2>1, BitsAtBits DEF LostBits
  <1>8. /\ lost' \in [Fuzzer -> SUBSET Bits] /\ lost'[f] = lost[f] \cup LostBits(f, S)
        /\ \A g \in Fuzzer \ {f} : lost'[g] = lost[g]
    BY <1>1, <1>3, <1>7
  <1> QED
    BY <1>2, <1>5, <1>6, <1>8

LEMMA SerialsTyped ==
  ASSUME NEW q \in Seq(File)
  PROVE  /\ Serials(q) \in Seq(Nat)
         /\ DOMAIN Serials(q) = DOMAIN q
         /\ \A i \in DOMAIN q : Serials(q)[i] = q[i].serial
  <1>1. DOMAIN q = 1 .. Len(q) /\ Len(q) \in Nat /\ \A i \in DOMAIN q : q[i] \in File
    OBVIOUS
  <1>2. \A i \in DOMAIN q : q[i].serial \in Nat
    BY <1>1, FileFields
  <1>3. Serials(q) \in [1 .. Len(q) -> Nat]
    BY <1>1, <1>2 DEF Serials
  <1> QED
    BY <1>1, <1>3 DEF Serials

\* queue/ goes, its files are in _resume/ unless there were others before.
LEMMA MoveFacts ==
  ASSUME TypeOK, NEW f \in Fuzzer, MoveQueue(f)
  PROVE  /\ queue' \in [Fuzzer -> Seq(File)]
         /\ queue'[f] = NoFiles /\ DOMAIN queue'[f] = {}
         /\ DOMAIN resume[f] = {} => resume'[f] = queue[f]
         /\ DOMAIN resume[f] # {} => resume'[f] = resume[f]
         /\ \A g \in Fuzzer \ {f} : queue'[g] = queue[g] /\ resume'[g] = resume[g]
         /\ resume' = [g \in Fuzzer |-> resume'[g]]
         /\ DOMAIN resume'[f] \subseteq Nat \ {0}
         /\ resume'[f] \in [DOMAIN resume'[f] -> File]
         /\ moved' \in [Fuzzer -> BOOLEAN] /\ old' \in [Fuzzer -> Seq(Nat)]
         /\ \A g \in Fuzzer : Reads(g, f) => moved'[g]
         /\ \A g \in Fuzzer : ~Reads(g, f) => moved'[g] = moved[g] /\ old'[g] = old[g]
         /\ \A g \in Fuzzer : old'[g] = old[g] \/ (Reads(g, f) /\ old'[g] = Serials(queue[f]))
  <1>1. /\ queue \in [Fuzzer -> Seq(File)] /\ queue[f] \in Seq(File)
        /\ resume = [g \in Fuzzer |-> resume[g]]
        /\ DOMAIN resume[f] \subseteq Nat \ {0} /\ resume[f] \in [DOMAIN resume[f] -> File]
        /\ moved \in [Fuzzer -> BOOLEAN] /\ old \in [Fuzzer -> Seq(Nat)]
    BY DEF TypeOK
  <1>2. /\ queue' \in [Fuzzer -> Seq(File)] /\ queue'[f] = NoFiles /\ DOMAIN queue'[f] = {}
        /\ \A g \in Fuzzer \ {f} : queue'[g] = queue[g]
    <2>1. queue' = [queue EXCEPT ![f] = NoFiles]
      BY DEF MoveQueue
    <2> QED
      BY <1>1, <2>1, NoFilesEmpty
  <1>3. resume'[f] = IF DOMAIN resume[f] = {} THEN queue[f] ELSE resume[f]
    BY <1>1 DEF MoveQueue
  <1>4. /\ resume' = [g \in Fuzzer |-> resume'[g]]
        /\ \A g \in Fuzzer \ {f} : resume'[g] = resume[g]
    BY <1>1 DEF MoveQueue
  <1>5. DOMAIN resume'[f] \subseteq Nat \ {0} /\ resume'[f] \in [DOMAIN resume'[f] -> File]
    <2>1. CASE DOMAIN resume[f] = {}
      BY <1>1, <1>3, <2>1, QueueIsDirectory
    <2>2. CASE DOMAIN resume[f] # {}
      BY <1>1, <1>3, <2>2
    <2> QED
      BY <2>1, <2>2
  <1>6. /\ moved' = [g \in Fuzzer |-> moved[g] \/ Reads(g, f)]
        /\ old' = [g \in Fuzzer |-> IF Reads(g, f) /\ ~moved[g]
                                    THEN Serials(queue[f]) ELSE old[g]]
    BY DEF MoveQueue
  <1>7. ASSUME NEW g \in Fuzzer
        PROVE  /\ (moved[g] \/ Reads(g, f)) \in BOOLEAN
               /\ Reads(g, f) => moved'[g]
               /\ ~Reads(g, f) => moved'[g] = moved[g] /\ old'[g] = old[g]
               /\ old'[g] = old[g] \/ (Reads(g, f) /\ old'[g] = Serials(queue[f]))
               /\ old'[g] \in Seq(Nat)
    <2>1. moved[g] \in BOOLEAN /\ old[g] \in Seq(Nat) /\ Serials(queue[f]) \in Seq(Nat)
      BY <1>1, SerialsTyped
    <2>2. (moved[g] \/ Reads(g, f)) \in BOOLEAN
      BY <2>1, Zenon DEF Reads, Reading
    <2>3. moved'[g] = (moved[g] \/ Reads(g, f))
      BY <1>6, Zenon
    <2>4. Reads(g, f) => moved'[g]
      BY <2>3, Zenon
    <2>5. ~Reads(g, f) => moved'[g] = moved[g]
      BY <2>1, <2>3, Zenon
    <2>6. old'[g] = IF Reads(g, f) /\ ~moved[g] THEN Serials(queue[f]) ELSE old[g]
      BY <1>6, Zenon
    <2>7. old'[g] = old[g] \/ (Reads(g, f) /\ old'[g] = Serials(queue[f]))
      BY <2>6, Zenon
    <2>8. ~Reads(g, f) => old'[g] = old[g]
      BY <2>6, Zenon
    <2>9. old'[g] \in Seq(Nat)
      BY <2>1, <2>7, Zenon
    <2> QED
      BY <2>2, <2>4, <2>5, <2>7, <2>8, <2>9, Zenon
  <1>8. moved' \in [Fuzzer -> BOOLEAN]
    BY <1>6, <1>7, Zenon
  <1>9. old' \in [Fuzzer -> Seq(Nat)]
    <2>1. old' = [g \in Fuzzer |-> old'[g]]
      BY <1>6
    <2> QED
      BY <1>7, <2>1
  <1> QED
    BY <1>2, <1>3, <1>4, <1>5, <1>7, <1>8, <1>9

\* A case is linked back behind the others.
LEMMA LinkFacts ==
  ASSUME TypeOK, NEW f \in Fuzzer, NEW i \in DOMAIN resume[f], PivotInput(f, i)
  PROVE  /\ queue' \in [Fuzzer -> Seq(File)]
         /\ \A g \in Fuzzer \ {f} : queue'[g] = queue[g]
         /\ Len(queue'[f]) = Len(queue[f]) + 1
         /\ DOMAIN queue'[f] = 1 .. Len(queue[f]) + 1
         /\ \A j \in DOMAIN queue[f] : queue'[f][j] = queue[f][j]
         /\ queue'[f][Len(queue[f]) + 1].serial = resume[f][i].serial
         /\ queue'[f][Len(queue[f]) + 1].bits = resume[f][i].bits
         /\ queue'[f][Len(queue[f]) + 1].written
         /\ queue'[f][Len(queue[f]) + 1].run = "dry"
         /\ i \in Whole(resume[f])
         /\ excused' \in [Fuzzer -> [Fuzzer -> SUBSET Nat]]
         /\ \A g, h \in Fuzzer : excused[g][h] \subseteq excused'[g][h]
         /\ \A g \in Fuzzer :
               Len(queue[f]) + 1 <= mark[g][f] /\ mark[g][f] < i
                   => resume[f][i].serial \in excused'[g][f]
  <1>1. /\ queue \in [Fuzzer -> Seq(File)] /\ queue[f] \in Seq(File)
        /\ resume[f][i] \in File /\ i \in Whole(resume[f])
    BY FilesTyped DEF PivotInput, Unlinked, TypeOK
  <1>2. resume[f][i].written
    BY <1>1 DEF Whole
  <1>3. PICK y \in File : /\ y = [resume[f][i] EXCEPT !.run = "dry"]
                          /\ y.serial = resume[f][i].serial /\ y.bits = resume[f][i].bits
                          /\ y.run = "dry" /\ y.written
    <2>1. ASSUME NEW x \in File, x.written
          PROVE  LET z == [x EXCEPT !.run = "dry"]
                 IN  z \in File /\ z.serial = x.serial /\ z.bits = x.bits
                     /\ z.run = "dry" /\ z.written
      BY <2>1 DEF File
    <2> QED
      BY <1>1, <1>2, <2>1
  <1>4. queue' = [queue EXCEPT ![f] = Append(queue[f], y)]
    BY <1>3 DEF PivotInput
  <1>5. /\ Append(queue[f], y) \in Seq(File)
        /\ Len(Append(queue[f], y)) = Len(queue[f]) + 1
        /\ DOMAIN Append(queue[f], y) = 1 .. Len(queue[f]) + 1
        /\ \A j \in DOMAIN queue[f] : Append(queue[f], y)[j] = queue[f][j]
        /\ Append(queue[f], y)[Len(queue[f]) + 1] = y
    BY <1>1
  <1>6. /\ queue' \in [Fuzzer -> Seq(File)] /\ queue'[f] = Append(queue[f], y)
        /\ \A g \in Fuzzer \ {f} : queue'[g] = queue[g]
    BY <1>1, <1>4, <1>5
  <1>7. PICK P \in SUBSET Fuzzer :
            \A g \in Fuzzer : g \in P <=> Len(queue[f]) + 1 <= mark[g][f] /\ mark[g][f] < i
    <2>1. {g \in Fuzzer : Len(queue[f]) + 1 <= mark[g][f] /\ mark[g][f] < i} \in SUBSET Fuzzer
      OBVIOUS
    <2> QED
      BY <2>1
  <1>8. excused' = [g \in Fuzzer |-> [excused[g] EXCEPT ![f] =
                        IF g \in P THEN @ \cup {resume[f][i].serial} ELSE @]]
    BY <1>7, Zenon DEF PivotInput
  <1>9. resume[f][i].serial \in Nat
    BY <1>1, FileFields
  <1>10. /\ excused' \in [Fuzzer -> [Fuzzer -> SUBSET Nat]]
         /\ \A g, h \in Fuzzer : excused[g][h] \subseteq excused'[g][h]
         /\ \A g \in P : resume[f][i].serial \in excused'[g][f]
    BY <1>8, <1>9, ExcuseOne
  <1> QED
    BY <1>1, <1>3, <1>5, <1>6, <1>7, <1>10

LEMMA NukeFacts ==
  ASSUME TypeOK, NEW f \in Fuzzer, NukeResumeDir(f)
  PROVE  /\ resume'[f] = NoFiles /\ DOMAIN resume'[f] = {}
         /\ resume' = [g \in Fuzzer |-> resume'[g]]
         /\ resume'[f] \in [DOMAIN resume'[f] -> File]
         /\ \A g \in Fuzzer \ {f} : resume'[g] = resume[g]
  <1>1. resume' = [resume EXCEPT ![f] = NoFiles] /\ resume = [g \in Fuzzer |-> resume[g]]
    BY DEF NukeResumeDir, TypeOK
  <1>2. resume'[f] = NoFiles
    BY <1>1
  <1>3. resume' = [g \in Fuzzer |-> resume'[g]] /\ \A g \in Fuzzer \ {f} : resume'[g] = resume[g]
    BY <1>1
  <1> QED
    BY <1>2, <1>3, NoFilesEmpty, QueueIsDirectory

LEMMA FailedFile ==
  ASSUME NEW x \in File
  PROVE  /\ [x EXCEPT !.run = "failed"] \in File
         /\ [x EXCEPT !.run = "failed"].serial = x.serial
         /\ [x EXCEPT !.run = "failed"].bits = x.bits
         /\ [x EXCEPT !.run = "failed"].written = x.written
         /\ [x EXCEPT !.run = "failed"].run = "failed"
  BY DEF File

\* A dry run changes no case; it marks those whose run failed.
LEMMA DryFacts ==
  ASSUME TypeOK, NEW f \in Fuzzer, DryRun(f)
  PROVE  \E S \in SUBSET DOMAIN queue[f] :
            /\ queue' \in [Fuzzer -> Seq(File)]
            /\ \A g \in Fuzzer \ {f} : queue'[g] = queue[g] /\ seen'[g] = seen[g]
            /\ Len(queue'[f]) = Len(queue[f]) /\ DOMAIN queue'[f] = DOMAIN queue[f]
            /\ \A i \in DOMAIN queue[f] :
                  /\ queue'[f][i].serial = queue[f][i].serial
                  /\ queue'[f][i].bits = queue[f][i].bits
                  /\ queue'[f][i].written = queue[f][i].written
                  /\ queue'[f][i].run = IF i \in S THEN "failed" ELSE queue[f][i].run
            /\ seen' \in [Fuzzer -> SUBSET Bits]
            /\ seen'[f] = BitsAt(queue[f], DOMAIN queue[f] \ S)
  <1>1. PICK S \in SUBSET {i \in DOMAIN queue[f] : queue[f][i].bits \in Flaky[f]} :
            /\ seen' = [seen EXCEPT ![f] = DryRunBits(f, S)]
            /\ queue' = [queue EXCEPT ![f] = Ran(queue[f], S)]
    BY DEF DryRun
  <1>2. /\ queue \in [Fuzzer -> Seq(File)] /\ queue[f] \in Seq(File)
        /\ DOMAIN queue[f] = 1 .. Len(queue[f]) /\ Len(queue[f]) \in Nat
        /\ \A i \in DOMAIN queue[f] : queue[f][i] \in File
        /\ seen \in [Fuzzer -> SUBSET Bits] /\ S \subseteq DOMAIN queue[f]
    BY FilesTyped DEF TypeOK
  <1>3. PICK q : q = Ran(queue[f], S)
    OBVIOUS
  <1>4. ASSUME NEW i \in DOMAIN queue[f]
        PROVE  q[i] = IF i \in S THEN [queue[f][i] EXCEPT !.run = "failed"] ELSE queue[f][i]
    BY <1>3 DEF Ran
  <1>5. ASSUME NEW i \in DOMAIN queue[f]
        PROVE  /\ q[i] \in File
               /\ q[i].serial = queue[f][i].serial /\ q[i].bits = queue[f][i].bits
               /\ q[i].written = queue[f][i].written
               /\ q[i].run = IF i \in S THEN "failed" ELSE queue[f][i].run
    <2>1. queue[f][i] \in File
      BY <1>2
    <2>2. CASE i \in S
      <3>1. q[i] = [queue[f][i] EXCEPT !.run = "failed"]
        BY <1>4, <2>2
      <3> QED
        BY <2>1, <2>2, <3>1, FailedFile
    <2>3. CASE i \notin S
      BY <1>4, <2>1, <2>3
    <2> QED
      BY <2>2, <2>3
  <1>6. q \in Seq(File) /\ Len(q) = Len(queue[f]) /\ DOMAIN q = DOMAIN queue[f]
    <2>1. DOMAIN q = 1 .. Len(queue[f])
      BY <1>2, <1>3 DEF Ran
    <2>2. q = [i \in 1 .. Len(queue[f]) |-> q[i]]
      BY <1>2, <1>3 DEF Ran
    <2>3. q \in [1 .. Len(queue[f]) -> File]
      BY <1>2, <1>5, <2>2
    <2>4. PICK n \in Nat : n = Len(queue[f])
      BY <1>2
    <2>5. q \in Seq(File) /\ Len(q) = n
      <3>1. q \in [1 .. n -> File]
        BY <2>3, <2>4
      <3> QED
        BY <3>1
    <2> QED
      BY <1>2, <2>1, <2>4, <2>5
  <1>7. /\ queue' \in [Fuzzer -> Seq(File)] /\ queue'[f] = q
        /\ \A g \in Fuzzer \ {f} : queue'[g] = queue[g]
    BY <1>1, <1>2, <1>3, <1>6
  <1>8. DryRunBits(f, S) \subseteq Bits
    BY <1>2, BitsAtBits DEF DryRunBits
  <1>9. /\ seen' \in [Fuzzer -> SUBSET Bits]
        /\ seen'[f] = BitsAt(queue[f], DOMAIN queue[f] \ S)
        /\ \A g \in Fuzzer \ {f} : seen'[g] = seen[g]
    BY <1>1, <1>2, <1>8 DEF DryRunBits
  <1> QED
    BY <1>5, <1>6, <1>7, <1>9

-----------------------------------------------------------------------------
(* Reading a directory.                                                     *)

\* Names are numbers, and mean a case of the fuzzer whose directory it is.
LEMMA DirectoryTyped ==
  ASSUME TypeOK, NEW f \in Fuzzer
  PROVE  /\ party[f] \in Fuzzer
         /\ Directory(f) \in Seq(Nat)
         /\ \A i \in DOMAIN Directory(f) : Directory(f)[i] \in Nat /\ i \in Nat
         /\ \A i \in Names(f) : /\ i \in DOMAIN Directory(f) /\ i \in Nat
                                /\ Directory(f)[i] \in Nat
  <1>1. party[f] \in Fuzzer /\ old[f] \in Seq(Nat) /\ queue[party[f]] \in Seq(File)
    BY DEF TypeOK
  <1>2. Serials(queue[party[f]]) \in Seq(Nat)
    BY <1>1, SerialsTyped
  <1>3. PICK d \in Seq(Nat) : d = Directory(f)
    BY <1>1, <1>2 DEF Directory
  <1>4. \A i \in DOMAIN d : d[i] \in Nat /\ i \in Nat
    OBVIOUS
  <1> QED
    BY <1>1, <1>3, <1>4 DEF Names

\* A file that can be read is the case its name means.
LEMMA ReadableFile ==
  ASSUME TypeOK, NEW f \in Fuzzer, NEW i, Readable(f, i)
  PROVE  /\ i \in DOMAIN queue[party[f]] /\ queue[party[f]][i] \in File
         /\ queue[party[f]][i].written
         /\ queue[party[f]][i].serial = Directory(f)[i]
         /\ queue[party[f]][i].bits \in Cases
  <1>1. party[f] \in Fuzzer /\ i \in DOMAIN queue[party[f]]
    BY DirectoryTyped DEF Readable, Whole
  <1>2. queue[party[f]][i] \in File
    BY <1>1, FilesTyped
  <1> QED
    BY <1>1, <1>2, FileFields DEF Readable, Whole

\* Excuses for the directory being read.
LEMMA ExcuseFacts ==
  ASSUME TypeOK, NEW f \in Fuzzer, NEW X \in SUBSET Nat, Excuse(f, X)
  PROVE  /\ excused' \in [Fuzzer -> [Fuzzer -> SUBSET Nat]]
         /\ \A g, h \in Fuzzer : excused[g][h] \subseteq excused'[g][h]
         /\ X \subseteq excused'[f][party[f]]
  <1>1. party[f] \in Fuzzer /\ excused \in [Fuzzer -> [Fuzzer -> SUBSET Nat]]
    BY DEF TypeOK
  <1>2. PICK e : e = [excused[f] EXCEPT ![party[f]] = excused[f][party[f]] \cup X]
    OBVIOUS
  <1>3. excused' = [excused EXCEPT ![f] = e]
    BY <1>2 DEF Excuse
  <1>4. /\ e \in [Fuzzer -> SUBSET Nat] /\ X \subseteq e[party[f]]
        /\ \A h \in Fuzzer : excused[f][h] \subseteq e[h]
    BY <1>1, <1>2
  <1> QED
    BY <1>1, <1>3, <1>4

\* Cases the mark passes are cases.
LEMMA MissedTyped ==
  ASSUME TypeOK, NEW f \in Fuzzer
  PROVE  Missed(f) \subseteq Nat
  <1>1. PICK g \in Fuzzer : g = party[f]
    BY DEF TypeOK
  <1>2. \A i \in DOMAIN queue[g] : queue[g][i].serial \in Nat
    BY FilesTyped, FileFields
  <1>3. \A i \in DOMAIN resume[g] : resume[g][i].serial \in Nat
    BY FilesTyped, FileFields
  <1> QED
    BY <1>1, <1>2, <1>3 DEF Missed

\* The three things that can happen to a name.
LEMMA EntryFacts ==
  ASSUME TypeOK, NEW f \in Fuzzer, NEW i \in Names(f), ReadEntry(f, i)
  PROVE  /\ returned' = [returned EXCEPT ![f] = returned[f] \cup {Directory(f)[i]}]
         /\ returned' \in [Fuzzer -> SUBSET Nat]
         /\ next_min' \in [Fuzzer -> Nat]
         /\ next_min'[f] >= next_min[f]
         /\ next_min'[f] = next_min[f] \/ next_min'[f] = i
         /\ \A g \in Fuzzer \ {f} : next_min'[g] = next_min[g]
         /\ \/ /\ UNCHANGED <<pc, queue, made, top, seen>>
               /\ Excuse(f, {Directory(f)[i]})
            \/ /\ Readable(f, i)
               /\ Keep(f, queue[party[f]][i].bits)
               /\ Interesting(f, queue[party[f]][i].bits)
               /\ pc' = [pc EXCEPT ![f] = "import"]
            \/ /\ Readable(f, i)
               /\ ~Interesting(f, queue[party[f]][i].bits)
               /\ UNCHANGED <<pc, queue, made, top, seen, excused>>
  <1>1. i \in Nat /\ Directory(f)[i] \in Nat
    BY DirectoryTyped
  <1>2. /\ returned' = [returned EXCEPT ![f] = returned[f] \cup {Directory(f)[i]}]
        /\ returned' \in [Fuzzer -> SUBSET Nat]
    BY <1>1 DEF ReadEntry, TypeOK
  <1>3. Ahead(f, i)
    BY DEF ReadEntry, SkipUnreadable, RunFails, RunImport
  <1>4. /\ next_min' \in [Fuzzer -> Nat]
        /\ next_min'[f] >= next_min[f]
        /\ next_min'[f] = next_min[f] \/ next_min'[f] = i
        /\ \A g \in Fuzzer \ {f} : next_min'[g] = next_min[g]
    <2>1. next_min \in [Fuzzer -> Nat]
      BY DEF TypeOK
    <2> QED
      BY <1>1, <1>3, <2>1 DEF Ahead
  <1>5. \/ /\ UNCHANGED <<pc, queue, made, top, seen>>
           /\ Excuse(f, {Directory(f)[i]})
        \/ /\ Readable(f, i)
           /\ Keep(f, queue[party[f]][i].bits)
           /\ Interesting(f, queue[party[f]][i].bits)
           /\ pc' = [pc EXCEPT ![f] = "import"]
        \/ /\ Readable(f, i)
           /\ ~Interesting(f, queue[party[f]][i].bits)
           /\ UNCHANGED <<pc, queue, made, top, seen, excused>>
    BY Zenon DEF ReadEntry, SkipUnreadable, RunFails, RunImport
  <1> QED
    BY <1>2, <1>4, <1>5, Zenon

-----------------------------------------------------------------------------
(* Every step keeps the types.                                              *)

ResumeTyped ==
    /\ resume = [f \in Fuzzer |-> resume[f]]
    /\ \A f \in Fuzzer : /\ DOMAIN resume[f] \subseteq Nat \ {0}
                         /\ resume[f] \in [DOMAIN resume[f] -> File]

PcTyped == pc \in [Fuzzer ->
    {"fuzz", "save", "import", "scan", "read", "down", "pivot", "dry"}]

ScanTyped ==
    /\ dirs \in [Fuzzer -> SUBSET Fuzzer]
    /\ party \in [Fuzzer -> Fuzzer]
    /\ listed \in [Fuzzer -> Nat]
    /\ moved \in [Fuzzer -> BOOLEAN]
    /\ old \in [Fuzzer -> Seq(Nat)]
    /\ returned \in [Fuzzer -> SUBSET Nat]
    /\ next_min \in [Fuzzer -> Nat]

CountsTyped ==
    /\ made \in [Fuzzer -> Nat]
    /\ top \in [Fuzzer -> Nat]
    /\ seen \in [Fuzzer -> SUBSET Bits]
    /\ mark \in [Fuzzer -> [Fuzzer -> Nat]]

QueueTyped == queue \in [Fuzzer -> Seq(File)]

HistTyped ==
    /\ crashes \in [Fuzzer -> Nat]
    /\ excused \in [Fuzzer -> [Fuzzer -> SUBSET Nat]]
    /\ lost \in [Fuzzer -> SUBSET Bits]

LEMMA TypeParts ==
  TypeOK <=> /\ PcTyped /\ QueueTyped /\ ResumeTyped /\ CountsTyped
             /\ ScanTyped /\ HistTyped
  BY DEF TypeOK, PcTyped, QueueTyped, ResumeTyped, CountsTyped, ScanTyped, HistTyped

LEMMA TypePartsNext ==
  ASSUME PcTyped', QueueTyped', ResumeTyped', CountsTyped', ScanTyped', HistTyped'
  PROVE  TypeOK'
  BY DEF TypeOK, PcTyped, QueueTyped, ResumeTyped, CountsTyped, ScanTyped, HistTyped

LEMMA CloseTyped ==
  ASSUME TypeOK, NEW f \in Fuzzer, CloseQueue(f), dirs' \in [Fuzzer -> SUBSET Fuzzer]
  PROVE  ScanTyped'
  <1>1. <<>> \in Seq(Nat)
    OBVIOUS
  <1> QED
    BY <1>1 DEF CloseQueue, TypeOK, ScanTyped

LEMMA NextDirTyped ==
  ASSUME NEW D
  PROVE  NextDir(D) \in {"fuzz", "scan"}
  BY DEF NextDir

LEMMA TypeKeep ==
  ASSUME TypeOK, NEW f \in Fuzzer, NEW B \in Cases, Discover(f, B)
  PROVE  TypeOK'
  <1>1. Keep(f, B)
    BY DEF Discover
  <1>2. PcTyped'
    BY DEF Discover, TypeOK, PcTyped
  <1>3. QueueTyped'
    BY <1>1, KeepQueue DEF QueueTyped
  <1>4. ResumeTyped'
    BY DEF Discover, TypeOK, ResumeTyped
  <1>5. CountsTyped'
    BY <1>1, KeepCounts DEF Discover, CountsTyped, TypeOK
  <1>6. ScanTyped'
    BY DEF Discover, TypeOK, ScanTyped, scanVars
  <1>7. HistTyped'
    BY <1>1, KeepExcuse DEF Discover, TypeOK, HistTyped
  <1> QED
    BY <1>2, <1>3, <1>4, <1>5, <1>6, <1>7, TypePartsNext

LEMMA TypeWrite ==
  ASSUME TypeOK, Contents, NEW f \in Fuzzer, Write(f)
  PROVE  TypeOK'
  <1>1. Len(queue[f]) > 0
    BY DEF Contents, ContentsOf, Saving, Write
  <1>2. PcTyped'
    BY DEF Write, TypeOK, PcTyped
  <1>3. QueueTyped'
    BY <1>1, WriteFacts DEF QueueTyped
  <1>4. ResumeTyped'
    BY DEF Write, TypeOK, ResumeTyped
  <1>5. CountsTyped'
    BY DEF Write, CountsTyped, TypeOK
  <1>6. ScanTyped'
    BY DEF Write, TypeOK, ScanTyped, scanVars
  <1>7. HistTyped'
    BY <1>1, WriteFacts DEF Write, TypeOK, HistTyped
  <1> QED
    BY <1>2, <1>3, <1>4, <1>5, <1>6, <1>7, TypePartsNext

LEMMA TypeOpen ==
  ASSUME TypeOK, NEW f \in Fuzzer,
         BeginSync(f) \/ \E g \in Fuzzer : OpenQueue(f, g)
  PROVE  TypeOK'
  <1>0. UNCHANGED <<queue, resume, made, top, seen, mark, histVars>>
    BY Zenon DEF BeginSync, OpenQueue
  <1>1. QueueTyped' /\ ResumeTyped' /\ CountsTyped' /\ HistTyped'
    BY <1>0 DEF TypeOK, QueueTyped, ResumeTyped, CountsTyped, HistTyped, histVars
  <1>2. CASE BeginSync(f)
    <2>1. PcTyped'
      BY <1>2, NextDirTyped DEF BeginSync, TypeOK, PcTyped
    <2>2. ScanTyped'
      BY <1>2 DEF BeginSync, Others, TypeOK, ScanTyped
    <2> QED
      BY <1>1, <2>1, <2>2, TypePartsNext
  <1>3. ASSUME NEW g \in Fuzzer, OpenQueue(f, g)
        PROVE  TypeOK'
    <2>1. Len(queue[g]) \in Nat /\ mark[f][g] \in Nat
      BY FilesTyped DEF TypeOK
    <2>2. dirs' \in [Fuzzer -> SUBSET Fuzzer] /\ UNCHANGED <<moved, old, returned>>
      BY <1>3 DEF OpenQueue, TypeOK
    <2>3. \/ /\ pc' = [pc EXCEPT ![f] = NextDir(dirs[f] \ {g})]
             /\ UNCHANGED <<party, listed, next_min>>
          \/ /\ party' = [party EXCEPT ![f] = g]
             /\ listed' = [listed EXCEPT ![f] = Len(queue[g])]
             /\ next_min' = [next_min EXCEPT ![f] = mark[f][g]]
             /\ pc' = [pc EXCEPT ![f] = "read"]
      BY <1>3, Zenon DEF OpenQueue
    <2>4. PcTyped'
      <3>1. PcTyped
        BY DEF TypeOK, PcTyped
      <3>2. NextDir(dirs[f] \ {g}) \in {"fuzz", "scan"}
        BY NextDirTyped
      <3>3. PICK p \in {"fuzz", "scan", "read"} : pc' = [pc EXCEPT ![f] = p]
        BY <2>3, <3>2
      <3> QED
        BY <3>1, <3>3 DEF PcTyped
    <2>5. /\ party' \in [Fuzzer -> Fuzzer] /\ listed' \in [Fuzzer -> Nat]
          /\ next_min' \in [Fuzzer -> Nat]
      <3>1. /\ party \in [Fuzzer -> Fuzzer] /\ listed \in [Fuzzer -> Nat]
            /\ next_min \in [Fuzzer -> Nat]
        BY DEF TypeOK
      <3>2. PICK n \in Nat : n = Len(queue[g])
        BY <2>1
      <3>3. CASE UNCHANGED <<party, listed, next_min>>
        BY <3>1, <3>3
      <3>4. CASE /\ party' = [party EXCEPT ![f] = g]
                 /\ listed' = [listed EXCEPT ![f] = n]
                 /\ next_min' = [next_min EXCEPT ![f] = mark[f][g]]
        BY <2>1, <3>1, <3>4
      <3> QED
        BY <2>3, <3>2, <3>3, <3>4
    <2>6. ScanTyped'
      BY <2>2, <2>5 DEF TypeOK, ScanTyped
    <2> QED
      BY <1>1, <2>4, <2>6, TypePartsNext
  <1> QED
    BY <1>2, <1>3

LEMMA TypeRead ==
  ASSUME TypeOK, NEW f \in Fuzzer, NEW i \in Names(f), ReadEntry(f, i)
  PROVE  TypeOK'
  <1>1. ResumeTyped'
    BY DEF ReadEntry, TypeOK, ResumeTyped
  <1>2. ScanTyped'
    BY EntryFacts DEF ReadEntry, TypeOK, ScanTyped
  <1>3. UNCHANGED <<mark, crashes, lost>>
    BY DEF ReadEntry
  <1>4. CASE UNCHANGED <<pc, queue, made, top, seen>> /\ Excuse(f, {Directory(f)[i]})
    <2>1. excused' \in [Fuzzer -> [Fuzzer -> SUBSET Nat]]
      BY <1>4, ExcuseFacts, DirectoryTyped
    <2>2. HistTyped'
      BY <1>3, <2>1 DEF TypeOK, HistTyped
    <2>3. PcTyped' /\ QueueTyped' /\ CountsTyped'
      BY <1>3, <1>4 DEF TypeOK, PcTyped, QueueTyped, CountsTyped
    <2> QED
      BY <1>1, <1>2, <2>2, <2>3, TypePartsNext
  <1>5. CASE /\ Readable(f, i) /\ Keep(f, queue[party[f]][i].bits)
             /\ pc' = [pc EXCEPT ![f] = "import"]
    <2>1. PICK B \in Cases : B = queue[party[f]][i].bits
      BY <1>5, ReadableFile
    <2>2. Keep(f, B)
      BY <1>5, <2>1
    <2>3. PcTyped'
      BY <1>5 DEF TypeOK, PcTyped
    <2>4. QueueTyped'
      BY <2>2, KeepQueue DEF QueueTyped
    <2>5. CountsTyped'
      BY <1>3, <2>2, KeepCounts DEF CountsTyped, TypeOK
    <2>6. HistTyped'
      BY <1>3, <2>2, KeepExcuse DEF TypeOK, HistTyped
    <2> QED
      BY <1>1, <1>2, <2>3, <2>4, <2>5, <2>6, TypePartsNext
  <1>6. CASE UNCHANGED <<pc, queue, made, top, seen, excused>>
    <2>1. PcTyped' /\ QueueTyped' /\ CountsTyped' /\ HistTyped'
      BY <1>3, <1>6 DEF TypeOK, PcTyped, QueueTyped, CountsTyped, HistTyped
    <2> QED
      BY <1>1, <1>2, <2>1, TypePartsNext
  <1> QED
    BY <1>4, <1>5, <1>6, EntryFacts

LEMMA TypeEnd ==
  ASSUME TypeOK, NEW f \in Fuzzer, EndQueue(f)
  PROVE  TypeOK'
  <1>1. QueueTyped' /\ ResumeTyped'
    BY DEF EndQueue, TypeOK, QueueTyped, ResumeTyped
  <1>2. PcTyped'
    BY NextDirTyped DEF EndQueue, TypeOK, PcTyped
  <1>3. party[f] \in Fuzzer /\ next_min[f] \in Nat /\ mark \in [Fuzzer -> [Fuzzer -> Nat]]
    BY DEF TypeOK
  <1>4. mark' \in [Fuzzer -> [Fuzzer -> Nat]]
    BY <1>3 DEF EndQueue, NewMark
  <1>5. CountsTyped'
    BY <1>4 DEF EndQueue, TypeOK, CountsTyped
  <1>6. ScanTyped'
    BY CloseTyped DEF EndQueue, TypeOK
  <1>7. Missed(f) \ returned[f] \in SUBSET Nat
    BY MissedTyped
  <1>8. HistTyped'
    BY <1>7, ExcuseFacts DEF EndQueue, TypeOK, HistTyped
  <1> QED
    BY <1>1, <1>2, <1>5, <1>6, <1>8, TypePartsNext

LEMMA TypeCrash ==
  ASSUME TypeOK, NEW f \in Fuzzer, Crash(f)
  PROVE  TypeOK'
  <1>1. QueueTyped' /\ PcTyped' /\ CountsTyped'
    BY DEF Crash, TypeOK, QueueTyped, PcTyped, CountsTyped
  <1>2. PICK S \in Left(f) :
            /\ S \subseteq DOMAIN resume[f]
            /\ DOMAIN resume'[f] = S
            /\ resume'[f] \in [S -> File]
            /\ resume' = [g \in Fuzzer |-> resume'[g]]
            /\ \A g \in Fuzzer \ {f} : resume'[g] = resume[g]
            /\ lost' \in [Fuzzer -> SUBSET Bits]
    BY CrashFacts
  <1>3. ResumeTyped'
    <2>1. \A g \in Fuzzer : /\ DOMAIN resume[g] \subseteq Nat \ {0}
                            /\ resume[g] \in [DOMAIN resume[g] -> File]
      BY DEF TypeOK
    <2>2. \A g \in Fuzzer : /\ DOMAIN resume'[g] \subseteq Nat \ {0}
                            /\ resume'[g] \in [DOMAIN resume'[g] -> File]
      BY <1>2, <2>1
    <2> QED
      BY <1>2, <2>2 DEF ResumeTyped
  <1>4. ScanTyped'
    <2>1. dirs' \in [Fuzzer -> SUBSET Fuzzer]
      BY DEF Crash, TypeOK
    <2> QED
      BY <2>1, CloseTyped DEF Crash
  <1>5. HistTyped'
    BY <1>2 DEF Crash, TypeOK, HistTyped
  <1> QED
    BY <1>1, <1>3, <1>4, <1>5, TypePartsNext

LEMMA TypeMove ==
  ASSUME TypeOK, NEW f \in Fuzzer, MoveQueue(f)
  PROVE  TypeOK'
  <1>1. QueueTyped'
    BY MoveFacts DEF QueueTyped
  <1>2. PcTyped' /\ CountsTyped' /\ HistTyped'
    BY DEF MoveQueue, TypeOK, PcTyped, CountsTyped, HistTyped, histVars
  <1>3. ScanTyped'
    BY MoveFacts DEF MoveQueue, TypeOK, ScanTyped
  <1>4. ResumeTyped'
    <2>1. \A g \in Fuzzer : /\ DOMAIN resume[g] \subseteq Nat \ {0}
                            /\ resume[g] \in [DOMAIN resume[g] -> File]
      BY DEF TypeOK
    <2>2. \A g \in Fuzzer : /\ DOMAIN resume'[g] \subseteq Nat \ {0}
                            /\ resume'[g] \in [DOMAIN resume'[g] -> File]
      BY <2>1, MoveFacts
    <2> QED
      BY <2>2, MoveFacts DEF ResumeTyped
  <1> QED
    BY <1>1, <1>2, <1>3, <1>4, TypePartsNext

LEMMA TypeResume ==
  ASSUME TypeOK, NEW f \in Fuzzer,
         \/ \E i \in DOMAIN resume[f] : PivotInput(f, i)
         \/ NukeResumeDir(f)
         \/ DryRun(f)
  PROVE  TypeOK'
  <1>1. ASSUME NEW i \in DOMAIN resume[f], PivotInput(f, i)
        PROVE  TypeOK'
    <2>1. QueueTyped'
      BY <1>1, LinkFacts DEF QueueTyped
    <2>2. PcTyped' /\ CountsTyped' /\ ResumeTyped'
      BY <1>1 DEF PivotInput, TypeOK, PcTyped, CountsTyped, ResumeTyped
    <2>3. ScanTyped'
      BY <1>1 DEF PivotInput, TypeOK, ScanTyped, scanVars
    <2>4. HistTyped'
      BY <1>1, LinkFacts DEF PivotInput, TypeOK, HistTyped
    <2> QED
      BY <2>1, <2>2, <2>3, <2>4, TypePartsNext
  <1>2. CASE NukeResumeDir(f)
    <2>1. QueueTyped' /\ PcTyped' /\ CountsTyped' /\ ScanTyped' /\ HistTyped'
      BY <1>2 DEF NukeResumeDir, TypeOK, QueueTyped, PcTyped, CountsTyped, ScanTyped,
                  HistTyped, scanVars, histVars
    <2>2. \A g \in Fuzzer : /\ DOMAIN resume[g] \subseteq Nat \ {0}
                            /\ resume[g] \in [DOMAIN resume[g] -> File]
      BY DEF TypeOK
    <2>3. \A g \in Fuzzer : /\ DOMAIN resume'[g] \subseteq Nat \ {0}
                            /\ resume'[g] \in [DOMAIN resume'[g] -> File]
      BY <1>2, <2>2, NukeFacts
    <2>4. ResumeTyped'
      BY <1>2, <2>3, NukeFacts DEF ResumeTyped
    <2> QED
      BY <2>1, <2>4, TypePartsNext
  <1>3. CASE DryRun(f)
    <2>1. QueueTyped'
      BY <1>3, DryFacts DEF QueueTyped
    <2>2. seen' \in [Fuzzer -> SUBSET Bits]
      BY <1>3, DryFacts
    <2>3. PcTyped' /\ CountsTyped' /\ ResumeTyped' /\ HistTyped'
      BY <1>3, <2>2 DEF DryRun, TypeOK, PcTyped, CountsTyped, ResumeTyped, HistTyped, histVars
    <2>4. ScanTyped'
      BY <1>3 DEF DryRun, TypeOK, ScanTyped, scanVars
    <2> QED
      BY <2>1, <2>3, <2>4, TypePartsNext
  <1> QED
    BY <1>1, <1>2, <1>3

\* What one fuzzer may do.
Act(f) ==
    \/ \E B \in Cases : Discover(f, B)
    \/ Sync(f)
    \/ Crash(f)
    \/ Resume(f)

LEMMA TypeStep ==
  ASSUME TypeOK, Contents, NEW f \in Fuzzer, Act(f)
  PROVE  TypeOK'
  BY TypeKeep, TypeWrite, TypeOpen, TypeRead, TypeEnd, TypeCrash, TypeMove, TypeResume
  DEF Act, Sync, Resume

-----------------------------------------------------------------------------
(* What is covered stays covered, what is excused stays excused, and a      *)
(* case keeps its serial number.                                            *)

SameCase(x, y) == x.serial = y.serial /\ x.bits = y.bits

\* The steps by what they do to files.
LEMMA Kinds ==
  ASSUME TypeOK, NEW f \in Fuzzer, Act(f)
  PROVE  \/ UNCHANGED <<queue, resume, made, top, seen, lost>>
         \/ \E B \in Cases : Keep(f, B) /\ Interesting(f, B) /\ UNCHANGED <<resume, lost>>
         \/ Write(f)
         \/ Crash(f)
         \/ MoveQueue(f)
         \/ \E i \in DOMAIN resume[f] : PivotInput(f, i)
         \/ NukeResumeDir(f)
         \/ DryRun(f)
  <1>1. ASSUME NEW B \in Cases, Discover(f, B)
        PROVE  Keep(f, B) /\ Interesting(f, B) /\ UNCHANGED <<resume, lost>>
    BY <1>1 DEF Discover
  <1>2. ASSUME BeginSync(f)
        PROVE  UNCHANGED <<queue, resume, made, top, seen, lost>>
    BY <1>2 DEF BeginSync, histVars
  <1>3. ASSUME NEW g \in Fuzzer, OpenQueue(f, g)
        PROVE  UNCHANGED <<queue, resume, made, top, seen, lost>>
    BY <1>3 DEF OpenQueue, histVars
  <1>4. ASSUME EndQueue(f)
        PROVE  UNCHANGED <<queue, resume, made, top, seen, lost>>
    BY <1>4 DEF EndQueue
  <1>5. ASSUME NEW i \in Names(f), ReadEntry(f, i)
        PROVE  \/ UNCHANGED <<queue, resume, made, top, seen, lost>>
               \/ \E B \in Cases : Keep(f, B) /\ Interesting(f, B) /\ UNCHANGED <<resume, lost>>
    <2>1. UNCHANGED <<resume, lost>>
      BY <1>5 DEF ReadEntry
    <2>2. CASE UNCHANGED <<queue, made, top, seen>>
      BY <2>1, <2>2
    <2>3. CASE /\ Readable(f, i) /\ Keep(f, queue[party[f]][i].bits)
               /\ Interesting(f, queue[party[f]][i].bits)
      BY <2>1, <2>3, ReadableFile
    <2> QED
      BY <1>5, <2>2, <2>3, EntryFacts
  <1> QED
    BY <1>1, <1>2, <1>3, <1>4, <1>5 DEF Act, Sync, Resume

LEMMA CoveredBits ==
  ASSUME NEW f, NEW b
  PROVE  b \in Covered(f) <=>
            \/ \E i \in Whole(queue[f]) : b \in queue[f][i].bits
            \/ \E i \in Whole(resume[f]) : b \in resume[f][i].bits
            \/ b \in lost[f]
  BY DEF Covered, OnDisk, BitsAt

LEMMA CoveredBitsNext ==
  ASSUME NEW f, NEW b
  PROVE  b \in Covered(f)' <=>
            \/ \E i \in Whole(queue'[f]) : b \in queue'[f][i].bits
            \/ \E i \in Whole(resume'[f]) : b \in resume'[f][i].bits
            \/ b \in lost'[f]
  BY DEF Covered, OnDisk, BitsAt

\* Once all usable files of _resume/ are linked, queue/ covers what they cover.
LEMMA AllLinked ==
  ASSUME TypeOK, SerialsKept, Contents, NEW f \in Fuzzer, pc[f] = "pivot",
         Unlinked(f) = {}, NEW i \in Whole(resume[f])
  PROVE  \E j \in Whole(queue[f]) : queue[f][j].bits = resume[f][i].bits
  <1>1. PICK j \in DOMAIN queue[f] : queue[f][j].serial = resume[f][i].serial
    BY DEF Unlinked
  <1>2. queue[f][j] \in Files(f) /\ resume[f][i] \in Files(f)
    BY DEF Files, Whole
  <1>3. queue[f][j].bits = resume[f][i].bits
    BY <1>1, <1>2 DEF SerialsKept, SerialsOf
  <1>4. queue[f][j].written
    BY DEF Contents, ContentsOf
  <1> QED
    BY <1>3, <1>4 DEF Whole

LEMMA CoveredStep ==
  ASSUME TypeOK, SerialsKept, Contents, NEW f \in Fuzzer, Act(f), NEW g \in Fuzzer
  PROVE  Covered(g) \subseteq Covered(g)'
  <1> SUFFICES ASSUME NEW b \in Covered(g)
               PROVE  b \in Covered(g)'
    OBVIOUS
  <1>1. \/ \E i \in Whole(queue[g]) : b \in queue[g][i].bits
        \/ \E i \in Whole(resume[g]) : b \in resume[g][i].bits
        \/ b \in lost[g]
    BY CoveredBits
  <1>2. CASE queue'[g] = queue[g] /\ resume'[g] = resume[g] /\ lost'[g] = lost[g]
    BY <1>1, <1>2, CoveredBitsNext
  <1>3. ASSUME NEW B \in Cases, Keep(f, B), UNCHANGED <<resume, lost>>
        PROVE  b \in Covered(g)'
    <2>1. CASE g # f
      BY <1>2, <1>3, <2>1, KeepQueue
    <2>2. CASE g = f
      <3>1. \A i \in Whole(queue[f]) : i \in Whole(queue'[f]) /\ queue'[f][i] = queue[f][i]
        <4>1. \A i \in DOMAIN queue[f] : i \in DOMAIN queue'[f] /\ queue'[f][i] = queue[f][i]
          BY <1>3, KeepQueue, FilesTyped
        <4> QED
          BY <4>1 DEF Whole
      <3> QED
        BY <1>1, <1>3, <2>2, <3>1, CoveredBitsNext
    <2> QED
      BY <2>1, <2>2
  <1>4. CASE Write(f)
    <2>1. Len(queue[f]) > 0 /\ resume' = resume
      BY <1>4 DEF Contents, ContentsOf, Saving, Write
    <2>2. CASE g # f
      BY <1>2, <1>4, <2>1, <2>2, WriteFacts
    <2>3. CASE g = f
      <3>1. \A i \in Whole(queue[f]) : i \in Whole(queue'[f]) /\ queue'[f][i].bits = queue[f][i].bits
        BY <1>4, <2>1, WriteFacts DEF Whole
      <3>2. lost[f] \subseteq lost'[f]
        BY <1>4, <2>1, WriteFacts
      <3> QED
        BY <1>1, <2>1, <2>3, <3>1, <3>2, CoveredBitsNext
    <2> QED
      BY <2>2, <2>3
  <1>5. CASE Crash(f)
    <2>1. PICK S \in Left(f) :
            /\ S \subseteq DOMAIN resume[f]
            /\ DOMAIN resume'[f] = S /\ \A i \in S : resume'[f][i] = resume[f][i]
            /\ \A h \in Fuzzer \ {f} : resume'[h] = resume[h] /\ lost'[h] = lost[h]
            /\ lost'[f] = lost[f] \cup LostBits(f, S)
      BY <1>5, CrashFacts
    <2>2. queue' = queue
      BY <1>5 DEF Crash
    <2>3. CASE g # f
      BY <1>2, <2>1, <2>2, <2>3
    <2>4. CASE g = f
      <3>1. ASSUME NEW i \in Whole(resume[f]), b \in resume[f][i].bits
            PROVE  b \in Covered(f)'
        <4>1. CASE i \in S
          <5>1. i \in Whole(resume'[f]) /\ b \in resume'[f][i].bits
            BY <2>1, <3>1, <4>1 DEF Whole
          <5> QED
            BY <5>1, CoveredBitsNext
        <4>2. CASE i \notin S /\ S # {}
          <5>1. b \in LostBits(f, S)
            BY <3>1, <4>2 DEF LostBits, BitsAt
          <5> QED
            BY <2>1, <5>1, CoveredBitsNext
        <4>3. CASE i \notin S /\ S = {}
          <5>1. pc[f] = "pivot" /\ Unlinked(f) = {}
            BY <2>1, <4>3 DEF Left, Whole
          <5>2. \E j \in Whole(queue[f]) : queue[f][j].bits = resume[f][i].bits
            BY <5>1, AllLinked
          <5> QED
            BY <2>2, <3>1, <5>2, CoveredBitsNext
        <4> QED
          BY <4>1, <4>2, <4>3
      <3> QED
        BY <1>1, <2>1, <2>2, <2>4, <3>1, CoveredBitsNext
    <2> QED
      BY <2>3, <2>4
  <1>6. CASE MoveQueue(f)
    <2>1. lost' = lost
      BY <1>6 DEF MoveQueue, histVars
    <2>2. CASE g # f
      BY <1>2, <1>6, <2>1, <2>2, MoveFacts
    <2>3. CASE g = f /\ DOMAIN resume[f] = {}
      <3>1. resume'[f] = queue[f] /\ Whole(resume[f]) = {}
        BY <1>6, <2>3, MoveFacts DEF Whole
      <3> QED
        BY <1>1, <2>1, <2>3, <3>1, CoveredBitsNext
    <2>4. CASE g = f /\ DOMAIN resume[f] # {}
      <3>1. resume'[f] = resume[f]
        BY <1>6, <2>4, MoveFacts
      <3>2. ASSUME NEW i \in Whole(queue[f]), b \in queue[f][i].bits
            PROVE  b \in lost[f] \/ \E j \in Whole(resume[f]) : b \in resume[f][j].bits
        <4>1. queue[f][i].bits \subseteq BitsAt(resume[f], Whole(resume[f])) \cup lost[f]
          BY <2>4 DEF Contents, ContentsOf, Whole
        <4> QED
          BY <3>2, <4>1 DEF BitsAt
      <3> QED
        BY <1>1, <2>1, <2>4, <3>1, <3>2, CoveredBitsNext
    <2> QED
      BY <2>2, <2>3, <2>4
  <1>7. ASSUME NEW i \in DOMAIN resume[f], PivotInput(f, i)
        PROVE  b \in Covered(g)'
    <2>1. UNCHANGED <<resume, lost>>
      BY <1>7 DEF PivotInput
    <2>2. CASE g # f
      BY <1>2, <1>7, <2>1, <2>2, LinkFacts
    <2>3. CASE g = f
      <3>1. \A j \in Whole(queue[f]) : j \in Whole(queue'[f]) /\ queue'[f][j] = queue[f][j]
        <4>1. \A j \in DOMAIN queue[f] : j \in DOMAIN queue'[f] /\ queue'[f][j] = queue[f][j]
          BY <1>7, LinkFacts, FilesTyped
        <4> QED
          BY <4>1 DEF Whole
      <3> QED
        BY <1>1, <2>1, <2>3, <3>1, CoveredBitsNext
    <2> QED
      BY <2>2, <2>3
  <1>8. CASE NukeResumeDir(f)
    <2>1. UNCHANGED <<queue, lost>> /\ pc[f] = "pivot" /\ Unlinked(f) = {}
      BY <1>8 DEF NukeResumeDir, histVars
    <2>2. CASE g # f
      BY <1>2, <1>8, <2>1, <2>2, NukeFacts
    <2>3. CASE g = f
      <3>1. ASSUME NEW i \in Whole(resume[f]), b \in resume[f][i].bits
            PROVE  \E j \in Whole(queue[f]) : b \in queue[f][j].bits
        BY <2>1, <3>1, AllLinked
      <3> QED
        BY <1>1, <2>1, <2>3, <3>1, CoveredBitsNext
    <2> QED
      BY <2>2, <2>3
  <1>9. CASE DryRun(f)
    <2>1. UNCHANGED <<resume, lost>>
      BY <1>9 DEF DryRun, histVars
    <2>2. CASE g # f
      BY <1>2, <1>9, <2>1, <2>2, DryFacts
    <2>3. CASE g = f
      <3>1. \A i \in Whole(queue[f]) : i \in Whole(queue'[f]) /\ queue'[f][i].bits = queue[f][i].bits
        BY <1>9, DryFacts DEF Whole
      <3> QED
        BY <1>1, <2>1, <2>3, <3>1, CoveredBitsNext
    <2> QED
      BY <2>2, <2>3
  <1>10. CASE UNCHANGED <<queue, resume, made, top, seen, lost>>
    BY <1>2, <1>10
  <1> QED
    BY <1>3, <1>4, <1>5, <1>6, <1>7, <1>8, <1>9, <1>10, Kinds

\* Excuses only grow.
LEMMA ExcuseGrows ==
  ASSUME TypeOK, NEW f \in Fuzzer, Act(f), NEW g \in Fuzzer, NEW h \in Fuzzer
  PROVE  excused[g][h] \subseteq excused'[g][h]
  <1>1. ASSUME NEW B \in Cases, Discover(f, B)
        PROVE  excused[g][h] \subseteq excused'[g][h]
    BY <1>1, KeepExcuse DEF Discover
  <1>2. ASSUME NEW i \in Names(f), ReadEntry(f, i)
        PROVE  excused[g][h] \subseteq excused'[g][h]
    <2>1. CASE Excuse(f, {Directory(f)[i]})
      BY <2>1, ExcuseFacts, DirectoryTyped
    <2>2. CASE Readable(f, i) /\ Keep(f, queue[party[f]][i].bits)
      BY <2>2, ReadableFile, KeepExcuse
    <2>3. CASE excused' = excused
      BY <2>3
    <2> QED
      BY <1>2, <2>1, <2>2, <2>3, EntryFacts
  <1>3. ASSUME EndQueue(f)
        PROVE  excused[g][h] \subseteq excused'[g][h]
    BY <1>3, ExcuseFacts, MissedTyped DEF EndQueue
  <1>4. ASSUME NEW i \in DOMAIN resume[f], PivotInput(f, i)
        PROVE  excused[g][h] \subseteq excused'[g][h]
    BY <1>4, LinkFacts
  <1>5. ASSUME \/ BeginSync(f) \/ (\E e \in Fuzzer : OpenQueue(f, e)) \/ Write(f)
               \/ Crash(f) \/ MoveQueue(f) \/ NukeResumeDir(f) \/ DryRun(f)
        PROVE  excused' = excused
    BY <1>5 DEF BeginSync, OpenQueue, Write, Crash, MoveQueue, NukeResumeDir, DryRun, histVars
  <1> QED
    BY <1>1, <1>2, <1>3, <1>4, <1>5 DEF Act, Sync, Resume

\* A step saves one new case or none,
Saves(f, B) == Keep(f, B) /\ Interesting(f, B) /\ UNCHANGED <<resume, lost>>

LEMMA KeepFiles ==
  ASSUME TypeOK, NEW f \in Fuzzer, NEW B \in Cases, Keep(f, B), UNCHANGED resume,
         NEW g \in Fuzzer, NEW x \in Files(g)'
  PROVE  x \in Files(g) \/ (g = f /\ x = NewFile(f, B))
  <1>1. \/ \E i \in DOMAIN queue'[g] : x = queue'[g][i]
        \/ \E i \in DOMAIN resume'[g] : x = resume'[g][i]
    BY DEF Files
  <1>2. CASE \E i \in DOMAIN resume'[g] : x = resume'[g][i]
    BY <1>2 DEF Files
  <1>3. ASSUME NEW i \in DOMAIN queue'[g], x = queue'[g][i]
        PROVE  x \in Files(g) \/ (g = f /\ x = NewFile(f, B))
    <2>1. CASE g # f
      BY <1>3, <2>1, KeepQueue DEF Files
    <2>2. CASE g = f
      <3>1. i \in DOMAIN queue[f] \/ i = Len(queue[f]) + 1
        BY <2>2, KeepQueue, FilesTyped
      <3> QED
        BY <1>3, <2>2, <3>1, KeepQueue DEF Files
    <2> QED
      BY <2>1, <2>2
  <1> QED
    BY <1>1, <1>2, <1>3

\* and all other files are those of before.
LEMMA OtherFiles ==
  ASSUME TypeOK, Contents, NEW f \in Fuzzer, Act(f), NEW g \in Fuzzer
  PROVE  \/ \E B \in Cases : Saves(f, B)
         \/ /\ made'[g] = made[g] /\ top'[g] = top[g]
            /\ \A x \in Files(g)' : \E y \in Files(g) : SameCase(y, x)
  <1> DEFINE Same == \A x \in Files(g)' : \E y \in Files(g) : SameCase(y, x)
  <1>1. ASSUME \A i \in DOMAIN queue'[g] : \E y \in Files(g) : SameCase(y, queue'[g][i]),
               \A i \in DOMAIN resume'[g] : \E y \in Files(g) : SameCase(y, resume'[g][i])
        PROVE  Same
    BY <1>1 DEF Files
  <1>2. \A i \in DOMAIN queue[g] : queue[g][i] \in Files(g)
    BY DEF Files
  <1>3. \A i \in DOMAIN resume[g] : resume[g][i] \in Files(g)
    BY DEF Files
  <1>4. ASSUME queue'[g] = queue[g], resume'[g] = resume[g]
        PROVE  Same
    BY <1>1, <1>2, <1>3, <1>4 DEF SameCase
  <1> HIDE DEF Same
  <1>5. CASE Write(f)
    <2>1. UNCHANGED <<resume, made, top>> /\ Len(queue[f]) > 0
      BY <1>5 DEF Write, Contents, ContentsOf, Saving
    <2>2. CASE g # f
      BY <1>4, <1>5, <2>1, <2>2, WriteFacts DEF Same
    <2>3. CASE g = f
      <3>1. \A i \in DOMAIN queue'[g] : SameCase(queue[g][i], queue'[g][i]) /\ i \in DOMAIN queue[g]
        BY <1>5, <2>1, <2>3, WriteFacts DEF SameCase
      <3>2. Same
        BY <1>1, <1>2, <1>3, <2>1, <3>1 DEF SameCase
      <3> QED
        BY <2>1, <3>2 DEF Same
    <2> QED
      BY <2>2, <2>3
  <1>6. CASE Crash(f)
    <2>1. UNCHANGED <<queue, made, top>>
      BY <1>6 DEF Crash
    <2>2. \A i \in DOMAIN resume'[g] : i \in DOMAIN resume[g] /\ resume'[g][i] = resume[g][i]
      BY <1>6, CrashFacts
    <2>3. Same
      BY <1>1, <1>2, <1>3, <2>1, <2>2 DEF SameCase
    <2> QED
      BY <2>1, <2>3 DEF Same
  <1>7. CASE MoveQueue(f)
    <2>1. UNCHANGED <<made, top>>
      BY <1>7 DEF MoveQueue
    <2>2. CASE g # f
      BY <1>4, <1>7, <2>1, <2>2, MoveFacts DEF Same
    <2>3. CASE g = f
      <3>1. DOMAIN queue'[f] = {} /\ (resume'[f] = queue[f] \/ resume'[f] = resume[f])
        BY <1>7, MoveFacts
      <3>2. Same
        BY <1>1, <1>2, <1>3, <2>3, <3>1 DEF SameCase
      <3> QED
        BY <2>1, <3>2 DEF Same
    <2> QED
      BY <2>2, <2>3
  <1>8. ASSUME NEW k \in DOMAIN resume[f], PivotInput(f, k)
        PROVE  made'[g] = made[g] /\ top'[g] = top[g] /\ Same
    <2>1. UNCHANGED <<resume, made, top>>
      BY <1>8 DEF PivotInput
    <2>2. CASE g # f
      BY <1>4, <1>8, <2>1, <2>2, LinkFacts DEF Same
    <2>3. CASE g = f
      <3>1. ASSUME NEW i \in DOMAIN queue'[f]
            PROVE  \E y \in Files(f) : SameCase(y, queue'[f][i])
        <4>1. CASE i \in DOMAIN queue[f]
          BY <1>2, <1>8, <2>3, <4>1, LinkFacts DEF SameCase
        <4>2. CASE i = Len(queue[f]) + 1
          BY <1>3, <1>8, <2>3, <4>2, LinkFacts DEF SameCase
        <4> QED
          BY <1>8, <4>1, <4>2, LinkFacts, FilesTyped
      <3>2. Same
        BY <1>1, <1>3, <2>1, <2>3, <3>1 DEF SameCase
      <3> QED
        BY <2>1, <3>2
    <2> QED
      BY <2>2, <2>3
  <1>9. CASE NukeResumeDir(f)
    <2>1. UNCHANGED <<queue, made, top>>
      BY <1>9 DEF NukeResumeDir
    <2>2. CASE g # f
      BY <1>4, <1>9, <2>1, <2>2, NukeFacts DEF Same
    <2>3. CASE g = f
      <3>1. DOMAIN resume'[f] = {}
        BY <1>9, NukeFacts
      <3>2. Same
        BY <1>1, <1>2, <2>1, <2>3, <3>1 DEF SameCase
      <3> QED
        BY <2>1, <3>2 DEF Same
    <2> QED
      BY <2>2, <2>3
  <1>10. CASE DryRun(f)
    <2>1. UNCHANGED <<resume, made, top>>
      BY <1>10 DEF DryRun
    <2>2. CASE g # f
      BY <1>4, <1>10, <2>1, <2>2, DryFacts DEF Same
    <2>3. CASE g = f
      <3>0. /\ DOMAIN queue'[f] = DOMAIN queue[f]
            /\ \A i \in DOMAIN queue[f] : /\ queue'[f][i].serial = queue[f][i].serial
                                          /\ queue'[f][i].bits = queue[f][i].bits
        BY <1>10, DryFacts
      <3>1. \A i \in DOMAIN queue'[g] : SameCase(queue[g][i], queue'[g][i]) /\ i \in DOMAIN queue[g]
        BY <2>3, <3>0 DEF SameCase
      <3>2. Same
        BY <1>1, <1>2, <1>3, <2>1, <3>1 DEF SameCase
      <3> QED
        BY <2>1, <3>2 DEF Same
    <2> QED
      BY <2>2, <2>3
  <1>11. CASE UNCHANGED <<queue, resume, made, top, seen, lost>>
    BY <1>4, <1>11 DEF Same
  <1> QED
    BY <1>5, <1>6, <1>7, <1>8, <1>9, <1>10, <1>11, Kinds DEF Saves, Same

\* Serial numbers stand for cases.
LEMMA SerialsStep ==
  ASSUME TypeOK, SerialsKept, Contents, NEW f \in Fuzzer, Act(f)
  PROVE  SerialsKept'
  <1> SUFFICES ASSUME NEW g \in Fuzzer
               PROVE  SerialsOf(g)'
    BY DEF SerialsKept
  <1>1. /\ made[g] \in Nat /\ \A x \in Files(g) : x \in File /\ x.serial \in Nat
        /\ \A x \in Files(g) : x.serial <= made[g]
        /\ \A x, y \in Files(g) : x.serial = y.serial => x.bits = y.bits
    BY FilesTyped, FileFields DEF SerialsKept, SerialsOf
  <1>2. ASSUME NEW B \in Cases, Saves(f, B)
        PROVE  SerialsOf(g)'
    <2>1. Keep(f, B) /\ UNCHANGED resume
      BY <1>2 DEF Saves
    <2>2. \A x \in Files(g)' : x \in Files(g) \/ (g = f /\ x = NewFile(f, B))
      BY <2>1, KeepFiles
    <2>3. CASE g # f
      <3>1. made'[g] = made[g]
        BY <2>1, <2>3, KeepCounts
      <3> QED
        BY <1>1, <2>2, <2>3, <3>1 DEF SerialsOf
    <2>4. CASE g = f
      <3>1. made'[g] = made[g] + 1 /\ NewFile(f, B).serial = made[g] + 1
        BY <2>1, <2>4, KeepCounts DEF NewFile
      <3>2. \A x \in Files(g) : x.serial <= made[g] + 1 /\ x.serial # made[g] + 1
        BY <1>1
      <3>3. \A x \in Files(g)' : x.serial <= made'[g]
        BY <1>1, <2>2, <3>1, <3>2
      <3>4. \A x, y \in Files(g)' : x.serial = y.serial => x.bits = y.bits
        BY <1>1, <2>2, <3>1, <3>2
      <3> QED
        BY <3>3, <3>4 DEF SerialsOf
    <2> QED
      BY <2>3, <2>4
  <1>3. CASE /\ made'[g] = made[g]
             /\ \A x \in Files(g)' : \E y \in Files(g) : SameCase(y, x)
    BY <1>1, <1>3 DEF SerialsOf, SameCase
  <1> QED
    BY <1>2, <1>3, OtherFiles

\* Counts only grow.
LEMMA CountsGrow ==
  ASSUME TypeOK, Contents, NEW f \in Fuzzer, Act(f), NEW g \in Fuzzer
  PROVE  made[g] <= made'[g] /\ top[g] <= top'[g]
  <1>1. made[g] \in Nat /\ top[g] \in Nat
    BY FilesTyped
  <1>2. ASSUME NEW B \in Cases, Saves(f, B)
        PROVE  made[g] <= made'[g] /\ top[g] <= top'[g]
    <2>1. Keep(f, B)
      BY <1>2 DEF Saves
    <2>2. top'[f] \in Nat
      BY <2>1, KeepCounts
    <2>3. CASE g = f
      BY <1>1, <2>1, <2>2, <2>3, KeepCounts
    <2>4. CASE g # f
      BY <1>1, <2>1, <2>4, KeepCounts
    <2> QED
      BY <2>3, <2>4
  <1>3. CASE made'[g] = made[g] /\ top'[g] = top[g]
    BY <1>1, <1>3
  <1> QED
    BY <1>2, <1>3, OtherFiles

\* A step of one fuzzer leaves what is the others' alone.
LEMMA OthersKept ==
  ASSUME TypeOK, Contents, NEW f \in Fuzzer, Act(f), NEW g \in Fuzzer \ {f}
  PROVE  /\ pc'[g] = pc[g] /\ queue'[g] = queue[g] /\ resume'[g] = resume[g]
         /\ made'[g] = made[g] /\ top'[g] = top[g] /\ seen'[g] = seen[g]
         /\ lost'[g] = lost[g] /\ mark'[g] = mark[g] /\ dirs'[g] = dirs[g]
         /\ party'[g] = party[g] /\ returned'[g] = returned[g]
         /\ next_min'[g] = next_min[g]
  <1> DEFINE Kept ==
          /\ pc'[g] = pc[g] /\ queue'[g] = queue[g] /\ resume'[g] = resume[g]
          /\ made'[g] = made[g] /\ top'[g] = top[g] /\ seen'[g] = seen[g]
          /\ lost'[g] = lost[g] /\ mark'[g] = mark[g] /\ dirs'[g] = dirs[g]
          /\ party'[g] = party[g] /\ returned'[g] = returned[g]
          /\ next_min'[g] = next_min[g]
  <1>1. ASSUME NEW B \in Cases, Discover(f, B)
        PROVE  Kept
    BY <1>1, KeepQueue, KeepCounts DEF Discover, TypeOK, scanVars
  <1>2. CASE BeginSync(f)
    BY <1>2 DEF BeginSync, TypeOK, histVars
  <1>3. ASSUME NEW h \in Fuzzer, OpenQueue(f, h)
        PROVE  Kept
    <2>1. /\ UNCHANGED <<queue, resume, made, top, seen, mark, returned, lost>>
          /\ dirs'[g] = dirs[g]
      BY <1>3 DEF OpenQueue, TypeOK, histVars
    <2>2. CASE /\ pc' = [pc EXCEPT ![f] = NextDir(dirs[f] \ {h})]
               /\ UNCHANGED <<party, listed, next_min>>
      BY <2>1, <2>2 DEF TypeOK
    <2>3. CASE /\ party' = [party EXCEPT ![f] = h]
               /\ next_min' = [next_min EXCEPT ![f] = mark[f][h]]
               /\ pc' = [pc EXCEPT ![f] = "read"]
      BY <2>1, <2>3 DEF TypeOK
    <2> QED
      BY <1>3, <2>2, <2>3, Zenon DEF OpenQueue
  <1>4. ASSUME NEW i \in Names(f), ReadEntry(f, i)
        PROVE  Kept
    <2>1. /\ UNCHANGED <<resume, mark, dirs, party, lost>>
          /\ next_min'[g] = next_min[g]
      BY <1>4, EntryFacts DEF ReadEntry
    <2>2. returned'[g] = returned[g]
      <3>1. returned \in [Fuzzer -> SUBSET Nat]
        BY DEF TypeOK
      <3>2. returned' = [returned EXCEPT ![f] = returned[f] \cup {Directory(f)[i]}]
        BY <1>4, EntryFacts
      <3> QED
        BY <3>1, <3>2
    <2>3. CASE UNCHANGED <<pc, queue, made, top, seen>>
      BY <2>1, <2>2, <2>3
    <2>4. CASE /\ Readable(f, i) /\ Keep(f, queue[party[f]][i].bits)
               /\ pc' = [pc EXCEPT ![f] = "import"]
      <3>1. PICK B \in Cases : Keep(f, B)
        BY <2>4, ReadableFile
      <3>2. /\ queue'[g] = queue[g] /\ made'[g] = made[g] /\ top'[g] = top[g]
            /\ seen'[g] = seen[g]
        BY <3>1, KeepQueue, KeepCounts
      <3>3. pc'[g] = pc[g]
        BY <2>4 DEF TypeOK
      <3> QED
        BY <2>1, <2>2, <3>2, <3>3
    <2> QED
      BY <1>4, <2>3, <2>4, EntryFacts
  <1>5. CASE EndQueue(f)
    BY <1>5 DEF EndQueue, NewMark, CloseQueue, TypeOK
  <1>6. CASE Write(f)
    <2>1. Len(queue[f]) > 0
      BY <1>6 DEF Write, Contents, ContentsOf, Saving
    <2>2. queue'[g] = queue[g] /\ lost'[g] = lost[g]
      BY <1>6, <2>1, WriteFacts
    <2>3. /\ UNCHANGED <<resume, made, top, seen, mark, dirs, party, returned, next_min>>
          /\ pc' = [pc EXCEPT ![f] = IF @ = "save" THEN "fuzz" ELSE "read"]
      BY <1>6 DEF Write, scanVars
    <2>4. pc'[g] = pc[g]
      BY <2>3 DEF TypeOK
    <2> QED
      BY <2>2, <2>3, <2>4
  <1>7. CASE Crash(f)
    BY <1>7, CrashFacts DEF Crash, CloseQueue, TypeOK
  <1>8. CASE MoveQueue(f)
    BY <1>8, MoveFacts DEF MoveQueue, TypeOK, histVars
  <1>9. ASSUME NEW i \in DOMAIN resume[f], PivotInput(f, i)
        PROVE  Kept
    BY <1>9, LinkFacts DEF PivotInput, TypeOK, scanVars
  <1>10. CASE NukeResumeDir(f)
    BY <1>10, NukeFacts DEF NukeResumeDir, TypeOK, scanVars, histVars
  <1>11. CASE DryRun(f)
    BY <1>11, DryFacts DEF DryRun, TypeOK, scanVars, histVars
  <1> QED
    BY <1>1, <1>2, <1>3, <1>4, <1>5, <1>6, <1>7, <1>8, <1>9, <1>10, <1>11
    DEF Act, Sync, Resume

-----------------------------------------------------------------------------
(* Positions.                                                               *)

\* The smallest case is linked next, and all others come after it.
LEMMA LinkedNext ==
  ASSUME TypeOK, Tops, NEW f \in Fuzzer, NEW i \in DOMAIN resume[f], PivotInput(f, i)
  PROVE  /\ Len(queue[f]) + 1 <= i /\ i <= top[f]
         /\ \A j \in Unlinked(f)' : Len(queue[f]) + 1 < j
  <1>1. /\ pc[f] = "pivot" /\ resume' = resume /\ i \in Unlinked(f)
        /\ \A j \in Unlinked(f) : i <= j
    BY DEF PivotInput
  <1>2. Len(queue[f]) < i /\ i <= top[f]
    BY <1>1 DEF Tops, TopOf
  <1>3. Len(queue[f]) \in Nat /\ DOMAIN resume[f] \subseteq Nat
    BY FilesTyped
  <1>4. ASSUME NEW j \in Unlinked(f)'
        PROVE  j \in Unlinked(f) /\ j # i
    <2>1. /\ j \in Whole(resume[f])
          /\ \A k \in DOMAIN queue'[f] : queue'[f][k].serial # resume[f][j].serial
      BY <1>1 DEF Unlinked
    <2>2. \A k \in DOMAIN queue[f] : k \in DOMAIN queue'[f] /\ queue'[f][k] = queue[f][k]
      BY LinkFacts, FilesTyped
    <2>3. j \in Unlinked(f)
      BY <2>1, <2>2 DEF Unlinked
    <2>4. Len(queue[f]) + 1 \in DOMAIN queue'[f]
      BY <1>3, LinkFacts
    <2>5. j # i
      BY <2>1, <2>4, LinkFacts
    <2> QED
      BY <2>3, <2>5
  <1>5. ASSUME NEW j \in Unlinked(f)'
        PROVE  Len(queue[f]) + 1 < j
    <2>1. i <= j /\ j # i /\ j \in Nat /\ i \in Nat
      BY <1>1, <1>3, <1>4, <1>5 DEF Unlinked, Whole
    <2> QED
      BY <1>2, <1>3, <2>1
  <1> QED
    BY <1>2, <1>3, <1>5

LEMMA TopsStep ==
  ASSUME TypeOK, Tops, Contents, NEW f \in Fuzzer, Act(f)
  PROVE  Tops'
  <1> SUFFICES ASSUME NEW g \in Fuzzer
               PROVE  TopOf(g)'
    BY DEF Tops
  <1>1. TopOf(g)
    BY DEF Tops
  <1>2. CASE g # f
    BY <1>1, <1>2, OthersKept DEF TopOf, Unlinked, Whole
  <1>3. CASE g = f
    <2>1. ASSUME UNCHANGED <<queue, resume, top>>, pc'[f] = "pivot" => pc[f] = "pivot"
          PROVE  TopOf(f)'
      BY <1>1, <1>3, <2>1 DEF TopOf, Unlinked, Whole
    <2>2. ASSUME NEW B \in Cases, Saves(f, B), pc'[f] # "pivot"
          PROVE  TopOf(f)'
      <3>1. /\ top[f] \in Nat /\ top'[f] \in Nat
            /\ Len(queue'[f]) <= top'[f] /\ top[f] <= top'[f]
        BY <2>2, KeepQueue, KeepCounts, FilesTyped DEF Saves
      <3>2. resume' = resume /\ DOMAIN resume[f] \subseteq Nat
        BY <2>2, FilesTyped DEF Saves
      <3>3. \A i \in DOMAIN resume'[f] : i <= top'[f]
        BY <1>1, <1>3, <3>1, <3>2 DEF TopOf
      <3> QED
        BY <2>2, <3>1, <3>3 DEF TopOf
    <2>3. ASSUME NEW B \in Cases, Discover(f, B)
          PROVE  TopOf(f)'
      <3>1. Saves(f, B) /\ pc'[f] # "pivot"
        BY <2>3 DEF Discover, Saves, TypeOK
      <3> QED
        BY <2>2, <3>1
    <2>4. CASE BeginSync(f) \/ \E h \in Fuzzer : OpenQueue(f, h)
      <3>1. UNCHANGED <<queue, resume, top>>
        BY <2>4, Zenon DEF BeginSync, OpenQueue
      <3>2. pc'[f] # "pivot"
        <4>1. \E D : pc' = [pc EXCEPT ![f] = NextDir(D)] \/ pc' = [pc EXCEPT ![f] = "read"]
          BY <2>4, Zenon DEF BeginSync, OpenQueue
        <4>2. PICK p : p # "pivot" /\ pc' = [pc EXCEPT ![f] = p]
          <5>1. "read" # "pivot" /\ \A D : NextDir(D) # "pivot"
            BY NextDirTyped
          <5> QED
            BY <4>1, <5>1
        <4>3. pc \in [Fuzzer -> {"fuzz", "save", "import", "scan", "read", "down", "pivot", "dry"}]
          BY DEF TypeOK
        <4> QED
          BY <4>2, <4>3
      <3> QED
        BY <1>3, <2>1, <3>1, <3>2
    <2>5. ASSUME NEW i \in Names(f), ReadEntry(f, i)
          PROVE  TopOf(f)'
      <3>1. pc[f] = "read" /\ UNCHANGED <<resume, lost>>
        BY <2>5 DEF ReadEntry
      <3>2. CASE UNCHANGED <<pc, queue, top>>
        BY <2>1, <3>1, <3>2
      <3>3. CASE /\ Readable(f, i) /\ Keep(f, queue[party[f]][i].bits)
                 /\ Interesting(f, queue[party[f]][i].bits)
                 /\ pc' = [pc EXCEPT ![f] = "import"]
        BY <2>2, <3>1, <3>3, ReadableFile DEF Saves, TypeOK
      <3> QED
        BY <2>5, <3>2, <3>3, EntryFacts
    <2>6. CASE EndQueue(f)
      <3>1. UNCHANGED <<queue, resume, top>> /\ pc'[f] # "pivot"
        BY <2>6 DEF EndQueue, NextDir, TypeOK
      <3> QED
        BY <1>3, <2>1, <3>1
    <2>7. CASE Write(f)
      <3>1. UNCHANGED <<resume, top>> /\ pc'[f] # "pivot" /\ Len(queue[f]) > 0
        BY <2>7 DEF Write, TypeOK, Contents, ContentsOf, Saving
      <3>2. Len(queue'[f]) = Len(queue[f])
        BY <2>7, <3>1, WriteFacts
      <3> QED
        BY <1>1, <1>3, <3>1, <3>2 DEF TopOf
    <2>8. CASE Crash(f)
      <3>1. UNCHANGED <<queue, top>> /\ pc'[f] # "pivot"
        BY <2>8 DEF Crash, TypeOK
      <3>2. DOMAIN resume'[f] \subseteq DOMAIN resume[f]
        BY <2>8, CrashFacts
      <3> QED
        BY <1>1, <1>3, <3>1, <3>2 DEF TopOf
    <2>9. CASE MoveQueue(f)
      <3>1. top' = top
        BY <2>9 DEF MoveQueue
      <3>2. Len(queue'[f]) = 0 /\ top[f] \in Nat
        BY <2>9, MoveFacts, NoFilesEmpty, FilesTyped
      <3>3. \A i \in DOMAIN resume'[f] : i \in Nat \ {0} /\ i <= top[f]
        <4>1. resume'[f] = queue[f] \/ resume'[f] = resume[f]
          BY <2>9, MoveFacts
        <4>2. \A i \in DOMAIN queue[f] : i \in Nat \ {0} /\ i <= top[f]
          <5>1. Len(queue[f]) \in Nat /\ DOMAIN queue[f] = 1 .. Len(queue[f])
            BY FilesTyped
          <5>2. Len(queue[f]) <= top[f]
            BY <1>1, <1>3 DEF TopOf
          <5> QED
            BY <3>2, <5>1, <5>2
        <4>3. \A i \in DOMAIN resume[f] : i \in Nat \ {0} /\ i <= top[f]
          BY <1>1, <1>3, FilesTyped DEF TopOf
        <4> QED
          BY <4>1, <4>2, <4>3
      <3>4. \A i \in Unlinked(f)' : Len(queue'[f]) < i
        BY <3>2, <3>3 DEF Unlinked, Whole
      <3>5. Len(queue'[f]) <= top'[f]
        BY <3>1, <3>2
      <3> QED
        BY <1>3, <3>1, <3>3, <3>4, <3>5 DEF TopOf
    <2>10. ASSUME NEW i \in DOMAIN resume[f], PivotInput(f, i)
           PROVE  TopOf(f)'
      <3>1. UNCHANGED <<resume, top>>
        BY <2>10 DEF PivotInput
      <3>2. /\ Len(queue'[f]) = Len(queue[f]) + 1
            /\ Len(queue[f]) \in Nat /\ top[f] \in Nat /\ i \in Nat
        BY <2>10, LinkFacts, FilesTyped
      <3>3. /\ Len(queue[f]) + 1 <= i /\ i <= top[f]
            /\ \A j \in Unlinked(f)' : Len(queue[f]) + 1 < j
        BY <2>10, LinkedNext
      <3>4. Len(queue'[f]) <= top'[f] /\ \A j \in Unlinked(f)' : Len(queue'[f]) < j
        BY <3>1, <3>2, <3>3
      <3> QED
        BY <1>1, <1>3, <3>1, <3>4 DEF TopOf
    <2>11. CASE NukeResumeDir(f)
      <3>1. UNCHANGED <<queue, top>> /\ pc'[f] # "pivot" /\ DOMAIN resume'[f] = {}
        BY <2>11, NukeFacts DEF NukeResumeDir, TypeOK
      <3> QED
        BY <1>1, <1>3, <3>1 DEF TopOf
    <2>12. CASE DryRun(f)
      <3>1. UNCHANGED <<resume, top>> /\ pc'[f] # "pivot" /\ Len(queue'[f]) = Len(queue[f])
        <4>1. UNCHANGED <<resume, top>> /\ pc'[f] = "fuzz"
          BY <2>12 DEF DryRun, TypeOK
        <4>2. Len(queue'[f]) = Len(queue[f])
          BY <2>12, DryFacts
        <4> QED
          BY <4>1, <4>2
      <3> QED
        BY <1>1, <1>3, <3>1 DEF TopOf
    <2> QED
      BY <1>3, <2>3, <2>4, <2>5, <2>6, <2>7, <2>8, <2>9, <2>10, <2>11, <2>12
      DEF Act, Sync, Resume
  <1> QED
    BY <1>2, <1>3

-----------------------------------------------------------------------------
(* The contents of files.                                                   *)

LEMMA ContentsFrame ==
  ASSUME NEW f \in Fuzzer, ContentsOf(f),
         UNCHANGED <<queue, resume, lost>>, ~Saving(f)', Working(f)' => Working(f) /\ ~Saving(f),
         pc'[f] \in {"pivot", "dry"} => pc[f] = pc'[f],
         pc[f] \in {"down", "pivot"} => pc'[f] \in {"down", "pivot"}
  PROVE  ContentsOf(f)'
  BY DEF ContentsOf, Whole

LEMMA ContentsKeep ==
  ASSUME TypeOK, NEW f \in Fuzzer, ContentsOf(f), NEW B \in Cases, Saves(f, B),
         Working(f), ~Saving(f), Saving(f)'
  PROVE  ContentsOf(f)'
  <1>1. /\ Keep(f, B) /\ UNCHANGED <<resume, lost>> /\ Len(queue[f]) \in Nat
        /\ DOMAIN queue[f] = 1 .. Len(queue[f])
    BY FilesTyped DEF Saves
  <1>2. /\ Len(queue'[f]) = Len(queue[f]) + 1
        /\ DOMAIN queue'[f] = 1 .. Len(queue[f]) + 1
        /\ \A i \in DOMAIN queue[f] : queue'[f][i] = queue[f][i]
    BY <1>1, KeepQueue
  <1>3. Len(queue'[f]) > 0
    BY <1>1, <1>2
  <1>4. ASSUME NEW i \in DOMAIN queue'[f]
        PROVE  \/ queue'[f][i].written
               \/ queue'[f][i].bits \subseteq lost'[f]
               \/ i = Len(queue'[f])
    <2>1. i \in DOMAIN queue[f] \/ i = Len(queue'[f])
      BY <1>1, <1>2
    <2>2. CASE i \in DOMAIN queue[f]
      BY <1>1, <1>2, <2>2 DEF ContentsOf
    <2> QED
      BY <2>1, <2>2
  <1>5. pc'[f] \notin {"pivot", "dry"}
    BY DEF Saving
  <1>6. DOMAIN resume'[f] = {}
    BY <1>1 DEF ContentsOf, Working
  <1> QED
    BY <1>3, <1>4, <1>5, <1>6 DEF ContentsOf

LEMMA ContentsWrite ==
  ASSUME TypeOK, NEW f \in Fuzzer, ContentsOf(f), Write(f)
  PROVE  ContentsOf(f)'
  <1>1. /\ Len(queue[f]) > 0 /\ Saving(f) /\ Working(f) /\ resume' = resume
        /\ pc'[f] \in {"fuzz", "read"}
    BY DEF Write, ContentsOf, Saving, Working, TypeOK
  <1>2. /\ DOMAIN queue'[f] = DOMAIN queue[f] /\ lost[f] \subseteq lost'[f]
        /\ \A i \in DOMAIN queue[f] : i # Len(queue[f]) => queue'[f][i] = queue[f][i]
        /\ LET n == Len(queue[f])
           IN  queue'[f][n].written \/ queue'[f][n].bits \subseteq lost'[f]
    BY <1>1, WriteFacts
  <1>3. \A i \in DOMAIN queue'[f] :
            queue'[f][i].written \/ queue'[f][i].bits \subseteq lost'[f]
    BY <1>1, <1>2 DEF ContentsOf
  <1>4. DOMAIN resume'[f] = {}
    BY <1>1 DEF ContentsOf, Working
  <1> QED
    BY <1>1, <1>3, <1>4 DEF ContentsOf, Saving

LEMMA ContentsCrash ==
  ASSUME TypeOK, NEW f \in Fuzzer, ContentsOf(f), Crash(f)
  PROVE  ContentsOf(f)'
  <1>1. PICK S \in Left(f) :
            /\ S \subseteq DOMAIN resume[f]
            /\ DOMAIN resume'[f] = S /\ \A i \in S : resume'[f][i] = resume[f][i]
            /\ lost'[f] = lost[f] \cup LostBits(f, S)
    BY CrashFacts
  <1>2. pc'[f] = "down" /\ queue' = queue
    BY DEF Crash, TypeOK
  <1>3. ASSUME S # {}, NEW i \in DOMAIN queue[f]
        PROVE  queue[f][i].bits \subseteq BitsAt(resume'[f], Whole(resume'[f])) \cup lost'[f]
    <2>1. queue[f][i].bits \subseteq BitsAt(resume[f], Whole(resume[f])) \cup lost[f]
      BY <1>1, <1>3 DEF ContentsOf
    <2>2. LostBits(f, S) = BitsAt(resume[f], Whole(resume[f]) \ S)
      BY <1>3 DEF LostBits
    <2>3. BitsAt(resume[f], Whole(resume[f]) \cap S) \subseteq BitsAt(resume'[f], Whole(resume'[f]))
      BY <1>1 DEF BitsAt, Whole
    <2>4. BitsAt(resume[f], Whole(resume[f])) \subseteq
              BitsAt(resume[f], Whole(resume[f]) \ S) \cup BitsAt(resume[f], Whole(resume[f]) \cap S)
      BY DEF BitsAt
    <2> QED
      BY <1>1, <2>1, <2>2, <2>3, <2>4
  <1> QED
    BY <1>1, <1>2, <1>3 DEF ContentsOf, Saving, Working

LEMMA ContentsResume ==
  ASSUME TypeOK, NEW f \in Fuzzer, ContentsOf(f),
         \/ MoveQueue(f) \/ NukeResumeDir(f) \/ DryRun(f)
         \/ \E i \in DOMAIN resume[f] : PivotInput(f, i)
  PROVE  ContentsOf(f)'
  <1>1. CASE MoveQueue(f)
    <2>1. pc'[f] = "pivot" /\ DOMAIN queue'[f] = {}
      BY <1>1, MoveFacts DEF MoveQueue, TypeOK
    <2> QED
      BY <2>1 DEF ContentsOf, Saving, Working
  <1>2. CASE NukeResumeDir(f)
    <2>1. pc[f] = "pivot" /\ pc'[f] = "dry" /\ queue' = queue /\ DOMAIN resume'[f] = {}
      BY <1>2, NukeFacts DEF NukeResumeDir, TypeOK
    <2> QED
      BY <2>1 DEF ContentsOf, Saving, Working
  <1>3. CASE DryRun(f)
    <2>1. pc[f] = "dry" /\ pc'[f] = "fuzz" /\ resume' = resume
      BY <1>3 DEF DryRun, TypeOK
    <2>2. \A i \in DOMAIN queue'[f] : queue'[f][i].written
      <3>1. /\ DOMAIN queue'[f] = DOMAIN queue[f]
            /\ \A i \in DOMAIN queue[f] : queue'[f][i].written = queue[f][i].written
        BY <1>3, DryFacts
      <3> QED
        BY <2>1, <3>1 DEF ContentsOf
    <2>3. DOMAIN resume'[f] = {}
      BY <2>1 DEF ContentsOf
    <2> QED
      BY <2>1, <2>2, <2>3 DEF ContentsOf, Saving
  <1>4. ASSUME NEW i \in DOMAIN resume[f], PivotInput(f, i)
        PROVE  ContentsOf(f)'
    <2>1. pc' = pc /\ pc[f] = "pivot" /\ UNCHANGED <<resume, lost>>
      BY <1>4 DEF PivotInput
    <2>2. /\ Len(queue[f]) \in Nat /\ DOMAIN queue[f] = 1 .. Len(queue[f])
          /\ DOMAIN queue'[f] = 1 .. Len(queue[f]) + 1
          /\ \A j \in DOMAIN queue[f] : queue'[f][j] = queue[f][j]
          /\ queue'[f][Len(queue[f]) + 1].bits = resume[f][i].bits
          /\ queue'[f][Len(queue[f]) + 1].written
          /\ queue'[f][Len(queue[f]) + 1].run = "dry"
          /\ i \in Whole(resume[f])
      BY <1>4, LinkFacts, FilesTyped
    <2>3. resume[f][i].bits \subseteq BitsAt(resume[f], Whole(resume[f]))
      BY <2>2, BitsAtMember
    <2>4. ASSUME NEW j \in DOMAIN queue'[f]
          PROVE  /\ queue'[f][j].written /\ queue'[f][j].run = "dry"
                 /\ queue'[f][j].bits \subseteq BitsAt(resume[f], Whole(resume[f])) \cup lost[f]
      <3>1. j \in DOMAIN queue[f] \/ j = Len(queue[f]) + 1
        BY <2>2
      <3>2. CASE j \in DOMAIN queue[f]
        BY <2>1, <2>2, <3>2 DEF ContentsOf
      <3>3. CASE j = Len(queue[f]) + 1
        BY <2>2, <2>3, <3>3
      <3> QED
        BY <3>1, <3>2, <3>3
    <2> QED
      BY <2>1, <2>4 DEF ContentsOf, Saving, Working, Whole
  <1> QED
    BY <1>1, <1>2, <1>3, <1>4

LEMMA ContentsStep ==
  ASSUME TypeOK, Contents, NEW f \in Fuzzer, Act(f)
  PROVE  Contents'
  <1> SUFFICES ASSUME NEW g \in Fuzzer
               PROVE  ContentsOf(g)'
    BY DEF Contents
  <1>1. ContentsOf(g)
    BY DEF Contents
  <1>2. CASE g # f
    BY <1>1, <1>2, OthersKept DEF ContentsOf, Saving, Working, Whole
  <1>3. CASE g = f
    <2>1. ASSUME NEW B \in Cases, Discover(f, B)
          PROVE  ContentsOf(f)'
      <3>1. Saves(f, B) /\ pc[f] = "fuzz" /\ pc'[f] = "save"
        BY <2>1 DEF Discover, Saves, TypeOK
      <3> QED
        BY <1>1, <1>3, <3>1, ContentsKeep DEF Working, Saving
    <2>2. ASSUME UNCHANGED <<queue, resume, lost>>, pc[f] \in {"fuzz", "scan", "read"},
                 pc'[f] \in {"fuzz", "scan", "read"}
          PROVE  ContentsOf(f)'
      BY <1>1, <1>3, <2>2, ContentsFrame DEF Working, Saving
    <2>3. CASE BeginSync(f) \/ \E h \in Fuzzer : OpenQueue(f, h)
      <3>1. UNCHANGED <<queue, resume, lost>> /\ pc[f] \in {"fuzz", "scan"}
        BY <2>3 DEF BeginSync, OpenQueue, histVars
      <3>2. pc'[f] \in {"fuzz", "scan", "read"}
        <4>1. \E D : pc' = [pc EXCEPT ![f] = NextDir(D)] \/ pc' = [pc EXCEPT ![f] = "read"]
          BY <2>3, Zenon DEF BeginSync, OpenQueue
        <4>2. PICK p \in {"fuzz", "scan", "read"} : pc' = [pc EXCEPT ![f] = p]
          <5>1. \A D : NextDir(D) \in {"fuzz", "scan", "read"}
            BY NextDirTyped
          <5> QED
            BY <4>1, <5>1
        <4>3. pc \in [Fuzzer -> {"fuzz", "save", "import", "scan", "read", "down", "pivot", "dry"}]
          BY DEF TypeOK
        <4> QED
          BY <4>2, <4>3
      <3> QED
        BY <1>3, <2>2, <3>1, <3>2
    <2>4. ASSUME NEW i \in Names(f), ReadEntry(f, i)
          PROVE  ContentsOf(f)'
      <3>1. pc[f] = "read" /\ UNCHANGED <<resume, lost>>
        BY <2>4 DEF ReadEntry
      <3>2. CASE UNCHANGED <<pc, queue>>
        BY <2>2, <3>1, <3>2
      <3>3. CASE /\ Readable(f, i) /\ Keep(f, queue[party[f]][i].bits)
                 /\ Interesting(f, queue[party[f]][i].bits)
                 /\ pc' = [pc EXCEPT ![f] = "import"]
        <4>1. PICK B \in Cases : Saves(f, B)
          BY <3>1, <3>3, ReadableFile DEF Saves
        <4>2. pc'[f] = "import"
          BY <3>3 DEF TypeOK
        <4> QED
          BY <1>1, <1>3, <3>1, <4>1, <4>2, ContentsKeep DEF Working, Saving
      <3> QED
        BY <2>4, <3>2, <3>3, EntryFacts
    <2>5. CASE EndQueue(f)
      <3>1. UNCHANGED <<queue, resume, lost>> /\ pc[f] = "read"
        BY <2>5 DEF EndQueue
      <3>2. pc'[f] \in {"fuzz", "scan", "read"}
        BY <2>5, NextDirTyped DEF EndQueue, TypeOK
      <3> QED
        BY <1>3, <2>2, <3>1, <3>2
    <2> QED
      BY <1>1, <1>3, <2>1, <2>3, <2>4, <2>5, ContentsWrite, ContentsCrash, ContentsResume
      DEF Act, Sync, Resume
  <1> QED
    BY <1>2, <1>3

-----------------------------------------------------------------------------
(* What has been seen, and the progress of each queue.                      *)

SeenOf(f) == Working(f) => seen[f] = BitsAt(queue[f], Counting(f, Len(queue[f]) + 1))

ProgressOf(f) ==
    \A j \in DOMAIN queue[f] :
        queue[f][j].run = "kept"
            => ~(queue[f][j].bits \subseteq BitsAt(queue[f], Counting(f, j)))

LEMMA SeenParts ==
  /\ SeenByQueue <=> \A f \in Fuzzer : SeenOf(f)
  /\ SeenByQueue' <=> \A f \in Fuzzer : SeenOf(f)'
  /\ QueueProgress <=> \A f \in Fuzzer : ProgressOf(f)
  /\ QueueProgress' <=> \A f \in Fuzzer : ProgressOf(f)'
  BY DEF SeenByQueue, SeenOf, Working, QueueProgress, ProgressOf

\* The cases that count before position j, where nothing changes.
LEMMA CountingNext ==
  ASSUME NEW f \in Fuzzer, NEW j \in Nat,
         \A i \in 1 .. j - 1 : /\ queue'[f][i].bits = queue[f][i].bits
                               /\ queue'[f][i].run = queue[f][i].run
  PROVE  /\ Counting(f, j)' = Counting(f, j)
         /\ BitsAt(queue'[f], Counting(f, j)) = BitsAt(queue[f], Counting(f, j))
  <1>1. Counting(f, j)' = Counting(f, j)
    BY DEF Counting
  <1>2. \A i \in Counting(f, j) : queue'[f][i].bits = queue[f][i].bits
    BY DEF Counting
  <1>3. BitsAt(queue'[f], Counting(f, j)) = BitsAt(queue[f], Counting(f, j))
    BY <1>2 DEF BitsAt
  <1> QED
    BY <1>1, <1>3

\* A new case covers something that none of those before it does.
LEMMA SeenKeep ==
  ASSUME TypeOK, NEW f \in Fuzzer, SeenOf(f), ProgressOf(f), NEW B \in Cases, Saves(f, B),
         Working(f)
  PROVE  SeenOf(f)' /\ ProgressOf(f)'
  <1>1. Keep(f, B) /\ ~(B \subseteq seen[f])
    BY DEF Saves, Interesting
  <1>2. PICK n \in Nat : n = Len(queue[f]) + 1
    BY FilesTyped
  <1>3. /\ DOMAIN queue[f] = 1 .. n - 1 /\ DOMAIN queue'[f] = 1 .. n
        /\ Len(queue'[f]) = n
        /\ \A i \in 1 .. n - 1 : queue'[f][i] = queue[f][i]
        /\ queue'[f][n].bits = B /\ queue'[f][n].run = "kept"
        /\ seen'[f] = seen[f] \cup B
        /\ queue'[f][n] \in File
    <2>1. Len(queue[f]) = n - 1
      BY <1>2, FilesTyped
    <2>2. NewFile(f, B).bits = B /\ NewFile(f, B).run = "kept"
      BY DEF NewFile
    <2> QED
      BY <1>1, <1>2, <2>1, <2>2, KeepQueue, KeepCounts, FilesTyped
  <1>4. seen[f] = BitsAt(queue[f], Counting(f, n))
    BY <1>2 DEF SeenOf
  <1>5. ASSUME NEW j \in 1 .. n
        PROVE  /\ Counting(f, j)' = Counting(f, j)
               /\ BitsAt(queue'[f], Counting(f, j)) = BitsAt(queue[f], Counting(f, j))
    <2>1. \A i \in 1 .. j - 1 : /\ queue'[f][i].bits = queue[f][i].bits
                                /\ queue'[f][i].run = queue[f][i].run
      BY <1>2, <1>3
    <2> QED
      BY <2>1, CountingNext
  <1>6. SeenOf(f)'
    <2>1. Counting(f, n + 1)' = Counting(f, n)' \cup {n}
      BY <1>2, <1>3 DEF Counting
    <2>2. Counting(f, n + 1)' = Counting(f, n) \cup {n}
      BY <1>2, <1>5, <2>1
    <2>3. BitsAt(queue'[f], Counting(f, n) \cup {n}) = BitsAt(queue'[f], Counting(f, n)) \cup B
      BY <1>3 DEF BitsAt
    <2>4. BitsAt(queue'[f], Counting(f, n)) = seen[f]
      BY <1>2, <1>4, <1>5
    <2>5. seen'[f] = BitsAt(queue'[f], Counting(f, n + 1)')
      BY <1>3, <2>2, <2>3, <2>4
    <2>6. seen'[f] = BitsAt(queue'[f], Counting(f, Len(queue[f]) + 1)')
      BY <1>3, <2>5
    <2> QED
      BY <2>6 DEF SeenOf
  <1>7. ProgressOf(f)'
    <2> SUFFICES ASSUME NEW j \in DOMAIN queue'[f], queue'[f][j].run = "kept"
                 PROVE  ~(queue'[f][j].bits \subseteq BitsAt(queue'[f], Counting(f, j)'))
      BY DEF ProgressOf
    <2>1. j \in 1 .. n
      BY <1>3
    <2>2. BitsAt(queue'[f], Counting(f, j)') = BitsAt(queue[f], Counting(f, j))
      BY <1>5, <2>1
    <2>3. CASE j = n
      BY <1>1, <1>3, <1>4, <2>2, <2>3
    <2>4. CASE j # n
      <3>1. j \in DOMAIN queue[f] /\ queue'[f][j] = queue[f][j]
        BY <1>2, <1>3, <2>1, <2>4
      <3> QED
        BY <2>2, <3>1 DEF ProgressOf
    <2> QED
      BY <2>3, <2>4
  <1> QED
    BY <1>6, <1>7

\* Writing a file changes neither what it covers nor how it came into the queue.
LEMMA SeenWrite ==
  ASSUME TypeOK, NEW f \in Fuzzer, ContentsOf(f), SeenOf(f), ProgressOf(f), Write(f)
  PROVE  SeenOf(f)' /\ ProgressOf(f)'
  <1>1. Len(queue[f]) > 0 /\ Working(f) /\ seen' = seen
    BY DEF Write, ContentsOf, Saving, Working
  <1>2. PICK n \in Nat : n = Len(queue[f]) + 1
    BY FilesTyped
  <1>3. /\ DOMAIN queue[f] = 1 .. n - 1 /\ DOMAIN queue'[f] = 1 .. n - 1
        /\ Len(queue'[f]) + 1 = n
        /\ \A i \in 1 .. n - 1 : /\ queue'[f][i].bits = queue[f][i].bits
                                 /\ queue'[f][i].run = queue[f][i].run
    <2>1. Len(queue[f]) = n - 1
      BY <1>2, FilesTyped
    <2> QED
      BY <1>1, <1>2, <2>1, WriteFacts, FilesTyped
  <1>4. ASSUME NEW j \in 1 .. n
        PROVE  /\ Counting(f, j)' = Counting(f, j)
               /\ BitsAt(queue'[f], Counting(f, j)) = BitsAt(queue[f], Counting(f, j))
    <2>1. \A i \in 1 .. j - 1 : /\ queue'[f][i].bits = queue[f][i].bits
                                /\ queue'[f][i].run = queue[f][i].run
      BY <1>2, <1>3
    <2> QED
      BY <2>1, CountingNext
  <1>5. SeenOf(f)'
    <2>1. seen[f] = BitsAt(queue[f], Counting(f, n))
      BY <1>1, <1>2 DEF SeenOf
    <2>2. n \in 1 .. n
      BY <1>2, <1>1, FilesTyped
    <2>3. seen'[f] = BitsAt(queue'[f], Counting(f, n)')
      BY <1>1, <1>4, <2>1, <2>2
    <2>4. seen'[f] = BitsAt(queue'[f], Counting(f, Len(queue[f]) + 1)')
      BY <1>3, <2>3
    <2> QED
      BY <2>4 DEF SeenOf
  <1>6. ProgressOf(f)'
    <2> SUFFICES ASSUME NEW j \in DOMAIN queue'[f], queue'[f][j].run = "kept"
                 PROVE  ~(queue'[f][j].bits \subseteq BitsAt(queue'[f], Counting(f, j)'))
      BY DEF ProgressOf
    <2>1. j \in 1 .. n /\ j \in 1 .. n - 1
      BY <1>2, <1>3
    <2>2. BitsAt(queue'[f], Counting(f, j)') = BitsAt(queue[f], Counting(f, j))
      BY <1>4, <2>1
    <2> QED
      BY <1>3, <2>1, <2>2 DEF ProgressOf
  <1> QED
    BY <1>5, <1>6

\* A dry run sees what the cases cover whose run does not fail.
LEMMA SeenDry ==
  ASSUME TypeOK, NEW f \in Fuzzer, ContentsOf(f), DryRun(f)
  PROVE  SeenOf(f)' /\ ProgressOf(f)'
  <1>1. pc[f] = "dry"
    BY DEF DryRun
  <1>2. PICK S \in SUBSET DOMAIN queue[f] :
            /\ Len(queue'[f]) = Len(queue[f]) /\ DOMAIN queue'[f] = DOMAIN queue[f]
            /\ \A i \in DOMAIN queue[f] :
                  /\ queue'[f][i].bits = queue[f][i].bits
                  /\ queue'[f][i].run = IF i \in S THEN "failed" ELSE queue[f][i].run
            /\ seen'[f] = BitsAt(queue[f], DOMAIN queue[f] \ S)
    BY DryFacts
  <1>3. PICK n \in Nat : n = Len(queue[f])
    BY FilesTyped
  <1>4. DOMAIN queue[f] = 1 .. n
    BY <1>3, FilesTyped
  <1>5. \A i \in DOMAIN queue[f] : queue'[f][i].run = IF i \in S THEN "failed" ELSE "dry"
    BY <1>1, <1>2 DEF ContentsOf
  <1>6. Counting(f, n + 1)' = DOMAIN queue[f] \ S
    BY <1>3, <1>4, <1>5 DEF Counting
  <1>7. BitsAt(queue'[f], DOMAIN queue[f] \ S) = BitsAt(queue[f], DOMAIN queue[f] \ S)
    BY <1>2 DEF BitsAt
  <1>8. seen'[f] = BitsAt(queue'[f], Counting(f, Len(queue[f]) + 1)')
    BY <1>2, <1>3, <1>6, <1>7
  <1>9. ProgressOf(f)'
    BY <1>2, <1>5 DEF ProgressOf
  <1> QED
    BY <1>8, <1>9 DEF SeenOf

\* A session that is being resumed has seen nothing yet.
LEMMA SeenResume ==
  ASSUME TypeOK, NEW f \in Fuzzer, ProgressOf(f),
         \/ Crash(f) \/ MoveQueue(f) \/ NukeResumeDir(f)
         \/ \E i \in DOMAIN resume[f] : PivotInput(f, i)
  PROVE  SeenOf(f)' /\ ProgressOf(f)'
  <1>1. ~Working(f)'
    BY DEF Crash, MoveQueue, NukeResumeDir, PivotInput, Working, TypeOK
  <1>2. SeenOf(f)'
    BY <1>1 DEF SeenOf
  <1>3. CASE Crash(f) \/ NukeResumeDir(f)
    <2>1. queue' = queue
      BY <1>3 DEF Crash, NukeResumeDir
    <2> QED
      BY <1>2, <2>1 DEF ProgressOf, Counting
  <1>4. CASE MoveQueue(f)
    <2>1. DOMAIN queue'[f] = {}
      BY <1>4, MoveFacts
    <2> QED
      BY <1>2, <2>1 DEF ProgressOf
  <1>5. ASSUME NEW i \in DOMAIN resume[f], PivotInput(f, i)
        PROVE  ProgressOf(f)'
    <2> SUFFICES ASSUME NEW j \in DOMAIN queue'[f], queue'[f][j].run = "kept"
                 PROVE  ~(queue'[f][j].bits \subseteq BitsAt(queue'[f], Counting(f, j)'))
      BY DEF ProgressOf
    <2>1. PICK n \in Nat : n = Len(queue[f])
      BY FilesTyped
    <2>2. /\ DOMAIN queue[f] = 1 .. n /\ DOMAIN queue'[f] = 1 .. n + 1
          /\ \A k \in DOMAIN queue[f] : queue'[f][k] = queue[f][k]
          /\ queue'[f][n + 1].run = "dry"
      BY <1>5, <2>1, LinkFacts, FilesTyped
    <2>3. j \in 1 .. n
      BY <2>1, <2>2
    <2>4. \A k \in 1 .. j - 1 : queue'[f][k] = queue[f][k]
      BY <2>1, <2>2, <2>3
    <2>5. BitsAt(queue'[f], Counting(f, j)') = BitsAt(queue[f], Counting(f, j))
      BY <2>3, <2>4, CountingNext
    <2> QED
      BY <2>2, <2>3, <2>5 DEF ProgressOf
  <1> QED
    BY <1>2, <1>3, <1>4, <1>5

LEMMA SeenStep ==
  ASSUME TypeOK, Contents, SeenByQueue, QueueProgress, NEW f \in Fuzzer, Act(f)
  PROVE  SeenByQueue' /\ QueueProgress'
  <1> SUFFICES ASSUME NEW g \in Fuzzer
               PROVE  SeenOf(g)' /\ ProgressOf(g)'
    BY SeenParts
  <1>1. SeenOf(g) /\ ProgressOf(g) /\ ContentsOf(g)
    BY SeenParts DEF Contents
  <1>2. CASE g # f
    <2>1. queue'[g] = queue[g] /\ seen'[g] = seen[g] /\ pc'[g] = pc[g]
      BY <1>2, OthersKept
    <2>2. SeenOf(g)'
      BY <1>1, <2>1 DEF SeenOf, Working, Counting
    <2>3. ProgressOf(g)'
      BY <1>1, <2>1 DEF ProgressOf, Counting
    <2> QED
      BY <2>2, <2>3
  <1>3. CASE g = f
    <2>1. ASSUME NEW B \in Cases, Discover(f, B)
          PROVE  SeenOf(f)' /\ ProgressOf(f)'
      <3>1. Saves(f, B) /\ Working(f)
        BY <2>1 DEF Discover, Saves, Working
      <3> QED
        BY <1>1, <1>3, <3>1, SeenKeep
    <2>2. ASSUME UNCHANGED <<queue, seen>>, Working(f)
          PROVE  SeenOf(f)' /\ ProgressOf(f)'
      BY <1>1, <1>3, <2>2 DEF SeenOf, ProgressOf, Counting
    <2>3. CASE BeginSync(f) \/ (\E h \in Fuzzer : OpenQueue(f, h)) \/ EndQueue(f)
      <3>1. UNCHANGED <<queue, seen>> /\ Working(f)
        BY <2>3 DEF BeginSync, OpenQueue, EndQueue, Working
      <3> QED
        BY <1>3, <2>2, <3>1
    <2>4. ASSUME NEW i \in Names(f), ReadEntry(f, i)
          PROVE  SeenOf(f)' /\ ProgressOf(f)'
      <3>1. Working(f) /\ UNCHANGED <<resume, lost>>
        BY <2>4 DEF ReadEntry, Working
      <3>2. CASE UNCHANGED <<queue, seen>>
        BY <2>2, <3>1, <3>2
      <3>3. CASE /\ Readable(f, i) /\ Keep(f, queue[party[f]][i].bits)
                 /\ Interesting(f, queue[party[f]][i].bits)
        <4>1. PICK B \in Cases : Saves(f, B)
          BY <3>1, <3>3, ReadableFile DEF Saves
        <4> QED
          BY <1>1, <1>3, <3>1, <4>1, SeenKeep
      <3> QED
        BY <2>4, <3>2, <3>3, EntryFacts
    <2> QED
      BY <1>1, <1>3, <2>1, <2>3, <2>4, SeenWrite, SeenDry, SeenResume
      DEF Act, Sync, Resume
  <1> QED
    BY <1>2, <1>3

\* At work, what a fuzzer has seen is covered by its files.
LEMMA SeenCovered ==
  ASSUME TypeOK, NEW f \in Fuzzer, ContentsOf(f), SeenOf(f), Working(f), ~Saving(f)
  PROVE  seen[f] \subseteq Covered(f)
  <1>1. seen[f] = BitsAt(queue[f], Counting(f, Len(queue[f]) + 1))
    BY DEF SeenOf
  <1>2. ASSUME NEW i \in Counting(f, Len(queue[f]) + 1)
        PROVE  queue[f][i].bits \subseteq Covered(f)
    <2>1. PICK n \in Nat : n = Len(queue[f])
      BY FilesTyped
    <2>2. i \in DOMAIN queue[f]
      BY <1>2, <2>1, FilesTyped DEF Counting
    <2>3. queue[f][i].written \/ queue[f][i].bits \subseteq lost[f]
      BY <2>2 DEF ContentsOf
    <2> QED
      BY <2>2, <2>3, CoveredBits DEF Whole
  <1> QED
    BY <1>1, <1>2 DEF BitsAt

-----------------------------------------------------------------------------
(* Marks.                                                                   *)

LEMMA HandledStays ==
  ASSUME TypeOK, SerialsKept, Contents, NEW f \in Fuzzer, Act(f),
         NEW h \in Fuzzer, NEW g \in Fuzzer, NEW y, NEW x, SameCase(y, x), Handled(h, g, y)
  PROVE  /\ x.serial \in excused'[h][g] \/ x.bits \subseteq Covered(h)'
         /\ Handled(h, g, x)'
  <1>1. Covered(h) \subseteq Covered(h)' /\ excused[h][g] \subseteq excused'[h][g]
    BY CoveredStep, ExcuseGrows
  <1> QED
    BY <1>1 DEF Handled, SameCase

\* The marks on a queue stay right when none of them moves.
BelowKept(h, g) ==
    \A x \in Below(h, g)' : (\E y \in Below(h, g) : SameCase(y, x)) \/ x.serial \in excused'[h][g]

LEMMA MarkStays ==
  ASSUME TypeOK, SerialsKept, Contents, Marks, NEW f \in Fuzzer, Act(f),
         NEW h \in Fuzzer, NEW g \in Others(h),
         mark'[h][g] = mark[h][g], BelowKept(h, g)
  PROVE  MarkOf(h, g)'
  <1>1. MarkOf(h, g) /\ g \in Fuzzer
    BY DEF Marks, Others
  <1>2. mark[h][g] \in Nat /\ top[g] \in Nat /\ top[g] <= top'[g] /\ top'[g] \in Nat
    <2>1. TypeOK' /\ top[g] <= top'[g]
      BY <1>1, CountsGrow, TypeStep
    <2>2. top'[g] \in Nat
      BY <1>1, <2>1 DEF TypeOK
    <2> QED
      BY <1>1, <2>1, <2>2 DEF TypeOK
  <1>3. mark'[h][g] <= top'[g]
    BY <1>1, <1>2 DEF MarkOf
  <1>4. \A x \in Below(h, g)' : Handled(h, g, x)'
    BY <1>1, HandledStays DEF BelowKept, MarkOf, Handled
  <1> QED
    BY <1>3, <1>4 DEF MarkOf

\* Files that stay where they are, or go.
LEMMA BelowSame ==
  ASSUME NEW h \in Fuzzer, NEW g \in Fuzzer, mark'[h][g] = mark[h][g],
         \A i \in DOMAIN queue'[g] :
            i \in DOMAIN queue[g] /\ SameCase(queue[g][i], queue'[g][i]),
         \A i \in DOMAIN resume'[g] :
            i \in DOMAIN resume[g] /\ SameCase(resume[g][i], resume'[g][i])
  PROVE  BelowKept(h, g)
  BY DEF BelowKept, Below

\* A new file below a mark is excused.
LEMMA BelowKeep ==
  ASSUME TypeOK, NEW h \in Fuzzer, NEW g \in Fuzzer, NEW B \in Cases, Saves(g, B),
         mark'[h][g] = mark[h][g], mark[h][g] <= top[g]
  PROVE  BelowKept(h, g)
  <1>1. Keep(g, B) /\ resume' = resume
    BY DEF Saves
  <1>2. PICK n \in Nat : n = Len(queue[g]) + 1
    BY FilesTyped
  <1>3. /\ DOMAIN queue[g] = 1 .. n - 1 /\ DOMAIN queue'[g] = 1 .. n
        /\ \A i \in 1 .. n - 1 : queue'[g][i] = queue[g][i]
        /\ queue'[g][n].serial = made[g] + 1
    <2>1. Len(queue[g]) = n - 1
      BY <1>2, FilesTyped
    <2>2. NewFile(g, B).serial = made[g] + 1
      BY DEF NewFile
    <2> QED
      BY <1>1, <1>2, <2>1, <2>2, KeepQueue, FilesTyped
  <1>4. mark[h][g] \in Nat /\ top[g] \in Nat
    BY DEF TypeOK
  <1>5. n <= mark[h][g] => queue'[g][n].serial \in excused'[h][g]
    <2>1. n <= mark[h][g] => n <= top[g]
      BY <1>2, <1>4
    <2> QED
      BY <1>1, <1>2, <1>3, <2>1, KeepExcuse
  <1>6. ASSUME NEW i \in DOMAIN queue'[g], i <= mark[h][g]
        PROVE  queue'[g][i] \in Below(h, g) \/ queue'[g][i].serial \in excused'[h][g]
    <2>1. i \in 1 .. n - 1 \/ i = n
      BY <1>2, <1>3
    <2> QED
      BY <1>3, <1>5, <1>6, <2>1 DEF Below
  <1> QED
    BY <1>1, <1>6 DEF BelowKept, Below, SameCase

\* A case linked back below a mark was below it before, or is excused.
LEMMA BelowLink ==
  ASSUME TypeOK, NEW h \in Fuzzer, NEW g \in Fuzzer,
         NEW k \in DOMAIN resume[g], PivotInput(g, k)
  PROVE  BelowKept(h, g)
  <1>1. resume' = resume /\ mark' = mark
    BY DEF PivotInput
  <1>2. PICK n \in Nat : n = Len(queue[g]) + 1
    BY FilesTyped
  <1>3. /\ DOMAIN queue[g] = 1 .. n - 1 /\ DOMAIN queue'[g] = 1 .. n
        /\ \A i \in 1 .. n - 1 : queue'[g][i] = queue[g][i]
        /\ SameCase(resume[g][k], queue'[g][n])
        /\ n <= mark[h][g] /\ mark[h][g] < k => resume[g][k].serial \in excused'[h][g]
    <2>1. Len(queue[g]) = n - 1
      BY <1>2, FilesTyped
    <2> QED
      BY <1>2, <2>1, LinkFacts, FilesTyped DEF SameCase
  <1>4. mark[h][g] \in Nat /\ k \in Nat
    BY FilesTyped DEF TypeOK
  <1>5. ASSUME NEW i \in DOMAIN queue'[g], i <= mark[h][g]
        PROVE  \/ \E y \in Below(h, g) : SameCase(y, queue'[g][i])
               \/ queue'[g][i].serial \in excused'[h][g]
    <2>1. CASE i \in 1 .. n - 1
      BY <1>3, <1>5, <2>1 DEF Below, SameCase
    <2>2. CASE i = n /\ k <= mark[h][g]
      BY <1>3, <2>2 DEF Below
    <2>3. CASE i = n /\ mark[h][g] < k
      BY <1>3, <1>5, <2>3 DEF SameCase
    <2> QED
      BY <1>2, <1>3, <1>4, <2>1, <2>2, <2>3
  <1> QED
    BY <1>1, <1>5 DEF BelowKept, Below, SameCase

\* A mark that is written passes only cases handled.
LEMMA MarkWritten ==
  ASSUME IInv, NEW h \in Fuzzer, EndQueue(h)
  PROVE  \E g \in Others(h) : g = party[h] /\ MarkOf(h, g)'
  <1>1. TypeOK /\ SerialsKept /\ Contents /\ Marks /\ ScanOf(h) /\ ContentsOf(h) /\ SeenOf(h)
    BY SeenParts DEF IInv, Scans, Contents
  <1>2. pc[h] = "read" /\ Exhausted(h) /\ UNCHANGED <<queue, resume, top, lost>>
    BY DEF EndQueue
  <1>3. PICK g \in Others(h) : g = party[h]
    BY <1>1, <1>2 DEF ScanOf, Reading
  <1>4. g \in Fuzzer /\ Act(h)
    BY <1>3 DEF Others, Act, Sync
  <1>5. /\ next_min[h] <= top[g] /\ MarkOf(h, g)
        /\ mark[h][g] \in Nat /\ next_min[h] \in Nat
    BY <1>1, <1>2, <1>3, <1>4 DEF ScanOf, Reading, Marks, TypeOK
  <1>6. mark'[h][g] = next_min[h]
    <2>1. mark' = [mark EXCEPT ![h][g] = next_min[h]] /\ mark \in [Fuzzer -> [Fuzzer -> Nat]]
      BY <1>1, <1>3 DEF EndQueue, NewMark, TypeOK
    <2> QED
      BY <1>4, <2>1
  <1>7. Missed(h) \ returned[h] \subseteq excused'[h][g]
    <2>1. Missed(h) \ returned[h] \in SUBSET Nat /\ Excuse(h, Missed(h) \ returned[h])
      BY <1>1, MissedTyped DEF EndQueue
    <2> QED
      BY <1>1, <1>3, <2>1, ExcuseFacts
  <1>8. ASSUME NEW x \in Files(g), x.serial \in returned[h]
        PROVE  Handled(h, g, x)
    <2>1. seen[h] \subseteq Covered(h)
      BY <1>1, <1>2, SeenCovered DEF Working, Saving
    <2> QED
      BY <1>1, <1>2, <1>3, <1>8, <2>1 DEF ScanOf, Reading, Handled
  <1>9. ASSUME NEW x \in Files(g), Handled(h, g, x)
        PROVE  Handled(h, g, x)'
    BY <1>1, <1>4, <1>9, HandledStays DEF SameCase
  <1>10. ASSUME NEW x \in Files(g), x.serial \in Missed(h) \ returned[h]
         PROVE  Handled(h, g, x)'
    BY <1>7, <1>10 DEF Handled
  <1>11. ASSUME NEW i \in DOMAIN queue[g], i <= next_min[h], NEW x, x = queue[g][i]
         PROVE  Handled(h, g, x)'
    <2>1. x \in Files(g) /\ i \in Nat /\ listed[h] \in Nat
      <3>1. x \in Files(g)
        BY <1>11 DEF Files
      <3>2. i \in Nat
        BY <1>1, <1>4, <1>11, FilesTyped
      <3>3. listed[h] \in Nat
        BY <1>1 DEF TypeOK
      <3> QED
        BY <3>1, <3>2, <3>3
    <2>2. CASE i <= mark[h][g]
      <3>1. Handled(h, g, x)
        BY <1>5, <1>11, <2>2 DEF MarkOf, Below
      <3> QED
        BY <1>9, <2>1, <3>1
    <2>3. CASE mark[h][g] < i /\ (moved[h] \/ i > listed[h])
      <3>1. x.serial \in Missed(h)
        BY <1>3, <1>11, <2>3 DEF Missed, Passed
      <3> QED
        BY <1>8, <1>9, <1>10, <2>1, <3>1
    <2>4. CASE mark[h][g] < i /\ ~moved[h] /\ ~(i > listed[h])
      <3>1. i \notin Names(h)
        BY <1>2, <2>4 DEF Exhausted
      <3>2. i \in DOMAIN Directory(h) /\ Directory(h)[i] = x.serial
        BY <1>3, <1>11, <2>4 DEF Directory, Serials
      <3>3. x.serial \in returned[h]
        BY <1>3, <2>4, <3>1, <3>2 DEF Names, Accepted
      <3> QED
        BY <1>8, <1>9, <2>1, <3>3
    <2> QED
      BY <1>5, <2>1, <2>2, <2>3, <2>4
  <1>12. ASSUME NEW i \in DOMAIN resume[g], i <= next_min[h], NEW x, x = resume[g][i]
         PROVE  Handled(h, g, x)'
    <2>1. x \in Files(g) /\ i \in Nat
      BY <1>1, <1>4, <1>12, FilesTyped DEF Files
    <2>2. CASE i <= mark[h][g]
      <3>1. Handled(h, g, x)
        BY <1>5, <1>12, <2>2 DEF MarkOf, Below
      <3> QED
        BY <1>9, <2>1, <3>1
    <2>3. CASE mark[h][g] < i
      <3>1. x.serial \in Missed(h)
        BY <1>3, <1>12, <2>3 DEF Missed, Passed
      <3> QED
        BY <1>8, <1>9, <1>10, <2>1, <3>1
    <2> QED
      BY <1>5, <2>1, <2>2, <2>3
  <1>13. \A x \in Below(h, g)' : Handled(h, g, x)'
    BY <1>2, <1>6, <1>11, <1>12 DEF Below
  <1>14. MarkOf(h, g)'
    BY <1>2, <1>5, <1>6, <1>13 DEF MarkOf
  <1> QED
    BY <1>3, <1>14

\* Only the end of a scan writes a mark.
LEMMA MarkKeeps ==
  ASSUME TypeOK, NEW f \in Fuzzer, Act(f), NEW h \in Fuzzer, NEW g \in Fuzzer,
         ~(h = f /\ g = party[f] /\ EndQueue(f))
  PROVE  mark'[h][g] = mark[h][g]
  <1>1. CASE EndQueue(f)
    <2>1. /\ mark' = [mark EXCEPT ![f][party[f]] = next_min[f]]
          /\ mark \in [Fuzzer -> [Fuzzer -> Nat]] /\ party[f] \in Fuzzer
          /\ h # f \/ g # party[f]
      BY <1>1 DEF EndQueue, NewMark, TypeOK
    <2> QED
      BY <2>1
  <1>2. ASSUME NEW B \in Cases, Discover(f, B)
        PROVE  mark' = mark
    BY <1>2 DEF Discover
  <1>3. ASSUME NEW i \in Names(f), ReadEntry(f, i)
        PROVE  mark' = mark
    BY <1>3 DEF ReadEntry
  <1>4. ASSUME NEW i \in DOMAIN resume[f], PivotInput(f, i)
        PROVE  mark' = mark
    BY <1>4 DEF PivotInput
  <1>5. ASSUME \/ BeginSync(f) \/ (\E e \in Fuzzer : OpenQueue(f, e)) \/ Write(f)
               \/ Crash(f) \/ MoveQueue(f) \/ NukeResumeDir(f) \/ DryRun(f)
        PROVE  mark' = mark
    BY <1>5 DEF BeginSync, OpenQueue, Write, Crash, MoveQueue, NukeResumeDir, DryRun
  <1> QED
    BY <1>1, <1>2, <1>3, <1>4, <1>5 DEF Act, Sync, Resume

LEMMA BelowStep ==
  ASSUME TypeOK, Contents, Marks, NEW f \in Fuzzer, Act(f),
         NEW h \in Fuzzer, NEW g \in Others(h), mark'[h][g] = mark[h][g]
  PROVE  BelowKept(h, g)
  <1>1. g \in Fuzzer /\ mark[h][g] <= top[g]
    BY DEF Others, Marks, MarkOf
  <1>2. ASSUME \A i \in DOMAIN queue'[g] :
                  i \in DOMAIN queue[g] /\ SameCase(queue[g][i], queue'[g][i]),
               \A i \in DOMAIN resume'[g] :
                  i \in DOMAIN resume[g] /\ SameCase(resume[g][i], resume'[g][i])
        PROVE  BelowKept(h, g)
    BY <1>1, <1>2, BelowSame
  <1>3. ASSUME queue'[g] = queue[g], resume'[g] = resume[g]
        PROVE  BelowKept(h, g)
    BY <1>2, <1>3 DEF SameCase
  <1>4. CASE g # f
    BY <1>1, <1>3, <1>4, OthersKept
  <1>5. CASE g = f
    <2>1. CASE UNCHANGED <<queue, resume, made, top, seen, lost>>
      BY <1>3, <2>1
    <2>2. ASSUME NEW B \in Cases, Saves(f, B)
          PROVE  BelowKept(h, g)
      BY <1>1, <1>5, <2>2, BelowKeep
    <2>3. CASE Write(f)
      <3>1. resume' = resume /\ Len(queue[f]) > 0
        BY <2>3 DEF Write, Contents, ContentsOf, Saving
      <3>2. \A i \in DOMAIN queue'[f] :
                i \in DOMAIN queue[f] /\ SameCase(queue[f][i], queue'[f][i])
        BY <2>3, <3>1, WriteFacts DEF SameCase
      <3> QED
        BY <1>2, <1>5, <3>1, <3>2 DEF SameCase
    <2>4. CASE Crash(f)
      <3>1. queue' = queue
        BY <2>4 DEF Crash
      <3>2. \A i \in DOMAIN resume'[f] :
                i \in DOMAIN resume[f] /\ SameCase(resume[f][i], resume'[f][i])
        BY <2>4, CrashFacts DEF SameCase
      <3> QED
        BY <1>2, <1>5, <3>1, <3>2 DEF SameCase
    <2>5. CASE MoveQueue(f)
      <3>1. DOMAIN queue'[f] = {} /\ (resume'[f] = queue[f] \/ resume'[f] = resume[f])
        BY <2>5, MoveFacts
      <3>2. \A x \in Below(h, g)' : x \in Below(h, g)
        BY <1>5, <3>1 DEF Below
      <3> QED
        BY <3>2 DEF BelowKept, SameCase
    <2>6. ASSUME NEW k \in DOMAIN resume[f], PivotInput(f, k)
          PROVE  BelowKept(h, g)
      BY <1>1, <1>5, <2>6, BelowLink
    <2>7. CASE NukeResumeDir(f)
      <3>1. queue' = queue /\ DOMAIN resume'[f] = {}
        BY <2>7, NukeFacts DEF NukeResumeDir
      <3> QED
        BY <1>2, <1>5, <3>1 DEF SameCase
    <2>8. CASE DryRun(f)
      <3>1. resume' = resume
        BY <2>8 DEF DryRun
      <3>2. \A i \in DOMAIN queue'[f] :
                i \in DOMAIN queue[f] /\ SameCase(queue[f][i], queue'[f][i])
        BY <2>8, DryFacts DEF SameCase
      <3> QED
        BY <1>2, <1>5, <3>1, <3>2 DEF SameCase
    <2> QED
      BY <2>1, <2>2, <2>3, <2>4, <2>5, <2>6, <2>7, <2>8, Kinds DEF Saves
  <1> QED
    BY <1>4, <1>5

LEMMA MarksStep ==
  ASSUME IInv, NEW f \in Fuzzer, Act(f)
  PROVE  Marks'
  <1> SUFFICES ASSUME NEW h \in Fuzzer, NEW g \in Others(h)
               PROVE  MarkOf(h, g)'
    BY DEF Marks, Others
  <1>1. TypeOK /\ SerialsKept /\ Contents /\ Marks /\ g \in Fuzzer
    BY DEF IInv, Others
  <1>2. CASE h = f /\ g = party[f] /\ EndQueue(f)
    BY <1>2, MarkWritten
  <1>3. CASE ~(h = f /\ g = party[f] /\ EndQueue(f))
    BY <1>1, <1>3, MarkKeeps, BelowStep, MarkStays
  <1> QED
    BY <1>2, <1>3

-----------------------------------------------------------------------------
(* Scans.                                                                   *)

\* A scan no step of which is taken.
LEMMA ScanWaits ==
  ASSUME TypeOK, SerialsKept, Tops, Contents, Scans, NEW f \in Fuzzer, Act(f),
         NEW h \in Fuzzer \ {f}
  PROVE  ScanOf(h)'
  <1>1. /\ pc'[h] = pc[h] /\ mark'[h] = mark[h] /\ dirs'[h] = dirs[h]
        /\ party'[h] = party[h] /\ returned'[h] = returned[h]
        /\ next_min'[h] = next_min[h] /\ seen'[h] = seen[h]
    BY OthersKept
  <1>2. ScanOf(h) /\ TypeOK'
    BY TypeStep DEF Scans
  <1>3. old'[h] = old[h] \/ (Reads(h, f) /\ old'[h] = Serials(queue[f]))
    <2>1. CASE MoveQueue(f)
      BY <2>1, MoveFacts
    <2>2. ASSUME CloseQueue(f)
          PROVE  old'[h] = old[h]
      BY <2>2 DEF CloseQueue, TypeOK
    <2>3. ASSUME \/ \E B \in Cases : Discover(f, B)
                 \/ BeginSync(f) \/ Write(f) \/ NukeResumeDir(f) \/ DryRun(f)
                 \/ \E g \in Fuzzer : OpenQueue(f, g)
                 \/ \E i \in Names(f) : ReadEntry(f, i)
                 \/ \E i \in DOMAIN resume[f] : PivotInput(f, i)
          PROVE  old'[h] = old[h]
      BY <2>3 DEF Discover, BeginSync, Write, NukeResumeDir, DryRun, OpenQueue, ReadEntry,
                  PivotInput, scanVars
    <2>4. CASE EndQueue(f) \/ Crash(f)
      BY <2>2, <2>4 DEF EndQueue, Crash
    <2> QED
      BY <2>1, <2>3, <2>4 DEF Act, Sync, Resume
  <1>4. CASE ~Reading(h)
    BY <1>1, <1>2, <1>3, <1>4 DEF ScanOf, Reading, Reads
  <1>5. CASE Reading(h)
    <2>1. PICK g \in Others(h) : g = party[h]
      BY <1>2, <1>5 DEF ScanOf
    <2>2. /\ g \in Fuzzer /\ mark[h][g] <= next_min[h] /\ next_min[h] <= top[g]
          /\ \A i \in DOMAIN old[h] : i <= top[g] /\ old[h][i] <= made[g]
          /\ \A s \in returned[h] : s <= made[g]
          /\ \A x \in Files(g) : x.serial \in returned[h]
                => x.serial \in excused[h][g] \/ x.bits \subseteq seen[h]
      BY <1>2, <1>5, <2>1 DEF ScanOf, Others
    <2>3. /\ made[g] \in Nat /\ top[g] \in Nat /\ made[g] <= made'[g] /\ top[g] <= top'[g]
          /\ made'[g] \in Nat /\ top'[g] \in Nat /\ next_min[h] \in Nat
          /\ old[h] \in Seq(Nat) /\ returned[h] \subseteq Nat
      <3>1. made[g] <= made'[g] /\ top[g] <= top'[g]
        BY <2>2, CountsGrow
      <3>2. made'[g] \in Nat /\ top'[g] \in Nat
        BY <1>2, <2>2 DEF TypeOK
      <3>3. /\ made[g] \in Nat /\ top[g] \in Nat /\ next_min[h] \in Nat
            /\ old[h] \in Seq(Nat) /\ returned[h] \subseteq Nat
        BY <2>2 DEF TypeOK
      <3> QED
        BY <3>1, <3>2, <3>3
    <2>4. \A i \in DOMAIN old'[h] : i <= top'[g] /\ old'[h][i] <= made'[g]
      <3>1. CASE old'[h] = old[h]
        <4>1. \A i \in DOMAIN old[h] : i \in Nat /\ old[h][i] \in Nat
          <5>1. PICK d \in Seq(Nat) : d = old[h]
            BY <2>3
          <5>2. \A i \in DOMAIN d : i \in Nat /\ d[i] \in Nat
            OBVIOUS
          <5> QED
            BY <5>1, <5>2
        <4> QED
          BY <2>2, <2>3, <3>1, <4>1
      <3>2. CASE Reads(h, f) /\ old'[h] = Serials(queue[f])
        <4>1. g = f
          BY <2>1, <3>2 DEF Reads
        <4>2. /\ DOMAIN old'[h] = DOMAIN queue[f]
              /\ \A i \in DOMAIN queue[f] : old'[h][i] = queue[f][i].serial
          BY <3>2, SerialsTyped, FilesTyped
        <4>3. ASSUME NEW i \in DOMAIN queue[f]
              PROVE  i \in Nat /\ i <= top[f] /\ queue[f][i].serial \in Nat
                     /\ queue[f][i].serial <= made[f]
          <5>1. /\ DOMAIN queue[f] = 1 .. Len(queue[f]) /\ Len(queue[f]) \in Nat
                /\ top[f] \in Nat /\ Len(queue[f]) <= top[f]
            BY FilesTyped DEF Tops, TopOf
          <5>2. queue[f][i] \in Files(f)
            BY DEF Files
          <5>3. queue[f][i].serial \in Nat /\ queue[f][i].serial <= made[f]
            BY <5>2, FilesTyped, FileFields DEF SerialsKept, SerialsOf
          <5> QED
            BY <5>1, <5>3
        <4> QED
          BY <2>3, <4>1, <4>2, <4>3
      <3> QED
        BY <1>3, <3>1, <3>2
    <2>5. \A s \in returned[h] : s <= made'[g]
      BY <2>2, <2>3
    <2>6. ASSUME NEW x \in Files(g)', x.serial \in returned[h]
          PROVE  x.serial \in excused'[h][g] \/ x.bits \subseteq seen[h]
      <3>1. excused[h][g] \subseteq excused'[h][g]
        BY <2>2, ExcuseGrows
      <3>2. ASSUME NEW y \in Files(g), SameCase(y, x)
            PROVE  x.serial \in excused'[h][g] \/ x.bits \subseteq seen[h]
        BY <2>2, <2>6, <3>1, <3>2 DEF SameCase
      <3>3. ASSUME NEW B \in Cases, Saves(f, B)
            PROVE  x \in Files(g)
        <4>1. x \in Files(g) \/ (g = f /\ x = NewFile(f, B))
          BY <2>2, <3>3, KeepFiles DEF Saves
        <4>2. NewFile(f, B).serial = made[f] + 1
          BY DEF NewFile
        <4> QED
          BY <2>2, <2>3, <2>6, <4>1, <4>2
      <3> QED
        BY <2>2, <3>2, <3>3, OtherFiles DEF SameCase
    <2>7. next_min[h] <= top'[g]
      BY <2>2, <2>3
    <2> QED
      BY <1>1, <1>2, <1>5, <2>1, <2>2, <2>4, <2>5, <2>6, <2>7 DEF ScanOf, Reading
  <1> QED
    BY <1>4, <1>5

\* A fuzzer that reads no directory.
LEMMA ScanIdle ==
  ASSUME NEW f \in Fuzzer, ~Reading(f)', dirs'[f] \subseteq Others(f),
         returned'[f] = {}, old'[f] = <<>>
  PROVE  ScanOf(f)'
  BY DEF ScanOf, Others

LEMMA ScanClose ==
  ASSUME TypeOK, NEW f \in Fuzzer, ScanOf(f), EndQueue(f) \/ Crash(f)
  PROVE  ScanOf(f)'
  <1>1. returned'[f] = {} /\ old'[f] = <<>>
    BY DEF EndQueue, Crash, CloseQueue, TypeOK
  <1>2. dirs'[f] \subseteq Others(f)
    BY DEF EndQueue, Crash, ScanOf, TypeOK
  <1>3. ~Reading(f)'
    <2>1. CASE EndQueue(f)
      BY <2>1, NextDirTyped DEF EndQueue, Reading, TypeOK
    <2>2. CASE Crash(f)
      BY <2>2 DEF Crash, Reading, TypeOK
    <2> QED
      BY <2>1, <2>2
  <1> QED
    BY <1>1, <1>2, <1>3, ScanIdle

LEMMA ScanOpen ==
  ASSUME TypeOK, Marks, NEW f \in Fuzzer, ScanOf(f), NEW g \in Fuzzer, OpenQueue(f, g)
  PROVE  ScanOf(f)'
  <1>1. /\ pc[f] = "scan" /\ g \in dirs[f] /\ dirs' = [dirs EXCEPT ![f] = dirs[f] \ {g}]
        /\ UNCHANGED <<queue, resume, made, top, seen, mark, moved, old, returned, histVars>>
    BY DEF OpenQueue
  <1>2. /\ g \in Others(f) /\ dirs'[f] \subseteq Others(f)
        /\ returned'[f] = {} /\ old'[f] = <<>>
    BY <1>1 DEF ScanOf, Reading, TypeOK
  <1>3. CASE pc' = [pc EXCEPT ![f] = NextDir(dirs[f] \ {g})]
    <2>1. ~Reading(f)'
      BY <1>3, NextDirTyped DEF Reading, TypeOK
    <2> QED
      BY <1>2, <2>1, ScanIdle
  <1>4. CASE /\ party' = [party EXCEPT ![f] = g]
             /\ next_min' = [next_min EXCEPT ![f] = mark[f][g]]
             /\ pc' = [pc EXCEPT ![f] = "read"]
    <2>1. party'[f] = g /\ next_min'[f] = mark[f][g] /\ pc'[f] = "read"
      BY <1>4 DEF TypeOK
    <2>2. mark[f][g] <= top[g] /\ mark[f][g] \in Nat
      BY <1>2 DEF Marks, MarkOf, TypeOK
    <2>3. DOMAIN old'[f] = {}
      BY <1>2
    <2> QED
      BY <1>1, <1>2, <2>1, <2>2, <2>3 DEF ScanOf, Others, Reading
  <1> QED
    BY <1>3, <1>4, Zenon DEF OpenQueue

\* A name the loop comes to is the number of a case, at a position not above the highest.
LEMMA NameBounds ==
  ASSUME TypeOK, SerialsKept, Tops, NEW f \in Fuzzer, ScanOf(f), Reading(f),
         NEW i \in Names(f), NEW g \in Fuzzer, g = party[f]
  PROVE  i <= top[g] /\ Directory(f)[i] <= made[g]
  <1>1. i \in DOMAIN Directory(f)
    BY DEF Names
  <1>2. CASE moved[f]
    BY <1>1, <1>2 DEF ScanOf, Directory
  <1>3. CASE ~moved[f]
    <2>1. Directory(f) = Serials(queue[g])
      BY <1>3 DEF Directory
    <2>2. i \in DOMAIN queue[g] /\ Directory(f)[i] = queue[g][i].serial
      BY <1>1, <2>1, SerialsTyped, FilesTyped
    <2>3. /\ DOMAIN queue[g] = 1 .. Len(queue[g]) /\ Len(queue[g]) \in Nat
          /\ top[g] \in Nat /\ Len(queue[g]) <= top[g]
      BY FilesTyped DEF Tops, TopOf
    <2>4. queue[g][i] \in Files(g)
      BY <2>2 DEF Files
    <2>5. queue[g][i].serial <= made[g]
      BY <2>4 DEF SerialsKept, SerialsOf
    <2> QED
      BY <2>2, <2>3, <2>5
  <1> QED
    BY <1>2, <1>3

LEMMA ScanRead ==
  ASSUME TypeOK, SerialsKept, Tops, Contents, NEW f \in Fuzzer, ScanOf(f),
         NEW i \in Names(f), ReadEntry(f, i)
  PROVE  ScanOf(f)'
  <1>1. /\ pc[f] = "read" /\ Reading(f)
        /\ UNCHANGED <<resume, mark, dirs, party, listed, moved, old, lost>>
    BY DEF ReadEntry, Reading
  <1>2. PICK g \in Others(f) : g = party[f]
    BY <1>1 DEF ScanOf
  <1>3. /\ g \in Fuzzer /\ g # f /\ Act(f)
        /\ mark[f][g] <= next_min[f] /\ next_min[f] <= top[g]
        /\ \A k \in DOMAIN old[f] : k <= top[g] /\ old[f][k] <= made[g]
        /\ \A s \in returned[f] : s <= made[g]
        /\ \A x \in Files(g) : x.serial \in returned[f]
              => x.serial \in excused[f][g] \/ x.bits \subseteq seen[f]
    BY <1>1, <1>2 DEF ScanOf, Others, Act, Sync
  <1>4. queue'[g] = queue[g] /\ made'[g] = made[g] /\ top'[g] = top[g]
    BY <1>3, OthersKept
  <1>5. /\ returned' = [returned EXCEPT ![f] = returned[f] \cup {Directory(f)[i]}]
        /\ next_min'[f] \in Nat /\ next_min'[f] >= next_min[f]
        /\ next_min'[f] = next_min[f] \/ next_min'[f] = i
    BY EntryFacts
  <1>6. i <= top[g] /\ Directory(f)[i] <= made[g]
    BY <1>1, <1>2, <1>3, NameBounds
  <1>7. returned'[f] = returned[f] \cup {Directory(f)[i]}
    BY <1>5 DEF TypeOK
  <1>8. mark[f][g] <= next_min'[f] /\ next_min'[f] <= top[g]
    <2>1. mark[f][g] \in Nat /\ next_min[f] \in Nat /\ top[g] \in Nat
      BY <1>3 DEF TypeOK
    <2> QED
      BY <1>3, <1>5, <1>6, <2>1
  <1>9. Files(g)' = Files(g)
    BY <1>1, <1>4 DEF Files
  <1>10. /\ excused[f][g] \subseteq excused'[f][g] /\ seen[f] \subseteq seen'[f]
         /\ Reading(f)'
         /\ \/ Directory(f)[i] \in excused'[f][g]
            \/ Readable(f, i) /\ queue[g][i].bits \subseteq seen'[f]
    <2>1. excused[f][g] \subseteq excused'[f][g]
      BY <1>3, ExcuseGrows
    <2>2. CASE /\ UNCHANGED <<pc, queue, made, top, seen>>
               /\ Excuse(f, {Directory(f)[i]})
      <3>1. Directory(f)[i] \in excused'[f][g]
        BY <1>2, <2>2, ExcuseFacts, DirectoryTyped
      <3> QED
        BY <1>1, <2>1, <2>2, <3>1 DEF Reading
    <2>3. CASE /\ Readable(f, i) /\ Keep(f, queue[party[f]][i].bits)
               /\ pc' = [pc EXCEPT ![f] = "import"]
      <3>1. PICK B \in Cases : B = queue[g][i].bits /\ Keep(f, B)
        BY <1>2, <2>3, ReadableFile
      <3>2. seen'[f] = seen[f] \cup B
        BY <3>1, KeepCounts
      <3>3. pc'[f] = "import"
        BY <2>3 DEF TypeOK
      <3> QED
        BY <2>1, <2>3, <3>1, <3>2, <3>3 DEF Reading
    <2>4. CASE /\ Readable(f, i) /\ ~Interesting(f, queue[party[f]][i].bits)
               /\ UNCHANGED <<pc, queue, made, top, seen, excused>>
      BY <1>1, <1>2, <2>1, <2>4 DEF Reading, Interesting
    <2> QED
      BY <2>2, <2>3, <2>4, EntryFacts
  <1>11. ASSUME NEW x \in Files(g), x.serial \in returned'[f]
         PROVE  x.serial \in excused'[f][g] \/ x.bits \subseteq seen'[f]
    <2>1. CASE x.serial \in returned[f]
      BY <1>3, <1>10, <1>11, <2>1
    <2>2. CASE x.serial = Directory(f)[i] /\ Readable(f, i) /\ queue[g][i].bits \subseteq seen'[f]
      <3>1. queue[g][i] \in Files(g) /\ queue[g][i].serial = x.serial
        BY <1>2, <2>2, ReadableFile DEF Files
      <3>2. queue[g][i].bits = x.bits
        BY <1>3, <3>1, <1>11 DEF SerialsKept, SerialsOf
      <3> QED
        BY <2>2, <3>2
    <2> QED
      BY <1>7, <1>10, <1>11, <2>1, <2>2
  <1>12. \A s \in returned'[f] : s <= made'[g]
    BY <1>3, <1>4, <1>6, <1>7
  <1>13. dirs'[f] \subseteq Others(f)
    BY <1>1 DEF ScanOf
  <1>14. party'[f] = g /\ mark'[f][g] = mark[f][g] /\ old'[f] = old[f]
    BY <1>1, <1>2
  <1> QED
    BY <1>2, <1>3, <1>4, <1>8, <1>9, <1>10, <1>11, <1>12, <1>13, <1>14 DEF ScanOf, Others

\* A step that leaves the directory being read alone.
LEMMA ScanStays ==
  ASSUME TypeOK, SerialsKept, Contents, NEW f \in Fuzzer, ScanOf(f), Act(f),
         UNCHANGED <<mark, dirs, party, returned, next_min>>,
         old'[f] = old[f], Reading(f)' <=> Reading(f), Reading(f) => seen' = seen
  PROVE  ScanOf(f)'
  <1>1. CASE ~Reading(f)
    BY <1>1 DEF ScanOf, Others
  <1>2. CASE Reading(f)
    <2>1. PICK g \in Others(f) : g = party[f]
      BY <1>2 DEF ScanOf
    <2>2. g \in Fuzzer /\ g # f /\ excused[f][g] \subseteq excused'[f][g]
      BY <2>1, ExcuseGrows DEF Others
    <2>3. /\ queue'[g] = queue[g] /\ resume'[g] = resume[g]
          /\ made'[g] = made[g] /\ top'[g] = top[g]
      BY <2>2, OthersKept
    <2>4. Files(g)' = Files(g)
      BY <2>3 DEF Files
    <2> QED
      BY <1>2, <2>1, <2>2, <2>3, <2>4 DEF ScanOf, Others
  <1> QED
    BY <1>1, <1>2

LEMMA ScansStep ==
  ASSUME IInv, NEW f \in Fuzzer, Act(f)
  PROVE  Scans'
  <1> SUFFICES ASSUME NEW h \in Fuzzer
               PROVE  ScanOf(h)'
    BY DEF Scans
  <1>1. /\ TypeOK /\ SerialsKept /\ Tops /\ Contents /\ Marks /\ Scans
        /\ ScanOf(h) /\ ContentsOf(h)
    BY DEF IInv, Scans, Contents
  <1>2. CASE h # f
    BY <1>1, <1>2, ScanWaits
  <1>3. CASE h = f
    <2>1. ASSUME NEW B \in Cases, Discover(f, B)
          PROVE  ScanOf(f)'
      <3>1. /\ UNCHANGED <<mark, dirs, party, returned, next_min, old>>
            /\ ~Reading(f) /\ ~Reading(f)'
        BY <1>1, <2>1 DEF Discover, scanVars, Reading, TypeOK
      <3> QED
        BY <1>1, <1>3, <3>1, ScanStays
    <2>2. CASE BeginSync(f)
      <3>1. ~Reading(f)'
        BY <1>1, <2>2, NextDirTyped DEF BeginSync, Reading, TypeOK
      <3>2. returned'[f] = {} /\ old'[f] = <<>> /\ dirs'[f] = Others(f)
        BY <1>1, <1>3, <2>2 DEF BeginSync, ScanOf, Reading, TypeOK
      <3> QED
        BY <1>3, <3>1, <3>2, ScanIdle
    <2>3. CASE Write(f)
      <3>1. UNCHANGED <<mark, dirs, party, returned, next_min, old, seen>>
        BY <2>3 DEF Write, scanVars
      <3>2. Reading(f)' <=> Reading(f)
        BY <1>1, <2>3 DEF Write, Reading, TypeOK
      <3> QED
        BY <1>1, <1>3, <3>1, <3>2, ScanStays
    <2>4. CASE MoveQueue(f)
      <3>1. ~Reading(f) /\ ~Reading(f)' /\ UNCHANGED <<mark, dirs, party, returned, next_min>>
        BY <1>1, <2>4 DEF MoveQueue, Reading, TypeOK
      <3>2. old'[f] = old[f]
        BY <1>1, <2>4, <3>1, MoveFacts DEF Reads
      <3> QED
        BY <1>1, <1>3, <3>1, <3>2, ScanStays
    <2>5. ASSUME NEW i \in DOMAIN resume[f], PivotInput(f, i)
          PROVE  ScanOf(f)'
      <3>1. /\ UNCHANGED <<mark, dirs, party, returned, next_min, old>>
            /\ ~Reading(f) /\ ~Reading(f)'
        BY <2>5 DEF PivotInput, scanVars, Reading
      <3> QED
        BY <1>1, <1>3, <3>1, ScanStays
    <2>6. CASE NukeResumeDir(f) \/ DryRun(f)
      <3>1. /\ UNCHANGED <<mark, dirs, party, returned, next_min, old>>
            /\ ~Reading(f) /\ ~Reading(f)'
        BY <1>1, <2>6 DEF NukeResumeDir, DryRun, scanVars, Reading, TypeOK
      <3> QED
        BY <1>1, <1>3, <3>1, ScanStays
    <2> QED
      BY <1>1, <1>3, <2>1, <2>2, <2>3, <2>4, <2>5, <2>6, ScanOpen, ScanRead, ScanClose
      DEF Act, Sync, Resume
  <1> QED
    BY <1>2, <1>3

-----------------------------------------------------------------------------
\* Every step of every fuzzer, and none at all, keeps the invariant.
LEMMA IInvStep == IInv /\ [Next]_vars => IInv'
  <1> SUFFICES ASSUME IInv, [Next]_vars
               PROVE  IInv'
    OBVIOUS
  <1>1. CASE UNCHANGED vars
    <2>1. /\ UNCHANGED <<pc, queue, resume, made, top, seen, mark>>
          /\ UNCHANGED scanVars /\ UNCHANGED histVars
      BY <1>1 DEF vars
    <2>2. TypeOK'
      BY <2>1 DEF IInv, TypeOK, scanVars, histVars
    <2>3. SerialsKept' /\ Tops' /\ Contents'
      <3>1. \A f : Files(f)' = Files(f) /\ Unlinked(f)' = Unlinked(f)
        BY <2>1 DEF Files, Unlinked, Whole
      <3>2. SerialsKept'
        BY <2>1, <3>1 DEF IInv, SerialsKept, SerialsOf
      <3>3. Tops'
        BY <2>1, <3>1 DEF IInv, Tops, TopOf
      <3>4. Contents'
        BY <2>1 DEF IInv, Contents, ContentsOf, Saving, Working, Whole, histVars
      <3> QED
        BY <3>2, <3>3, <3>4
    <2>4. SeenByQueue' /\ QueueProgress'
      BY <2>1 DEF IInv, SeenByQueue, QueueProgress, Counting
    <2>6. Marks'
      <3>1. UNCHANGED <<excused, lost>>
        BY <2>1 DEF histVars
      <3>2. \A h, g : Below(h, g)' = Below(h, g)
        BY <2>1 DEF Below
      <3>3. \A h : Covered(h)' = Covered(h)
        BY <2>1, <3>1 DEF Covered, OnDisk, BitsAt, Whole
      <3> QED
        BY <2>1, <3>1, <3>2, <3>3 DEF IInv, Marks, MarkOf, Handled
    <2>7. Scans'
      <3>1. /\ UNCHANGED <<dirs, party, moved, old, returned, next_min, excused>>
            /\ \A f : Files(f)' = Files(f)
        BY <2>1 DEF Files, scanVars, histVars
      <3>2. ASSUME NEW f \in Fuzzer
            PROVE  ScanOf(f)'
        <4>1. PICK g : g = party[f]
          OBVIOUS
        <4>2. ScanOf(f) /\ party'[f] = g /\ Files(g)' = Files(g)
          BY <3>1, <4>1 DEF IInv, Scans
        <4> QED
          BY <2>1, <3>1, <4>1, <4>2 DEF ScanOf, Reading
      <3> QED
        BY <3>2 DEF Scans
    <2> QED
      BY <2>2, <2>3, <2>4, <2>6, <2>7 DEF IInv
  <1>2. CASE Next
    <2>1. PICK f \in Fuzzer : Act(f)
      BY <1>2 DEF Next, Act
    <2>2. TypeOK /\ SerialsKept /\ Tops /\ Contents /\ SeenByQueue /\ QueueProgress
      BY DEF IInv
    <2>3. TypeOK' /\ SerialsKept' /\ Tops' /\ Contents'
      BY <2>1, <2>2, TypeStep, SerialsStep, TopsStep, ContentsStep
    <2>4. SeenByQueue' /\ QueueProgress'
      BY <2>1, <2>2, SeenStep
    <2>5. Marks' /\ Scans'
      BY <2>1, MarksStep, ScansStep
    <2> QED
      BY <2>3, <2>4, <2>5 DEF IInv
  <1> QED
    BY <1>1, <1>2

\* The inductive invariant: serial numbers, positions, contents, the virgin map, the
\* progress of the queue, marks and scans under every step of sync_fuzzers, of
\* save_if_interesting and of a resume, and at every crash.
THEOREM Dealt == Spec => []IInv
  <1> QED
    BY InitInv, IInvStep, PTL DEF Spec

\* Every variable of sync_fuzzers keeps to its range.
THEOREM TypeCorrect == Spec => []TypeOK
  <1>1. IInv => TypeOK
    BY DEF IInv
  <1> QED
    BY <1>1, Dealt, PTL

\* sync_fuzzers passes over no case without a reason: what a case below the mark kept
\* for another fuzzer covers, the own cases cover, or the case was excused; also when
\* files are left empty, dry runs fail and nuke_resume_dir is cut short.
THEOREM NoCaseSkipped == Spec => []NothingSkipped
  <1>1. IInv => NothingSkipped
    <2> SUFFICES ASSUME IInv, NEW f \in Fuzzer, NEW g \in Others(f), NEW i \in Whole(queue[g]),
                        i <= mark[f][g], queue[g][i].serial \notin excused[f][g]
                 PROVE  queue[g][i].bits \subseteq Covered(f)
      BY DEF NothingSkipped
    <2>1. MarkOf(f, g)
      BY DEF IInv, Marks
    <2>2. queue[g][i] \in Below(f, g)
      BY DEF Below, Whole
    <2> QED
      BY <2>1, <2>2 DEF MarkOf, Handled
  <1> QED
    BY <1>1, Dealt, PTL

\* Each case save_if_interesting keeps in a session covers what no case before it does
\* whose run counts: fuzzers do not import their own finds back for ever.
THEOREM ImportsEnd == Spec => []QueueProgress
  <1>1. IInv => QueueProgress
    BY DEF IInv
  <1> QED
    BY <1>1, Dealt, PTL

\* virgin_bits and the queue say the same but for cases whose dry run failed, also
\* after a resumed session.
THEOREM SeenIsQueue == Spec => []SeenByQueue
  <1>1. IInv => SeenByQueue
    BY DEF IInv
  <1> QED
    BY <1>1, Dealt, PTL

\* The file .synced/<other> never goes back, over crashes and resumed sessions.
THEOREM MarkNeverBack == Spec => MarkKept
  <1>1. IInv /\ [Next]_vars => [\A f, g \in Fuzzer : mark'[f][g] >= mark[f][g]]_vars
    <2> SUFFICES ASSUME IInv, [Next]_vars, NEW f \in Fuzzer, NEW g \in Fuzzer
                 PROVE  mark'[f][g] >= mark[f][g]
      OBVIOUS
    <2>1. TypeOK /\ Scans /\ mark[f][g] \in Nat
      <3>1. TypeOK /\ Scans
        BY DEF IInv
      <3>2. mark \in [Fuzzer -> [Fuzzer -> Nat]]
        BY <3>1 DEF TypeOK
      <3> QED
        BY <3>1, <3>2
    <2>2. CASE UNCHANGED vars
      BY <2>1, <2>2 DEF vars
    <2>3. ASSUME NEW h \in Fuzzer, Act(h)
          PROVE  mark'[f][g] >= mark[f][g]
      <3>1. CASE f = h /\ g = party[h] /\ EndQueue(h)
        <4>1. /\ mark' = [mark EXCEPT ![h][party[h]] = next_min[h]]
              /\ mark[h][party[h]] <= next_min[h] /\ next_min[h] \in Nat
          BY <2>1, <3>1 DEF EndQueue, NewMark, Scans, ScanOf, Reading, TypeOK
        <4>2. mark'[f][g] = next_min[h]
          BY <2>1, <3>1, <4>1 DEF TypeOK
        <4> QED
          BY <2>1, <3>1, <4>1, <4>2
      <3>2. CASE ~(f = h /\ g = party[h] /\ EndQueue(h))
        BY <2>1, <2>3, <3>2, MarkKeeps
      <3> QED
        BY <3>1, <3>2
    <2> QED
      BY <2>2, <2>3 DEF Next, Act
  <1> QED
    BY <1>1, Dealt, PTL DEF Spec, MarkKept
=============================================================================
