---------------------------- MODULE OutDirProofs ----------------------------
(***************************************************************************)
(* Proofs about OutDir, for any number of cases, sessions and crashes, as  *)
(* long as the process is not killed inside nuke_resume_dir: no case is    *)
(* lost and the cases keep their order, and the directory implements       *)
(* CaseStore.                                                              *)
(***************************************************************************)
EXTENDS OutDir, FiniteSetTheorems, TLAPS

\* In a directory that holds all cases, whatever the numbers of its files, the
\* k-th usable file is the k-th case.
LEMMA InOrderIsCases ==
  ASSUME NEW dir, DOMAIN dir \subseteq Nat, saved \in Nat,
         \A i \in DOMAIN dir : dir[i] \in 0 .. saved, AllCases(dir)
  PROVE  /\ IsFiniteSet(Usable(dir)) /\ Cardinality(Usable(dir)) = saved
         /\ InOrder(dir) = [c \in 1 .. saved |-> c]
  <1> DEFINE S == Usable(dir)
             upto(m) == {j \in S : dir[j] <= m}
  <1>1. S \subseteq Nat /\ \A i \in S : dir[i] \in 1 .. saved
    BY DEF Usable, Empty
  <1>2. \A i, j \in S : i < j => dir[i] < dir[j]
    BY DEF AllCases
  <1>3. \A c \in 1 .. saved : \E i \in S : dir[i] = c
    BY DEF AllCases
  <1> HIDE DEF S
  <1>4. \A i, j \in S : dir[i] = dir[j] => i = j
    <2> SUFFICES ASSUME NEW i \in S, NEW j \in S, dir[i] = dir[j]
                 PROVE  i = j
      OBVIOUS
    <2>1. ~(i < j) /\ ~(j < i)
      BY <1>1, <1>2
    <2> QED
      BY <1>1, <2>1
  <1>5. ASSUME NEW m \in 0 .. saved
        PROVE  IsFiniteSet(upto(m)) /\ Cardinality(upto(m)) = m
    <2> DEFINE at == [c \in 1 .. m |-> CHOOSE i \in S : dir[i] = c]
    <2>1. \A c \in 1 .. m : at[c] \in S /\ dir[at[c]] = c
      BY <1>3
    <2>2. \A c \in 1 .. m : at[c] \in upto(m)
      BY <2>1
    <2>3. at \in [1 .. m -> upto(m)]
      BY <2>2
    <2>4. \A c, d \in 1 .. m : at[c] = at[d] => c = d
      BY <2>1
    <2>5. \A i \in upto(m) : \E c \in 1 .. m : at[c] = i
      <3> SUFFICES ASSUME NEW i \in upto(m)
                   PROVE  dir[i] \in 1 .. m /\ at[dir[i]] = i
        OBVIOUS
      <3>1. i \in S /\ dir[i] \in 1 .. m
        BY <1>1
      <3> QED
        BY <1>4, <2>1, <3>1
    <2> HIDE DEF at
    <2>6. at \in Bijection(1 .. m, upto(m))
      BY <2>3, <2>4, <2>5 DEF Bijection, Injection, Surjection, IsInjective
    <2>7. ExistsBijection(1 .. m, upto(m))
      BY <2>6 DEF ExistsBijection
    <2>8. m \in Nat
      OBVIOUS
    <2> QED
      BY <2>7, <2>8, FS_CountingElements, FS_NatBijection
  <1>6. upto(saved) = S
    <2>1. \A j \in S : dir[j] <= saved
      BY <1>1
    <2> QED
      BY <2>1
  <1>7. IsFiniteSet(S) /\ Cardinality(S) = saved
    BY <1>5, <1>6
  <1>8. ASSUME NEW i \in S
        PROVE  Cardinality({j \in S : j <= i}) = dir[i]
    <2>1. \A j \in S : j <= i <=> dir[j] <= dir[i]
      BY <1>1, <1>2
    <2>2. {j \in S : j <= i} = upto(dir[i])
      BY <2>1
    <2>3. dir[i] \in 0 .. saved
      BY <1>1
    <2> QED
      BY <1>5, <2>2, <2>3
  <1>9. ASSUME NEW k \in 1 .. saved
        PROVE  dir[Nth(S, k)] = k
    <2>1. \E i \in S : Cardinality({j \in S : j <= i}) = k
      BY <1>3, <1>8
    <2>2. Nth(S, k) \in S /\ Cardinality({j \in S : j <= Nth(S, k)}) = k
      BY <2>1 DEF Nth
    <2> QED
      BY <1>8, <2>2
  <1>10. Picked(dir, S) = [c \in 1 .. saved |-> c]
    BY <1>7, <1>9 DEF Picked
  <1> QED
    BY <1>7, <1>10 DEF S, InOrder

\* A directory of cases and nothing else to start with.
LEMMA InitInv == Init => IInv
  <1> SUFFICES ASSUME Init PROVE IInv
    OBVIOUS
  <1>1. TypeOK
    <2>1. saved \in Initial .. MaxCases /\ saved \in Nat /\ resume = <<>>
      BY OutDirAssumption DEF Init
    <2>2. /\ DOMAIN queue \subseteq 1 .. saved /\ queue \in [DOMAIN queue -> 0 .. saved]
          /\ mem \in Seq(0 .. saved) /\ Len(mem) = saved
      BY <2>1 DEF Init
    <2>3. DOMAIN resume \subseteq 1 .. saved /\ resume \in [DOMAIN resume -> 0 .. saved]
      BY <2>1
    <2>4. pc = "run" /\ qdir = TRUE /\ rdir = FALSE /\ crashes = 0
      BY DEF Init
    <2>5. DOMAIN queue \subseteq 1 .. MaxCases /\ DOMAIN resume \subseteq 1 .. MaxCases
      BY <2>1, <2>2, <2>3, OutDirAssumption
    <2>6. Len(mem) <= MaxCases /\ crashes \in Nat
      BY <2>1, <2>2, <2>4, OutDirAssumption
    <2> QED
      BY <2>1, <2>2, <2>3, <2>4, <2>5, <2>6 DEF TypeOK, Contents, Phases
  <1>2. WhereCasesAre
    <2>1. Initial \in Nat /\ queue = [i \in 1 .. saved |-> i] /\ mem = queue /\ saved = Initial
      BY OutDirAssumption DEF Init
    <2>2. AllCases(queue)
      BY <2>1 DEF AllCases, Usable, Empty
    <2>3. Len(mem) = saved /\ DOMAIN queue = 1 .. saved
      BY <2>1
    <2> QED
      BY <2>1, <2>2, <2>3 DEF Init, WhereCasesAre
  <1> QED
    BY <1>1, <1>2 DEF IInv

\* A directory with the cases up to saved holds all cases.
LEMMA CasesToIsAll ==
  ASSUME NEW dir, saved \in Nat, CasesTo(dir, saved)
  PROVE  AllCases(dir)
  BY DEF CasesTo, AllCases, Usable, Empty

\* There are as many files at least as cases.
LEMMA AsManyFiles ==
  ASSUME TypeOK, AllCases(queue), NEW n \in Nat, Usable(queue) \subseteq 1 .. n
  PROVE  saved <= n
  <1>1. saved \in Nat
    BY OutDirAssumption DEF TypeOK
  <1>2. DOMAIN queue \subseteq Nat /\ \A i \in DOMAIN queue : queue[i] \in 0 .. saved
    BY DEF TypeOK, Contents
  <1>3. Cardinality(Usable(queue)) = saved
    BY <1>1, <1>2, InOrderIsCases
  <1>4. IsFiniteSet(1 .. n) /\ Cardinality(1 .. n) = n
    BY FS_Interval
  <1> QED
    BY <1>3, <1>4, FS_Subset

\* The new file is empty and behind all others.
LEMMA StepSaveOpen ==
  ASSUME IInv, SaveOpen
  PROVE  IInv'
  <1>0. PICK n : n = Len(mem)
    OBVIOUS
  <1>1. /\ n \in Nat /\ n < MaxCases /\ qdir /\ ~rdir /\ DOMAIN queue = 1 .. n
        /\ AllCases(queue) /\ \A i \in 1 .. n : queue[i] = mem[i]
    BY <1>0 DEF IInv, SaveOpen, TypeOK, WhereCasesAre
  <1>2. queue' = [i \in 1 .. n + 1 |-> IF i = n + 1 THEN Empty ELSE queue[i]]
    BY <1>0, <1>1 DEF SaveOpen, With
  <1>3. TypeOK'
    <2>1. DOMAIN queue' = 1 .. n + 1 /\ queue' \in [DOMAIN queue' -> 0 .. saved]
      BY <1>1, <1>2, OutDirAssumption DEF Empty, IInv, TypeOK, Contents
    <2>2. DOMAIN queue' \subseteq 1 .. MaxCases
      BY <1>1, <2>1, OutDirAssumption
    <2> QED
      BY <2>1, <2>2 DEF IInv, SaveOpen, TypeOK, Contents, Phases
  <1>4. Usable(queue)' = Usable(queue) /\ \A i \in Usable(queue) : queue'[i] = queue[i]
    BY <1>1, <1>2 DEF Usable, Empty
  <1>5. AllCases(queue)'
    BY <1>1, <1>4 DEF SaveOpen, AllCases
  <1>6. \A i \in 1 .. n : i \in DOMAIN queue' /\ queue'[i] = mem[i]
    BY <1>1, <1>2
  <1>7. DOMAIN queue' = 1 .. n + 1 /\ queue'[n + 1] = Empty
    BY <1>1, <1>2
  <1> QED
    BY <1>0, <1>1, <1>3, <1>5, <1>6, <1>7 DEF SaveOpen, IInv, WhereCasesAre

\* With contents it is the next case; without, it is a file more.
LEMMA StepSaveWrite ==
  ASSUME IInv, SaveWrite
  PROVE  IInv' /\ saved' \in {saved, saved + 1}
  <1>0. PICK n : n = Len(mem)
    OBVIOUS
  <1>1. /\ n \in Nat /\ n < MaxCases /\ qdir /\ ~rdir /\ DOMAIN queue = 1 .. n + 1
        /\ queue[n + 1] = Empty
        /\ AllCases(queue) /\ \A i \in 1 .. n : queue[i] = mem[i]
    BY <1>0 DEF IInv, SaveWrite, TypeOK, WhereCasesAre
  <1>2. PICK c : /\ mem' = Append(mem, c)
                 /\ queue' = With(queue, n + 1, c)
                 /\ \/ c = saved + 1 /\ saved' = saved + 1
                    \/ c = Empty /\ saved' = saved
    <2>1. CASE saved' = saved + 1
      BY <1>0, <2>1 DEF SaveWrite, IInv, TypeOK
    <2>2. CASE queue' = queue /\ saved' = saved /\ mem' = Append(mem, Empty)
      <3>1. queue = With(queue, n + 1, Empty)
        BY <1>1 DEF With, IInv, TypeOK
      <3> QED
        BY <2>2, <3>1
    <2> QED
      BY <2>1, <2>2 DEF SaveWrite
  <1>3. saved \in Nat /\ saved <= n
    <2>1. Usable(queue) \subseteq 1 .. n
      BY <1>1 DEF Usable
    <2> QED
      BY <1>1, <2>1, AsManyFiles, OutDirAssumption DEF IInv, TypeOK
  <1>4. queue' = [i \in 1 .. n + 1 |-> IF i = n + 1 THEN c ELSE queue[i]]
    BY <1>1, <1>2 DEF With
  <1>5. \A i \in 1 .. n + 1 : queue[i] \in 0 .. saved
    BY <1>1 DEF IInv, TypeOK, Contents
  <1>6. c \in 0 .. saved' /\ saved' \in Nat /\ saved <= saved' /\ saved' <= MaxCases
    BY <1>1, <1>2, <1>3, OutDirAssumption DEF Empty
  <1>7. mem \in Seq(0 .. saved) /\ mem' \in Seq(0 .. saved') /\ Len(mem') = n + 1
    <2>1. mem \in Seq(0 .. saved)
      BY DEF IInv, TypeOK, Contents
    <2>2. mem \in Seq(0 .. saved')
      BY <1>3, <1>6, <2>1
    <2> QED
      BY <1>0, <1>2, <1>6, <2>1, <2>2
  <1>8. \A i \in 1 .. n : mem'[i] = mem[i]
    BY <1>0, <1>2, <1>7
  <1>9. mem'[n + 1] = c
    BY <1>0, <1>2, <1>7
  <1>10. TypeOK'
    <2>1. saved' \in Initial .. MaxCases
      BY <1>2, <1>3, <1>6, OutDirAssumption DEF IInv, TypeOK
    <2>2. DOMAIN queue' \subseteq 1 .. MaxCases /\ queue' \in [DOMAIN queue' -> 0 .. saved']
      BY <1>1, <1>3, <1>4, <1>5, <1>6, OutDirAssumption
    <2>3. DOMAIN resume' \subseteq 1 .. MaxCases /\ resume' \in [DOMAIN resume' -> 0 .. saved']
      BY <1>3, <1>6 DEF IInv, SaveWrite, TypeOK, Contents
    <2>4. pc' = "run" /\ qdir' \in BOOLEAN /\ rdir' \in BOOLEAN /\ crashes' \in Nat
      BY DEF IInv, SaveWrite, TypeOK
    <2>5. Len(mem') <= MaxCases
      BY <1>1, <1>7, OutDirAssumption
    <2> QED
      BY <1>7, <2>1, <2>2, <2>3, <2>4, <2>5 DEF TypeOK, Contents, Phases
  <1>11. AllCases(queue)'
    <2>0. n + 1 \notin Usable(queue)
      BY <1>1 DEF Usable
    <2>1. CASE c = Empty /\ saved' = saved
      <3>1. queue' = queue
        BY <1>1, <1>4, <2>1 DEF IInv, TypeOK
      <3> QED
        BY <1>1, <2>1, <3>1 DEF AllCases, Usable
    <2>2. CASE c = saved + 1 /\ saved' = saved + 1
      <3>1. Usable(queue)' = Usable(queue) \cup {n + 1}
        BY <1>1, <1>3, <1>4, <2>2 DEF Usable, Empty
      <3>4. Usable(queue) \subseteq 1 .. n
        BY <1>1, <2>0 DEF Usable
      <3>5. \A i \in 1 .. n : queue'[i] = queue[i]
        BY <1>1, <1>4
      <3>6. queue'[n + 1] = saved + 1
        BY <1>1, <1>4, <2>2
      <3>2. /\ \A i \in Usable(queue) : queue'[i] = queue[i] /\ i \in 1 .. n /\ queue[i] \in 0 .. saved
            /\ queue'[n + 1] = saved + 1
        BY <1>1, <1>5, <3>4, <3>5, <3>6
      <3>3. \A i, j \in Usable(queue)' : i < j => queue'[i] < queue'[j]
        <4> SUFFICES ASSUME NEW i \in Usable(queue)', NEW j \in Usable(queue)', i < j
                     PROVE  queue'[i] < queue'[j]
          OBVIOUS
        <4>1. i \in Usable(queue)
          BY <1>1, <3>1, <3>2
        <4>2. CASE j \in Usable(queue)
          BY <1>1, <3>2, <4>1, <4>2 DEF AllCases
        <4>3. CASE j = n + 1
          BY <1>3, <3>2, <4>1, <4>3
        <4> QED
          BY <3>1, <4>2, <4>3
      <3>7. \A d \in 1 .. saved' : \E i \in Usable(queue)' : queue'[i] = d
        <4> SUFFICES ASSUME NEW d \in 1 .. saved + 1
                     PROVE  \E i \in Usable(queue)' : queue'[i] = d
          BY <2>2
        <4>1. CASE d = saved + 1
          BY <3>1, <3>2, <4>1
        <4>2. CASE d \in 1 .. saved
          BY <1>1, <3>1, <3>2, <4>2 DEF AllCases
        <4> QED
          BY <1>3, <4>1, <4>2
      <3> QED
        BY <3>3, <3>7 DEF AllCases
    <2> QED
      BY <1>2, <2>1, <2>2
  <1>12. \A i \in 1 .. Len(mem') : i \in DOMAIN queue' /\ queue'[i] = mem'[i]
    BY <1>1, <1>4, <1>7, <1>8, <1>9
  <1>13. DOMAIN queue' = 1 .. Len(mem')
    BY <1>4, <1>7
  <1>14. WhereCasesAre'
    BY <1>1, <1>11, <1>12, <1>13 DEF SaveWrite, WhereCasesAre
  <1> QED
    BY <1>2, <1>10, <1>14 DEF IInv

\* Whatever phase is left, one of the two directories has all cases.
LEMMA StepCrash ==
  ASSUME IInv, Crash, "nuke" \notin CrashIn
  PROVE  IInv'
  <1>1. TypeOK'
    <2>1. mem' = <<>> /\ saved \in Nat /\ MaxCases \in Nat
      BY OutDirAssumption DEF IInv, Crash, TypeOK
    <2>2. mem' \in Seq(0 .. saved) /\ Len(mem') <= MaxCases
      BY <2>1
    <2> QED
      BY <2>2 DEF IInv, Crash, TypeOK, Contents
  <1>2. saved \in Nat /\ pc # "nuke" /\ pc # "down" /\ pc # "fatal"
    BY OutDirAssumption DEF IInv, Crash, TypeOK, Phases
  <1>3. (qdir /\ ~rdir /\ AllCases(queue)) \/ (rdir /\ AllCases(resume))
    BY <1>2, CasesToIsAll DEF IInv, TypeOK, Phases, WhereCasesAre
  <1> QED
    BY <1>1, <1>3 DEF IInv, Crash, WhereCasesAre, AllCases, Usable

\* A new session changes no directory.
LEMMA StepStart ==
  ASSUME IInv, Start
  PROVE  IInv'
  BY DEF IInv, Start, TypeOK, Contents, Phases, WhereCasesAre, AllCases, Usable

\* The rename fails if _resume/ holds the cases, and works if queue/ does.
LEMMA StepRenameQueue ==
  ASSUME IInv, RenameQueue
  PROVE  IInv'
  <1>1. saved \in Nat \ {0}
    BY OutDirAssumption DEF IInv, TypeOK
  <1>2. CASE qdir /\ ~rdir /\ AllCases(queue)
    <2>1. resume' = queue /\ rdir' = TRUE /\ queue' = <<>> /\ qdir' = FALSE
      BY <1>2 DEF RenameQueue, CanRename
    <2>2. AllCases(resume)'
      BY <1>2, <2>1 DEF RenameQueue, AllCases, Usable
    <2>3. DOMAIN queue' = {} /\ queue' \in [{} -> 0 .. saved]
      BY <2>1
    <2>4. TypeOK'
      BY <2>1, <2>3 DEF IInv, RenameQueue, TypeOK, Contents, Phases
    <2> QED
      BY <2>1, <2>2, <2>4 DEF IInv, RenameQueue, WhereCasesAre
  <1>3. CASE rdir /\ AllCases(resume)
    <2>1. ~CanRename
      BY <1>1, <1>3 DEF CanRename, AllCases, Usable
    <2> QED
      BY <1>3, <2>1 DEF IInv, RenameQueue, TypeOK, Contents, Phases, WhereCasesAre, AllCases, Usable
  <1> QED
    BY <1>2, <1>3 DEF IInv, RenameQueue, WhereCasesAre

\* Files are deleted from queue/ only while _resume/ has all cases.
LEMMA StepDeleteCase ==
  ASSUME IInv, NEW i \in DOMAIN queue, DeleteCase(i)
  PROVE  IInv'
  <1>1. DOMAIN queue' \subseteq DOMAIN queue /\ \A j \in DOMAIN queue' : queue'[j] = queue[j]
    BY DEF DeleteCase, Without
  <1>2. queue' = [j \in DOMAIN queue' |-> queue'[j]]
    BY DEF DeleteCase, Without
  <1>3. TypeOK'
    BY <1>1, <1>2 DEF IInv, DeleteCase, TypeOK, Contents
  <1> QED
    BY <1>3 DEF IInv, DeleteCase, WhereCasesAre, AllCases, Usable

\* The same holds for the directory,
LEMMA StepDeleteQueue ==
  ASSUME IInv, DeleteQueue
  PROVE  IInv'
  BY DEF IInv, DeleteQueue, TypeOK, Contents, Phases, WhereCasesAre, AllCases, Usable

\* and for the new one.
LEMMA StepMakeQueue ==
  ASSUME IInv, MakeQueue
  PROVE  IInv'
  BY DEF IInv, MakeQueue, TypeOK, Contents, Phases, WhereCasesAre, AllCases, Usable

\* The cases are read in the order of their numbers; there is one at least.
LEMMA StepReadTestcases ==
  ASSUME IInv, ReadTestcases
  PROVE  IInv' /\ pc' = "pivot"
  <1>1. saved \in Nat \ {0} /\ AllCases(resume) /\ rdir
    BY OutDirAssumption DEF IInv, ReadTestcases, TypeOK, WhereCasesAre
  <1>0. DOMAIN resume \subseteq Nat /\ \A i \in DOMAIN resume : resume[i] \in 0 .. saved
    BY DEF IInv, TypeOK, Contents
  <1>2. CasesTo(mem', saved)
    BY <1>0, <1>1, InOrderIsCases DEF ReadTestcases, CasesTo
  <1>7. Usable(resume) # {}
    BY <1>1 DEF AllCases
  <1>3. pc' = "pivot" /\ mem' \in Seq(0 .. saved) /\ Len(mem') <= MaxCases
    <2>1. saved <= MaxCases /\ mem' = [i \in 1 .. saved |-> i]
      BY <1>1, <1>2, OutDirAssumption DEF IInv, TypeOK, CasesTo
    <2>2. mem' \in Seq(0 .. saved) /\ Len(mem') = saved
      BY <1>1, <2>1
    <2> QED
      BY <1>7, <2>1, <2>2 DEF ReadTestcases
  <1>4. TypeOK'
    BY <1>3 DEF IInv, ReadTestcases, TypeOK, Contents, Phases
  <1>5. \E k \in 0 .. saved : CasesTo(queue, k)
    <2>1. CasesTo(queue, 0)
      BY DEF IInv, ReadTestcases, TypeOK, WhereCasesAre, CasesTo
    <2> QED
      BY <1>1, <2>1
  <1>6. qdir
    BY DEF IInv, ReadTestcases, WhereCasesAre
  <1> QED
    BY <1>1, <1>2, <1>3, <1>4, <1>5, <1>6 DEF IInv, ReadTestcases, WhereCasesAre, AllCases, Usable, CasesTo

\* The cases linked back are always the first ones.
LEMMA StepPivotInput ==
  ASSUME IInv, PivotInput
  PROVE  IInv'
  <1>1. PICK k \in 0 .. saved : CasesTo(queue, k)
    BY DEF IInv, PivotInput, WhereCasesAre
  <1>2. saved \in Nat /\ mem = [i \in 1 .. saved |-> i] /\ Len(mem) = saved
    BY OutDirAssumption DEF IInv, PivotInput, TypeOK, WhereCasesAre, CasesTo
  <1>3. Cardinality(DOMAIN queue) = k
    BY <1>1, <1>2, FS_Interval DEF CasesTo
  <1>4. k + 1 <= saved /\ queue' = [i \in 1 .. k + 1 |-> i]
    BY <1>1, <1>2, <1>3 DEF PivotInput, With, CasesTo
  <1>5. TypeOK'
    <2>1. DOMAIN queue' \subseteq 1 .. saved /\ queue' \in [DOMAIN queue' -> 0 .. saved]
      BY <1>1, <1>2, <1>4
    <2>2. DOMAIN queue' \subseteq 1 .. MaxCases
      BY <1>2, <2>1, OutDirAssumption DEF IInv, TypeOK
    <2> QED
      BY <2>1, <2>2 DEF IInv, PivotInput, TypeOK, Contents
  <1>6. \E l \in 0 .. saved : CasesTo(queue', l)
    <2>1. CasesTo(queue', k + 1) /\ k + 1 \in 0 .. saved
      BY <1>2, <1>4 DEF CasesTo
    <2> QED
      BY <2>1
  <1> QED
    BY <1>5, <1>6 DEF IInv, PivotInput, WhereCasesAre, AllCases, Usable, CasesTo

\* When all are linked queue/ has all cases.
LEMMA StepPivotEnd ==
  ASSUME IInv, PivotEnd
  PROVE  IInv'
  <1>1. PICK k \in 0 .. saved : CasesTo(queue, k)
    BY DEF IInv, PivotEnd, WhereCasesAre
  <1>2. saved \in Nat /\ mem = [i \in 1 .. saved |-> i] /\ Len(mem) = saved
    BY OutDirAssumption DEF IInv, PivotEnd, TypeOK, WhereCasesAre, CasesTo
  <1>3. Cardinality(DOMAIN queue) = k
    BY <1>1, <1>2, FS_Interval DEF CasesTo
  <1>4. CasesTo(queue, saved)
    BY <1>1, <1>2, <1>3 DEF PivotEnd
  <1> QED
    BY <1>4 DEF IInv, PivotEnd, TypeOK, Contents, Phases, WhereCasesAre, CasesTo

\* From then on _resume/ does not matter.
LEMMA StepNukeCase ==
  ASSUME IInv, NEW i \in DOMAIN resume, NukeCase(i)
  PROVE  IInv'
  <1>1. DOMAIN resume' \subseteq DOMAIN resume /\ \A j \in DOMAIN resume' : resume'[j] = resume[j]
    BY DEF NukeCase, Without
  <1>2. resume' = [j \in DOMAIN resume' |-> resume'[j]]
    BY DEF NukeCase, Without
  <1>3. TypeOK'
    BY <1>1, <1>2 DEF IInv, NukeCase, TypeOK, Contents
  <1> QED
    BY <1>3 DEF IInv, NukeCase, WhereCasesAre, CasesTo

\* It is gone when the session gets to work.
LEMMA StepNukeEnd ==
  ASSUME IInv, NukeEnd
  PROVE  IInv'
  <1>1. saved \in Nat /\ pc = "nuke" /\ pc' = "run" /\ ~rdir' /\ qdir
    BY OutDirAssumption DEF IInv, NukeEnd, TypeOK, WhereCasesAre
  <1>2. queue = [i \in 1 .. saved |-> i] /\ mem = queue /\ Len(mem) = saved
    BY <1>1 DEF IInv, WhereCasesAre, CasesTo
  <1>3. AllCases(queue)
    BY <1>1, <1>2, CasesToIsAll DEF CasesTo
  <1>4. AllCases(queue)'
    BY <1>3 DEF NukeEnd, AllCases, Usable
  <1>5. TypeOK'
    BY DEF IInv, NukeEnd, TypeOK, Contents, Phases
  <1> QED
    BY <1>1, <1>2, <1>4, <1>5 DEF IInv, NukeEnd, WhereCasesAre

\* One case per action; a crash in nuke_resume_dir is excluded.
LEMMA NextInv ==
  ASSUME "nuke" \notin CrashIn, IInv, [Next]_vars
  PROVE  IInv'
  <1>1. CASE SaveOpen \/ SaveWrite \/ Crash
    BY <1>1, StepSaveOpen, StepSaveWrite, StepCrash
  <1>2. CASE ResumeStep
    BY <1>2, StepStart, StepRenameQueue, StepDeleteCase, StepDeleteQueue,
       StepMakeQueue, StepReadTestcases, StepPivotInput, StepPivotEnd,
       StepNukeCase, StepNukeEnd DEF ResumeStep
  <1>3. CASE UNCHANGED vars
    BY <1>3 DEF vars, IInv, TypeOK, Contents, WhereCasesAre, AllCases, CasesTo
  <1> QED
    BY <1>1, <1>2, <1>3 DEF Next

\* Wherever the cases are, the next session finds them, in their order.
AllKept ==
  /\ saved \in Nat \ {0} /\ saved <= MaxCases
  /\ Stored = [c \in 1 .. saved |-> c]

\* The directory the next session starts from has all cases.
LEMMA KeptHasAll == IInv => AllKept
  <1> SUFFICES ASSUME IInv PROVE AllKept
    OBVIOUS
  <1>1. saved \in Nat \ {0} /\ saved <= MaxCases
    BY OutDirAssumption DEF IInv, TypeOK
  <1>2. AllCases(Kept)
    <2>1. CASE rdir /\ pc # "nuke"
      BY <2>1 DEF IInv, TypeOK, Phases, WhereCasesAre, Kept
    <2>2. CASE pc = "nuke"
      BY <1>1, <2>2, CasesToIsAll DEF IInv, WhereCasesAre, Kept
    <2>3. CASE ~rdir /\ pc # "nuke"
      BY <2>3 DEF IInv, TypeOK, Phases, WhereCasesAre, Kept
    <2> QED
      BY <2>1, <2>2, <2>3
  <1>3. DOMAIN Kept \subseteq Nat /\ \A i \in DOMAIN Kept : Kept[i] \in 0 .. saved
    BY DEF IInv, TypeOK, Contents, Kept
  <1>4. Stored = [c \in 1 .. saved |-> c]
    BY <1>1, <1>2, <1>3, InOrderIsCases DEF Stored
  <1> QED
    BY <1>1, <1>4 DEF AllKept

\* In every phase of a session, and between sessions, one of the two directories
\* holds all cases.
THEOREM CasesKept ==
  ASSUME "nuke" \notin CrashIn
  PROVE  Spec => []IInv
  BY InitInv, NextInv, PTL DEF Spec

\* Files, numbers and contents keep to their ranges.
THEOREM TypeCorrect ==
  ASSUME "nuke" \notin CrashIn
  PROVE  Spec => []TypeOK
  <1>1. IInv => TypeOK
    BY DEF IInv
  <1> QED
    BY <1>1, CasesKept, PTL

\* However often the process is killed, outside nuke_resume_dir, every case ever
\* saved is found by the next session, in the order in which they were saved.
THEOREM NoCaseLost ==
  ASSUME "nuke" \notin CrashIn
  PROVE  Spec => []NothingLost
  <1>1. IInv => NothingLost
    BY KeptHasAll DEF AllKept, NothingLost, Stored
  <1> QED
    BY <1>1, CasesKept, PTL

\* A fuzzer at work has in memory what is in queue/, and queued_paths is the
\* number the next file gets.
THEOREM MemoryMatches ==
  ASSUME "nuke" \notin CrashIn
  PROVE  Spec => []MemoryIsQueue
  <1>1. IInv => MemoryIsQueue
    BY DEF MemoryIsQueue, IInv, WhereCasesAre
  <1> QED
    BY <1>1, CasesKept, PTL

\* The first session finds a store that is up.
LEMMA StoreInit == Init => CS!Init
  <1> SUFFICES ASSUME Init PROVE CS!Init
    OBVIOUS
  <1>1. IInv
    BY InitInv
  <1>2. Stored \in Seq(1 .. MaxCases)
    BY <1>1, KeptHasAll, OutDirAssumption DEF AllKept
  <1> QED
    BY <1>2 DEF Init, CS!Init

\* SaveWrite is Store, a crash at work is Crash, the end of a resume is Restart;
\* every other step is a stutter.
LEMMA StoreStep ==
  ASSUME "nuke" \notin CrashIn, IInv, [Next]_vars
  PROVE  [CS!Next]_<<Stored, pc \in {"run", "save"}>>
  <1>1. IInv'
    BY NextInv
  <1>0. AllKept /\ AllKept'
    BY <1>1, KeptHasAll, PTL
  <1>2. Stored = [c \in 1 .. saved |-> c] /\ Stored' = [c \in 1 .. saved' |-> c]
    BY <1>0 DEF AllKept
  <1>3. saved \in Nat /\ saved' <= MaxCases
    BY <1>0 DEF AllKept
  <1>4. CASE SaveWrite
    <2>1. pc = "save" /\ pc' = "run"
      BY <1>4 DEF SaveWrite
    <2>2. CASE saved' = saved
      BY <1>2, <2>1, <2>2
    <2>3. CASE saved' = saved + 1
      <3>1. saved' \in 1 .. MaxCases /\ Stored' = Append(Stored, saved')
        BY <1>2, <1>3, <2>3
      <3> QED
        BY <2>1, <3>1 DEF CS!Next, CS!Store
    <2> QED
      BY <1>4, <2>2, <2>3, StepSaveWrite
  <1>5. CASE Crash
    <2>1. saved' = saved /\ pc' = "down"
      BY <1>5 DEF Crash
    <2> QED
      BY <1>2, <2>1 DEF CS!Next, CS!Crash
  <1>6. CASE NukeEnd
    <2>1. saved' = saved /\ pc = "nuke" /\ pc' = "run"
      BY <1>6 DEF NukeEnd
    <2> QED
      BY <1>2, <2>1 DEF CS!Next, CS!Restart
  <1>7. CASE UNCHANGED vars
    BY <1>2, <1>7 DEF vars
  <1>8. CASE SaveOpen
    <2>1. saved' = saved /\ pc = "run" /\ pc' = "save"
      BY <1>8 DEF SaveOpen
    <2> QED
      BY <1>2, <2>1
  <1>9. CASE ResumeStep /\ ~NukeEnd
    <2>1. saved' = saved /\ pc \notin {"run", "save"} /\ pc' \notin {"run", "save"}
      <3>1. CASE ReadTestcases
        BY <3>1, StepReadTestcases DEF ReadTestcases
      <3>2. CASE ~ReadTestcases
        BY <1>9, <3>2 DEF ResumeStep, Start, RenameQueue, DeleteCase, DeleteQueue,
                          MakeQueue, PivotInput, PivotEnd, NukeCase
      <3> QED
        BY <3>1, <3>2
    <2> QED
      BY <1>2, <2>1
  <1> QED
    BY <1>4, <1>5, <1>6, <1>7, <1>8, <1>9 DEF Next

\* Renames, deletions, links and crashes show as nothing but a store of cases to
\* which cases are appended and whose sessions come and go.
THEOREM ImplementsStore ==
  ASSUME "nuke" \notin CrashIn
  PROVE  Spec => StoreSpec
  BY CasesKept, StoreInit, StoreStep, PTL DEF Spec, StoreSpec, CS!Spec

=============================================================================
