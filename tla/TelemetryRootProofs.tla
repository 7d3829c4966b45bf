---------------------------- MODULE TelemetryRootProofs ----------------------------
(***************************************************************************)
(* The publication protocol of the telemetry store is safe: roots survive  *)
(* crashes, failed deletes and takeovers; only the highest commit is worked *)
(* on; file names are never reused.                                        *)
(***************************************************************************)
EXTENDS TelemetryFileProofs, TelemetryOperationProofs

\* Every public operation.
LEMMA OperationRoot ==
    ASSUME RootInv, TypeOK', NEW i \in Instances, Operation(i)
    PROVE  RootInv'
<1> DEFINE s == mem[i]
<1>1. ASSUME NEW batch \in Batches, NEW cursor \in Cursors, AppendEvents(i, batch, cursor)
      PROVE  RootInv'
  <2>1. FreshRoot(i)
      BY <1>1, SMTT(30) DEF AppendEvents
  <2>2. s \in LocalStates /\ LocalStateValid(s)
      BY <2>1, FreshFacts, SMTT(30) DEF Wellformed
  <2>3. PICK prefix \in 0 .. Len(batch) :
            Publish(i, "APPEND", AppendCandidate(s, batch, prefix, cursor),
                    NewObjects(Len(batch) - prefix + 1))
      BY <1>1 DEF AppendEvents
  <2>4. s.produced + (Len(batch) - prefix) <= MaxCounter
      BY <2>2, <2>3, CandidateGeneration DEF Publish
  <2>5. Extends(AppendCandidate(s, batch, prefix, cursor), s, NewObjects(Len(batch) - prefix + 1))
      BY <2>2, <2>4, AppendExtends
  <2> HIDE DEF s
  <2> QED
      BY <2>1, <2>3, <2>5, ExtendRoot, NewObjectGeneration, SMTT(30) DEF s
<1>2. ASSUME NEW body \in Bodies, NEW count \in 0 .. BatchMax, PreparePending(i, body, count)
      PROVE  RootInv'
  <2>1. FreshRoot(i) /\ Publish(i, "PREPARE", PrepareCandidate(s, body, count), NewObjects(1))
      BY <1>2, SMTT(30) DEF PreparePending
  <2>2. Extends(PrepareCandidate(s, body, count), s, NewObjects(1))
      BY <2>1, FreshFacts, PrepareExtends
  <2> QED
      BY <2>1, <2>2, ExtendRoot, NewObjectGeneration, SMTT(30)
<1>3. ASSUME NEW response \in exposed, AcceptResponse(i, response)
      PROVE  RootInv'
  <2> DEFINE objects == {ObjectLocator(HighestObserved + 1, 2)}
  <2>1. FreshRoot(i) /\ HasPending(s) /\ Publish(i, "ACK", AcceptCandidate(s), objects)
      BY <1>3, SMTT(30) DEF AcceptResponse
  <2>2. s \in LocalStates /\ LocalStateValid(s)
      BY <2>1, FreshFacts DEF Wellformed
  <2>3. Extends(AcceptCandidate(s), s, objects)
      BY <2>1, <2>2, AcceptExtends
  <2> QED
      BY <2>1, <2>3, ExtendRoot, NewObjectGeneration
<1>4. ASSUME NEW body \in Bodies, ReplaceRejected(i, body)
      PROVE  RootInv'
  <2>1. FreshRoot(i) /\ Publish(i, "REPLACE", ReplaceCandidate(s, body), NewObjects(1))
      BY <1>4, SMTT(30) DEF ReplaceRejected
  <2>2. Extends(ReplaceCandidate(s, body), s, NewObjects(1))
      BY <2>1, FreshFacts, ReplaceExtends
  <2> QED
      BY <2>1, <2>2, ExtendRoot, NewObjectGeneration
<1>5. ASSUME NEW d \in Diagnostics, PublishDiagnostic(i, d[1], d[2])
      PROVE  RootInv'
  <2> DEFINE c == [Successor(s) EXCEPT !.completeness = d[1], !.last_error = d[2]]
  <2>1. FreshRoot(i) /\ Publish(i, "DIAGNOSTIC", c, {})
      BY <1>5, SMTT(30) DEF PublishDiagnostic
  <2>2. Extends(c, s, {})
      BY <2>1, FreshFacts, DiagnosticExtends, ZenonT(30)
  <2> QED
      BY <2>1, <2>2, ExtendRoot
<1>6. CASE Compact(i)
  <2>1. FreshRoot(i)
      BY <1>6, Zenon DEF Compact
  <2>2. CASE ContinueCleanup(s) /\ job' = [job EXCEPT ![i] = RetireJob(s)]
             /\ UNCHANGED <<disk, owner, flags, exposed>>
    <3>1. LoadRoot(s.parent_generation)
        BY <1>6, <2>2, Zenon DEF Compact, ContinueCleanup
    <3>2. /\ s = DurableRoot
          /\ DurableGeneration \in Generation
          /\ Wellformed(DurableRoot, DurableGeneration)
          /\ owner = i
        BY <2>1, FreshFacts
    <3>3. UNCHANGED disk /\ owner' = i
        BY <2>2, <3>2
    <3>4. DurableGeneration' = DurableGeneration /\ HighestCommit' = HighestCommit
          /\ DurableRoot' = DurableRoot
        BY <3>3, SameDisk, SMTT(30)
    <3>5. MemoryInv'
        BY <2>2, <3>4 DEF flags, RootInv, MemoryInv
    <3> HIDE DEF s
    <3> QED
        BY <2>2, <3>1, <3>2, <3>3, <3>5, RetireStep, ZenonT(30)
  <2>3. CASE Publish(i, "CHECKPOINT", Successor(s), {})
    <3>1. Extends(Successor(s), s, {})
        BY <2>1, FreshFacts, DiagnosticExtends, Zenon
    <3> QED
        BY <2>1, <2>3, <3>1, ExtendRoot, SMTT(30)
  <2> QED
      BY <1>6, <2>2, <2>3, ZenonT(30) DEF Compact
<1> QED
    BY <1>1, <1>2, <1>3, <1>4, <1>5, <1>6, ReadOnlyRoot, InitializeRoot, SMTT(30) DEF Operation

\* FinishPublish recovers the root just written and may start a retirement.
LEMMA FinishRoot ==
    ASSUME RootInv, TypeOK', NEW i \in Instances, FinishPublish(i)
    PROVE  RootInv'
<1> DEFINE ok == RecoveredRoot(i)
           root == manifest[HighestCommit]
<1>1. /\ job[i].phase = "RECOVER"
      /\ owner = i
      /\ UNCHANGED <<disk, owner>>
    BY DEF FinishPublish, RecoverFlags, RootInv, OwnerInv
<1>2. /\ loaded \in [Instances -> BOOLEAN]
      /\ mem \in [Instances -> LocalStates]
      /\ job \in [Instances -> Jobs]
    BY DEF RootInv, TypeOK
<1>3. /\ loaded'[i] = ok
      /\ ok => mem'[i] = root
    BY <1>2 DEF FinishPublish, RecoverFlags
<1>4. ok => /\ HighestCommit = DurableGeneration
            /\ DurableGeneration \in Generation
            /\ root = DurableRoot
            /\ Wellformed(DurableRoot, DurableGeneration)
    BY RecoveredFacts
<1>5. DurableGeneration' = DurableGeneration /\ HighestCommit' = HighestCommit
      /\ DurableRoot' = DurableRoot
    BY <1>1, SameDisk, SMTT(30)
<1>6. MemoryInv'
    BY <1>1, <1>3, <1>4, <1>5 DEF MemoryInv
<1>7. CASE ok /\ job[i].transition = "CHECKPOINT" /\ LoadRoot(root.parent_generation)
  <2>1. job' = [job EXCEPT ![i] = RetireJob(DurableRoot)]
      BY <1>4, <1>7, Zenon DEF FinishPublish
  <2> QED
      BY <1>1, <1>4, <1>6, <1>7, <2>1, RetireStep, Zenon
<1>8. CASE ~(ok /\ job[i].transition = "CHECKPOINT" /\ LoadRoot(root.parent_generation))
  <2>1. job' = [job EXCEPT ![i] = IdleJob]
      BY <1>8, Zenon DEF FinishPublish
  <2>2. \A j \in Instances : job'[j] = job[j] \/ job'[j].phase = "IDLE"
      BY <1>2, <2>1 DEF IdleJob
  <2>3. OwnerInv'
      BY <1>1, <2>2, SMTT(30) DEF RootInv, OwnerInv
  <2> QED
      BY <1>1, <1>6, <2>2, <2>3, QuietStep
<1> QED
    BY <1>7, <1>8

\* Every step preserves the invariant.
LEMMA StepRoot == RootInv /\ [Next]_vars => RootInv'
<1>1. ASSUME RootInv, Next PROVE RootInv'
  <2>1. TypeOK'
      BY <1>1, StepType DEF RootInv
  <2> QED
      BY <1>1, <2>1, OperationRoot, WriteRoot, DeleteRoot, FinishRoot, FaultRoot, Zenon DEF Next, FileStep
<1>2. ASSUME RootInv, UNCHANGED vars PROVE RootInv'
  <2>1. UNCHANGED <<disk, owner, loaded, reload, mem, job>> /\ TypeOK'
      BY <1>2, StepType DEF vars, flags, RootInv
  <2>2. DurableGeneration' = DurableGeneration /\ HighestCommit' = HighestCommit
        /\ DurableRoot' = DurableRoot
      BY <2>1, SameDisk
  <2>3. OwnerInv' /\ MemoryInv'
      BY <1>2, <2>1, <2>2 DEF RootInv, OwnerInv, MemoryInv
  <2> QED
      BY <1>2, <2>1, <2>3, QuietStep
<1> QED
    BY <1>1, <1>2, SMTT(30)

\* The initial, empty directory satisfies the invariant.
LEMMA InitRoot == Init => RootInv
<1> SUFFICES ASSUME Init PROVE RootInv
    OBVIOUS
<1>1. TypeOK
    BY ClearTypes DEF Init, TypeOK
<1>2. DurableGeneration = 0
    BY <1>1, DurableFacts DEF Init
<1>3. OwnerInv /\ WriteInv /\ RetireInv
    BY DEF Init, IdleJob, OwnerInv, WriteInv, RetireInv
<1>4. ManifestInv /\ MemoryInv
    BY DEF Init, ManifestInv, MemoryInv
<1> QED
    BY <1>1, <1>2, <1>3, <1>4 DEF RootInv, RootsRetained

\* The inductive invariant holds throughout.
THEOREM RootInvariant == Spec => []RootInv
BY InitRoot, StepRoot, PTL DEF Spec

\* Publish and Compact never lose a root: for any number of terminals, with
\* crashes, failed writes, failed deletes and takeovers in any order, the
\* highest complete commit and the root before it can be loaded.
THEOREM RootsAreRetained == Spec => []RootsRetained
<1>1. RootInv => RootsRetained
    BY DEF RootInv
<1> QED
    BY <1>1, RootInvariant, PTL

\* Recover and Guard: a terminal that may run an operation works on the highest
\* commit, never on an older one or on memory from before a failure.
THEOREM MemoryIsTheRoot == Spec => []MemoryIsRoot
<1>1. RootInv => MemoryIsRoot
    BY SMTT(30) DEF RootInv, MemoryInv, MemoryIsRoot, Guard
<1> QED
    BY <1>1, RootInvariant, PTL

\* Publish: CreateExact never meets an existing file.
THEOREM NoFileCollides == Spec => []NoCollision
<1>1. RootInv => NoCollision
    BY DEF RootInv, WriteInv, Writing, NoCollision
<1> QED
    BY <1>1, RootInvariant, PTL

\* CreateExact and DeleteExact: a retired file name is never used again, and
\* files an abandoned publication left above the root are never deleted.
THEOREM NamesAreNeverReused == Spec => NamesNeverReused
<1>1. RootInv /\ [Next]_vars =>
          [/\ \A l \in Present' \ Present : l.generation > DurableGeneration
           /\ \A l \in Present \ Present' : l.generation < DurableGeneration]_vars
    BY StepNames
<1> QED
    BY <1>1, RootInvariant, PTL DEF Spec, NamesNeverReused
=============================================================================
