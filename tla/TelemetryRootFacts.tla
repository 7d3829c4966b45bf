------------------------- MODULE TelemetryRootFacts -------------------------
(***************************************************************************)
(* The inductive invariant of the telemetry store's publication protocol,  *)
(* and what it says about the directory: facts used by every step.         *)
(***************************************************************************)
EXTENDS TelemetryStateProofs

(***************************************************************************)
(* The inductive invariant.                                                *)
(***************************************************************************)
\* A call in progress belongs to the holder of owner.lock.
OwnerInv == \A i \in Instances : job[i].phase # "IDLE" => owner = i

\* A well-formed manifest of generation g.
Wellformed(s, g) ==
    /\ s.generation = g
    /\ LocalStateValid(s)
    /\ s.ack.witness.generation <= g

\* A complete state file holds a well-formed manifest of its generation.
ManifestInv ==
    \A g \in Generation :
        IF StateLocator(g) \in files
        THEN Wellformed(manifest[g], g)
        ELSE manifest[g] = ClearState

\* The memory of a terminal that holds the lock and need not reload is the
\* highest commit.
MemoryInv ==
    \A i \in Instances :
        owner = i /\ loaded[i] /\ ~reload[i] =>
            /\ HighestCommit = DurableGeneration
            /\ mem[i] = DurableRoot

\* A publication in progress: its generation is above every commit, its files
\* are unused, its root is complete once they are written, and its parent is
\* the durable root.
Writing(c, todo) ==
    LET g == c.generation
    IN /\ g \in Generation
       /\ Wellformed(c, g)
       /\ c.parent_generation = DurableGeneration
       /\ CommitLocator(g) \in todo
       /\ \A l \in todo : l.generation = g /\ l \notin Present
       /\ \A h \in Generation : CommitLocator(h) \in Present => h < g
       /\ RootLocators(c) \subseteq files \cup todo
       /\ StateLocator(g) \in todo \/ manifest[g] = c

WriteInv ==
    \A i \in Instances :
        job[i].phase = "WRITE" => Writing(job[i].candidate, job[i].todo)

\* A retirement in progress: its files are below the durable root and needed
\* neither by it nor by its parent.
Retiring(todo) ==
    /\ DurableGeneration # 0
    /\ DurableRoot.parent_generation # 0
    /\ \A l \in todo :
          /\ l.generation < DurableGeneration
          /\ l \notin RootLocators(DurableRoot)
          /\ l \notin RootLocators(manifest[DurableRoot.parent_generation])

RetireInv ==
    \A i \in Instances : job[i].phase = "RETIRE" => Retiring(job[i].todo)

RootInv ==
    /\ TypeOK
    /\ OwnerInv
    /\ ManifestInv
    /\ RootsRetained
    /\ MemoryInv
    /\ WriteInv
    /\ RetireInv

(***************************************************************************)
(* Reading the directory.                                                  *)
(***************************************************************************)
\* The durable generation is the highest complete commit; HighestCommit also
\* sees partial ones.
LEMMA DurableFacts ==
    ASSUME TypeOK
    PROVE  /\ DurableGeneration \in 0 .. MaxCounter
           /\ HighestCommit \in 0 .. MaxCounter
           /\ \A g \in Generation : CommitLocator(g) \in files => g <= DurableGeneration
           /\ \A g \in Generation : CommitLocator(g) \in Present => g <= HighestCommit
           /\ DurableGeneration # 0 =>
                DurableGeneration \in Generation /\ CommitLocator(DurableGeneration) \in files
           /\ HighestCommit # 0 =>
                HighestCommit \in Generation /\ CommitLocator(HighestCommit) \in Present
<1>1. Present \in SUBSET Locators
    BY DEF TypeOK, Present
<1>2. /\ HighestCommit \in 0 .. MaxCounter
      /\ \A g \in Generation : CommitLocator(g) \in Present => g <= HighestCommit
      /\ HighestCommit # 0 =>
           HighestCommit \in Generation /\ CommitLocator(HighestCommit) \in Present
    BY <1>1, HighestCommitOf DEF HighestCommit
<1>3. /\ DurableGeneration \in 0 .. MaxCounter
      /\ \A g \in Generation : CommitLocator(g) \in files => g <= DurableGeneration
      /\ DurableGeneration # 0 =>
           DurableGeneration \in Generation /\ CommitLocator(DurableGeneration) \in files
    BY DurableOf DEF DurableGeneration
<1> QED
    BY <1>2, <1>3

\* A complete highest commit is the durable one.
LEMMA CompleteCommit ==
    ASSUME TypeOK, CommitLocator(HighestCommit) \in files
    PROVE  /\ HighestCommit = DurableGeneration
           /\ DurableGeneration \in Generation
           /\ manifest[HighestCommit] = DurableRoot
<1>1. HighestCommit \in Generation
  <2>1. CommitLocator(HighestCommit).generation \in Generation
      BY LocatorShape DEF TypeOK
  <2> QED
      BY <2>1 DEF CommitLocator
<1>2. DurableGeneration # 0
    BY <1>1, DurableFacts, CounterAssumption DEF Generation
<1>3. DurableGeneration <= HighestCommit /\ HighestCommit <= DurableGeneration
    BY <1>1, <1>2, DurableFacts DEF Present
<1> QED
    BY <1>1, <1>2, <1>3, DurableFacts DEF DurableRoot

\* An operation that passed its freshness checks works on the durable root.
LEMMA FreshFacts ==
    ASSUME RootInv, NEW i \in Instances, FreshRoot(i)
    PROVE  /\ mem[i] \in LocalStates
           /\ mem[i] = DurableRoot
           /\ mem[i].generation = DurableGeneration
           /\ HighestCommit = DurableGeneration
           /\ DurableGeneration \in Generation
           /\ Wellformed(mem[i], DurableGeneration)
           /\ RootLocators(mem[i]) \subseteq files
           /\ manifest[DurableGeneration] = mem[i]
           /\ owner = i
           /\ job[i].phase = "IDLE"
<1>1. TypeOK /\ ManifestInv
    BY DEF RootInv
<1>2. /\ owner = i
      /\ job[i].phase = "IDLE"
      /\ HighestCommit = mem[i].generation
      /\ CommitLocator(HighestCommit) \in files
      /\ StateLocator(HighestCommit) \in files
      /\ RootLocators(manifest[HighestCommit]) \subseteq files
      /\ manifest[HighestCommit] = mem[i]
    BY DEF FreshRoot, Guard, LoadRoot
<1>3. HighestCommit = DurableGeneration /\ DurableGeneration \in Generation
      /\ manifest[HighestCommit] = DurableRoot
    BY <1>1, <1>2, CompleteCommit
<1> QED
    BY <1>1, <1>2, <1>3 DEF ManifestInv, TypeOK

\* A successful recovery ends on the durable root.
LEMMA RecoveredFacts ==
    ASSUME RootInv, NEW i \in Instances, RecoveredRoot(i)
    PROVE  /\ owner = i
           /\ HighestCommit = DurableGeneration
           /\ DurableGeneration \in Generation
           /\ manifest[HighestCommit] = DurableRoot
           /\ DurableRoot \in LocalStates
           /\ Wellformed(DurableRoot, DurableGeneration)
<1>1. TypeOK /\ ManifestInv
    BY DEF RootInv
<1>2. /\ owner = i
      /\ CommitLocator(HighestCommit) \in files
      /\ StateLocator(HighestCommit) \in files
    BY DEF RecoveredRoot, LoadRoot
<1>3. HighestCommit = DurableGeneration /\ DurableGeneration \in Generation
      /\ manifest[HighestCommit] = DurableRoot
    BY <1>1, <1>2, CompleteCommit
<1> QED
    BY <1>1, <1>2, <1>3 DEF ManifestInv, TypeOK

\* What is computed from the directory does not change.
LEMMA SameDisk ==
    ASSUME UNCHANGED disk
    PROVE  /\ Present' = Present
           /\ DurableGeneration' = DurableGeneration
           /\ HighestCommit' = HighestCommit
           /\ DurableRoot' = DurableRoot
           /\ RootsRetained' = RootsRetained
           /\ ManifestInv' = ManifestInv
<1>1. Present' = Present
    BY DEF disk, Present
<1>2. DurableGeneration' = DurableGeneration /\ HighestCommit' = HighestCommit
    BY <1>1 DEF disk, DurableGeneration, HighestCommit
<1>3. DurableRoot' = DurableRoot
    BY <1>2 DEF disk, DurableRoot
<1>4. RootsRetained' = RootsRetained
    BY <1>2, <1>3 DEF disk, RootsRetained, LoadRoot
<1>5. ManifestInv' = ManifestInv
    BY DEF disk, ManifestInv
<1> QED
    BY <1>1, <1>2, <1>3, <1>4, <1>5

\* No call makes progress: every job is as before or has stopped.
LEMMA QuietStep ==
    ASSUME RootInv, TypeOK', UNCHANGED disk,
           \A j \in Instances : job'[j] = job[j] \/ job'[j].phase \in {"IDLE", "RECOVER"},
           OwnerInv', MemoryInv'
    PROVE  RootInv'
<1>1. /\ Present' = Present
      /\ DurableGeneration' = DurableGeneration
      /\ DurableRoot' = DurableRoot
      /\ RootsRetained' = RootsRetained
      /\ ManifestInv' = ManifestInv
      /\ files' = files
      /\ manifest' = manifest
    BY SameDisk DEF disk
<1>2. WriteInv'
  <2> SUFFICES ASSUME NEW j \in Instances, job'[j].phase = "WRITE"
               PROVE  Writing(job[j].candidate, job[j].todo)'
      BY DEF WriteInv
  <2>1. job'[j] = job[j] /\ Writing(job[j].candidate, job[j].todo)
      BY DEF RootInv, WriteInv
  <2> QED
      BY <1>1, <2>1 DEF Writing
<1>3. RetireInv'
    BY <1>1 DEF RootInv, RetireInv, Retiring
<1> QED
    BY <1>1, <1>2, <1>3 DEF RootInv

\* The counters of a manifest are bounded naturals.
LEMMA CounterTypes ==
    ASSUME NEW s \in LocalStates
    PROVE  /\ s.generation \in 0 .. MaxCounter
           /\ s.parent_generation \in 0 .. MaxCounter
           /\ s.produced \in 0 .. MaxCounter
           /\ s.accepted_event \in 0 .. MaxCounter
BY SMTT(30) DEF LocalStates
=============================================================================
