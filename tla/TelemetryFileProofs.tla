---------------------------- MODULE TelemetryFileProofs ----------------------------
(***************************************************************************)
(* One file at a time: creating, losing and deleting a file of the store, and *)
(* stopping a terminal between two files, preserve the root invariant.     *)
(***************************************************************************)
EXTENDS TelemetryRootFacts

\* The commit is the last file of a publication.
LEMMA CommitLast ==
    ASSUME RootInv, NEW i \in Instances, job[i].phase = "WRITE",
           NEW l \in job[i].todo, NextFile(i, l), l.kind = "COMMIT"
    PROVE  job[i].todo = {l}
<1> DEFINE w == job[i].candidate.ack.witness
           g == job[i].candidate.generation
<1>1. job[i].todo \subseteq Locators
    BY SMTT(30) DEF RootInv, TypeOK, Jobs
<1>2. \A m \in job[i].todo : m.generation = g
    BY SMTT(30) DEF RootInv, WriteInv, Writing
<1>3. ASSUME NEW m \in job[i].todo, m # l
      PROVE  FALSE
  <2>1. Precedes(l, m, w)
      BY <1>3 DEF NextFile
  <2>2. m.kind # "COMMIT"
      BY <1>1, <1>2, <1>3, LocatorShape
  <2>3. m.kind \in {"REGISTRATION", "OBJECT", "STATE"}
      BY <1>1, <2>2, LocatorShape
  <2>4. Rank(l, w) = 4 /\ Rank(m, w) \in 0 .. 3
      BY <2>3 DEF Rank
  <2> QED
      BY <2>1, <2>4 DEF Precedes
<1> QED
    BY <1>3

\* Before a publication commits, the durable root is below its generation.
LEMMA BelowCandidate ==
    ASSUME RootInv, NEW i \in Instances, job[i].phase = "WRITE",
           DurableGeneration # 0
    PROVE  LET g == job[i].candidate.generation
               p == DurableRoot.parent_generation
           IN  /\ g \in Generation
               /\ DurableGeneration \in Generation
               /\ DurableGeneration < g
               /\ DurableRoot = manifest[DurableGeneration]
               /\ p # 0 => p \in Generation /\ p < g
<1> DEFINE g == job[i].candidate.generation
           p == DurableRoot.parent_generation
<1>1. TypeOK /\ RootsRetained /\ Writing(job[i].candidate, job[i].todo)
    BY DEF RootInv, WriteInv
<1>2. DurableGeneration \in Generation /\ CommitLocator(DurableGeneration) \in files
    BY <1>1, DurableFacts, SMTT(30)
<1>3. g \in Generation /\ DurableGeneration < g
    BY <1>1, <1>2 DEF Writing, Present
<1>4. DurableRoot = manifest[DurableGeneration] /\ DurableRoot \in LocalStates
    BY <1>1, <1>2, SMTT(30) DEF DurableRoot, TypeOK
<1>5. p # 0 => p \in Generation
    BY <1>4, CounterTypes, CounterAssumption, SMTT(30) DEF Generation
<1>6. p # 0 => CommitLocator(p) \in files
    BY <1>1, SMTT(30) DEF RootsRetained, LoadRoot
<1>7. p # 0 => p < g
    BY <1>1, <1>5, <1>6 DEF Writing, Present
<1> QED
    BY <1>2, <1>3, <1>4, <1>5, <1>7

\* An attempt to create a file other than the commit changes no root.
LEMMA LeaveFile ==
    ASSUME RootInv, NEW i \in Instances, job[i].phase = "WRITE",
           NEW l \in job[i].todo, NEW residue \in {"ABSENT", "HOLLOW", "TORN", "WHOLE"},
           Leave(i, l, residue), l.kind # "COMMIT" \/ residue # "WHOLE"
    PROVE  /\ DurableGeneration' = DurableGeneration
           /\ DurableRoot' = DurableRoot
           /\ RootsRetained'
           /\ ManifestInv'
           /\ l.kind # "COMMIT" => HighestCommit' = HighestCommit
           /\ Present' \subseteq Present \cup {l}
<1> DEFINE c == job[i].candidate
           g == c.generation
           d == DurableGeneration
<1>1. /\ TypeOK
      /\ RootsRetained
      /\ ManifestInv
      /\ Writing(c, job[i].todo)
      /\ l \in Locators
      /\ l.generation = g
    BY SMTT(30) DEF RootInv, WriteInv, Writing, TypeOK, Jobs
<1>2. /\ files \subseteq files'
      /\ files' \subseteq files \cup {l}
      /\ Present' \subseteq Present \cup {l}
      /\ Present \subseteq Present'
      /\ \A h \in Generation : h # g => manifest'[h] = manifest[h]
    BY <1>1, ZenonT(30) DEF Leave, Present, TypeOK
<1>3. \A h \in Generation : CommitLocator(h) \in files' <=> CommitLocator(h) \in files
  <2>1. l.kind = "COMMIT" => files' = files
      BY DEF Leave
  <2>2. l.kind # "COMMIT" => \A h \in Generation : CommitLocator(h) # l
      BY DEF CommitLocator
  <2> QED
      BY <1>2, <2>1, <2>2, Zenon
<1>4. d' = d
    BY <1>3 DEF DurableGeneration
<1>5. DurableRoot' = DurableRoot
  <2>1. CASE d = 0
      BY <1>4, <2>1 DEF DurableRoot
  <2>2. CASE d # 0
    <3>1. d \in Generation /\ d # g
        BY <2>2, BelowCandidate, CounterAssumption, SMTT(30) DEF Generation
    <3> QED
        BY <1>2, <1>4, <2>2, <3>1, SMTT(30) DEF DurableRoot
  <2> QED
      BY <2>1, <2>2
<1>6. RootsRetained'
  <2> SUFFICES ASSUME d # 0
               PROVE  /\ LoadRoot(d)'
                      /\ DurableRoot.parent_generation # 0 =>
                             LoadRoot(DurableRoot.parent_generation)'
      BY <1>4, <1>5, SMTT(30) DEF RootsRetained
  <2> DEFINE p == DurableRoot.parent_generation
  <2>1. /\ d \in Generation /\ d # g
        /\ p # 0 => p \in Generation /\ p # g
      BY BelowCandidate, CounterAssumption DEF Generation
  <2>2. LoadRoot(d) /\ (p # 0 => LoadRoot(p))
      BY <1>1, SMTT(30) DEF RootsRetained
  <2>3. \A h \in Generation : h # g /\ LoadRoot(h) =>
            /\ {CommitLocator(h), StateLocator(h)} \subseteq files'
            /\ RootLocators(manifest'[h]) \subseteq files'
      BY <1>2, SMTT(30) DEF LoadRoot
  <2> QED
      BY <1>4, <1>5, <2>1, <2>2, <2>3 DEF LoadRoot
<1>7. ManifestInv'
  <2> SUFFICES ASSUME NEW h \in Generation
               PROVE  IF StateLocator(h) \in files'
                      THEN Wellformed(manifest'[h], h)
                      ELSE manifest'[h] = ClearState
      BY SMTT(30) DEF ManifestInv
  <2>1. CASE residue = "WHOLE" /\ l = StateLocator(h)
    <3>1. manifest'[h] = c /\ g = h
        BY <1>1, <2>1, SMTT(30) DEF Leave, TypeOK, StateLocator
    <3>2. StateLocator(h) \in files'
        BY <2>1 DEF Leave
    <3> QED
        BY <1>1, <3>1, <3>2, SMTT(30) DEF Writing
  <2>2. CASE ~(residue = "WHOLE" /\ l = StateLocator(h))
    <3>1. StateLocator(h) \in files' <=> StateLocator(h) \in files
        BY <2>2 DEF Leave
    <3>2. manifest'[h] = manifest[h]
      <4>1. CASE residue = "WHOLE" /\ l.kind = "STATE"
        <5>1. l = StateLocator(l.generation) /\ l.generation \in Generation
            BY <1>1, <4>1, LocatorShape, SMTT(30)
        <5>2. l.generation # h
            BY <2>2, <4>1, <5>1
        <5> QED
            BY <1>1, <1>2, <5>2, SMTT(30)
      <4>2. CASE ~(residue = "WHOLE" /\ l.kind = "STATE")
          BY <4>2 DEF Leave
      <4> QED
          BY <4>1, <4>2, SMTT(30)
    <3> QED
        BY <1>1, <3>1, <3>2 DEF ManifestInv
  <2> QED
      BY <2>1, <2>2
<1>8. l.kind # "COMMIT" => HighestCommit' = HighestCommit
  <2> SUFFICES ASSUME l.kind # "COMMIT" PROVE HighestCommit' = HighestCommit
      OBVIOUS
  <2>1. {x \in Present' : x.kind = "COMMIT"} = {x \in Present : x.kind = "COMMIT"}
      BY <1>2
  <2> QED
      BY <2>1, Zenon DEF HighestCommit
<1> QED
    BY <1>2, <1>4, <1>5, <1>6, <1>7, <1>8, SMTT(30)

\* Creating the commit makes the candidate the durable root, with its parent,
\* the old durable root, still loadable.
LEMMA LeaveCommit ==
    ASSUME RootInv, NEW i \in Instances, job[i].phase = "WRITE",
           NEW l \in job[i].todo, NextFile(i, l),
           Leave(i, l, "WHOLE"), l.kind = "COMMIT"
    PROVE  /\ DurableGeneration' = job[i].candidate.generation
           /\ DurableRoot' = job[i].candidate
           /\ RootsRetained'
           /\ ManifestInv'
<1> DEFINE c == job[i].candidate
           g == c.generation
<1>1. /\ TypeOK
      /\ RootsRetained
      /\ ManifestInv
      /\ Writing(c, job[i].todo)
      /\ l = CommitLocator(g)
      /\ g \in Generation
    BY LocatorShape, SMTT(30) DEF RootInv, WriteInv, Writing, TypeOK, Jobs
<1>2. job[i].todo = {l}
    BY CommitLast
<1>3. files' = files \cup {l} /\ manifest' = manifest
    BY SMTT(30) DEF Leave
<1>4. DurableGeneration' = g
  <2>1. /\ DurableGeneration' \in 0 .. MaxCounter
        /\ \A h \in Generation : CommitLocator(h) \in files' => h <= DurableGeneration'
        /\ DurableGeneration' # 0 =>
               DurableGeneration' \in Generation /\ CommitLocator(DurableGeneration') \in files'
      BY DurableOf, SMTT(30) DEF DurableGeneration
  <2>2. g <= DurableGeneration' /\ DurableGeneration' # 0
      BY <1>1, <1>3, <2>1, CounterAssumption, SMTT(30) DEF Generation
  <2>3. CommitLocator(DurableGeneration') \in files \/ DurableGeneration' = g
      BY <1>1, <1>3, <2>1, <2>2, SMTT(30) DEF CommitLocator
  <2>4. CommitLocator(DurableGeneration') \in files => DurableGeneration' < g
      BY <1>1, <2>1, <2>2, SMTT(30) DEF Writing, Present
  <2> QED
      BY <1>1, <2>1, <2>2, <2>3, <2>4, CounterAssumption, SMTT(30) DEF Generation
<1>5. manifest[g] = c
  <2>1. StateLocator(g) # l
      BY <1>1, SMTT(30) DEF StateLocator, CommitLocator
  <2> QED
      BY <1>1, <1>2, <2>1, SMTT(30) DEF Writing
<1>6. g # 0
    BY <1>1, CounterAssumption, SMTT(30) DEF Generation
<1>7. DurableRoot' = c
    BY <1>3, <1>4, <1>5, <1>6, SMTT(30) DEF DurableRoot
<1>8. /\ {CommitLocator(g), StateLocator(g)} \subseteq files'
      /\ RootLocators(manifest'[g]) \subseteq files'
  <2>1. RootLocators(c) \subseteq files'
      BY <1>1, <1>2, <1>3, SMTT(30) DEF Writing
  <2>2. {CommitLocator(g), StateLocator(g)} \subseteq RootLocators(c)
      BY SMTT(30) DEF RootLocators
  <2> QED
      BY <1>3, <1>5, <2>1, <2>2, SMTT(30)
<1>9. c.parent_generation # 0 =>
          /\ {CommitLocator(c.parent_generation), StateLocator(c.parent_generation)} \subseteq files'
          /\ RootLocators(manifest'[c.parent_generation]) \subseteq files'
    BY <1>1, <1>3, ZenonT(30) DEF Writing, RootsRetained, LoadRoot
<1>10. RootsRetained'
    BY <1>4, <1>7, <1>8, <1>9, SMTT(30) DEF RootsRetained, LoadRoot
<1>11. ManifestInv'
    BY <1>1, <1>3, ZenonT(30) DEF ManifestInv, CommitLocator, StateLocator
<1> QED
    BY <1>4, <1>7, <1>10, <1>11, SMTT(30)

\* When a call fails or its process dies while it creates a file, nobody
\* trusts memory any more and the directory is left in order.
LEMMA AbandonWrite ==
    ASSUME RootInv, TypeOK', NEW i \in Instances, job[i].phase = "WRITE",
           NEW l \in job[i].todo, NextFile(i, l),
           NEW residue \in {"ABSENT", "HOLLOW", "TORN", "WHOLE"}, Leave(i, l, residue),
           job' = [job EXCEPT ![i] = IdleJob],
           owner' \in {i, NoOwner}, reload'[i] \/ ~loaded'[i]
    PROVE  RootInv'
<1>1. RootsRetained' /\ ManifestInv'
    BY LeaveFile, LeaveCommit, SMTT(30)
<1>2. \A j \in Instances : job'[j].phase = "IDLE"
    BY SMTT(30) DEF RootInv, OwnerInv, TypeOK, IdleJob
<1>3. OwnerInv' /\ WriteInv' /\ RetireInv'
    BY <1>2 DEF OwnerInv, WriteInv, RetireInv
<1>4. MemoryInv'
    BY InstanceAssumption DEF MemoryInv
<1> QED
    BY <1>1, <1>3, <1>4, SMTT(30) DEF RootInv

\* CreateAndVerify succeeds.
LEMMA WriteRoot ==
    ASSUME RootInv, TypeOK', NEW i \in Instances, NEW l \in job[i].todo, WriteFile(i, l)
    PROVE  RootInv'
<1> DEFINE c == job[i].candidate
           rest == job[i].todo \ {l}
<1>1. /\ job[i].phase = "WRITE"
      /\ owner = i
      /\ NextFile(i, l)
      /\ Leave(i, l, "WHOLE")
      /\ UNCHANGED <<owner, loaded, mem>>
    BY DEF WriteFile
<1>2. /\ job \in [Instances -> Jobs]
      /\ reload \in [Instances -> BOOLEAN]
      /\ Writing(c, job[i].todo)
      /\ job[i].todo \subseteq Locators
    BY <1>1 DEF RootInv, TypeOK, WriteInv, Jobs
<1>3. /\ job'[i].todo = rest
      /\ job'[i].phase = IF rest = {} THEN "RECOVER" ELSE "WRITE"
      /\ job'[i].candidate = c
      /\ reload'[i] = (reload[i] \/ rest = {})
      /\ \A j \in Instances \ {i} : job'[j] = job[j] /\ job[j].phase = "IDLE"
    BY <1>1, <1>2, SMTT(30) DEF WriteFile, RootInv, OwnerInv, Jobs
<1>4. OwnerInv'
    BY <1>1, <1>3, Zenon DEF OwnerInv
<1>5. CASE rest = {}
  <2>1. RootsRetained' /\ ManifestInv'
      BY <1>1, LeaveFile, LeaveCommit, SMTT(30)
  <2>2. WriteInv' /\ RetireInv' /\ MemoryInv'
      BY <1>1, <1>3, <1>5, Zenon DEF WriteInv, RetireInv, MemoryInv
  <2> QED
      BY <1>4, <2>1, <2>2, SMTT(30) DEF RootInv
<1>6. CASE rest # {}
  <2>1. l.kind # "COMMIT"
      BY <1>1, <1>6, CommitLast, SMTT(30)
  <2>2. /\ DurableGeneration' = DurableGeneration
        /\ DurableRoot' = DurableRoot
        /\ RootsRetained'
        /\ ManifestInv'
        /\ HighestCommit' = HighestCommit
        /\ Present' \subseteq Present \cup {l}
      BY <1>1, <2>1, LeaveFile, SMTT(30)
  <2>3. Writing(c, rest)'
    <3> DEFINE g == c.generation
    <3>1. c' = c /\ rest' = job'[i].todo \ {l}
        BY <1>3, Zenon
    <3>2. files' = files \cup {l}
        BY <1>1, SMTT(30) DEF Leave
    <3>3. \A h \in Generation : CommitLocator(h) \in Present' => CommitLocator(h) \in Present
        BY <2>1, <2>2, SMTT(30) DEF CommitLocator
    <3>4. CommitLocator(g) \in rest
        BY <1>2, <2>1, SMTT(30) DEF Writing, CommitLocator
    <3>5. \A m \in rest : m.generation = g /\ m \notin Present'
        BY <1>2, <2>2, ZenonT(30) DEF Writing
    <3>6. RootLocators(c) \subseteq files' \cup rest
        BY <1>2, <3>2, ZenonT(30) DEF Writing
    <3>7. StateLocator(g) \in rest \/ manifest'[g] = c
      <4>1. CASE l = StateLocator(g)
          BY <1>1, <1>2, <4>1, ZenonT(30) DEF Leave, StateLocator, RootInv, TypeOK, Writing
      <4>2. CASE l # StateLocator(g)
        <5>1. l.kind # "STATE"
            BY <1>2, <4>2, LocatorShape, ZenonT(30) DEF Writing
        <5>2. manifest' = manifest
            BY <1>1, <5>1, ZenonT(30) DEF Leave
        <5> QED
            BY <1>2, <4>2, <5>2, ZenonT(30) DEF Writing
      <4> QED
          BY <4>1, <4>2, SMTT(30)
    <3> QED
        BY <1>2, <1>3, <2>2, <3>3, <3>4, <3>5, <3>6, <3>7, ZenonT(30) DEF Writing
  <2>4. WriteInv' /\ RetireInv'
      BY <1>3, <1>6, <2>3, Zenon DEF WriteInv, RetireInv
  <2>5. MemoryInv'
    <3>1. \A j \in Instances \ {i} : owner' # j
        BY <1>1, SMTT(30)
    <3>2. ~reload[i] /\ loaded'[i] =>
             HighestCommit' = DurableGeneration' /\ mem'[i] = DurableRoot'
        BY <1>1, <2>2 DEF RootInv, MemoryInv
    <3> QED
        BY <1>1, <1>3, <2>2, <3>1, <3>2, ZenonT(30) DEF MemoryInv
  <2> QED
      BY <1>4, <2>2, <2>4, <2>5, SMTT(30) DEF RootInv
<1> QED
    BY <1>5, <1>6

\* A deletion changes neither root.
LEMMA RemoveFile ==
    ASSUME RootInv, TypeOK', NEW i \in Instances, job[i].phase = "RETIRE",
           NEW l \in job[i].todo, Remove(l)
    PROVE  /\ DurableGeneration' = DurableGeneration
           /\ DurableRoot' = DurableRoot
           /\ manifest'[DurableRoot.parent_generation] = manifest[DurableRoot.parent_generation]
           /\ HighestCommit = DurableGeneration => HighestCommit' = HighestCommit
           /\ RootsRetained'
           /\ ManifestInv'
<1> DEFINE d == DurableGeneration
           p == DurableRoot.parent_generation
<1>1. /\ TypeOK
      /\ RootsRetained
      /\ ManifestInv
      /\ Retiring(job[i].todo)
      /\ l \in Locators
    BY SMTT(30) DEF RootInv, RetireInv, TypeOK, Jobs
<1>2. /\ files' = files \ {l}
      /\ Present' \subseteq Present
      /\ \A h \in Generation : l # StateLocator(h) => manifest'[h] = manifest[h]
      /\ \A h \in Generation : l = StateLocator(h) => manifest'[h] = ClearState
  <2>1. l.kind = "STATE" => l = StateLocator(l.generation)
      BY <1>1, LocatorShape
  <2>2. \A h \in Generation : StateLocator(h).kind = "STATE" /\ StateLocator(h).generation = h
      BY SMTT(30) DEF StateLocator
  <2>3. manifest \in [Generation -> LocalStates]
      BY <1>1, ZenonT(30) DEF TypeOK
  <2>4. \A h \in Generation : l # StateLocator(h) => manifest'[h] = manifest[h]
      BY <2>1, <2>3 DEF Remove
  <2>5. \A h \in Generation : l = StateLocator(h) => manifest'[h] = ClearState
      BY <2>2, <2>3, SMTT(30) DEF Remove
  <2> QED
      BY <2>4, <2>5 DEF Remove, Present
<1>3. /\ d # 0 /\ d \in Generation
      /\ p # 0 /\ p \in Generation
      /\ DurableRoot = manifest[d]
      /\ LoadRoot(d) /\ LoadRoot(p)
  <2>1. d # 0 /\ p # 0
      BY <1>1, SMTT(30) DEF Retiring
  <2>2. d \in Generation /\ DurableRoot = manifest[d] /\ manifest[d] \in LocalStates
      BY <1>1, <2>1, DurableFacts, ZenonT(30) DEF DurableRoot, TypeOK
  <2>3. p \in Generation
      BY <2>1, <2>2, CounterTypes, CounterAssumption DEF Generation
  <2> QED
      BY <1>1, <2>1, <2>2, <2>3 DEF RootsRetained
<1>4. /\ l \notin RootLocators(manifest[d])
      /\ l \notin RootLocators(manifest[p])
      /\ manifest[d].generation = d /\ manifest[p].generation = p
    BY <1>1, <1>3, Zenon DEF Retiring, ManifestInv, Wellformed, LoadRoot
<1>5. \A h \in {d, p} : {StateLocator(h), CommitLocator(h)} \subseteq RootLocators(manifest[h])
    BY <1>4, SMTT(30) DEF RootLocators
<1>6. manifest'[d] = manifest[d] /\ manifest'[p] = manifest[p]
    BY <1>2, <1>3, <1>4, <1>5, SMTT(30)
<1>7. \A h \in {d, p} : /\ {CommitLocator(h), StateLocator(h)} \subseteq files'
                        /\ RootLocators(manifest'[h]) \subseteq files'
    BY <1>2, <1>3, <1>4, <1>5, <1>6, SMTT(30) DEF LoadRoot
<1>8. d' = d
  <2>1. /\ d' \in 0 .. MaxCounter
        /\ \A h \in Generation : CommitLocator(h) \in files' => h <= d'
        /\ d' # 0 => d' \in Generation /\ CommitLocator(d') \in files'
      BY DurableOf, SMTT(30) DEF DurableGeneration
  <2>2. d <= d' /\ d' # 0
      BY <1>3, <1>7, <2>1, CounterAssumption DEF Generation
  <2>3. d' <= d
      BY <1>1, <1>2, <2>1, <2>2, DurableFacts, SMTT(30)
  <2> QED
      BY <1>3, <2>1, <2>2, <2>3, CounterAssumption, SMTT(30) DEF Generation
<1>9. DurableRoot' = DurableRoot
    BY <1>3, <1>6, <1>8 DEF DurableRoot
<1>10. HighestCommit = d => HighestCommit' = HighestCommit
  <2> SUFFICES ASSUME HighestCommit = d PROVE HighestCommit' = d
      BY Zenon
  <2>1. Present' \in SUBSET Locators /\ Present \in SUBSET Locators
    <3>1. files \subseteq Locators /\ torn \subseteq Locators /\ hollow \subseteq Locators
        BY <1>1, Zenon DEF TypeOK
    <3>2. Present \subseteq Locators
        BY <3>1, Zenon DEF Present
    <3> QED
        BY <1>2, <3>2, Zenon
  <2>2. /\ HighestCommit' \in 0 .. MaxCounter
        /\ \A h \in Generation : CommitLocator(h) \in Present' => h <= HighestCommit'
        /\ HighestCommit' # 0 =>
               HighestCommit' \in Generation /\ CommitLocator(HighestCommit') \in Present'
      BY <2>1, HighestCommitOf, SMTT(30) DEF HighestCommit
  <2>3. d <= HighestCommit'
      BY <1>3, <1>7, <2>2, SMTT(30) DEF Present
  <2>4. HighestCommit' <= d
      BY <1>1, <1>2, <1>3, <2>2, DurableFacts, CounterAssumption, SMTT(30) DEF Generation
  <2> QED
      BY <1>3, <2>2, <2>3, <2>4, CounterAssumption DEF Generation
<1>11. RootsRetained'
    BY <1>7, <1>8, <1>9 DEF RootsRetained, LoadRoot
<1>12. ManifestInv'
  <2> SUFFICES ASSUME NEW h \in Generation
               PROVE  IF StateLocator(h) \in files'
                      THEN Wellformed(manifest'[h], h)
                      ELSE manifest'[h] = ClearState
      BY SMTT(30) DEF ManifestInv
  <2> QED
      BY <1>1, <1>2 DEF ManifestInv
<1> QED
    BY <1>6, <1>8, <1>9, <1>10, <1>11, <1>12, SMTT(30)

\* DeleteAuthorized, with or without an error.
LEMMA DeleteRoot ==
    ASSUME RootInv, TypeOK', NEW i \in Instances, NEW l \in job[i].todo,
           DeleteFile(i, l) \/ DeleteFails(i, l)
    PROVE  RootInv'
<1>1. /\ job[i].phase = "RETIRE"
      /\ owner = i
      /\ Remove(l) \/ UNCHANGED disk
      /\ UNCHANGED <<owner, loaded, mem>>
    BY SMTT(30) DEF DeleteFile, DeleteFails, flags
<1>2. /\ job \in [Instances -> Jobs]
      /\ reload \in [Instances -> BOOLEAN]
      /\ Retiring(job[i].todo)
      /\ MemoryInv
    BY <1>1 DEF RootInv, TypeOK, RetireInv
<1>3. /\ \A j \in Instances \ {i} : job'[j] = job[j] /\ job[j].phase = "IDLE"
      /\ job'[i].phase \in {"IDLE", "RETIRE"}
      /\ job'[i].phase = "RETIRE" => job'[i].todo \subseteq job[i].todo
      /\ reload[i] => reload'[i]
    BY <1>1, <1>2, SMTT(30) DEF DeleteFile, DeleteFails, IdleJob, RootInv, OwnerInv, flags, Jobs
<1>4. OwnerInv'
    BY <1>1, <1>3 DEF OwnerInv
<1>5. /\ DurableGeneration' = DurableGeneration
      /\ DurableRoot' = DurableRoot
      /\ manifest'[DurableRoot.parent_generation] = manifest[DurableRoot.parent_generation]
      /\ HighestCommit = DurableGeneration => HighestCommit' = HighestCommit
      /\ RootsRetained'
      /\ ManifestInv'
  <2>1. CASE Remove(l)
      BY <1>1, <2>1, RemoveFile
  <2>2. CASE UNCHANGED disk
      BY <2>2, SameDisk, SMTT(30) DEF RootInv, disk
  <2> QED
      BY <1>1, <2>1, <2>2, SMTT(30)
<1>6. WriteInv' /\ RetireInv'
  <2>1. WriteInv'
      BY <1>3, SMTT(30) DEF WriteInv
  <2>2. job'[i].phase = "RETIRE" => Retiring(job[i].todo)'
      BY <1>2, <1>3, <1>5, SMTT(30) DEF Retiring
  <2> QED
      BY <1>3, <2>1, <2>2 DEF RetireInv
<1>7. MemoryInv'
    BY <1>1, <1>2, <1>3, <1>5 DEF MemoryInv
<1> QED
    BY <1>4, <1>5, <1>6, <1>7 DEF RootInv

\* A terminal that stops or starts without touching a file: its job ends, and
\* it either keeps its flags, must reload, or has nothing loaded.
LEMMA StopRoot ==
    ASSUME RootInv, TypeOK', NEW i \in Instances, UNCHANGED disk,
           job' = [job EXCEPT ![i] = IdleJob] \/ UNCHANGED job,
           owner' = owner \/ owner' = NoOwner \/ (owner = NoOwner /\ owner' = i),
           owner # owner' => owner \in {i, NoOwner} /\ job'[i].phase = "IDLE",
           reload'[i] \/ ~loaded'[i],
           \A j \in Instances \ {i} :
               loaded'[j] = loaded[j] /\ reload'[j] = reload[j] /\ mem'[j] = mem[j]
    PROVE  RootInv'
<1>1. job \in [Instances -> Jobs]
    BY SMTT(30) DEF RootInv, TypeOK
<1>2. \A j \in Instances : job'[j] = job[j] \/ job'[j].phase = "IDLE"
    BY <1>1, SMTT(30) DEF IdleJob
<1>3. OwnerInv'
    BY <1>2, InstanceAssumption DEF RootInv, OwnerInv
<1>4. DurableGeneration' = DurableGeneration /\ HighestCommit' = HighestCommit
      /\ DurableRoot' = DurableRoot
    BY SameDisk
<1>5. MemoryInv'
    BY <1>4, InstanceAssumption, SMTT(30) DEF RootInv, MemoryInv
<1> QED
    BY <1>2, <1>3, <1>5, QuietStep, SMTT(30)

\* Every fault, and opening and closing the store.
LEMMA FaultRoot ==
    ASSUME RootInv, TypeOK', NEW i \in Instances, Fault(i) \/ Open(i) \/ Close(i)
    PROVE  RootInv'
<1>1. /\ loaded \in [Instances -> BOOLEAN]
      /\ reload \in [Instances -> BOOLEAN]
      /\ mem \in [Instances -> LocalStates]
      /\ job \in [Instances -> Jobs]
    BY SMTT(30) DEF RootInv, TypeOK
<1>2. ASSUME NEW l \in job[i].todo, NEW residue \in {"ABSENT", "HOLLOW", "TORN", "WHOLE"},
             WriteFails(i, l, residue)
      PROVE  RootInv'
  <2>1. reload'[i]
      BY <1>1, <1>2 DEF WriteFails
  <2> QED
      BY <1>2, <2>1, AbandonWrite, Zenon DEF WriteFails
<1>3. ASSUME NEW l \in job[i].todo, DeleteFails(i, l)
      PROVE  RootInv'
    BY <1>3, DeleteRoot, SMTT(30)
<1>4. CASE ReadFails(i)
  <2>1. reload'[i] /\ \A j \in Instances \ {i} : reload'[j] = reload[j]
      BY <1>1, <1>4 DEF ReadFails
  <2> QED
      BY <1>4, <2>1, StopRoot, Zenon DEF ReadFails
<1>5. CASE RecoverFails(i)
  <2>1. /\ reload'[i]
        /\ \A j \in Instances \ {i} :
               loaded'[j] = loaded[j] /\ reload'[j] = reload[j] /\ mem'[j] = mem[j]
      BY <1>1, <1>5 DEF RecoverFails, RecoverFlags
  <2>2. UNCHANGED <<disk, owner>> /\ job' = [job EXCEPT ![i] = IdleJob]
      BY <1>5 DEF RecoverFails, RecoverFlags
  <2> QED
      BY <2>1, <2>2, StopRoot, Zenon
<1>6. CASE LoseOwnership(i)
  <2>1. reload'[i] /\ \A j \in Instances \ {i} : reload'[j] = reload[j]
      BY <1>1, <1>6, SMTT(30) DEF LoseOwnership
  <2>2. job'[i].phase = "IDLE"
      BY <1>1, <1>6, SMTT(30) DEF LoseOwnership, IdleJob
  <2> QED
      BY <1>6, <2>1, <2>2, StopRoot, ZenonT(30) DEF LoseOwnership
<1>7. ASSUME Forget(i)
      PROVE  /\ ~loaded'[i]
             /\ job' = [job EXCEPT ![i] = IdleJob]
             /\ job'[i].phase = "IDLE"
             /\ \A j \in Instances \ {i} :
                    loaded'[j] = loaded[j] /\ reload'[j] = reload[j] /\ mem'[j] = mem[j]
    BY <1>1, <1>7, Zenon DEF Forget, IdleJob
<1>8. CASE Open(i)
  <2>1. Forget(i) /\ owner = NoOwner /\ owner' = i /\ UNCHANGED disk
      BY <1>8, SMTT(30) DEF Open
  <2> QED
      BY <1>7, <2>1, StopRoot, Zenon
<1>9. CASE Close(i)
  <2>1. Forget(i) /\ owner' = (IF owner = i THEN NoOwner ELSE owner) /\ UNCHANGED disk
      BY <1>9 DEF Close
  <2>2. owner' = owner \/ (owner' = NoOwner /\ owner = i)
      BY <2>1, SMTT(30)
  <2> QED
      BY <1>7, <2>1, <2>2, StopRoot, Zenon
<1>10. CASE Crash(i)
  <2>1. Forget(i) /\ owner' = (IF owner = i THEN NoOwner ELSE owner)
      BY <1>10 DEF Crash
  <2>2. owner' = owner \/ (owner' = NoOwner /\ owner = i)
      BY <2>1, SMTT(30)
  <2>3. CASE UNCHANGED disk
      BY <1>7, <2>1, <2>2, <2>3, StopRoot, ZenonT(30)
  <2>4. ASSUME job[i].phase = "WRITE", NEW l \in job[i].todo,
               NEW residue \in {"TORN", "HOLLOW"}, NextFile(i, l), Leave(i, l, residue)
        PROVE  RootInv'
    <3>1. owner' \in {i, NoOwner}
        BY <2>1, <2>4 DEF RootInv, OwnerInv
    <3> QED
        BY <1>7, <2>1, <2>4, <3>1, AbandonWrite, ZenonT(30)
  <2>5. \/ UNCHANGED disk
        \/ /\ job[i].phase = "WRITE"
           /\ \E l \in job[i].todo, residue \in {"TORN", "HOLLOW"} :
                 NextFile(i, l) /\ Leave(i, l, residue)
      BY <1>10, Zenon DEF Crash
  <2> QED
      BY <2>3, <2>4, <2>5, Zenon
<1> QED
    BY <1>2, <1>3, <1>4, <1>5, <1>6, <1>8, <1>9, <1>10, ZenonT(30) DEF Fault

\* One step creates files above the durable root and deletes files below it.
LEMMA StepNames ==
    ASSUME RootInv, Next
    PROVE  /\ \A l \in Present' \ Present : l.generation > DurableGeneration
           /\ \A l \in Present \ Present' : l.generation < DurableGeneration
<1> DEFINE Names == /\ \A l \in Present' \ Present : l.generation > DurableGeneration
                    /\ \A l \in Present \ Present' : l.generation < DurableGeneration
<1>1. CASE UNCHANGED disk
    BY <1>1, SameDisk
<1>2. ASSUME NEW i \in Instances, job[i].phase = "WRITE", NEW l \in job[i].todo,
             NEW residue \in {"ABSENT", "HOLLOW", "TORN", "WHOLE"}, Leave(i, l, residue)
      PROVE  Names
  <2>1. Present \subseteq Present' /\ Present' \subseteq Present \cup {l}
      BY <1>2, SMTT(30) DEF Leave, Present
  <2>2. l.generation = job[i].candidate.generation /\ l.generation \in Generation
      BY <1>2, Zenon DEF RootInv, WriteInv, Writing
  <2>3. l.generation > DurableGeneration
    <3>1. CASE DurableGeneration = 0
        BY <2>2, <3>1, CounterAssumption, SMTT(30) DEF Generation
    <3>2. CASE DurableGeneration # 0
        BY <1>2, <2>2, <3>2, BelowCandidate, CounterAssumption DEF Generation
    <3> QED
        BY <3>1, <3>2
  <2> QED
      BY <2>1, <2>3
<1>3. ASSUME NEW i \in Instances, job[i].phase = "RETIRE", NEW l \in job[i].todo, Remove(l)
      PROVE  Names
  <2>1. Present' \subseteq Present /\ Present \subseteq Present' \cup {l}
      BY <1>3 DEF Remove, Present
  <2>2. l.generation < DurableGeneration
      BY <1>3 DEF RootInv, RetireInv, Retiring
  <2> QED
      BY <2>1, <2>2
<1>4. PICK i \in Instances : Operation(i) \/ FileStep(i) \/ Fault(i) \/ Open(i) \/ Close(i)
    BY DEF Next
<1>5. CASE Operation(i)
  <2>1. UNCHANGED disk
      BY <1>5, ZenonT(30) DEF Operation, Recover, RecoverFlags, InitializeNew, AppendEvents, PreparePending,
                  ReadPending, AcceptResponse, ReplaceRejected, PublishDiagnostic, Compact, Publish
  <2> QED
      BY <1>1, <2>1, SMTT(30)
<1>6. CASE FileStep(i)
    BY <1>1, <1>2, <1>3, <1>6, Zenon DEF FileStep, WriteFile, DeleteFile, FinishPublish, RecoverFlags
<1>7. CASE Fault(i)
    BY <1>1, <1>2, <1>3, <1>7, Zenon DEF Fault, WriteFails, DeleteFails, ReadFails, RecoverFails,
                                  RecoverFlags, LoseOwnership, Crash
<1>8. CASE Open(i) \/ Close(i)
    BY <1>1, <1>8 DEF Open, Close
<1> QED
    BY <1>4, <1>5, <1>6, <1>7, <1>8
=============================================================================
