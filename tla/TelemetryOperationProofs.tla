------------------------- MODULE TelemetryOperationProofs -------------------------
(***************************************************************************)
(* What a call starts: the candidate an operation publishes extends the     *)
(* durable root, and what it retires is below the root and its parent.      *)
(***************************************************************************)
EXTENDS TelemetryRootFacts

\* Publish, on a candidate above everything observed whose root is complete
\* once the new files are written.
LEMMA PublishRoot ==
    ASSUME RootInv, TypeOK', NEW i \in Instances, NEW t, NEW c, NEW objects,
           Publish(i, t, c, objects), owner = i,
           c.generation = HighestObserved + 1, c.generation \in Generation,
           c.parent_generation = DurableGeneration,
           c.ack.witness.generation <= c.generation,
           \A l \in objects : l.generation = c.generation,
           RootLocators(c) \subseteq
               files \cup objects \cup {StateLocator(c.generation), CommitLocator(c.generation)}
    PROVE  RootInv'
<1> DEFINE g == c.generation
           todo == objects \cup {StateLocator(g), CommitLocator(g)}
<1>1. /\ job' = [job EXCEPT ![i] = [phase |-> "WRITE", transition |-> t,
                                    candidate |-> c, todo |-> todo]]
      /\ UNCHANGED <<disk, owner, flags, exposed>>
      /\ LocalStateValid(c)
    BY DEF Publish
<1>2. TypeOK /\ job \in [Instances -> Jobs]
    BY DEF RootInv, TypeOK
<1>3. /\ Present' = Present
      /\ DurableGeneration' = DurableGeneration
      /\ HighestCommit' = HighestCommit
      /\ DurableRoot' = DurableRoot
      /\ RootsRetained' = RootsRetained
      /\ ManifestInv' = ManifestInv
      /\ files' = files
      /\ manifest' = manifest
      /\ UNCHANGED <<owner, loaded, reload, mem>>
    BY <1>1, SameDisk DEF disk, flags
<1>4. Writing(c, todo)
  <2>1. \A l \in todo : l.generation = g
      BY DEF StateLocator, CommitLocator
  <2>2. \A l \in Present : l.generation < g /\ l.generation \in Nat
      BY <1>2, Heights, LocatorShape, CounterAssumption DEF TypeOK, Present, Generation
  <2>3. \A l \in todo : l \notin Present
      BY <2>1, <2>2
  <2>4. \A h \in Generation : CommitLocator(h) \in Present => h < g
      BY <2>2 DEF CommitLocator
  <2> QED
      BY <1>1, <2>1, <2>3, <2>4 DEF Writing, Wellformed
<1>5. Writing(c, todo)'
    BY <1>3, <1>4 DEF Writing
<1>6. \A j \in Instances \ {i} : job'[j] = job[j]
    BY <1>1, <1>2
<1>7. /\ job'[i].phase = "WRITE"
      /\ job'[i].candidate = c
      /\ job'[i].todo = todo
    BY <1>1, <1>2
<1>8. \A j \in Instances \ {i} : job[j].phase = "IDLE"
    BY DEF RootInv, OwnerInv
<1> HIDE DEF todo, g
<1>9. WriteInv' /\ RetireInv' /\ OwnerInv'
    BY <1>3, <1>5, <1>6, <1>7, <1>8 DEF WriteInv, RetireInv, OwnerInv
<1>10. MemoryInv'
    BY <1>3 DEF RootInv, MemoryInv
<1> QED
    BY <1>3, <1>9, <1>10 DEF RootInv

\* The files a candidate needs beyond those of the root it comes from.
LEMMA RootOfFields ==
    ASSUME NEW s, NEW c, NEW N, c.generation = HighestObserved + 1,
           c.capture.at \in {s.capture.at} \cup N,
           EventLocators(c) \subseteq EventLocators(s) \cup N,
           c.pending.at \in {s.pending.at, NoLocator} \cup N,
           c.ack.at \in {s.ack.at} \cup N,
           c.ack.witness \in {s.ack.witness, s.pending.at}
    PROVE  RootLocators(c) \subseteq
               RootLocators(s) \cup N \cup {StateLocator(HighestObserved + 1),
                                            CommitLocator(HighestObserved + 1)}
BY DEF RootLocators, ObjectReferences, PendingLocators, AckLocators, WitnessLocators

\* What a candidate takes over from its root, and what it adds.
Extends(c, s, N) ==
    /\ c.generation = HighestObserved + 1
    /\ c.parent_generation = s.generation
    /\ c.ack.witness \in {s.ack.witness, s.pending.at}
    /\ RootLocators(c) \subseteq
           RootLocators(s) \cup N \cup {StateLocator(HighestObserved + 1),
                                        CommitLocator(HighestObserved + 1)}

\* Compact and PublishDiagnostic add no object.
LEMMA DiagnosticExtends ==
    ASSUME NEW s \in LocalStates, NEW completeness, NEW error
    PROVE  /\ Extends(Successor(s), s, {})
           /\ Extends([Successor(s) EXCEPT !.completeness = completeness,
                                           !.last_error = error], s, {})
<1> DEFINE d == [Successor(s) EXCEPT !.completeness = completeness, !.last_error = error]
<1>1. \A c \in {Successor(s), d} :
        /\ c.generation = HighestObserved + 1
        /\ c.parent_generation = s.generation
        /\ c.capture = s.capture /\ c.pending = s.pending /\ c.ack = s.ack
        /\ c.events = s.events /\ c.produced = s.produced
        /\ c.accepted_event = s.accepted_event
    BY Zenon DEF LocalStates, Successor
<1>2. \A c \in {Successor(s), d} : EventLocators(c) = EventLocators(s)
    BY <1>1, Zenon DEF EventLocators, Queue
<1> HIDE DEF d
<1>3. \A c \in {Successor(s), d} : Extends(c, s, {})
    BY <1>1, <1>2, RootOfFields, SMTT(30) DEF Extends
<1> QED
    BY <1>3 DEF d

\* PreparePending adds the request.
LEMMA PrepareExtends ==
    ASSUME NEW s \in LocalStates, NEW body, NEW count
    PROVE  Extends(PrepareCandidate(s, body, count), s, NewObjects(1))
<1> DEFINE c == PrepareCandidate(s, body, count)
<1>1. /\ c.generation = HighestObserved + 1
      /\ c.parent_generation = s.generation
      /\ c.capture = s.capture /\ c.ack = s.ack
      /\ c.pending.at = ObjectLocator(HighestObserved + 1, 1)
      /\ c.events = s.events /\ c.produced = s.produced
      /\ c.accepted_event = s.accepted_event
    BY DEF LocalStates, PrepareCandidate, Successor
<1>2. EventLocators(c) = EventLocators(s)
    BY <1>1 DEF EventLocators, Queue
<1>3. ObjectLocator(HighestObserved + 1, 1) \in NewObjects(1)
    BY DEF NewObjects
<1> HIDE DEF c
<1>4. Extends(c, s, NewObjects(1))
    BY <1>1, <1>2, <1>3, RootOfFields DEF Extends
<1> QED
    BY <1>4 DEF c

\* ReplaceRejected adds the replacement.
LEMMA ReplaceExtends ==
    ASSUME NEW s \in LocalStates, NEW body
    PROVE  Extends(ReplaceCandidate(s, body), s, NewObjects(1))
<1> DEFINE c == ReplaceCandidate(s, body)
<1>1. /\ c.generation = HighestObserved + 1
      /\ c.parent_generation = s.generation
      /\ c.capture = s.capture /\ c.ack = s.ack
      /\ c.events = s.events /\ c.produced = s.produced
      /\ c.accepted_event = s.accepted_event
    BY DEF LocalStates, ReplaceCandidate, Successor
<1>2. c.pending.at = ObjectLocator(HighestObserved + 1, 1)
  <2>1. s.pending \in PendingRecords
      BY DEF LocalStates
  <2>2. c.pending = [s.pending EXCEPT !.at = ObjectLocator(HighestObserved + 1, 1), !.body = body]
      BY DEF LocalStates, ReplaceCandidate, Successor
  <2> QED
      BY <2>1, <2>2 DEF PendingRecords
<1>3. EventLocators(c) = EventLocators(s)
    BY <1>1 DEF EventLocators, Queue
<1>4. ObjectLocator(HighestObserved + 1, 1) \in NewObjects(1)
    BY DEF NewObjects
<1> HIDE DEF c
<1>5. Extends(c, s, NewObjects(1))
    BY <1>1, <1>2, <1>3, <1>4, RootOfFields DEF Extends
<1> QED
    BY <1>5 DEF c

\* AcceptResponse adds the ACK and drops the events it acknowledges.
LEMMA AcceptExtends ==
    ASSUME NEW s \in LocalStates, HasPending(s), LocalStateValid(s)
    PROVE  Extends(AcceptCandidate(s), s, {ObjectLocator(HighestObserved + 1, 2)})
<1> DEFINE c == AcceptCandidate(s)
<1>1. /\ c.generation = HighestObserved + 1
      /\ c.parent_generation = s.generation
      /\ c.capture = s.capture
      /\ c.pending = NoPending
      /\ c.ack.at = ObjectLocator(HighestObserved + 1, 2)
      /\ c.ack.witness = s.pending.at
      /\ c.produced = s.produced
      /\ c.accepted_event = s.pending.final
      /\ c.events = [n \in Counter |-> IF n <= s.pending.final THEN NoEvent ELSE s.events[n]]
    BY SMTT(30) DEF LocalStates, AcceptCandidate, Successor
<1>2. /\ s.pending.final \in Nat /\ s.produced \in 0 .. MaxCounter
      /\ s.accepted_event \in Nat
      /\ s.accepted_event <= s.pending.final
    BY DEF LocalStates, PendingRecords, LocalStateValid
<1> HIDE DEF c
<1>3. \A n \in Queue(c) : n \in Queue(s) /\ c.events[n] = s.events[n]
  <2> SUFFICES ASSUME NEW n \in Queue(c)
               PROVE  n \in Queue(s) /\ c.events[n] = s.events[n]
      OBVIOUS
  <2>1. n \in (s.pending.final + 1) .. s.produced
      BY <1>1 DEF Queue
  <2>2. n \in Queue(s) /\ n \in Counter /\ ~(n <= s.pending.final)
      BY <1>2, <2>1, CounterAssumption DEF Queue, Counter
  <2> QED
      BY <1>1, <2>2
<1>4. EventLocators(c) \subseteq EventLocators(s)
    BY <1>3 DEF EventLocators
<1>5. NoPending.at = NoLocator
    BY DEF NoPending
<1>6. Extends(c, s, {ObjectLocator(HighestObserved + 1, 2)})
    BY <1>1, <1>4, <1>5, RootOfFields, ZenonT(30) DEF Extends
<1> QED
    BY <1>6 DEF c

\* Append adds one object per new event and the capture checkpoint.
LEMMA AppendExtends ==
    ASSUME NEW s \in LocalStates, NEW batch \in Batches, NEW cursor,
           NEW prefix \in 0 .. Len(batch), LocalStateValid(s),
           s.produced + (Len(batch) - prefix) <= MaxCounter
    PROVE  Extends(AppendCandidate(s, batch, prefix, cursor), s,
                   NewObjects(Len(batch) - prefix + 1))
<1> DEFINE c == AppendCandidate(s, batch, prefix, cursor)
           new == Len(batch) - prefix
           object(o) == ObjectLocator(HighestObserved + 1, o)
<1>1. /\ c.generation = HighestObserved + 1
      /\ c.parent_generation = s.generation
      /\ c.pending = s.pending /\ c.ack = s.ack
      /\ c.capture.at = object(new + 1)
      /\ c.produced = s.produced + new
      /\ c.accepted_event = s.accepted_event
      /\ c.events = [n \in Counter |->
                       IF n \in (s.produced + 1) .. (s.produced + new)
                       THEN [at |-> object(n - s.produced),
                             obs |-> batch[prefix + (n - s.produced)]]
                       ELSE s.events[n]]
    BY DEF LocalStates, AppendCandidate, Successor
<1>2. new \in Nat /\ s.produced \in Nat /\ s.accepted_event \in Nat
      /\ s.accepted_event <= s.produced
  <2>1. Len(batch) \in Nat
      BY InstanceAssumption
  <2> QED
      BY <2>1 DEF LocalStates, LocalStateValid
<1>3. \A o \in 1 .. (new + 1) : object(o) \in NewObjects(new + 1)
    BY DEF NewObjects
<1>4. ASSUME NEW n \in Queue(c)
      PROVE  c.events[n].at \in EventLocators(s) \cup NewObjects(new + 1)
  <2>1. n \in Counter /\ n \in (s.accepted_event + 1) .. (s.produced + new)
      BY <1>1, <1>2, <1>4, CounterAssumption, SMTT(30) DEF Queue, Counter
  <2>2. CASE n \in (s.produced + 1) .. (s.produced + new)
    <3>1. c.events[n].at = object(n - s.produced)
        BY <1>1, <2>1, <2>2
    <3>2. n - s.produced \in 1 .. (new + 1)
        BY <1>2, <2>2
    <3> QED
        BY <1>3, <3>1, <3>2
  <2>3. CASE n \notin (s.produced + 1) .. (s.produced + new)
    <3>1. n \in Queue(s)
        BY <1>2, <2>1, <2>3 DEF Queue
    <3>2. c.events[n] = s.events[n]
        BY <1>1, <2>1, <2>3
    <3> QED
        BY <3>1, <3>2 DEF EventLocators
  <2> QED
      BY <2>2, <2>3
<1>5. EventLocators(c) \subseteq EventLocators(s) \cup NewObjects(new + 1)
    BY <1>4 DEF EventLocators
<1>6. c.capture.at \in NewObjects(new + 1)
    BY <1>1, <1>2, <1>3
<1> HIDE DEF c, new
<1>7. Extends(c, s, NewObjects(new + 1))
    BY <1>1, <1>5, <1>6, RootOfFields, ZenonT(30) DEF Extends
<1> QED
    BY <1>7 DEF c, new

\* A fresh root published on, in any way that extends it.
LEMMA ExtendRoot ==
    ASSUME RootInv, TypeOK', NEW i \in Instances, FreshRoot(i),
           NEW t, NEW c, NEW objects, Publish(i, t, c, objects),
           Extends(c, mem[i], objects),
           \A l \in objects : l.generation = HighestObserved + 1
    PROVE  RootInv'
<1> DEFINE s == mem[i]
           g == HighestObserved + 1
<1>1. TypeOK
    BY DEF RootInv
<1>2. /\ s \in LocalStates
      /\ s.generation = DurableGeneration
      /\ DurableGeneration \in Generation
      /\ Wellformed(s, DurableGeneration)
      /\ RootLocators(s) \subseteq files
      /\ owner = i
    BY FreshFacts
<1>3. c.generation = g /\ g <= MaxCounter
    BY DEF Extends, Publish
<1>4. g \in Generation
    BY <1>1, <1>3, NextGeneration
<1>5. CommitLocator(DurableGeneration) \in Present /\ DurableGeneration < g
  <2>1. CommitLocator(s.generation) \in files
      BY <1>2 DEF RootLocators
  <2> QED
      BY <1>1, <1>2, <2>1, Heights, CounterAssumption DEF Present, CommitLocator, Generation
<1>6. c.ack.witness.generation <= g
  <2>1. s.ack.witness.generation <= DurableGeneration
      BY <1>2 DEF Wellformed
  <2>2. s.pending.at.generation <= DurableGeneration
    <3>1. CASE s.pending.at = NoLocator
        BY <1>2, <3>1, CounterAssumption, SMTT(30) DEF NoLocator, Generation
    <3>2. CASE s.pending.at # NoLocator
      <4>1. s.pending.at \in ObjectReferences(s)
          BY <3>2, SMTT(30) DEF ObjectReferences, PendingLocators
      <4> QED
          BY <1>2, <4>1, ZenonT(30) DEF Wellformed, LocalStateValid
    <3> QED
        BY <3>1, <3>2
  <2>3. s.ack.witness.generation \in Int /\ s.pending.at.generation \in Int
    <3>1. \A l \in ObjectLocators \cup {NoLocator} : l.generation \in Int
        BY CounterAssumption DEF ObjectLocators, ObjectLocator, NoLocator, Generation
    <3> QED
        BY <1>2, <3>1 DEF LocalStates, PendingRecords, AckRecords
  <2>4. DurableGeneration \in Int /\ g \in Int
      BY <1>2, <1>4, CounterAssumption DEF Generation
  <2> HIDE DEF g
  <2>5. c.ack.witness \in {s.ack.witness, s.pending.at}
      BY DEF Extends
  <2> QED
      BY <1>5, <2>1, <2>2, <2>3, <2>4, <2>5
<1>7. c.parent_generation = DurableGeneration
    BY <1>2 DEF Extends
<1>8. RootLocators(c) \subseteq files \cup objects \cup {StateLocator(g), CommitLocator(g)}
    BY <1>2 DEF Extends
<1> QED
    BY <1>2, <1>3, <1>4, <1>6, <1>7, <1>8, PublishRoot

\* The only manifest and commit a root needs are its own.
LEMMA RootKinds ==
    ASSUME NEW s \in LocalStates, NEW l \in RootLocators(s), l.kind \in {"STATE", "COMMIT"}
    PROVE  l.generation = s.generation
<1>1. \A n \in Queue(s) : n \in Counter
    BY CounterTypes, CounterAssumption DEF Queue, Counter
<1>2. \A n \in Queue(s) : s.events[n].at \in ObjectLocators \cup {NoLocator}
  <2> SUFFICES ASSUME NEW n \in Queue(s)
               PROVE  s.events[n].at \in ObjectLocators \cup {NoLocator}
      OBVIOUS
  <2>1. s.events[n] \in EventReferences \cup {NoEvent}
      BY <1>1 DEF LocalStates
  <2> QED
      BY <2>1 DEF EventReferences, NoEvent
<1>3. ObjectReferences(s) \cup WitnessLocators(s) \subseteq ObjectLocators \cup {NoLocator}
    BY <1>2 DEF LocalStates, PendingRecords, AckRecords, ObjectReferences, EventLocators,
                PendingLocators, AckLocators, WitnessLocators
<1>4. \A m \in ObjectLocators \cup {NoLocator} : m.kind \notin {"STATE", "COMMIT"}
    BY SMTT(30) DEF ObjectLocators, ObjectLocator, NoLocator
<1> QED
    BY <1>3, <1>4 DEF RootLocators, RegistrationLocator, StateLocator, CommitLocator

\* What a well-formed manifest refers to is not newer than itself, and its
\* parent is older.
LEMMA WellformedOrder ==
    ASSUME NEW s \in LocalStates, NEW g \in Generation, Wellformed(s, g)
    PROVE  /\ \A l \in ObjectReferences(s) \cup WitnessLocators(s) : l.generation <= g
           /\ s.parent_generation < g
           /\ s.parent_generation \in 0 .. MaxCounter
BY CounterTypes, CounterAssumption DEF Wellformed, LocalStateValid, WitnessLocators, Generation

\* The cleared manifest refers to no object.
LEMMA ClearLocators ==
    ObjectReferences(ClearState) \cup WitnessLocators(ClearState) = {NoLocator}
<1>1. /\ ClearState.capture.at = NoLocator
      /\ ClearState.pending.at = NoLocator
      /\ ClearState.ack.at = NoLocator
      /\ ClearState.ack.witness = NoLocator
      /\ ClearState.accepted_event = 0
      /\ ClearState.produced = 0
    BY DEF ClearState, NoPending, NoAck
<1>2. EventLocators(ClearState) = {}
  <2>1. Queue(ClearState) = {}
      BY <1>1 DEF Queue
  <2> QED
      BY <2>1 DEF EventLocators
<1>3. /\ PendingLocators(ClearState) = {}
      /\ AckLocators(ClearState) = {}
      /\ WitnessLocators(ClearState) = {}
    BY <1>1, Zenon DEF PendingLocators, AckLocators, WitnessLocators
<1> QED
    BY <1>1, <1>2, <1>3, Zenon DEF ObjectReferences

\* RetireJob from the durable root, whose parent can be loaded.
LEMMA RetireRoot ==
    ASSUME RootInv, DurableGeneration \in Generation, Wellformed(DurableRoot, DurableGeneration),
           LoadRoot(DurableRoot.parent_generation),
           RetireJob(DurableRoot) # IdleJob
    PROVE  Retiring(RetireJob(DurableRoot).todo) /\ RetireJob(DurableRoot).phase = "RETIRE"
<1> DEFINE s == DurableRoot
           p == s.parent_generation
           g == Grandparent(s)
           retired == manifest[g]
<1>1. TypeOK /\ ManifestInv
    BY DEF RootInv
<1>2. /\ g # 0
      /\ RetireJob(s).phase = "RETIRE"
      /\ RetireJob(s).todo = RetireBatch(s)
    BY DEF RetireJob
<1>3. s \in LocalStates
    BY <1>1, CounterAssumption DEF DurableRoot, TypeOK, Generation
<1>4. /\ p # 0
      /\ p \in Generation
      /\ p < DurableGeneration
      /\ g = manifest[p].parent_generation
  <2>1. p # 0 /\ g = manifest[p].parent_generation
      BY <1>2 DEF Grandparent
  <2> QED
      BY <1>3, <2>1, WellformedOrder, CounterAssumption DEF Generation
<1>5. manifest[p] \in LocalStates /\ Wellformed(manifest[p], p)
    BY <1>1, <1>4 DEF TypeOK, ManifestInv, LoadRoot
<1>6. g \in Generation /\ g < p
    BY <1>2, <1>4, <1>5, WellformedOrder, CounterAssumption DEF Generation
<1>7. retired \in LocalStates
    BY <1>1, <1>6 DEF TypeOK
<1>8. s.generation = DurableGeneration /\ manifest[p].generation = p
    BY <1>5 DEF Wellformed
<1>9. ASSUME NEW l \in {StateLocator(g), CommitLocator(g)}
      PROVE  l.generation < DurableGeneration /\ l \notin Protected(s)
  <2>1. l.generation = g /\ l.kind \in {"STATE", "COMMIT"}
      BY <1>9 DEF StateLocator, CommitLocator
  <2>2. g # DurableGeneration /\ g # p /\ g < DurableGeneration
      BY <1>4, <1>6, CounterAssumption DEF Generation
  <2> HIDE DEF g, p, s
  <2> QED
      BY <1>3, <1>5, <1>8, <2>1, <2>2, RootKinds DEF Protected, p
<1>10. ASSUME NEW l \in (ObjectReferences(retired) \cup WitnessLocators(retired)) \cap files
       PROVE  l.generation < DurableGeneration
  <2>1. l \in Locators /\ l # NoLocator
      BY <1>1, LocatorShape DEF TypeOK
  <2>2. CASE StateLocator(g) \in files
    <3>1. Wellformed(retired, g)
        BY <1>1, <1>6, <2>2, SMTT(30) DEF ManifestInv
    <3>2. l.generation <= g /\ l.generation \in Int
        BY <1>6, <1>7, <2>1, <3>1, WellformedOrder, LocatorShape, CounterAssumption DEF Generation
    <3> QED
        BY <1>4, <1>6, <3>2, CounterAssumption DEF Generation
  <2>3. CASE StateLocator(g) \notin files
    <3>1. retired = ClearState
        BY <1>1, <1>6, <2>3, SMTT(30) DEF ManifestInv
    <3> QED
        BY <2>1, <3>1, ClearLocators
  <2> QED
      BY <2>2, <2>3
<1>11. \A l \in RetireBatch(s) :
          \/ l \in {StateLocator(g), CommitLocator(g)}
          \/ /\ l \in (ObjectReferences(retired) \cup WitnessLocators(retired)) \cap files
             /\ l \notin Protected(s)
    BY Zenon DEF RetireBatch
<1>12. \A l \in RetireBatch(s) : l.generation < DurableGeneration /\ l \notin Protected(s)
    BY <1>9, <1>10, <1>11
<1>13. Protected(s) = RootLocators(s) \cup RootLocators(manifest[p])
    BY DEF Protected
<1> HIDE DEF s, p, g, retired
<1>14. DurableGeneration # 0
    BY CounterAssumption DEF Generation
<1> QED
    BY <1>2, <1>4, <1>12, <1>13, <1>14 DEF Retiring, s, p

\* A job that becomes a retirement of the durable root, the disk unchanged.
LEMMA RetireStep ==
    ASSUME RootInv, TypeOK', NEW i \in Instances, UNCHANGED disk, MemoryInv',
           owner = i, owner' = i,
           DurableGeneration \in Generation, Wellformed(DurableRoot, DurableGeneration),
           LoadRoot(DurableRoot.parent_generation),
           job' = [job EXCEPT ![i] = RetireJob(DurableRoot)]
    PROVE  RootInv'
<1>1. job \in [Instances -> Jobs]
    BY DEF RootInv, TypeOK
<1>2. \A j \in Instances \ {i} : job'[j] = job[j] /\ job[j].phase = "IDLE"
    BY <1>1 DEF RootInv, OwnerInv
<1>3. job'[i] = RetireJob(DurableRoot)
    BY <1>1
<1>4. OwnerInv'
    BY <1>2, <1>3 DEF OwnerInv
<1>5. CASE RetireJob(DurableRoot) = IdleJob
  <2>1. job'[i].phase = "IDLE"
      BY <1>3, <1>5 DEF IdleJob
  <2> QED
      BY <1>2, <1>4, <2>1, QuietStep
<1>6. CASE RetireJob(DurableRoot) # IdleJob
  <2>1. Retiring(RetireJob(DurableRoot).todo) /\ RetireJob(DurableRoot).phase = "RETIRE"
      BY <1>6, RetireRoot
  <2>2. /\ DurableGeneration' = DurableGeneration
        /\ DurableRoot' = DurableRoot
        /\ RootsRetained' = RootsRetained
        /\ ManifestInv' = ManifestInv
        /\ manifest' = manifest
      BY SameDisk DEF disk
  <2>3. job'[i].phase = "RETIRE" /\ Retiring(job[i].todo)'
      BY <1>3, <2>1, <2>2 DEF Retiring
  <2>4. RetireInv'
      BY <1>2, <2>3 DEF RetireInv
  <2>5. WriteInv'
      BY <1>2, <2>3 DEF WriteInv
  <2> QED
      BY <1>4, <2>2, <2>4, <2>5 DEF RootInv
<1> QED
    BY <1>5, <1>6

\* Recover and ReadPending touch no file.
LEMMA ReadOnlyRoot ==
    ASSUME RootInv, TypeOK', NEW i \in Instances, Recover(i) \/ ReadPending(i)
    PROVE  RootInv'
<1>1. UNCHANGED <<disk, owner, job>>
    BY DEF Recover, RecoverFlags, ReadPending
<1>2. OwnerInv'
    BY <1>1 DEF RootInv, OwnerInv
<1>3. DurableGeneration' = DurableGeneration /\ HighestCommit' = HighestCommit
      /\ DurableRoot' = DurableRoot
    BY <1>1, SameDisk
<1>4. MemoryInv'
  <2>1. CASE ReadPending(i)
      BY <1>1, <1>3, <2>1, SMTT(30) DEF ReadPending, flags, RootInv, MemoryInv
  <2>2. CASE Recover(i)
    <3>1. /\ loaded' = [loaded EXCEPT ![i] = RecoveredRoot(i)]
          /\ mem' = [mem EXCEPT ![i] = IF RecoveredRoot(i) THEN manifest[HighestCommit]
                                       ELSE ClearState]
          /\ reload' = [reload EXCEPT ![i] = (owner # i)]
        BY <2>2 DEF Recover, RecoverFlags
    <3>2. /\ loaded \in [Instances -> BOOLEAN]
          /\ reload \in [Instances -> BOOLEAN]
          /\ mem \in [Instances -> LocalStates]
        BY DEF RootInv, TypeOK
    <3>3. RecoveredRoot(i) => HighestCommit = DurableGeneration /\ manifest[HighestCommit] = DurableRoot
        BY RecoveredFacts
    <3>4. loaded'[i] => HighestCommit = DurableGeneration /\ mem'[i] = DurableRoot
        BY <3>1, <3>2, <3>3
    <3>5. \A j \in Instances \ {i} :
              loaded'[j] = loaded[j] /\ mem'[j] = mem[j] /\ reload'[j] = reload[j]
        BY <3>1, <3>2
    <3> QED
        BY <1>1, <1>3, <3>4, <3>5, SMTT(30) DEF RootInv, MemoryInv
  <2> QED
      BY <2>1, <2>2
<1> QED
    BY <1>1, <1>2, <1>4, QuietStep, SMTT(30)

\* Objects of a publication carry its generation.
LEMMA NewObjectGeneration ==
    /\ \A n : \A l \in NewObjects(n) : l.generation = HighestObserved + 1
    /\ ObjectLocator(HighestObserved + 1, 2).generation = HighestObserved + 1
BY DEF NewObjects, ObjectLocator

\* InitializeNew on an empty directory.
LEMMA InitializeRoot ==
    ASSUME RootInv, TypeOK', NEW i \in Instances, InitializeNew(i)
    PROVE  RootInv'
<1> DEFINE objects == {RegistrationLocator, ObjectLocator(1, 1)}
<1>1. TypeOK /\ Present = {} /\ owner = i /\ Publish(i, "INIT", InitialState, objects)
    BY DEF RootInv, InitializeNew, Guard
<1>2. HighestObserved = 0
    BY <1>1, HighestOf DEF HighestObserved
<1>3. DurableGeneration = 0
    BY <1>1, DurableFacts DEF Present
<1>4. /\ InitialState.generation = 1
      /\ InitialState.parent_generation = 0
      /\ InitialState.ack = NoAck
      /\ InitialState.pending = NoPending
      /\ InitialState.capture.at = ObjectLocator(1, 1)
      /\ InitialState.produced = 0
      /\ InitialState.accepted_event = 0
    BY DEF InitialState, ClearState
<1>5. InitialState.ack.witness.generation <= 1
    BY <1>4 DEF NoAck, NoLocator
<1>6. \A l \in objects : l.generation = 1
    BY SMTT(30) DEF RegistrationLocator, ObjectLocator
<1>7. RootLocators(InitialState) \subseteq objects \cup {StateLocator(1), CommitLocator(1)}
    BY <1>4 DEF RootLocators, ObjectReferences, EventLocators, PendingLocators, AckLocators,
                WitnessLocators, Queue, NoAck, NoPending
<1>8. 1 \in Generation
    BY CounterAssumption DEF Generation
<1> HIDE DEF objects
<1> QED
    BY <1>1, <1>2, <1>3, <1>4, <1>5, <1>6, <1>7, <1>8, PublishRoot, SMTT(30)
=============================================================================
