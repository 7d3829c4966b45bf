----------------------- MODULE TelemetryStateProofs -----------------------
(***************************************************************************)
(* Proofs about TelemetryState, for any number of terminals, generations,  *)
(* events and files.                                                       *)
(***************************************************************************)
EXTENDS TelemetryState, WellFoundedInduction, TLAPS

(***************************************************************************)
(* Highest generations.                                                    *)
(***************************************************************************)
\* HighestObserved, HighestCommit and DurableGeneration are maxima of bounded
\* sets of generations, so they exist: Max is an upper bound in the set.
LEMMA MaxBounded ==
    ASSUME NEW N \in Nat, NEW S \in SUBSET (0 .. N), S # {}
    PROVE  /\ Max(S) \in S
           /\ \A x \in S : x <= Max(S)
<1> DEFINE T == {N - x : x \in S}
<1>1. T \subseteq Nat
    OBVIOUS
<1>2. T # {}
  <2>1. PICK x \in S : TRUE
      OBVIOUS
  <2>2. N - x \in T
      BY <2>1
  <2> QED
      BY <2>2
<1>3. PICK m \in T : \A y \in T : ~(<<y, m>> \in OpToRel(<, Nat))
    BY <1>1, <1>2, NatLessThanWellFounded, WFMin
<1>4. PICK x \in S : m = N - x
    BY <1>3
<1>5. \A y \in S : x >= y
  <2> SUFFICES ASSUME NEW y \in S PROVE x >= y
      BY Zenon
  <2>1. N - y \in T
      OBVIOUS
  <2>2. ~(N - y < m)
      BY <1>1, <1>3, <2>1 DEF OpToRel
  <2> QED
      BY <1>4, <2>2
<1> QED
    BY <1>5, Zenon DEF Max

\* Every locator is one of the four kinds and carries a real generation.
LEMMA LocatorShape ==
    ASSUME NEW l \in Locators
    PROVE  /\ l.generation \in Generation
           /\ l.kind \in {"REGISTRATION", "OBJECT", "STATE", "COMMIT"}
           /\ l.kind = "OBJECT" <=> l \in ObjectLocators
           /\ l.kind = "STATE" => l = StateLocator(l.generation)
           /\ l.kind = "COMMIT" => l = CommitLocator(l.generation)
           /\ l.kind = "REGISTRATION" => l = RegistrationLocator
           /\ l # NoLocator
BY CounterAssumption
   DEF Locators, RegistrationLocator, ObjectLocators, ObjectLocator, StateLocator,
       CommitLocator, Generation, NoLocator

\* What HighestObserved computes, for any set of files.
LEMMA HighestOf ==
    ASSUME NEW S \in SUBSET Locators,
           NEW m, m = Max({l.generation : l \in S} \cup {0})
    PROVE  /\ m \in 0 .. MaxCounter
           /\ \A l \in S : l.generation <= m
           /\ m # 0 => \E l \in S : l.generation = m
<1> DEFINE G == {l.generation : l \in S} \cup {0}
<1>1. G \in SUBSET (0 .. MaxCounter) /\ G # {}
    BY LocatorShape, CounterAssumption DEF Generation
<1>2. Max(G) \in G /\ \A x \in G : x <= Max(G)
    BY <1>1, MaxBounded, CounterAssumption
<1> QED
    BY <1>1, <1>2, Zenon

\* What HighestCommit computes, for any set of files.
LEMMA HighestCommitOf ==
    ASSUME NEW S \in SUBSET Locators,
           NEW m, m = Max({l.generation : l \in {c \in S : c.kind = "COMMIT"}} \cup {0})
    PROVE  /\ m \in 0 .. MaxCounter
           /\ \A g \in Generation : CommitLocator(g) \in S => g <= m
           /\ m # 0 => m \in Generation /\ CommitLocator(m) \in S
<1> DEFINE C == {c \in S : c.kind = "COMMIT"}
<1>1. /\ m \in 0 .. MaxCounter
      /\ \A l \in C : l.generation <= m
      /\ m # 0 => \E l \in C : l.generation = m
  <2>1. C \in SUBSET Locators /\ m = Max({l.generation : l \in C} \cup {0})
      OBVIOUS
  <2> QED
      BY <2>1, HighestOf, Zenon
<1>2. \A l \in C : l = CommitLocator(l.generation)
    BY LocatorShape
<1>3. \A g \in Generation : CommitLocator(g) \in S => CommitLocator(g) \in C
    BY DEF CommitLocator
<1>4. \A g \in Generation : CommitLocator(g).generation = g
    BY DEF CommitLocator
<1> QED
    BY <1>1, <1>2, <1>3, <1>4, CounterAssumption DEF Generation

\* What DurableGeneration computes, for any set of complete files.
LEMMA DurableOf ==
    ASSUME NEW S,
           NEW m, m = Max({g \in Generation : CommitLocator(g) \in S} \cup {0})
    PROVE  /\ m \in 0 .. MaxCounter
           /\ \A g \in Generation : CommitLocator(g) \in S => g <= m
           /\ m # 0 => m \in Generation /\ CommitLocator(m) \in S
<1> DEFINE G == {g \in Generation : CommitLocator(g) \in S} \cup {0}
<1>1. G \in SUBSET (0 .. MaxCounter) /\ G # {}
    BY CounterAssumption DEF Generation
<1>2. Max(G) \in G /\ \A x \in G : x <= Max(G)
    BY <1>1, MaxBounded, CounterAssumption, Zenon
<1> QED
    BY <1>1, <1>2

\* The generations a terminal reads off the directory are in range.
LEMMA Heights ==
    ASSUME TypeOK
    PROVE  /\ HighestObserved \in 0 .. MaxCounter
           /\ \A l \in Present : l.generation <= HighestObserved
           /\ HighestCommit \in 0 .. MaxCounter
           /\ HighestCommit # 0 => HighestCommit \in Generation
<1>1. Present \in SUBSET Locators
    BY DEF TypeOK, Present
<1> QED
    BY <1>1, HighestOf, HighestCommitOf, Zenon DEF HighestObserved, HighestCommit

(***************************************************************************)
(* Type correctness.                                                       *)
(***************************************************************************)
\* The cleared manifest and the idle job are well formed.
LEMMA ClearTypes == ClearState \in LocalStates /\ IdleJob \in Jobs
<1>1. NoPending \in PendingRecords /\ NoAck \in AckRecords
    BY CounterAssumption DEF NoPending, NoAck, PendingRecords, AckRecords
<1>2. ClearState \in LocalStates
    BY <1>1, CounterAssumption, DomainAssumption
       DEF ClearState, LocalStates, Completeness, Errors
<1> QED
    BY <1>2 DEF IdleJob, Jobs

\* The generation and the new objects of a publication within the counter.
LEMMA NextGeneration ==
    ASSUME TypeOK, HighestObserved + 1 <= MaxCounter
    PROVE  /\ HighestObserved + 1 \in Generation
           /\ \A n \in 0 .. (BatchMax + 1) : NewObjects(n) \in SUBSET ObjectLocators
           /\ \A o \in Ordinal : ObjectLocator(HighestObserved + 1, o) \in ObjectLocators
           /\ 1 \in Ordinal /\ 2 \in Ordinal
<1>1. HighestObserved + 1 \in Generation
    BY Heights, CounterAssumption DEF Generation
<1>2. \A n \in 0 .. (BatchMax + 1) : \A o \in 1 .. n : o \in Ordinal
    BY CounterAssumption DEF Ordinal
<1>3. 1 \in Ordinal /\ 2 \in Ordinal
    BY CounterAssumption DEF Ordinal
<1> QED
    BY <1>1, <1>2, <1>3 DEF NewObjects, ObjectLocators

\* The skeleton every operation starts its candidate from.
LEMMA SuccessorType ==
    ASSUME TypeOK, NEW s \in LocalStates, HighestObserved + 1 <= MaxCounter
    PROVE  Successor(s) \in LocalStates
<1>1. HighestObserved + 1 \in 0 .. MaxCounter
    BY Heights, CounterAssumption
<1> QED
    BY <1>1 DEF Successor, LocalStates

\* Publish keeps the types when its candidate is well formed.
LEMMA PublishType ==
    ASSUME TypeOK, NEW i \in Instances, NEW t \in Transitions,
           NEW c \in LocalStates, c.generation \in Generation,
           NEW objects \in SUBSET Locators, Publish(i, t, c, objects)
    PROVE  TypeOK'
<1> DEFINE todo == objects \cup {StateLocator(c.generation), CommitLocator(c.generation)}
<1>1. todo \in SUBSET Locators
    BY DEF Locators
<1>2. [phase |-> "WRITE", transition |-> t, candidate |-> c, todo |-> todo] \in Jobs
    BY <1>1 DEF Jobs
<1>3. job' \in [Instances -> Jobs]
    BY <1>2 DEF TypeOK, Publish
<1> QED
    BY <1>3 DEF TypeOK, Publish, disk, flags

\* The candidate of Append.
LEMMA AppendCandidateType ==
    ASSUME TypeOK, NEW s \in LocalStates, NEW batch \in Batches, NEW cursor \in Cursors,
           NEW prefix \in 0 .. Len(batch), HighestObserved + 1 <= MaxCounter,
           s.produced + (Len(batch) - prefix) <= MaxCounter
    PROVE  AppendCandidate(s, batch, prefix, cursor) \in LocalStates
<1> DEFINE new == Len(batch) - prefix
           object(o) == ObjectLocator(HighestObserved + 1, o)
           events == [n \in Counter |->
                        IF n \in (s.produced + 1) .. (s.produced + new)
                        THEN [at |-> object(n - s.produced),
                              obs |-> batch[prefix + (n - s.produced)]]
                        ELSE s.events[n]]
<1>1. /\ batch \in Seq(Observations)
      /\ Len(batch) \in Nat
      /\ new \in 0 .. BatchMax
    BY InstanceAssumption, CounterAssumption
<1>2. \A o \in 1 .. (new + 1) : object(o) \in ObjectLocators
    BY <1>1, NextGeneration, CounterAssumption DEF Ordinal
<1>3. events \in [Counter -> EventReferences \cup {NoEvent}]
  <2> SUFFICES ASSUME NEW n \in Counter
               PROVE  events[n] \in EventReferences \cup {NoEvent}
      BY Zenon
  <2>1. s.produced \in Nat /\ s.events[n] \in EventReferences \cup {NoEvent}
      BY DEF LocalStates
  <2>2. CASE n \in (s.produced + 1) .. (s.produced + new)
    <3>1. n - s.produced \in 1 .. new
        BY <2>1, <2>2, <1>1
    <3>2. prefix + (n - s.produced) \in 1 .. Len(batch)
        BY <3>1, <1>1
    <3>3. batch[prefix + (n - s.produced)] \in Observations
        BY <3>2, <1>1
    <3>4. object(n - s.produced) \in ObjectLocators
        BY <3>1, <1>1, <1>2
    <3> QED
        BY <2>2, <3>3, <3>4 DEF EventReferences
  <2>3. CASE n \notin (s.produced + 1) .. (s.produced + new)
      BY <2>1, <2>3
  <2> QED
      BY <2>2, <2>3
<1>4. s.produced + new \in 0 .. MaxCounter
    BY <1>1 DEF LocalStates
<1>5. object(new + 1) \in ObjectLocators
    BY <1>1, <1>2
<1>6. AppendCandidate(s, batch, prefix, cursor) =
          [Successor(s) EXCEPT !.produced = s.produced + new,
                               !.capture = [at |-> object(new + 1), cursor |-> cursor],
                               !.events = events]
    BY DEF AppendCandidate
<1>7. Successor(s) \in LocalStates
    BY SuccessorType
<1>8. ASSUME NEW r \in LocalStates, NEW p \in 0 .. MaxCounter, NEW at \in ObjectLocators,
             NEW e \in [Counter -> EventReferences \cup {NoEvent}]
      PROVE  [r EXCEPT !.produced = p, !.capture = [at |-> at, cursor |-> cursor],
                       !.events = e] \in LocalStates
    BY <1>8, Zenon DEF LocalStates
<1> HIDE DEF new, object, events
<1>9. [Successor(s) EXCEPT !.produced = s.produced + new,
                           !.capture = [at |-> object(new + 1), cursor |-> cursor],
                           !.events = events] \in LocalStates
    BY <1>3, <1>4, <1>5, <1>7, <1>8, Zenon
<1> QED
    BY <1>6, <1>9, Zenon

\* The candidate of PreparePending.
LEMMA PrepareCandidateType ==
    ASSUME TypeOK, NEW s \in LocalStates, NEW body \in Bodies, NEW count \in 0 .. BatchMax,
           HighestObserved + 1 <= MaxCounter,
           s.accepted_request < MaxCounter, count <= EventCount(s)
    PROVE  PrepareCandidate(s, body, count) \in LocalStates
<1> DEFINE pending == [at |-> ObjectLocator(HighestObserved + 1, 1),
                       request |-> s.accepted_request + 1,
                       body |-> body, prior |-> s.accepted_event,
                       final |-> s.accepted_event + count, count |-> count,
                       produced |-> s.produced]
           completeness == IF s.completeness = "UP_TO_DATE"
                           THEN "CATCHING_UP" ELSE s.completeness
<1>1. ObjectLocator(HighestObserved + 1, 1) \in ObjectLocators
    BY NextGeneration
<1>2. pending \in PendingRecords
  <2>1. /\ s.accepted_request \in 0 .. MaxCounter
        /\ s.accepted_event \in 0 .. MaxCounter
        /\ s.produced \in 0 .. MaxCounter
      BY DEF LocalStates
  <2>2. /\ s.accepted_request + 1 \in 0 .. MaxCounter
        /\ s.accepted_event + count \in 0 .. MaxCounter
      BY <2>1, CounterAssumption DEF EventCount
  <2> QED
      BY <1>1, <2>1, <2>2 DEF PendingRecords
<1>3. completeness \in Completeness
    BY DEF LocalStates, Completeness
<1>4. PrepareCandidate(s, body, count) =
          [Successor(s) EXCEPT !.pending = pending, !.completeness = completeness]
    BY DEF PrepareCandidate
<1> HIDE DEF pending, completeness
<1> QED
    BY <1>2, <1>3, <1>4, SuccessorType, Zenon DEF LocalStates

\* The candidate of AcceptResponse.
LEMMA AcceptCandidateType ==
    ASSUME TypeOK, NEW s \in LocalStates, HighestObserved + 1 <= MaxCounter
    PROVE  AcceptCandidate(s) \in LocalStates
<1> DEFINE ack == [at |-> ObjectLocator(HighestObserved + 1, 2),
                   request |-> s.pending.request, body |-> s.pending.body,
                   witness |-> s.pending.at, event |-> s.pending.final]
           events == [n \in Counter |-> IF n <= s.pending.final THEN NoEvent ELSE s.events[n]]
<1>1. ObjectLocator(HighestObserved + 1, 2) \in ObjectLocators
    BY NextGeneration
<1>2. /\ s.pending \in PendingRecords
      /\ s.pending.request \in 0 .. MaxCounter
      /\ s.pending.final \in 0 .. MaxCounter
    BY DEF LocalStates, PendingRecords
<1>3. ack \in AckRecords
    BY <1>1, <1>2 DEF PendingRecords, AckRecords
<1>4. events \in [Counter -> EventReferences \cup {NoEvent}]
    BY DEF LocalStates
<1>5. NoPending \in PendingRecords
    BY ClearTypes DEF ClearState, LocalStates
<1>6. AcceptCandidate(s) =
          [Successor(s) EXCEPT !.ack = ack, !.accepted_request = s.pending.request,
                               !.accepted_event = s.pending.final, !.events = events,
                               !.pending = NoPending]
    BY DEF AcceptCandidate
<1> HIDE DEF ack, events
<1> QED
    BY <1>2, <1>3, <1>4, <1>5, <1>6, SuccessorType, Zenon DEF LocalStates

\* The candidate of ReplaceRejected.
LEMMA ReplaceCandidateType ==
    ASSUME TypeOK, NEW s \in LocalStates, NEW body \in Bodies, HighestObserved + 1 <= MaxCounter
    PROVE  ReplaceCandidate(s, body) \in LocalStates
<1> DEFINE pending == [Successor(s).pending EXCEPT
                         !.at = ObjectLocator(HighestObserved + 1, 1), !.body = body]
<1>1. Successor(s) \in LocalStates /\ ObjectLocator(HighestObserved + 1, 1) \in ObjectLocators
    BY SuccessorType, NextGeneration
<1>2. pending \in PendingRecords
    BY <1>1, Zenon DEF LocalStates, PendingRecords
<1>3. ReplaceCandidate(s, body) = [Successor(s) EXCEPT !.pending = pending]
    BY DEF ReplaceCandidate
<1> HIDE DEF pending
<1> QED
    BY <1>1, <1>2, <1>3 DEF LocalStates

\* Every candidate carries the next generation and the current one as parent.
LEMMA CandidateGeneration ==
    ASSUME NEW s \in LocalStates
    PROVE  /\ Successor(s).generation = HighestObserved + 1
           /\ \A batch, prefix, cursor :
                LET c == AppendCandidate(s, batch, prefix, cursor)
                IN  /\ c.generation = HighestObserved + 1
                    /\ c.produced = s.produced + (Len(batch) - prefix)
           /\ \A body, count : PrepareCandidate(s, body, count).generation = HighestObserved + 1
           /\ AcceptCandidate(s).generation = HighestObserved + 1
           /\ \A body : ReplaceCandidate(s, body).generation = HighestObserved + 1
           /\ \A c, e : [Successor(s) EXCEPT !.completeness = c, !.last_error = e].generation =
                            HighestObserved + 1
BY DEF LocalStates, Successor, AppendCandidate, PrepareCandidate, AcceptCandidate, ReplaceCandidate

\* InitializeNew.
LEMMA InitialStateType ==
    /\ InitialState \in LocalStates
    /\ InitialState.generation = 1
    /\ 1 \in Generation
    /\ {RegistrationLocator, ObjectLocator(1, 1)} \in SUBSET Locators
<1>1. 1 \in Generation /\ 1 \in Ordinal
    BY CounterAssumption DEF Generation, Ordinal
<1>2. {RegistrationLocator, ObjectLocator(1, 1)} \in SUBSET Locators
    BY <1>1 DEF Locators, ObjectLocators
<1>3. ClearState \in LocalStates
    BY ClearTypes
<1>4. [at |-> ObjectLocator(1, 1), cursor |-> 0]
          \in [at : ObjectLocators \cup {NoLocator}, cursor : Cursors]
    BY <1>1, DomainAssumption DEF ObjectLocators
<1>5. 1 \in 0 .. MaxCounter
    BY CounterAssumption
<1>6. InitialState \in LocalStates /\ InitialState.generation = 1
    BY <1>3, <1>4, <1>5 DEF InitialState, LocalStates
<1> QED
    BY <1>1, <1>2, <1>6

\* The operations that publish, other than Compact.
LEMMA PublicationType ==
    ASSUME TypeOK, NEW i \in Instances
    PROVE  /\ InitializeNew(i) => TypeOK'
           /\ \A batch \in Batches, cursor \in Cursors : AppendEvents(i, batch, cursor) => TypeOK'
           /\ \A body \in Bodies, count \in 0 .. BatchMax : PreparePending(i, body, count) => TypeOK'
           /\ \A response \in exposed : AcceptResponse(i, response) => TypeOK'
           /\ \A body \in Bodies : ReplaceRejected(i, body) => TypeOK'
           /\ \A d \in Diagnostics : PublishDiagnostic(i, d[1], d[2]) => TypeOK'
<1>1. mem[i] \in LocalStates
    BY DEF TypeOK
<1>2. ObjectLocators \subseteq Locators
    BY DEF Locators
<1>3. {"INIT", "APPEND", "PREPARE", "ACK", "REPLACE", "DIAGNOSTIC"} \subseteq Transitions
    BY DEF Transitions
<1>4. ASSUME NEW c, NEW t, NEW objects, Publish(i, t, c, objects)
      PROVE  c.generation <= MaxCounter /\ c.produced <= MaxCounter
    BY <1>4 DEF Publish
<1>5. InitializeNew(i) => TypeOK'
    BY <1>3, InitialStateType, PublishType DEF InitializeNew
<1>6. ASSUME NEW batch \in Batches, NEW cursor \in Cursors, AppendEvents(i, batch, cursor)
      PROVE  TypeOK'
  <2>1. PICK prefix \in 0 .. Len(batch) :
            Publish(i, "APPEND", AppendCandidate(mem[i], batch, prefix, cursor),
                    NewObjects(Len(batch) - prefix + 1))
      BY <1>6 DEF AppendEvents
  <2> DEFINE c == AppendCandidate(mem[i], batch, prefix, cursor)
  <2>2. c.generation = HighestObserved + 1 /\ c.produced = mem[i].produced + (Len(batch) - prefix)
      BY <1>1, CandidateGeneration
  <2>3. HighestObserved + 1 <= MaxCounter /\ mem[i].produced + (Len(batch) - prefix) <= MaxCounter
      BY <1>4, <2>1, <2>2
  <2>4. c \in LocalStates
      BY <1>1, <2>3, AppendCandidateType
  <2>5. Len(batch) - prefix + 1 \in 0 .. (BatchMax + 1)
      BY InstanceAssumption, CounterAssumption
  <2>6. NewObjects(Len(batch) - prefix + 1) \in SUBSET Locators /\ c.generation \in Generation
      BY <1>2, <2>2, <2>3, <2>5, NextGeneration
  <2> HIDE DEF c
  <2> QED
      BY <1>3, <2>1, <2>4, <2>6, PublishType DEF c
<1>7. \A n \in {0, 1} : n \in 0 .. (BatchMax + 1)
    BY CounterAssumption
<1>8. ASSUME NEW body \in Bodies, NEW count \in 0 .. BatchMax, PreparePending(i, body, count)
      PROVE  TypeOK'
  <2> DEFINE c == PrepareCandidate(mem[i], body, count)
  <2>1. /\ Publish(i, "PREPARE", c, NewObjects(1))
        /\ mem[i].accepted_request < MaxCounter
        /\ count <= EventCount(mem[i])
      BY <1>8 DEF PreparePending
  <2>2. c.generation = HighestObserved + 1
      BY <1>1, CandidateGeneration
  <2>3. HighestObserved + 1 <= MaxCounter
      BY <1>4, <2>1, <2>2
  <2>4. c \in LocalStates
      BY <1>1, <2>1, <2>3, PrepareCandidateType
  <2>5. NewObjects(1) \in SUBSET Locators /\ c.generation \in Generation
      BY <1>2, <1>7, <2>2, <2>3, NextGeneration
  <2> HIDE DEF c
  <2> QED
      BY <1>3, <2>1, <2>4, <2>5, PublishType
<1>9. ASSUME NEW response \in exposed, AcceptResponse(i, response)
      PROVE  TypeOK'
  <2> DEFINE c == AcceptCandidate(mem[i])
             objects == {ObjectLocator(HighestObserved + 1, 2)}
  <2>1. Publish(i, "ACK", c, objects)
      BY <1>9 DEF AcceptResponse
  <2>2. c.generation = HighestObserved + 1
      BY <1>1, CandidateGeneration
  <2>3. HighestObserved + 1 <= MaxCounter
      BY <1>4, <2>1, <2>2
  <2>4. c \in LocalStates
      BY <1>1, <2>3, AcceptCandidateType
  <2>5. objects \in SUBSET Locators /\ c.generation \in Generation
      BY <1>2, <2>2, <2>3, NextGeneration
  <2> HIDE DEF c, objects
  <2> QED
      BY <1>3, <2>1, <2>4, <2>5, PublishType
<1>10. ASSUME NEW body \in Bodies, ReplaceRejected(i, body)
       PROVE  TypeOK'
  <2> DEFINE c == ReplaceCandidate(mem[i], body)
  <2>1. Publish(i, "REPLACE", c, NewObjects(1))
      BY <1>10 DEF ReplaceRejected
  <2>2. c.generation = HighestObserved + 1
      BY <1>1, CandidateGeneration
  <2>3. HighestObserved + 1 <= MaxCounter
      BY <1>4, <2>1, <2>2
  <2>4. c \in LocalStates
      BY <1>1, <2>3, ReplaceCandidateType
  <2>5. NewObjects(1) \in SUBSET Locators /\ c.generation \in Generation
      BY <1>2, <1>7, <2>2, <2>3, NextGeneration
  <2> HIDE DEF c
  <2> QED
      BY <1>3, <2>1, <2>4, <2>5, PublishType
<1>11. ASSUME NEW d \in Diagnostics, PublishDiagnostic(i, d[1], d[2])
       PROVE  TypeOK'
  <2> DEFINE c == [Successor(mem[i]) EXCEPT !.completeness = d[1], !.last_error = d[2]]
  <2>1. Publish(i, "DIAGNOSTIC", c, {})
      BY <1>11 DEF PublishDiagnostic
  <2>2. c.generation = HighestObserved + 1
      BY <1>1, CandidateGeneration
  <2>3. HighestObserved + 1 <= MaxCounter
      BY <1>4, <2>1, <2>2, Zenon
  <2>4. d[1] \in Completeness /\ d[2] \in Errors /\ Successor(mem[i]) \in LocalStates
      BY <1>1, <2>3, InstanceAssumption, SuccessorType
  <2>5. c \in LocalStates
      BY <2>4, Zenon DEF LocalStates
  <2>6. {} \in SUBSET Locators /\ c.generation \in Generation
      BY <2>2, <2>3, NextGeneration
  <2> HIDE DEF c
  <2> QED
      BY <1>3, <2>1, <2>5, <2>6, PublishType
<1> QED
    BY <1>5, <1>6, <1>8, <1>9, <1>10, <1>11

\* The retirement job Compact starts from a root.
LEMMA RetireJobType ==
    ASSUME TypeOK, NEW s \in LocalStates
    PROVE  RetireJob(s) \in Jobs
<1> DEFINE g == Grandparent(s)
<1>1. CASE g = 0 \/ CommitLocator(g) \notin Present \/ RetireBatch(s) = {}
    BY <1>1, ClearTypes DEF RetireJob
<1>2. CASE ~(g = 0 \/ CommitLocator(g) \notin Present \/ RetireBatch(s) = {})
  <2>1. g \in Generation
    <3>1. s.parent_generation \in 0 .. MaxCounter /\ s.parent_generation # 0
        BY <1>2 DEF LocalStates, Grandparent
    <3>2. manifest[s.parent_generation] \in LocalStates
        BY <3>1, CounterAssumption DEF TypeOK, Generation
    <3>3. manifest[s.parent_generation].parent_generation \in 0 .. MaxCounter
        BY <3>2 DEF LocalStates
    <3> QED
        BY <1>2, <3>1, <3>3, CounterAssumption DEF Grandparent, Generation
  <2>2. manifest[g] \in LocalStates
      BY <2>1, SMTT(30) DEF TypeOK
  <2>3. RetireBatch(s) \subseteq files \cup {StateLocator(g), CommitLocator(g)}
      BY DEF RetireBatch
  <2>4. RetireBatch(s) \in SUBSET Locators
      BY <2>1, <2>3 DEF TypeOK, Locators
  <2> QED
      BY <1>2, <2>2, <2>4 DEF RetireJob, Jobs
<1> QED
    BY <1>1, <1>2

\* Compact.
LEMMA CompactType ==
    ASSUME TypeOK, NEW i \in Instances, Compact(i)
    PROVE  TypeOK'
<1>1. mem[i] \in LocalStates
    BY DEF TypeOK
<1>2. CASE job' = [job EXCEPT ![i] = RetireJob(mem[i])]
           /\ UNCHANGED <<disk, owner, flags, exposed>>
    BY <1>1, <1>2, RetireJobType DEF TypeOK, disk, flags
<1>3. CASE Publish(i, "CHECKPOINT", Successor(mem[i]), {})
  <2>1. Successor(mem[i]).generation = HighestObserved + 1
      BY <1>1, CandidateGeneration
  <2>2. HighestObserved + 1 <= MaxCounter
      BY <1>3, <2>1 DEF Publish
  <2>3. Successor(mem[i]) \in LocalStates /\ Successor(mem[i]).generation \in Generation
      BY <1>1, <2>1, <2>2, SuccessorType, NextGeneration
  <2>4. "CHECKPOINT" \in Transitions /\ {} \in SUBSET Locators
      BY DEF Transitions
  <2> QED
      BY <1>3, <2>3, <2>4, PublishType
<1> QED
    BY <1>2, <1>3 DEF Compact

\* The flags and the memory any recovery, public or internal, sets.
LEMMA RecoverFlagsType ==
    ASSUME TypeOK, NEW i \in Instances,
           NEW ok \in BOOLEAN, NEW empty \in BOOLEAN, NEW again \in BOOLEAN,
           ok => HighestCommit > 0,
           RecoverFlags(i, ok, empty, again)
    PROVE  /\ loaded' \in [Instances -> BOOLEAN]
           /\ empty_ready' \in [Instances -> BOOLEAN]
           /\ reload' \in [Instances -> BOOLEAN]
           /\ mem' \in [Instances -> LocalStates]
           /\ UNCHANGED <<opened, owner, files, torn, hollow, manifest, marker>>
<1>1. ok => manifest[HighestCommit] \in LocalStates
    BY Heights DEF TypeOK
<1>2. (IF ok THEN manifest[HighestCommit] ELSE ClearState) \in LocalStates
    BY <1>1, ClearTypes
<1> QED
    BY <1>2 DEF RecoverFlags, TypeOK, disk

\* Recover.
LEMMA RecoverType ==
    ASSUME TypeOK, NEW i \in Instances, Recover(i)
    PROVE  TypeOK'
<1> DEFINE empty == owner = i /\ InventoryOK /\ Present = {}
<1>1. RecoveredRoot(i) \in BOOLEAN /\ empty \in BOOLEAN /\ (owner # i) \in BOOLEAN
    BY Zenon DEF RecoveredRoot
<1>2. RecoveredRoot(i) => HighestCommit > 0
    BY DEF RecoveredRoot
<1>3. RecoverFlags(i, RecoveredRoot(i), empty, owner # i) /\ UNCHANGED <<job, exposed>>
    BY DEF Recover
<1> HIDE DEF empty
<1>4. /\ loaded' \in [Instances -> BOOLEAN]
      /\ empty_ready' \in [Instances -> BOOLEAN]
      /\ reload' \in [Instances -> BOOLEAN]
      /\ mem' \in [Instances -> LocalStates]
      /\ UNCHANGED <<opened, owner, files, torn, hollow, manifest, marker>>
    BY <1>1, <1>2, <1>3, RecoverFlagsType, Zenon
<1> QED
    BY <1>3, <1>4 DEF TypeOK

\* FinishPublish.
LEMMA FinishType ==
    ASSUME TypeOK, NEW i \in Instances, FinishPublish(i)
    PROVE  TypeOK'
<1> DEFINE ok == RecoveredRoot(i)
           root == manifest[HighestCommit]
<1>1. ok \in BOOLEAN /\ (ok => HighestCommit > 0)
    BY Zenon DEF RecoveredRoot
<1>2. /\ loaded' \in [Instances -> BOOLEAN]
      /\ empty_ready' \in [Instances -> BOOLEAN]
      /\ reload' \in [Instances -> BOOLEAN]
      /\ mem' \in [Instances -> LocalStates]
      /\ UNCHANGED <<opened, owner, files, torn, hollow, manifest, marker>>
    BY <1>1, RecoverFlagsType, Zenon DEF FinishPublish
<1>3. ok => root \in LocalStates
    BY <1>1, Heights DEF TypeOK
<1>4. ok => RetireJob(root) \in Jobs /\ root.pending \in PendingRecords
    BY <1>3, RetireJobType DEF LocalStates
<1>5. job' \in [Instances -> Jobs] /\ exposed' \in SUBSET PendingRecords
    BY <1>4, ClearTypes DEF FinishPublish, TypeOK
<1> QED
    BY <1>2, <1>5 DEF TypeOK

\* What an attempt to create a file leaves, and what a deletion leaves.
LEMMA LeaveType ==
    ASSUME TypeOK, NEW i \in Instances, NEW l \in job[i].todo,
           NEW residue \in {"ABSENT", "HOLLOW", "TORN", "WHOLE"}, Leave(i, l, residue)
    PROVE  /\ files' \in SUBSET Locators
           /\ torn' \in SUBSET Locators
           /\ hollow' \in SUBSET Locators
           /\ manifest' \in [Generation -> LocalStates]
           /\ marker' \in [Generation -> Transitions \cup {"-"}]
<1>1. job[i] \in Jobs
    BY DEF TypeOK
<1>2. l \in Locators /\ job[i].candidate \in LocalStates
      /\ job[i].transition \in Transitions \cup {"-"}
    BY <1>1 DEF Jobs
<1> QED
    BY <1>2 DEF TypeOK, Leave

LEMMA RemoveType ==
    ASSUME TypeOK, NEW l, Remove(l) \/ UNCHANGED disk
    PROVE  /\ files' \in SUBSET Locators
           /\ torn' \in SUBSET Locators
           /\ hollow' \in SUBSET Locators
           /\ manifest' \in [Generation -> LocalStates]
           /\ marker' \in [Generation -> Transitions \cup {"-"}]
BY ClearTypes DEF TypeOK, Remove, disk

\* The public operations.
LEMMA OperationType ==
    ASSUME TypeOK, NEW i \in Instances, Operation(i)
    PROVE  TypeOK'
<1>1. CASE ReadPending(i)
  <2>1. mem[i].pending \in PendingRecords
      BY DEF TypeOK, LocalStates
  <2> QED
      BY <1>1, <2>1 DEF ReadPending, TypeOK, disk, flags
<1> QED
    BY <1>1, RecoverType, PublicationType, CompactType DEF Operation

\* Writing, deleting and finishing.
LEMMA FileStepType ==
    ASSUME TypeOK, NEW i \in Instances, FileStep(i)
    PROVE  TypeOK'
<1>1. job[i] \in Jobs
    BY DEF TypeOK
<1>2. ASSUME NEW l \in job[i].todo, WriteFile(i, l)
      PROVE  TypeOK'
  <2> DEFINE rest == job[i].todo \ {l}
             next == [job[i] EXCEPT !.todo = rest,
                                    !.phase = IF rest = {} THEN "RECOVER" ELSE "WRITE"]
  <2>1. next \in Jobs
      BY <1>1, Zenon DEF Jobs
  <2>2. job' = [job EXCEPT ![i] = next]
      BY <1>1, <1>2, Zenon DEF WriteFile, TypeOK, Jobs
  <2>3. reload' \in [Instances -> BOOLEAN]
      BY <1>2 DEF WriteFile, TypeOK
  <2>4. Leave(i, l, "WHOLE")
      BY <1>2 DEF WriteFile
  <2> HIDE DEF next
  <2>5. job' \in [Instances -> Jobs]
      BY <2>1, <2>2 DEF TypeOK
  <2> QED
      BY <1>2, <2>3, <2>4, <2>5, LeaveType DEF WriteFile, TypeOK
<1>3. ASSUME NEW l \in job[i].todo, DeleteFile(i, l)
      PROVE  TypeOK'
  <2> DEFINE rest == job[i].todo \ {l}
  <2>1. [job[i] EXCEPT !.todo = rest] \in Jobs
      BY <1>1 DEF Jobs
  <2>2. job' \in [Instances -> Jobs]
      BY <1>3, <2>1, ClearTypes DEF DeleteFile, TypeOK
  <2> QED
      BY <1>3, <2>2, RemoveType DEF DeleteFile, TypeOK, flags
<1> QED
    BY <1>2, <1>3, FinishType DEF FileStep

\* I/O errors, lost ownership and crashes.
LEMMA FaultType ==
    ASSUME TypeOK, NEW i \in Instances, Fault(i)
    PROVE  TypeOK'
<1>1. ASSUME NEW l \in job[i].todo, NEW residue \in {"ABSENT", "HOLLOW", "TORN", "WHOLE"},
             WriteFails(i, l, residue)
      PROVE  TypeOK'
    BY <1>1, LeaveType, ClearTypes, SMTT(30) DEF WriteFails, TypeOK
<1>2. ASSUME NEW l \in job[i].todo, DeleteFails(i, l)
      PROVE  TypeOK'
    BY <1>2, RemoveType, ClearTypes DEF DeleteFails, TypeOK
<1>3. CASE ReadFails(i)
    BY <1>3 DEF ReadFails, TypeOK, disk
<1>4. CASE RecoverFails(i)
  <2>1. /\ loaded' \in [Instances -> BOOLEAN]
        /\ empty_ready' \in [Instances -> BOOLEAN]
        /\ reload' \in [Instances -> BOOLEAN]
        /\ mem' \in [Instances -> LocalStates]
        /\ UNCHANGED <<opened, owner, files, torn, hollow, manifest, marker>>
      BY <1>4, RecoverFlagsType, Zenon DEF RecoverFails
  <2> QED
      BY <1>4, <2>1, ClearTypes, Zenon DEF RecoverFails, TypeOK
<1>5. CASE LoseOwnership(i)
    BY <1>5, ClearTypes, SMTT(30) DEF LoseOwnership, TypeOK, disk
<1>6. CASE Crash(i)
  <2>1. /\ files' \in SUBSET Locators
        /\ torn' \in SUBSET Locators
        /\ hollow' \in SUBSET Locators
        /\ manifest' \in [Generation -> LocalStates]
        /\ marker' \in [Generation -> Transitions \cup {"-"}]
      BY <1>6, LeaveType DEF Crash, TypeOK, disk
  <2> QED
      BY <1>6, <2>1, ClearTypes, SMTT(30) DEF Crash, Forget, TypeOK
<1> QED
    BY <1>1, <1>2, <1>3, <1>4, <1>5, <1>6, SMTT(30) DEF Fault

\* Opening and closing the store.
LEMMA OpenCloseType ==
    ASSUME TypeOK, NEW i \in Instances, Open(i) \/ Close(i)
    PROVE  TypeOK'
<1>1. CASE Open(i)
    BY <1>1, ClearTypes DEF Open, Forget, TypeOK, disk
<1>2. CASE Close(i)
    BY <1>2, ClearTypes DEF Close, Forget, TypeOK, disk
<1> QED
    BY <1>1, <1>2

\* Every step keeps the types.
LEMMA StepType == TypeOK /\ [Next]_vars => TypeOK'
<1>1. ASSUME TypeOK, Next PROVE TypeOK'
    BY <1>1, OperationType, FileStepType, FaultType, OpenCloseType DEF Next
<1>2. ASSUME TypeOK, UNCHANGED vars PROVE TypeOK'
    BY <1>2 DEF TypeOK, vars, disk, flags
<1> QED
    BY <1>1, <1>2

\* Type correctness of the durable state machine, for every number of terminals
\* and every bound: no sequence of operations, failures and crashes leads a
\* counter past TOV2_LOCAL_MAX_COUNTER or yields a malformed manifest.
THEOREM TypeCorrect == Spec => []TypeOK
<1>1. Init => TypeOK
    BY ClearTypes DEF Init, TypeOK
<1> QED
    BY <1>1, StepType, PTL DEF Spec

=============================================================================
