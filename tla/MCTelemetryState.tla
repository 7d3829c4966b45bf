------------------------- MODULE MCTelemetryState -------------------------
(* Instances of TelemetryState for TLC: small capture inputs.              *)
EXTENDS TelemetryOutbox, TLC

Deal(id, revision) == [event_id |-> id, deal_id |-> "d", revision |-> revision]

Protection(id) == [event_id |-> id, deal_id |-> "-", revision |-> 0]

\* Two revisions of one deal, a protection change, and an observation that
\* clashes with the first on deal and revision.
MCObservations == {Deal(1, 1), Deal(2, 2), Protection(3), Deal(4, 1)}

\* Capture only, first delivery, replay with a new tail, an observation that clashes.
MCInputBatches == {<<>>, <<Deal(1, 1)>>, <<Deal(1, 1), Deal(2, 2)>>, <<Deal(4, 1)>>}

MCOneBatch == {<<Deal(1, 1)>>}

MCDiagnostics == {<<"UP_TO_DATE", "NONE">>, <<"DATA_MISSING", "IO_ERROR">>}

MCNoDiagnostics == {}

(* The number of generations that publications gave up.                    *)
CONSTANT MaxAbandoned

Abandoned ==
    {l.generation : l \in Present} \
        ({l.generation : l \in {c \in files : c.kind = "COMMIT"}}
           \cup {job[i].candidate.generation : i \in Instances})

FewAbandoned == Cardinality(Abandoned) <= MaxAbandoned

Terminals == Permutations(Instances)

=============================================================================
