------------------------ MODULE MCTelemetryReceiver ------------------------
(* Instances of TelemetryReceiver for TLC: a client that retries, renews,  *)
(* skips, conflicts and mixes identities.                                  *)
EXTENDS TelemetryReceiver

Identity(tracking) == [agent |-> "a", tracking |-> tracking]

Deal(n, id, revision, previous) ==
    [sequence |-> n,
     obs |-> [event_id |-> id, deal_id |-> "d", revision |-> revision, previous |-> previous]]

Protection(n, id) ==
    [sequence |-> n,
     obs |-> [event_id |-> id, deal_id |-> "-", revision |-> 0, previous |-> NoRecord]]

Request(tracking, n, prior, events, sent_at, complete) ==
    [identity |-> Identity(tracking), request |-> n, prior |-> prior,
     events |-> events, sent_at |-> sent_at,
     produced |-> prior + Len(events), scan_finished |-> TRUE,
     record_gap |-> FALSE, complete |-> complete]

MCIdentities == {Identity("t1"), Identity("t2")}

MCArrivals ==
    {Request("t1", 1, 0, <<Deal(1, 1, 1, NoRecord)>>, 0, TRUE),
     Request("t1", 1, 0, <<Deal(1, 1, 1, NoRecord)>>, 1, FALSE),
     Request("t2", 1, 0, <<>>, 0, TRUE),
     Request("t1", 2, 1, <<Deal(2, 2, 2, 1), Protection(3, 3)>>, 1, FALSE),
     Request("t1", 2, 1, <<Deal(2, 4, 1, NoRecord)>>, 1, TRUE),
     Request("t1", 2, 2, <<Protection(3, 3)>>, 1, TRUE),
     Request("t1", 3, 3, <<>>, 2, TRUE)}

=============================================================================
