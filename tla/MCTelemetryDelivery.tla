------------------------ MODULE MCTelemetryDelivery ------------------------
(* Instances of TelemetryDelivery for TLC.                                 *)
EXTENDS TelemetryDelivery

MCSelf == [agent |-> "a", tracking |-> "t1"]

MCIdentities == {MCSelf}

Deal(id, revision, previous) ==
    [event_id |-> id, deal_id |-> "d", revision |-> revision, previous |-> previous]

Protection(id) == [event_id |-> id, deal_id |-> "-", revision |-> 0, previous |-> NoRecord]

\* A deal, its correction, and a protection change.
MCCaptured == <<Deal(1, 1, NoRecord), Deal(2, 2, 1), Protection(3)>>

=============================================================================
