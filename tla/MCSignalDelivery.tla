-------------------------- MODULE MCSignalDelivery --------------------------
(***************************************************************************)
(* Small instances of SignalDelivery.  Two registrations of one scope send  *)
(* envelopes about one attempt; each workload puts one difficulty in front  *)
(* of the code.                                                             *)
(***************************************************************************)
EXTENDS SignalDelivery

MCRegistrations == {"chart", "successor"}
MCNamespace == [r \in MCRegistrations |-> "ns"]
MCScope == [r \in MCRegistrations |-> "eurusd"]
MCFreshness == [event |-> 3, observation |-> 3, future |-> 1, queue |-> 3]

Entry(formation, selected, trigger, selection) ==
    [attempt |-> "A", formation |-> formation, selected |-> selected, trigger |-> trigger,
     selection |-> selection]

Envelope(r, g, n, event, observed, entries) ==
    [reg |-> r, gen |-> g, seq |-> n, event |-> event, observed |-> observed, valid |-> TRUE,
     entries |-> entries]

First == Envelope("chart", 1, 1, "e1", 0, <<Entry("f", TRUE, 0, "s")>>)
Other == Envelope("chart", 1, 1, "e1", 0, <<Entry("g", TRUE, 0, "s")>>)
Watch == Envelope("chart", 1, 1, "e1", 0, <<Entry("f", FALSE, 0, "s")>>)
Second == Envelope("chart", 1, 2, "e2", 2, <<Entry("f", TRUE, 1, "s")>>)
Broken == [Second EXCEPT !.valid = FALSE]
Early == Envelope("chart", 1, 2, "e2", 1, <<Entry("f", TRUE, 0, "z")>>)
Cutover == Envelope("chart", 2, 1, "e1", 0, <<Entry("f", TRUE, 0, "s")>>)
Dispute == Envelope("successor", 1, 1, "e1", 0, <<Entry("g", TRUE, 0, "s")>>)

MCRequests == {First, Other, Watch, Second, Broken, Early, Cutover, Dispute}

On(r) == [reg |-> r, enabled |-> TRUE]
Off(r) == [reg |-> r, enabled |-> FALSE]

Work(requests, plan, skew, sequential, lossy, budget, until, horizon, handlers, n) ==
    [requests |-> requests, plan |-> plan, skew |-> skew, sequential |-> sequential, lossy |-> lossy,
     calls |-> budget, until |-> until, horizon |-> horizon, handlers |-> handlers, dispatchers |-> n]

MCWorkloads == {
    \* two bodies under one sequence, and the next one, from racing calls
    Work({First, Other, Second}, <<On("chart")>>, 0, FALSE, TRUE, 3, 1, 1, 2, 0),
    \* contradicting and malformed envelopes in the place of the second
    Work({Watch, Second, Early, Broken}, <<On("chart"), On("successor")>>, 1, FALSE, TRUE, 3, 3, 3, 1, 0),
    \* an orderly producer whose abandoned calls linger
    Work({First, Second}, <<On("chart")>>, 0, TRUE, TRUE, 4, 2, 2, 2, 0),
    \* a generation is replaced while its delivery is under way
    Work({First, Cutover}, <<On("chart"), On("chart")>>, 0, TRUE, FALSE, 2, 0, 3, 1, 1),
    \* another registration of the scope contradicts a pending delivery
    Work({First, Dispute}, <<On("chart"), Off("chart"), On("successor")>>, 0, TRUE, FALSE, 2, 0, 3, 1, 1),
    \* two dispatchers on one delivery, with clocks that agree
    Work({First}, <<On("chart")>>, 0, TRUE, TRUE, 1, 0, 4, 1, 2),
    \* a dispatcher and a receiver whose clocks may be behind
    Work({First}, <<On("chart")>>, 1, TRUE, TRUE, 1, 1, 5, 1, 1)}

=============================================================================
