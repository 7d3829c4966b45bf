-------------------------- MODULE MCPaperSimulator --------------------------
(***************************************************************************)
(* PaperSimulator with two handlers, two accounts and trades that compete   *)
(* for the same open-risk budget.                                          *)
(***************************************************************************)
EXTENDS PaperSimulator, TLC

CONSTANTS h1, h2

MCHandlers == {h1, h2}
Symmetry == Permutations(MCHandlers)
MCAccounts == {"a1", "a2"}
MCOpening == [a \in MCAccounts |-> 10000]
MCControls == {[key |-> "off", enabled |-> FALSE], [key |-> "on", enabled |-> TRUE]}

Both  == [bps |-> 100, accounts |-> <<"a1", "a2">>]
First == [bps |-> 150, accounts |-> <<"a1">>]
Other == [bps |-> 120, accounts |-> <<"a1">>]

Message(key, commands) == [kind |-> "envelope", key |-> key, commands |-> commands]
Open(id, open) == [action |-> "OPEN", id |-> id, open |-> open]
Close(id, outcome) == [action |-> "SETTLE", id |-> id, outcome |-> outcome]
Create(id, open) == [kind |-> "create", id |-> id, open |-> open]
SettleBy(id, outcome) == [kind |-> "settle", id |-> id, outcome |-> outcome]
Adjust(amount) == [kind |-> "ledger", account |-> "a1", sequence |-> 1, amount |-> amount]

\* A trade in both accounts, and its settlement together with a trade that
\* does not fit beside it nor, on the day of the loss, after it.
Succession == [
    requests |-> {Message("k1", <<Open("i1", Both)>>),
                  Message("k2", <<Close("i1", -1000), Open("i2", First)>>)},
    controls |-> MCControls, accounts |-> MCAccounts, days |-> 1]

\* One trade in two envelopes, with different content, and by hand.
Rivals == [
    requests |-> {Message("k1", <<Open("i2", First)>>),
                  Message("k2", <<Open("i2", Other)>>),
                  Create("i2", First)},
    controls |-> MCControls, accounts |-> {"a1"}, days |-> 0]

\* A trade, its settlement by hand and in two envelopes under one idempotency
\* key, and two entries for one place of the ledger, one of which leaves no
\* room for the gain.
Balances == [
    requests |-> {Create("i1", Both), SettleBy("i1", -1000),
                  Message("k3", <<Close("i1", 2000)>>),
                  Message("k3", <<Close("i1", 1000)>>),
                  Adjust(100), Adjust(-100)},
    controls |-> {[key |-> "off", enabled |-> FALSE]}, accounts |-> MCAccounts, days |-> 0]

MCWorkloads == {Succession, Rivals, Balances}
MCRequests == UNION {w.requests : w \in MCWorkloads}
=============================================================================
