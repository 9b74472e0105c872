---------------------------- MODULE DlcLifecycle ----------------------------
(***************************************************************************)
(* What a user of DlcStateMachine is promised (the diagram and comments at *)
(* the head of crates/scp-dlc/state_machine.rs), free of trees, indexes,   *)
(* logs and crashes: each contract follows the lifecycle graph, and the    *)
(* counterparty bound by its acceptance stays the same until it ends.      *)
(***************************************************************************)
CONSTANTS Contracts, Accepters, NoOne

VARIABLES
    stage,          \* stage[c]: the state's name, "None" before the offer
    party           \* party[c]: the accepter bound to the contract

vars == <<stage, party>>

Init ==
    /\ stage = [c \in Contracts |-> "None"]
    /\ party = [c \in Contracts |-> NoOne]

Move(c, from, to) ==
    /\ stage[c] \in from
    /\ stage' = [stage EXCEPT ![c] = to]

Offer(c) == Move(c, {"None"}, "Offered") /\ UNCHANGED party

Accept(c, a) ==
    /\ Move(c, {"Offered"}, "Accepted")
    /\ party' = [party EXCEPT ![c] = a]

Sign(c)    == Move(c, {"Accepted"}, "Signed") /\ UNCHANGED party
Confirm(c) == Move(c, {"Signed"}, "Confirmed") /\ UNCHANGED party
Settle(c)  == Move(c, {"Confirmed"}, "Settled") /\ UNCHANGED party
Refund(c)  == Move(c, {"Signed", "Confirmed"}, "Refunded") /\ UNCHANGED party

\* fail() validates nothing: every contract, ended or unknown, can fail, and
\* the Failed state embeds no contract.
Fail(c) ==
    /\ stage' = [stage EXCEPT ![c] = "Failed"]
    /\ party' = [party EXCEPT ![c] = NoOne]

Next ==
    \E c \in Contracts :
        \/ Offer(c)
        \/ \E a \in Accepters : Accept(c, a)
        \/ Sign(c)
        \/ Confirm(c)
        \/ Settle(c)
        \/ Refund(c)
        \/ Fail(c)

Spec == Init /\ [][Next]_vars

=============================================================================
