-------------------------- MODULE DlcStateMachine ---------------------------
(***************************************************************************)
(* DlcStateMachine (crates/scp-dlc/state_machine.rs) on top of DlcStorage. *)
(* A handler reads the contract's current state with get(), validates the  *)
(* transition against that snapshot, builds the new state from it and      *)
(* saves it; the read and the save are not one critical section, so two    *)
(* callers may both validate against the same state.  A handler that       *)
(* returns Err before save() changes nothing and is no step.               *)
(*                                                                         *)
(* Abstracted: timestamps, block heights, the attestation, the payout and  *)
(* the refund reason, which the handlers store as given and never test.    *)
(***************************************************************************)
EXTENDS DlcStorage

CONSTANTS
    Drivers,        \* Drivers[c]: the callers that operate contract c
    Ops,            \* the handlers those callers use
    MaxWrites       \* bound: no handler starts on a contract written so often

ASSUME DriversAssumption == Drivers \in [Contracts -> SUBSET Callers]
ASSUME MaxWritesAssumption == MaxWrites \in Nat

VARIABLES
    listing         \* a list_active() in progress or just returned

vars == <<storageVars, listing>>

OpName == {"offer", "accept", "sign", "confirm", "settle", "refund", "fail",
           "delete", "list"}

ASSUME OpsAssumption == Ops \subseteq OpName

Active == {"Signed", "Confirmed"}

Listing == [phase: {"none", "scanned", "returned"},
            due: SUBSET Contracts, found: SUBSET Contracts]

NoListing == [phase |-> "none", due |-> {}, found |-> {}]

\* Type invariant: the trees and the calls of storage.rs keep their types, and a
\* listing of the active contracts only speaks of known contracts.
TypeOK == StorageTypeOK /\ listing \in Listing

Init == StorageInit /\ listing = NoListing

-----------------------------------------------------------------------------
(* The handlers: get_state or get, match on the current state, save.       *)

Handler(t, c, op) ==
    /\ op \in Ops
    /\ t \in Drivers[c]
    /\ states[c].ver < MaxWrites
    /\ UNCHANGED listing

CreateOffer(t, c) ==
    /\ Handler(t, c, "offer")
    /\ states[c].status = "None"
    /\ StartSave(t, c, [Absent(0) EXCEPT !.status = "Offered"])

\* Any party's acceptance is taken, at any collateral: validate_against is
\* never called.
AcceptOffer(t, c, accepter) ==
    /\ Handler(t, c, "accept")
    /\ states[c].status = "Offered"
    /\ StartSave(t, c, [states[c] EXCEPT !.status = "Accepted",
                                         !.accepter = accepter])

\* ContractSign: whether the offerer's signature is valid over the contract
\* id, and the accepter whose key the second signature verifies under.
ContractSign == [offererValid: BOOLEAN, signedBy: Party]

Verify(sign, accepter) == sign.offererValid /\ sign.signedBy = accepter

\* Variant: the signature is checked against whoever signed.
SignUnbound(t, c, sign) ==
    /\ Handler(t, c, "sign")
    /\ states[c].status = "Accepted"
    /\ sign.offererValid
    /\ StartSave(t, c, [states[c] EXCEPT !.status = "Signed",
                                         !.signer = sign.signedBy])

SignContract(t, c, sign) ==
    /\ Handler(t, c, "sign")
    /\ states[c].status = "Accepted"
    /\ Verify(sign, states[c].accepter)
    /\ StartSave(t, c, [states[c] EXCEPT !.status = "Signed",
                                         !.signer = sign.signedBy])

ConfirmFunding(t, c) ==
    /\ Handler(t, c, "confirm")
    /\ states[c].status = "Signed"
    /\ StartSave(t, c, [states[c] EXCEPT !.status = "Confirmed",
                                         !.funded = TRUE])

\* Variant: settlement does not wait for the funding confirmation.
SettleEarly(t, c) ==
    /\ Handler(t, c, "settle")
    /\ states[c].status \in {"Signed", "Confirmed"}
    /\ StartSave(t, c, [states[c] EXCEPT !.status = "Settled"])

Settle(t, c) ==
    /\ Handler(t, c, "settle")
    /\ states[c].status = "Confirmed"
    /\ StartSave(t, c, [states[c] EXCEPT !.status = "Settled"])

Refund(t, c) ==
    /\ Handler(t, c, "refund")
    /\ states[c].status \in {"Confirmed", "Signed"}
    /\ StartSave(t, c, [states[c] EXCEPT !.status = "Refunded"])

\* fail() reads nothing: the contract need not exist, nor be unfinished.
Fail(t, c) ==
    /\ Handler(t, c, "fail")
    /\ StartSave(t, c, [Absent(0) EXCEPT !.status = "Failed"])

\* DlcStorage::delete, which only the storage's own users can call.
Delete(t, c) ==
    /\ Handler(t, c, "delete")
    /\ StartSave(t, c, Absent(0))

-----------------------------------------------------------------------------
(* list_active(): the "Signed" prefix of the index, then the "Confirmed"   *)
(* one; every entry found is looked up in dlc_states.  One scan is atomic  *)
(* here: an entry whose contract moves on before its lookup returns what   *)
(* the scan of a stale entry returns.  "due" is a history field: contracts *)
(* active when the call started and when it returns.                       *)

ActiveContracts == {c \in Contracts : states[c].status \in Active}

ListByState(name) ==
    {c \in Contracts : <<name, c>> \in index /\ states[c].status # "None"}

ListSigned ==
    /\ "list" \in Ops
    /\ listing.phase = "none"
    /\ listing' = [phase |-> "scanned", due |-> ActiveContracts,
                   found |-> ListByState("Signed")]
    /\ UNCHANGED storageVars

ListConfirmed ==
    /\ listing.phase = "scanned"
    /\ listing' = [phase |-> "returned", due |-> listing.due \cap ActiveContracts,
                   found |-> listing.found \cup ListByState("Confirmed")]
    /\ UNCHANGED storageVars

ListDone ==
    /\ listing.phase = "returned"
    /\ listing' = NoListing
    /\ UNCHANGED storageVars

-----------------------------------------------------------------------------
StartCall(t) ==
    \E c \in Contracts :
        \/ CreateOffer(t, c)
        \/ \E a \in Accepters : AcceptOffer(t, c, a)
        \/ \E s \in ContractSign : SignContract(t, c, s)
        \/ ConfirmFunding(t, c)
        \/ Settle(t, c)
        \/ Refund(t, c)
        \/ Fail(t, c)
        \/ Delete(t, c)

Next ==
    \/ \E t \in Callers : StartCall(t)
    \/ \E t \in Callers : (SaveStep(t) \/ IoError(t)) /\ UNCHANGED listing
    \/ Persist /\ UNCHANGED listing
    \/ Crash /\ listing' = NoListing
    \/ ListSigned
    \/ ListConfirmed
    \/ ListDone

Spec == Init /\ [][Next]_vars

-----------------------------------------------------------------------------
(* Correctness.                                                            *)

\* A stored or in-flight contract is one the protocol can have produced.
WellFormed(r) ==
    /\ r.status \in {"None", "Offered", "Failed"} => r.accepter = NoOne
    /\ r.status \in {"Accepted", "Signed", "Confirmed", "Settled", "Refunded"}
           => r.accepter \in Accepters
    /\ r.status \in {"Signed", "Confirmed", "Settled", "Refunded"}
           => r.signer = r.accepter
    /\ r.status \in {"Confirmed", "Settled"} => r.funded
    /\ r.funded => r.status \in {"Confirmed", "Settled", "Refunded"}

\* Whatever callers race, fail half-way or crash: a contract on record as
\* settled was funded, one on record as signed carries a verified signature
\* of exactly the counterparty it is bound to, and no record mixes the
\* acceptance of one counterparty with the signature of another
\* (state_machine.rs: every handler builds the new state from one snapshot).
Provenance ==
    \A c \in Contracts : WellFormed(states[c]) /\ WellFormed(diskStates[c])

\* "This writes to disk synchronously before returning" (storage.rs): once
\* save has returned Ok, no crash brings back an older state of the contract.
AckedDurable == \A c \in Contracts : acked[c] <= diskStates[c].ver

\* Without faults, and while nobody is saving contract c, the index lists c
\* under the name of its current state and nowhere else (update_index).
IndexExact ==
    \A c \in Contracts :
        (faults = 0 /\ \A t \in Callers : Idle(t) \/ call[t].contract # c)
        => {e \in index : e[2] = c} =
               IF states[c].status = "None" THEN {} ELSE {<<states[c].status, c>>}

Rank == [None |-> 0, Offered |-> 1, Accepted |-> 2, Signed |-> 3, Confirmed |-> 4,
         Settled |-> 5, Refunded |-> 5, Failed |-> 6]

\* The order of the writes of save(): the index may lag behind the states,
\* after a crash for ever, but it never names a state that a contract has
\* not reached.  So no listing returns a contract for a step still to come.
IndexNeverAhead ==
    \A e \in index : Rank[e[1]] <= Rank[states[e[2]].status]

\* "Every transition is: 1. Validated" (state_machine.rs:127-128): the validation
\* refuses to refund a settled contract (state_machine.rs:321-335), so what is on disk
\* as settled is not refunded next.
SettledNeverRefunded ==
    [][\A c \in Contracts :
           diskStates[c].status = "Settled" => diskStates'[c].status # "Refunded"]_vars

\* "List all active contracts" (state_machine.rs): a contract with locked
\* funds from the start of list_active() to its end is in the result.
ListActiveComplete == listing.phase = "returned" => listing.due \subseteq listing.found

\* As long as one caller operates each contract, what is on disk follows the
\* promised lifecycle through errors and crashes.
Lifecycle == INSTANCE DlcLifecycle WITH
    stage <- [c \in Contracts |-> diskStates[c].status],
    party <- [c \in Contracts |-> diskStates[c].accepter]

RefinesLifecycle == Lifecycle!Spec

=============================================================================
