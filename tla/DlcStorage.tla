----------------------------- MODULE DlcStorage -----------------------------
(***************************************************************************)
(* The persistent store of DLC contract states (crates/scp-dlc/storage.rs):*)
(* two sled trees, "dlc_states" (contract -> state) and "dlc_state_index"  *)
(* (state name : contract -> 1), and the steps of DlcStorage::save and     *)
(* DlcStorage::delete as their callers interleave.                         *)
(*                                                                         *)
(* sled is external.  From how the code uses it: a write is visible to     *)
(* every thread at once and is appended to one log shared by the trees;    *)
(* the log becomes durable from its front, in the background or because    *)
(* flush() waits for it; a crash keeps the durable prefix.  Nothing in     *)
(* storage.rs holds a lock or a transaction across the steps of a save.    *)
(*                                                                         *)
(* A serialised state is abstracted to what the lifecycle depends on: its  *)
(* variant, the party whose ContractAccept it embeds, the party whose      *)
(* signature over the contract was verified and whether funding_txid is    *)
(* set.  "ver" is a history field: the number of writes of the contract.   *)
(***************************************************************************)
EXTENDS Naturals, Sequences

CONSTANTS
    Contracts,      \* contract identifiers
    Callers,        \* threads that hold an Arc of the state machine
    Accepters,      \* counterparties that may accept an offer
    NoOne,          \* no accepter yet / no verified signature
    MaxFaults       \* bound: I/O errors and crashes in a behaviour

ASSUME ContractsAssumption == Contracts # {}
ASSUME NoOneAssumption == NoOne \notin Accepters

VARIABLES
    states,         \* tree dlc_states as get() sees it
    index,          \* tree dlc_state_index: pairs <<state name, contract>>
    wal,            \* writes visible but not durable yet, oldest first
    diskStates,     \* what a restart would find in dlc_states
    diskIndex,      \* what a restart would find in dlc_state_index
    call,           \* the operation each caller is executing
    acked,          \* history: ver of the last write reported Ok, per contract
    faults          \* history: I/O errors and crashes so far

storageVars == <<states, index, wal, diskStates, diskIndex, call, acked, faults>>
treeVars == <<states, index, wal, diskStates, diskIndex>>

StateName == {"Offered", "Accepted", "Signed", "Confirmed",
              "Settled", "Refunded", "Failed"}

Party == Accepters \cup {NoOne}

\* A DlcState; status "None" stands for the absence of a value in the tree.
DlcState == [status: StateName \cup {"None"}, accepter: Party, signer: Party,
             funded: BOOLEAN, ver: Nat]

Absent(ver) == [status |-> "None", accepter |-> NoOne, signer |-> NoOne,
                funded |-> FALSE, ver |-> ver]

\* One sled write: insert or remove in dlc_states ("put"), remove or insert
\* in dlc_state_index ("unindex", "index").
Write == [kind: {"put", "unindex", "index"}, contract: Contracts, rec: DlcState]

StatesAfter(tree, w) ==
    IF w.kind = "put" THEN [tree EXCEPT ![w.contract] = w.rec] ELSE tree

IndexAfter(tree, w) ==
    CASE w.kind = "unindex" -> tree \ {<<w.rec.status, w.contract>>}
      [] w.kind = "index"   -> tree \cup {<<w.rec.status, w.contract>>}
      [] OTHER              -> tree

Call == [pc: {"idle", "readOld", "insert", "unindex", "reindex", "flush"},
         contract: Contracts, old: DlcState, new: DlcState]

IdleCall == [pc |-> "idle", contract |-> CHOOSE c \in Contracts : TRUE,
             old |-> Absent(0), new |-> Absent(0)]

Idle(t) == call[t].pc = "idle"

StorageTypeOK ==
    /\ states \in [Contracts -> DlcState]
    /\ index \subseteq StateName \X Contracts
    /\ wal \in Seq(Write)
    /\ diskStates \in [Contracts -> DlcState]
    /\ diskIndex \subseteq StateName \X Contracts
    /\ call \in [Callers -> Call]
    /\ acked \in [Contracts -> Nat]
    /\ faults \in Nat

StorageInit ==
    /\ states = [c \in Contracts |-> Absent(0)]
    /\ index = {}
    /\ wal = <<>>
    /\ diskStates = [c \in Contracts |-> Absent(0)]
    /\ diskIndex = {}
    /\ call = [t \in Callers |-> IdleCall]
    /\ acked = [c \in Contracts |-> 0]
    /\ faults = 0

-----------------------------------------------------------------------------
(* The steps of save(state) and of delete(contract).                       *)

\* Enter save: the caller hands over the state it computed.  A state with
\* status "None" is DlcStorage::delete, which has the same steps.
StartSave(t, c, rec) ==
    /\ Idle(t)
    /\ call' = [call EXCEPT ![t] = [pc |-> "readOld", contract |-> c,
                                    old |-> Absent(0),
                                    new |-> [rec EXCEPT !.ver = 0]]]
    /\ UNCHANGED <<treeVars, acked, faults>>

\* A write is visible in its tree and at the tail of the log at once.
Apply(w) ==
    /\ states' = StatesAfter(states, w)
    /\ index' = IndexAfter(index, w)
    /\ wal' = Append(wal, w)
    /\ UNCHANGED <<diskStates, diskIndex, acked, faults>>

\* Variant: update_index moved ahead of states.insert.
ReadOldIndexFirst(t) ==
    /\ call[t].pc = "readOld"
    /\ call' = [call EXCEPT ![t].pc = "insert",
                            ![t].old = states[call[t].contract]]
    /\ Apply([kind |-> "index", contract |-> call[t].contract,
              rec |-> call[t].new])

\* "Get the old state for index cleanup": a snapshot, used two steps later.
ReadOld(t) ==
    /\ call[t].pc = "readOld"
    /\ call' = [call EXCEPT ![t].pc = "insert",
                            ![t].old = states[call[t].contract]]
    /\ UNCHANGED <<treeVars, acked, faults>>

\* states.insert(key, value), or states.remove(key) in delete.
InsertState(t) ==
    LET c   == call[t].contract
        rec == [call[t].new EXCEPT !.ver = states[c].ver + 1]
    IN  /\ call[t].pc = "insert"
        /\ Apply([kind |-> "put", contract |-> c, rec |-> rec])
        /\ call' = [call EXCEPT ![t].pc = "unindex", ![t].new = rec]

\* Variant: the entry of the old state is left behind.
RemoveNoIndex(t) ==
    /\ call[t].pc = "unindex"
    /\ call' = [call EXCEPT ![t].pc = "reindex"]
    /\ UNCHANGED <<treeVars, acked, faults>>

\* update_index, first half: the entry of the old state, if there was one;
\* nothing uses the snapshot after that.
RemoveOldIndex(t) ==
    /\ call[t].pc = "unindex"
    /\ call' = [call EXCEPT ![t].pc = "reindex", ![t].old = Absent(0)]
    /\ \/ /\ call[t].old.status = "None"
          /\ UNCHANGED <<treeVars, acked, faults>>
       \/ /\ call[t].old.status # "None"
          /\ Apply([kind |-> "unindex", contract |-> call[t].contract,
                    rec |-> call[t].old])

\* Variant: delete, too, adds the entry of its "new state".
AddIndexAlways(t) ==
    /\ call[t].pc = "reindex"
    /\ call' = [call EXCEPT ![t].pc = "flush"]
    /\ Apply([kind |-> "index", contract |-> call[t].contract,
              rec |-> call[t].new])

\* update_index, second half: the entry of the new state; delete has none.
AddNewIndex(t) ==
    /\ call[t].pc = "reindex"
    /\ call' = [call EXCEPT ![t].pc = "flush"]
    /\ \/ /\ call[t].new.status = "None"
          /\ UNCHANGED <<treeVars, acked, faults>>
       \/ /\ call[t].new.status # "None"
          /\ Apply([kind |-> "index", contract |-> call[t].contract,
                    rec |-> call[t].new])

\* Variant: save returns Ok without waiting for the disk.
ReturnBeforeFlush(t) ==
    /\ call[t].pc = "flush"
    /\ call' = [call EXCEPT ![t] = IdleCall]
    /\ acked' = [acked EXCEPT ![call[t].contract] =
                    IF @ < call[t].new.ver THEN call[t].new.ver ELSE @]
    /\ UNCHANGED <<treeVars, faults>>

\* db.flush() returns once the log is durable, and save returns Ok.
Flush(t) ==
    /\ call[t].pc = "flush"
    /\ wal = <<>>
    /\ call' = [call EXCEPT ![t] = IdleCall]
    /\ acked' = [acked EXCEPT ![call[t].contract] =
                    IF @ < call[t].new.ver THEN call[t].new.ver ELSE @]
    /\ UNCHANGED <<treeVars, faults>>

SaveStep(t) ==
    \/ ReadOld(t)
    \/ InsertState(t)
    \/ RemoveOldIndex(t)
    \/ AddNewIndex(t)
    \/ Flush(t)

\* A sled call returns Err: `?` leaves save at once and undoes nothing.
IoError(t) ==
    /\ ~Idle(t)
    /\ faults < MaxFaults
    /\ faults' = faults + 1
    /\ call' = [call EXCEPT ![t] = IdleCall]
    /\ UNCHANGED <<treeVars, acked>>

\* sled's log reaches the disk, one write at a time, in order.
Persist ==
    /\ wal # <<>>
    /\ diskStates' = StatesAfter(diskStates, Head(wal))
    /\ diskIndex' = IndexAfter(diskIndex, Head(wal))
    /\ wal' = Tail(wal)
    /\ UNCHANGED <<states, index, call, acked, faults>>

\* The process dies and reopens the database: the tail of the log and every
\* call in progress are gone.
Crash ==
    /\ faults < MaxFaults
    /\ faults' = faults + 1
    /\ states' = diskStates
    /\ index' = diskIndex
    /\ wal' = <<>>
    /\ call' = [t \in Callers |-> IdleCall]
    /\ UNCHANGED <<diskStates, diskIndex, acked>>

=============================================================================
