----------------------- MODULE DlcStateMachine_proofs -----------------------
(***************************************************************************)
(* Proofs about DlcStateMachine, for any contracts, callers, counterparties*)
(* and any assignment of callers to contracts.                             *)
(*                                                                         *)
(* A contract record can be in four places: the trees, the log, the disk   *)
(* and the call that is about to write it.  The inductive invariant asks   *)
(* of every one of them what Provenance asks of the trees.                 *)
(*                                                                         *)
(* Types and provenance first, then durability, then, for contracts with   *)
(* one driver each, the refinement of DlcLifecycle and the index.          *)
(***************************************************************************)
EXTENDS DlcStateMachine, TLAPS

\* Records well typed and well formed in the trees and in the log between
\* them; only named states have index entries.
TreesInv ==
    /\ states \in [Contracts -> DlcState]
    /\ diskStates \in [Contracts -> DlcState]
    /\ index \subseteq StateName \X Contracts
    /\ diskIndex \subseteq StateName \X Contracts
    /\ wal \in Seq(Write)
    /\ Provenance
    /\ \A i \in 1..Len(wal) : /\ WellFormed(wal[i].rec)
                              /\ wal[i].kind = "index" => wal[i].rec.status # "None"

\* Records well typed and well formed in the hands of the callers.
CallsInv ==
    /\ call \in [Callers -> Call]
    /\ \A t \in Callers : WellFormed(call[t].old) /\ WellFormed(call[t].new)

HistoryInv ==
    /\ acked \in [Contracts -> Nat]
    /\ faults \in Nat
    /\ listing \in Listing

IInv == TreesInv /\ CallsInv /\ HistoryInv

-----------------------------------------------------------------------------
\* A contract that is not in the tree is a well-formed record.
LEMMA AbsentOK == ASSUME NEW n \in Nat
                  PROVE  Absent(n) \in DlcState /\ WellFormed(Absent(n))
BY DEF Absent, DlcState, WellFormed, Party

\* So are the snapshots of a caller that calls nothing.
LEMMA IdleCallOK == IdleCall \in Call /\ WellFormed(IdleCall.old) /\ WellFormed(IdleCall.new)
<1>1. (CHOOSE c \in Contracts : TRUE) \in Contracts
  BY ContractsAssumption
<1> QED
  BY <1>1, AbsentOK DEF IdleCall, Call

\* A write of a well-formed record, applied to a tree, keeps it well formed.
LEMMA StatesAfterOK ==
    ASSUME NEW tree \in [Contracts -> DlcState], NEW w \in Write,
           \A c \in Contracts : WellFormed(tree[c]), WellFormed(w.rec)
    PROVE  /\ StatesAfter(tree, w) \in [Contracts -> DlcState]
           /\ \A c \in Contracts : WellFormed(StatesAfter(tree, w)[c])
BY DEF StatesAfter, Write

\* A write applied to the index keeps it a set of (state, contract) pairs.
LEMMA IndexAfterOK ==
    ASSUME NEW tree \in SUBSET (StateName \X Contracts), NEW w \in Write,
           w.kind = "index" => w.rec.status # "None"
    PROVE  IndexAfter(tree, w) \subseteq StateName \X Contracts
BY DEF IndexAfter, Write, DlcState

\* The step of sled that a save makes three times.
LEMMA ApplyOK ==
    ASSUME TreesInv, NEW w \in Write, WellFormed(w.rec),
           w.kind = "index" => w.rec.status # "None", Apply(w)
    PROVE  TreesInv'
<1> USE DEF TreesInv, Apply, Provenance
<1>1. states' \in [Contracts -> DlcState] /\ \A c \in Contracts : WellFormed(states'[c])
  BY StatesAfterOK
<1>2. index' \subseteq StateName \X Contracts
  BY IndexAfterOK
<1>3. wal' \in Seq(Write) /\ Len(wal') = Len(wal) + 1
  OBVIOUS
<1>4. \A i \in 1..Len(wal') : wal'[i] = IF i = Len(wal) + 1 THEN w ELSE wal[i]
  OBVIOUS
<1>5. \A i \in 1..Len(wal') : /\ WellFormed(wal'[i].rec)
                              /\ wal'[i].kind = "index" => wal'[i].rec.status # "None"
  BY <1>3, <1>4
<1> QED
  BY <1>1, <1>2, <1>3, <1>5 DEF WellFormed

\* Every handler ends here: it is enough that the new state is well formed.
LEMMA StartSaveOK ==
    ASSUME IInv, NEW t \in Callers, NEW c \in Contracts,
           NEW rec \in DlcState, WellFormed(rec), StartSave(t, c, rec), UNCHANGED listing
    PROVE  IInv'
<1>1. TreesInv' /\ HistoryInv'
  BY DEF IInv, TreesInv, HistoryInv, StartSave, treeVars, Provenance, WellFormed
<1>2. /\ [rec EXCEPT !.ver = 0] \in DlcState
      /\ WellFormed([rec EXCEPT !.ver = 0])
  BY DEF DlcState, WellFormed
<1>3. call' \in [Callers -> Call]
  BY <1>2, AbsentOK DEF IInv, CallsInv, StartSave, Call
<1>4. \A u \in Callers : WellFormed(call'[u].old) /\ WellFormed(call'[u].new)
  BY <1>2, AbsentOK DEF IInv, CallsInv, StartSave
<1> QED
  BY <1>1, <1>3, <1>4 DEF IInv, CallsInv, WellFormed

-----------------------------------------------------------------------------
\* The new database satisfies the invariant.
LEMMA InitOK == Init => IInv
BY AbsentOK, IdleCallOK
   DEF Init, StorageInit, IInv, TreesInv, CallsInv, HistoryInv, Provenance,
       NoListing, Listing

\* Each handler builds a well-formed state from a well-formed snapshot.
LEMMA HandlersOK ==
    ASSUME IInv, NEW t \in Callers, StartCall(t)
    PROVE  IInv'
<1> PICK c \in Contracts :
        \/ CreateOffer(t, c)
        \/ \E a \in Accepters : AcceptOffer(t, c, a)
        \/ \E s \in ContractSign : SignContract(t, c, s)
        \/ ConfirmFunding(t, c)
        \/ Settle(t, c)
        \/ Refund(t, c)
        \/ Fail(t, c)
        \/ Delete(t, c)
  BY DEF StartCall
<1> DEFINE cur == states[c]
<1>0. cur \in DlcState /\ WellFormed(cur) /\ Absent(0) \in DlcState /\ WellFormed(Absent(0))
  BY AbsentOK DEF IInv, TreesInv, Provenance
<1>1. CASE CreateOffer(t, c)
  <2> DEFINE rec == [Absent(0) EXCEPT !.status = "Offered"]
  <2>1. rec \in DlcState /\ WellFormed(rec)
    BY <1>0 DEF Absent, DlcState, StateName, WellFormed
  <2> QED
    BY <1>1, <2>1, StartSaveOK DEF CreateOffer, Handler
<1>2. CASE \E a \in Accepters : AcceptOffer(t, c, a)
  <2> PICK a \in Accepters : AcceptOffer(t, c, a)
    BY <1>2
  <2> DEFINE rec == [cur EXCEPT !.status = "Accepted", !.accepter = a]
  <2>1. rec \in DlcState /\ WellFormed(rec)
    BY <1>0 DEF AcceptOffer, DlcState, StateName, Party, WellFormed
  <2> QED
    BY <2>1, StartSaveOK DEF AcceptOffer, Handler
<1>3. CASE \E s \in ContractSign : SignContract(t, c, s)
  <2> PICK s \in ContractSign : SignContract(t, c, s)
    BY <1>3
  <2> DEFINE rec == [cur EXCEPT !.status = "Signed", !.signer = s.signedBy]
  <2>1. rec \in DlcState /\ WellFormed(rec)
    BY <1>0 DEF SignContract, Verify, ContractSign, DlcState, StateName, WellFormed
  <2> QED
    BY <2>1, StartSaveOK DEF SignContract, Handler
<1>4. CASE ConfirmFunding(t, c)
  <2> DEFINE rec == [cur EXCEPT !.status = "Confirmed", !.funded = TRUE]
  <2>1. rec \in DlcState /\ WellFormed(rec)
    BY <1>0, <1>4 DEF ConfirmFunding, DlcState, StateName, WellFormed
  <2> QED
    BY <1>4, <2>1, StartSaveOK DEF ConfirmFunding, Handler
<1>5. CASE Settle(t, c)
  <2> DEFINE rec == [cur EXCEPT !.status = "Settled"]
  <2>1. rec \in DlcState /\ WellFormed(rec)
    BY <1>0, <1>5 DEF Settle, DlcState, StateName, WellFormed
  <2> QED
    BY <1>5, <2>1, StartSaveOK DEF Settle, Handler
<1>6. CASE Refund(t, c)
  <2> DEFINE rec == [cur EXCEPT !.status = "Refunded"]
  <2>1. rec \in DlcState /\ WellFormed(rec)
    BY <1>0, <1>6 DEF Refund, DlcState, StateName, WellFormed
  <2> QED
    BY <1>6, <2>1, StartSaveOK DEF Refund, Handler
<1>7. CASE Fail(t, c)
  <2> DEFINE rec == [Absent(0) EXCEPT !.status = "Failed"]
  <2>1. rec \in DlcState /\ WellFormed(rec)
    BY <1>0 DEF Absent, DlcState, StateName, WellFormed
  <2> QED
    BY <1>7, <2>1, StartSaveOK DEF Fail, Handler
<1>8. CASE Delete(t, c)
  BY <1>0, <1>8, StartSaveOK DEF Delete, Handler
<1> QED
  BY <1>1, <1>2, <1>3, <1>4, <1>5, <1>6, <1>7, <1>8

\* What remains to show of a step of save() whose writes keep TreesInv.
LEMMA CallStepOK ==
    ASSUME IInv, TreesInv', HistoryInv', NEW t \in Callers, NEW r \in Call,
           WellFormed(r.old), WellFormed(r.new), call' = [call EXCEPT ![t] = r]
    PROVE  IInv'
<1>1. call' \in [Callers -> Call]
  BY DEF IInv, CallsInv
<1>2. \A u \in Callers : WellFormed(call'[u].old) /\ WellFormed(call'[u].new)
  BY DEF IInv, CallsInv
<1> QED
  BY <1>1, <1>2 DEF IInv, CallsInv, WellFormed

\* One step of save() preserves the invariant, whatever the others are doing.
LEMMA SaveStepOK ==
    ASSUME IInv, NEW t \in Callers, SaveStep(t), UNCHANGED listing
    PROVE  IInv'
<1> DEFINE me == call[t]
<1>0. /\ me \in Call /\ call = [call EXCEPT ![t] = me]
      /\ me.contract \in Contracts /\ me.old \in DlcState /\ me.new \in DlcState
      /\ WellFormed(me.old) /\ WellFormed(me.new)
      /\ states[me.contract] \in DlcState /\ WellFormed(states[me.contract])
  BY DEF IInv, CallsInv, TreesInv, Provenance, Call
<1>a. ASSUME UNCHANGED treeVars
      PROVE  TreesInv'
  BY <1>a DEF IInv, TreesInv, Provenance, treeVars, WellFormed
<1>b. ASSUME UNCHANGED <<acked, faults>>
      PROVE  HistoryInv'
  BY <1>b DEF IInv, HistoryInv
<1>c. ASSUME NEW w, Apply(w)
      PROVE  HistoryInv'
  BY <1>c DEF IInv, HistoryInv, Apply
<1>1. CASE ReadOld(t)
  <2> DEFINE r == [me EXCEPT !.pc = "insert", !.old = states[me.contract]]
  <2>1. r \in Call /\ WellFormed(r.old) /\ WellFormed(r.new)
    BY <1>0 DEF Call
  <2>2. call' = [call EXCEPT ![t] = r]
    BY <1>1, <1>0 DEF ReadOld, IInv, CallsInv
  <2> QED
    BY <1>1, <1>a, <1>b, <2>1, <2>2, CallStepOK DEF ReadOld
<1>2. CASE InsertState(t)
  <2> DEFINE rec == [me.new EXCEPT !.ver = states[me.contract].ver + 1]
             w == [kind |-> "put", contract |-> me.contract, rec |-> rec]
             r == [me EXCEPT !.pc = "unindex", !.new = rec]
  <2>1. rec \in DlcState /\ WellFormed(rec)
    BY <1>0 DEF DlcState, WellFormed
  <2>2. w \in Write /\ Apply(w) /\ WellFormed(w.rec) /\ w.kind # "index"
    BY <1>0, <1>2, <2>1 DEF Write, InsertState
  <2>3. TreesInv'
    BY <2>2, ApplyOK DEF IInv
  <2>4. r \in Call /\ WellFormed(r.old) /\ WellFormed(r.new)
    BY <1>0, <2>1 DEF Call
  <2>5. call' = [call EXCEPT ![t] = r]
    BY <1>2, <1>0 DEF InsertState, IInv, CallsInv
  <2> QED
    BY <1>c, <2>2, <2>3, <2>4, <2>5, CallStepOK
<1>3. CASE RemoveOldIndex(t)
  <2> DEFINE w == [kind |-> "unindex", contract |-> me.contract, rec |-> me.old]
             r == [me EXCEPT !.pc = "reindex", !.old = Absent(0)]
  <2>1. w \in Write /\ WellFormed(w.rec) /\ w.kind # "index"
    BY <1>0 DEF Write
  <2>2. TreesInv' /\ HistoryInv'
    BY <1>3, <1>a, <1>b, <1>c, <2>1, ApplyOK DEF RemoveOldIndex, IInv
  <2>3. r \in Call /\ WellFormed(r.old) /\ WellFormed(r.new)
    BY <1>0, AbsentOK DEF Call
  <2>4. call' = [call EXCEPT ![t] = r]
    BY <1>3, <1>0 DEF RemoveOldIndex, IInv, CallsInv
  <2> QED
    BY <2>2, <2>3, <2>4, CallStepOK
<1>4. CASE AddNewIndex(t)
  <2> DEFINE w == [kind |-> "index", contract |-> me.contract, rec |-> me.new]
             r == [me EXCEPT !.pc = "flush"]
  <2>1. w \in Write /\ WellFormed(w.rec)
    BY <1>0 DEF Write
  <2>2. TreesInv' /\ HistoryInv'
    BY <1>4, <1>a, <1>b, <1>c, <2>1, ApplyOK DEF AddNewIndex, IInv
  <2>3. r \in Call /\ WellFormed(r.old) /\ WellFormed(r.new)
    BY <1>0 DEF Call
  <2>4. call' = [call EXCEPT ![t] = r]
    BY <1>4, <1>0 DEF AddNewIndex, IInv, CallsInv
  <2> QED
    BY <2>2, <2>3, <2>4, CallStepOK
<1>5. CASE Flush(t)
  <2>1. me.new.ver \in Nat
    BY <1>0 DEF DlcState
  <2>2. HistoryInv'
    BY <1>5, <2>1 DEF Flush, IInv, HistoryInv
  <2> QED
    BY <1>5, <1>a, <2>2, IdleCallOK, CallStepOK DEF Flush
<1> QED
  BY <1>1, <1>2, <1>3, <1>4, <1>5 DEF SaveStep

\* Persist: the disk receives a write that was well formed when it was logged.
LEMMA PersistOK ==
    ASSUME IInv, Persist, UNCHANGED listing
    PROVE  IInv'
<1> DEFINE w == Head(wal)
<1>1. /\ w \in Write /\ WellFormed(w.rec)
      /\ w.kind = "index" => w.rec.status # "None"
  BY DEF Persist, IInv, TreesInv
<1>2. diskStates' \in [Contracts -> DlcState] /\ \A c \in Contracts : WellFormed(diskStates'[c])
  BY <1>1, StatesAfterOK DEF Persist, IInv, TreesInv, Provenance
<1>3. diskIndex' \subseteq StateName \X Contracts
  BY <1>1, IndexAfterOK DEF Persist, IInv, TreesInv
<1>4. /\ wal' \in Seq(Write)
      /\ \A i \in 1..Len(wal') : /\ WellFormed(wal'[i].rec)
                                 /\ wal'[i].kind = "index" => wal'[i].rec.status # "None"
  BY DEF Persist, IInv, TreesInv
<1>5. TreesInv'
  BY <1>2, <1>3, <1>4 DEF Persist, IInv, TreesInv, Provenance, WellFormed
<1> QED
  BY <1>5 DEF Persist, IInv, CallsInv, HistoryInv, WellFormed

\* A crash or a failed flush preserves the invariant.
LEMMA FaultsOK ==
    ASSUME IInv, \/ Crash /\ listing' = NoListing
                 \/ \E t \in Callers : IoError(t) /\ UNCHANGED listing
    PROVE  IInv'
<1>1. HistoryInv'
  BY DEF IInv, HistoryInv, Crash, IoError, NoListing, Listing
<1>2. CASE Crash
  <2>1. TreesInv'
    BY <1>2 DEF Crash, IInv, TreesInv, Provenance, WellFormed
  <2>2. CallsInv'
    BY <1>2, IdleCallOK DEF Crash, CallsInv, WellFormed
  <2> QED
    BY <1>1, <2>1, <2>2 DEF IInv
<1>3. CASE \E t \in Callers : IoError(t) /\ UNCHANGED listing
  <2> PICK t \in Callers : IoError(t)
    BY <1>3
  <2>1. TreesInv'
    BY DEF IoError, IInv, TreesInv, Provenance, treeVars, WellFormed
  <2> QED
    BY <1>1, <2>1, IdleCallOK, CallStepOK DEF IoError
<1> QED
  BY <1>2, <1>3

\* Reading the index, one state at a time, changes nothing but the listing.
LEMMA ListingOK ==
    ASSUME IInv, ListSigned \/ ListConfirmed \/ ListDone
    PROVE  IInv'
<1>a. /\ ActiveContracts \in SUBSET Contracts
      /\ \A name : ListByState(name) \in SUBSET Contracts
  BY DEF ActiveContracts, ListByState
<1>b. listing \in Listing
  BY DEF IInv, HistoryInv
<1>1. listing' \in Listing
  <2>1. CASE ListSigned
    BY <2>1, <1>a DEF ListSigned, Listing
  <2>2. CASE ListConfirmed
    BY <2>2, <1>a, <1>b DEF ListConfirmed, Listing
  <2>3. CASE ListDone
    BY <2>3 DEF ListDone, Listing, NoListing
  <2> QED
    BY <2>1, <2>2, <2>3
<1>2. UNCHANGED storageVars
  BY DEF ListSigned, ListConfirmed, ListDone
<1> QED
  BY <1>1, <1>2 DEF IInv, TreesInv, CallsInv, HistoryInv, Provenance, storageVars, WellFormed

\* Every step of the specification preserves the invariant.
LEMMA StepOK == IInv /\ [Next]_vars => IInv'
<1> SUFFICES ASSUME IInv, [Next]_vars
             PROVE  IInv'
  OBVIOUS
<1>1. CASE UNCHANGED vars
  BY <1>1 DEF vars, storageVars, IInv, TreesInv, CallsInv, HistoryInv, Provenance, WellFormed
<1>2. CASE Next
  BY <1>2, HandlersOK, SaveStepOK, FaultsOK, PersistOK, ListingOK DEF Next
<1> QED
  BY <1>1, <1>2

\* The inductive invariant, of which the theorems below are consequences.
THEOREM Invariance == Spec => []IInv
BY InitOK, StepOK, PTL DEF Spec

\* Every variable keeps its type, whatever the callers do.
THEOREM TypeCorrect == Spec => []TypeOK
<1>1. IInv => TypeOK
  BY DEF IInv, TreesInv, CallsInv, HistoryInv, TypeOK, StorageTypeOK
<1> QED
  BY <1>1, Invariance, PTL

\* No interleaving of any number of callers, no I/O error and no crash puts
\* on record a settled contract that was not funded, or a signed one whose
\* verified signature is not that of the counterparty it is bound to.
THEOREM ProvenanceHolds == Spec => []Provenance
<1>1. IInv => Provenance
  BY DEF IInv, TreesInv
<1> QED
  BY <1>1, Invariance, PTL

-----------------------------------------------------------------------------
(* Durability: a save that returned Ok survives every crash, for any       *)
(* number of callers that save the same or different contracts at once.    *)
(*                                                                         *)
(* Only the versions matter.  In the log the writes of a contract have     *)
(* increasing versions, above the one on disk, and the last of them is the *)
(* one visible in dlc_states; so when flush() finds the log drained, the   *)
(* disk has caught up with everything the caller wrote.                    *)

\* The positions of the writes of contract c to dlc_states.
Puts(log, c) == {i \in 1..Len(log) : log[i].kind = "put" /\ log[i].contract = c}

\* The log of contract c leads from version bottom, on disk, to version top.
Climbs(log, c, bottom, top) ==
    /\ bottom <= top
    /\ \A i \in Puts(log, c) : bottom < log[i].rec.ver /\ log[i].rec.ver <= top
    /\ \A i, j \in Puts(log, c) : i < j => log[i].rec.ver < log[j].rec.ver
    /\ bottom = top \/ \E i \in Puts(log, c) : log[i].rec.ver = top

LogInv == \A c \in Contracts : Climbs(wal, c, diskStates[c].ver, states[c].ver)

\* A caller past InsertState wrote a version that dlc_states has reached.
WrittenInv ==
    \A t \in Callers :
        call[t].pc \in {"unindex", "reindex", "flush"}
        => call[t].new.ver <= states[call[t].contract].ver

DInv == LogInv /\ WrittenInv /\ AckedDurable

-----------------------------------------------------------------------------
\* Appending a write keeps the earlier ones at their places.
LEMMA AppendFacts ==
    ASSUME NEW log \in Seq(Write), NEW w \in Write
    PROVE  /\ Len(log) \in Nat
           /\ Len(Append(log, w)) = Len(log) + 1
           /\ \A i \in 1..Len(log) : Append(log, w)[i] = log[i] /\ log[i].rec.ver \in Nat
           /\ Append(log, w)[Len(log) + 1] = w
<1>1. \A i \in 1..Len(log) : log[i] \in Write
  OBVIOUS
<1>2. \A i \in 1..Len(log) : log[i].rec.ver \in Nat
  BY <1>1 DEF Write, DlcState
<1> QED
  BY <1>2

\* A put of the next version at the end of the log extends its climb by one.
LEMMA ClimbsByPut ==
    ASSUME NEW log \in Seq(Write), NEW w \in Write, NEW bottom \in Nat, NEW top \in Nat,
           w.kind = "put", w.rec.ver = top + 1, Climbs(log, w.contract, bottom, top)
    PROVE  Climbs(Append(log, w), w.contract, bottom, top + 1)
<1>1. Puts(Append(log, w), w.contract) = Puts(log, w.contract) \cup {Len(log) + 1}
  BY AppendFacts DEF Puts
<1>2. \A i \in Puts(log, w.contract) : i \in 1..Len(log)
  BY DEF Puts
<1> QED
  BY <1>1, <1>2, AppendFacts DEF Climbs

\* A write that is no put of contract c leaves the climb of c as it is.
LEMMA ClimbsByOther ==
    ASSUME NEW log \in Seq(Write), NEW w \in Write, NEW bottom \in Nat, NEW top \in Nat,
           NEW c, w.kind # "put" \/ w.contract # c, Climbs(log, c, bottom, top)
    PROVE  Climbs(Append(log, w), c, bottom, top)
<1>1. Puts(Append(log, w), c) = Puts(log, c)
  BY AppendFacts DEF Puts
<1>2. \A i \in Puts(log, c) : i \in 1..Len(log)
  BY DEF Puts
<1> QED
  BY <1>1, <1>2, AppendFacts DEF Climbs

\* Taking the oldest write off the log starts the climb at that write's version.
LEMMA ClimbsByTail ==
    ASSUME NEW log \in Seq(Write), log # <<>>, NEW bottom \in Nat, NEW top \in Nat,
           NEW c, Climbs(log, c, bottom, top)
    PROVE  Climbs(Tail(log), c, IF 1 \in Puts(log, c) THEN log[1].rec.ver ELSE bottom, top)
<1>a. /\ Len(log) \in Nat \ {0} /\ Len(Tail(log)) = Len(log) - 1
      /\ \A i \in 1..Len(Tail(log)) : Tail(log)[i] = log[i + 1]
      /\ \A i \in 1..Len(log) : log[i] \in Write
  OBVIOUS
<1>b. \A i \in 1..Len(log) : log[i].rec.ver \in Nat
  BY <1>a DEF Write, DlcState
<1>1. /\ Len(log) \in Nat \ {0} /\ Len(Tail(log)) = Len(log) - 1
      /\ \A i \in 1..Len(Tail(log)) : Tail(log)[i] = log[i + 1]
      /\ \A i \in 1..Len(log) : log[i].rec.ver \in Nat
  BY <1>a, <1>b
<1>2. \A i \in Puts(Tail(log), c) : i \in Nat /\ i + 1 \in Puts(log, c) /\ Tail(log)[i] = log[i + 1]
  BY <1>1 DEF Puts
<1>3. \A i \in Puts(log, c) : i \in 1..Len(log) /\ (i # 1 => i - 1 \in Puts(Tail(log), c))
  BY <1>1 DEF Puts
<1> DEFINE base == IF 1 \in Puts(log, c) THEN log[1].rec.ver ELSE bottom
<1>4. base <= top
  BY DEF Climbs
<1>5. \A i \in Puts(Tail(log), c) : base < Tail(log)[i].rec.ver /\ Tail(log)[i].rec.ver <= top
  <2> TAKE i \in Puts(Tail(log), c)
  <2>1. /\ i \in Nat \ {0} /\ i + 1 \in Puts(log, c) /\ Tail(log)[i] = log[i + 1]
    BY <1>2 DEF Puts
  <2>2. 1 \in Puts(log, c) => log[1].rec.ver < log[i + 1].rec.ver
    BY <2>1 DEF Climbs
  <2>3. bottom < log[i + 1].rec.ver /\ log[i + 1].rec.ver <= top
    BY <2>1 DEF Climbs
  <2> QED
    BY <2>1, <2>2, <2>3
<1>6. \A i, j \in Puts(Tail(log), c) : i < j => Tail(log)[i].rec.ver < Tail(log)[j].rec.ver
  <2> TAKE i, j \in Puts(Tail(log), c)
  <2>1. /\ i \in Nat /\ i + 1 \in Puts(log, c) /\ Tail(log)[i] = log[i + 1]
        /\ j \in Nat /\ j + 1 \in Puts(log, c) /\ Tail(log)[j] = log[j + 1]
    BY <1>2
  <2>2. i < j => i + 1 < j + 1
    BY <2>1
  <2> QED
    BY <2>1, <2>2 DEF Climbs
<1>7. base = top \/ \E i \in Puts(Tail(log), c) : Tail(log)[i].rec.ver = top
  <2>1. CASE bottom = top
    BY <2>1, <1>1, <1>3 DEF Climbs
  <2>2. CASE \E i \in Puts(log, c) : log[i].rec.ver = top
    <3> PICK i \in Puts(log, c) : log[i].rec.ver = top
      BY <2>2
    <3>1. CASE i # 1
      BY <3>1, <1>1, <1>2, <1>3
    <3> QED
      BY <3>1
  <2> QED
    BY <2>1, <2>2 DEF Climbs
<1> QED
  BY <1>4, <1>5, <1>6, <1>7 DEF Climbs

-----------------------------------------------------------------------------
\* An empty log puts nothing.
LEMMA NoPuts == \A c : Puts(<<>>, c) = {}
BY DEF Puts

\* The new database satisfies the invariant.
LEMMA DInitOK == Init => DInv
<1> SUFFICES ASSUME Init
             PROVE  DInv
  OBVIOUS
<1>0. /\ \A c \in Contracts : states[c].ver = 0 /\ diskStates[c].ver = 0 /\ acked[c] = 0
      /\ wal = <<>>
  BY DEF Init, StorageInit, Absent
<1>1. LogInv
  <2> SUFFICES ASSUME NEW c \in Contracts
               PROVE  Climbs(wal, c, diskStates[c].ver, states[c].ver)
    BY DEF LogInv
  <2>1. Climbs(<<>>, c, 0, 0)
    BY NoPuts DEF Climbs
  <2> QED
    BY <1>0, <2>1
<1>2. WrittenInv
  BY DEF WrittenInv, IdleCall, Init, StorageInit
<1>3. AckedDurable
  <2> SUFFICES ASSUME NEW c \in Contracts
               PROVE  acked[c] <= diskStates[c].ver
    BY DEF AckedDurable
  <2>1. diskStates[c].ver = 0 /\ acked[c] = 0
    BY <1>0
  <2> QED
    BY <2>1
<1> QED
  BY <1>1, <1>2, <1>3 DEF DInv

\* Applying one write moves no version but that of a "put", by one.
LEMMA ApplyClimbs ==
    ASSUME IInv, LogInv, NEW w \in Write, Apply(w),
           w.kind = "put" => w.rec.ver = states[w.contract].ver + 1
    PROVE  /\ LogInv'
           /\ w.kind # "put" => UNCHANGED states
           /\ \A c \in Contracts : states[c].ver <= states'[c].ver
<1>1. /\ wal \in Seq(Write) /\ wal' = Append(wal, w) /\ UNCHANGED diskStates
      /\ w.contract \in Contracts /\ states \in [Contracts -> DlcState]
      /\ states' = StatesAfter(states, w)
      /\ \A c \in Contracts : states[c].ver \in Nat /\ diskStates[c].ver \in Nat
  BY DEF Apply, IInv, TreesInv, Write, DlcState
<1>2. CASE w.kind = "put"
  <2>1. states' = [states EXCEPT ![w.contract] = w.rec]
    BY <1>1, <1>2 DEF StatesAfter
  <2>2. \A c \in Contracts : states'[c].ver = states[c].ver + (IF c = w.contract THEN 1 ELSE 0)
    BY <1>1, <1>2, <2>1
  <2>3. ASSUME NEW c \in Contracts
        PROVE  Climbs(wal', c, diskStates'[c].ver, states'[c].ver)
    <3>1. Climbs(wal, c, diskStates[c].ver, states[c].ver)
      BY DEF LogInv
    <3>2. CASE c = w.contract
      BY <1>1, <1>2, <2>2, <3>1, <3>2, ClimbsByPut
    <3>3. CASE c # w.contract
      BY <1>1, <2>2, <3>1, <3>3, ClimbsByOther
    <3> QED
      BY <3>2, <3>3
  <2> QED
    BY <1>1, <1>2, <2>2, <2>3 DEF LogInv
<1>3. CASE w.kind # "put"
  <2>1. states' = states
    BY <1>1, <1>3 DEF StatesAfter
  <2>2. \A c \in Contracts : Climbs(wal', c, diskStates'[c].ver, states'[c].ver)
    BY <1>1, <1>3, <2>1, ClimbsByOther DEF LogInv
  <2> QED
    BY <1>1, <1>3, <2>1, <2>2 DEF LogInv
<1> QED
  BY <1>2, <1>3

\* With the log drained, the disk holds every visible version.
LEMMA DrainedLog ==
    ASSUME LogInv, wal = <<>>
    PROVE  \A c \in Contracts : diskStates[c].ver = states[c].ver
BY NoPuts DEF LogInv, Climbs

\* Persist: the oldest write of the log reaches the disk.
LEMMA PersistClimbs ==
    ASSUME IInv, DInv, Persist
    PROVE  DInv'
<1> DEFINE w == Head(wal)
<1>1. /\ wal \in Seq(Write) /\ wal # <<>> /\ wal' = Tail(wal) /\ w = wal[1]
      /\ w \in Write /\ 1 \in 1..Len(wal)
      /\ UNCHANGED <<states, call, acked>> /\ diskStates' = StatesAfter(diskStates, w)
      /\ diskStates \in [Contracts -> DlcState]
  BY DEF Persist, IInv, TreesInv
<1>2. \A c \in Contracts : /\ states[c].ver \in Nat /\ diskStates[c].ver \in Nat
                           /\ acked[c] \in Nat
  BY DEF IInv, TreesInv, HistoryInv, DlcState
<1>3. \A c \in Contracts :
          diskStates'[c].ver = IF 1 \in Puts(wal, c) THEN wal[1].rec.ver ELSE diskStates[c].ver
  BY <1>1 DEF StatesAfter, Puts, Write
<1>4. LogInv'
  <2> SUFFICES ASSUME NEW c \in Contracts
               PROVE  Climbs(wal', c, diskStates'[c].ver, states'[c].ver)
    BY DEF LogInv
  <2>1. Climbs(wal, c, diskStates[c].ver, states[c].ver)
    BY DEF DInv, LogInv
  <2>2. Climbs(Tail(wal), c, IF 1 \in Puts(wal, c) THEN wal[1].rec.ver ELSE diskStates[c].ver,
               states[c].ver)
    BY <1>1, <1>2, <2>1, ClimbsByTail
  <2> QED
    BY <1>1, <1>3, <2>2
<1>5. AckedDurable'
  <2> SUFFICES ASSUME NEW c \in Contracts
               PROVE  acked[c] <= diskStates'[c].ver
    BY <1>1 DEF AckedDurable
  <2>1. Climbs(wal, c, diskStates[c].ver, states[c].ver) /\ acked[c] <= diskStates[c].ver
    BY DEF DInv, LogInv, AckedDurable
  <2>2. 1 \in Puts(wal, c) => diskStates[c].ver < wal[1].rec.ver /\ wal[1].rec.ver \in Nat
    BY <1>1, <2>1 DEF Climbs, Write, DlcState
  <2> QED
    BY <1>2, <1>3, <2>1, <2>2
<1>6. WrittenInv'
  BY <1>1 DEF DInv, WrittenInv
<1> QED
  BY <1>4, <1>5, <1>6 DEF DInv

\* Crash: the visible state falls back to the disk's, and nobody is saving.
LEMMA CrashClimbs ==
    ASSUME IInv, DInv, Crash
    PROVE  DInv'
<1>1. /\ wal' = <<>> /\ states' = diskStates /\ UNCHANGED <<diskStates, acked>>
      /\ call' = [t \in Callers |-> IdleCall]
      /\ \A c \in Contracts : diskStates[c].ver \in Nat
  BY DEF Crash, IInv, TreesInv, DlcState
<1>2. LogInv'
  BY <1>1, NoPuts DEF LogInv, Climbs
<1>3. WrittenInv' /\ AckedDurable'
  BY <1>1 DEF DInv, WrittenInv, AckedDurable, IdleCall
<1> QED
  BY <1>2, <1>3 DEF DInv

\* One step of save(): a read, one of its three writes, or its flush.
LEMMA SaveStepClimbs ==
    ASSUME IInv, DInv, NEW t \in Callers, SaveStep(t)
    PROVE  DInv'
<1> DEFINE me == call[t]
<1>0. /\ me \in Call /\ me.contract \in Contracts /\ me.old \in DlcState /\ me.new \in DlcState
      /\ call \in [Callers -> Call]
      /\ \A c \in Contracts : states[c].ver \in Nat /\ acked[c] \in Nat
      /\ \A u \in Callers : call[u].new.ver \in Nat /\ call[u].contract \in Contracts
  BY DEF IInv, TreesInv, CallsInv, HistoryInv, Call, DlcState
\* The other callers' written versions stay below versions that only grow.
<1>a. ASSUME \A c \in Contracts : states'[c].ver \in Nat /\ states[c].ver <= states'[c].ver,
             NEW r, call' = [call EXCEPT ![t] = r],
             r.pc \in {"unindex", "reindex", "flush"} => r.new.ver <= states'[r.contract].ver
      PROVE  WrittenInv'
  BY <1>0, <1>a DEF DInv, WrittenInv
<1>1. CASE ReadOld(t)
  <2>1. UNCHANGED <<states, wal, diskStates, acked>>
    BY <1>1 DEF ReadOld, treeVars
  <2>2. WrittenInv'
    BY <1>0, <1>1, <2>1 DEF ReadOld, DInv, WrittenInv, Call
  <2> QED
    BY <2>1, <2>2 DEF DInv, LogInv, AckedDurable
<1>2. CASE InsertState(t)
  <2> DEFINE rec == [me.new EXCEPT !.ver = states[me.contract].ver + 1]
             w == [kind |-> "put", contract |-> me.contract, rec |-> rec]
             r == [me EXCEPT !.pc = "unindex", !.new = rec]
  <2>1. rec \in DlcState /\ rec.ver = states[me.contract].ver + 1
    BY <1>0 DEF DlcState
  <2>2. w \in Write /\ Apply(w) /\ UNCHANGED <<diskStates, acked>>
    BY <1>0, <1>2, <2>1 DEF Write, InsertState, Apply
  <2>3. LogInv' /\ \A c \in Contracts : states[c].ver <= states'[c].ver
    BY <2>1, <2>2, ApplyClimbs DEF DInv
  <2>4. states' = [states EXCEPT ![me.contract] = rec]
    BY <2>2 DEF Apply, StatesAfter
  <2>5. states'[me.contract] = rec /\ \A c \in Contracts : states'[c].ver \in Nat
    BY <1>0, <2>1, <2>4 DEF IInv, TreesInv
  <2>6. call' = [call EXCEPT ![t] = r]
    BY <1>2, <1>0 DEF InsertState
  <2>7. r.contract = me.contract /\ r.new = rec /\ rec.ver <= states'[me.contract].ver
    BY <1>0, <2>1, <2>5 DEF Call
  <2>8. WrittenInv'
    BY <1>a, <2>3, <2>5, <2>6, <2>7
  <2> QED
    BY <2>2, <2>3, <2>8 DEF DInv, AckedDurable
\* An index write, or none.
<1>b. ASSUME NEW w \in Write, w.kind # "put", Apply(w) \/ UNCHANGED <<treeVars, acked, faults>>
      PROVE  LogInv' /\ AckedDurable' /\ UNCHANGED states
  <2>1. CASE Apply(w)
    BY <1>b, <2>1, ApplyClimbs DEF DInv, Apply, AckedDurable
  <2>2. CASE UNCHANGED <<treeVars, acked, faults>>
    BY <2>2 DEF DInv, LogInv, AckedDurable, treeVars
  <2> QED
    BY <1>b, <2>1, <2>2
<1>3. CASE RemoveOldIndex(t)
  <2> DEFINE w == [kind |-> "unindex", contract |-> me.contract, rec |-> me.old]
  <2>1. w \in Write /\ w.kind # "put" /\ (Apply(w) \/ UNCHANGED <<treeVars, acked, faults>>)
    BY <1>0, <1>3 DEF RemoveOldIndex, Write
  <2>2. LogInv' /\ AckedDurable' /\ UNCHANGED states
    BY <1>b, <2>1
  <2>3. WrittenInv'
    BY <1>0, <1>3, <2>2 DEF RemoveOldIndex, DInv, WrittenInv, Call
  <2> QED
    BY <2>2, <2>3 DEF DInv
<1>4. CASE AddNewIndex(t)
  <2> DEFINE w == [kind |-> "index", contract |-> me.contract, rec |-> me.new]
  <2>1. w \in Write /\ w.kind # "put" /\ (Apply(w) \/ UNCHANGED <<treeVars, acked, faults>>)
    BY <1>0, <1>4 DEF AddNewIndex, Write
  <2>2. LogInv' /\ AckedDurable' /\ UNCHANGED states
    BY <1>b, <2>1
  <2>3. WrittenInv'
    BY <1>0, <1>4, <2>2 DEF AddNewIndex, DInv, WrittenInv, Call
  <2> QED
    BY <2>2, <2>3 DEF DInv
<1>5. CASE Flush(t)
  <2>1. UNCHANGED <<states, wal, diskStates>> /\ wal = <<>>
    BY <1>5 DEF Flush, treeVars
  <2>2. me.new.ver <= diskStates[me.contract].ver
    BY <1>0, <1>5, <2>1, DrainedLog DEF Flush, DInv, WrittenInv
  <2>3. AckedDurable'
    BY <1>0, <1>5, <2>1, <2>2 DEF Flush, DInv, AckedDurable
  <2>4. WrittenInv'
    BY <1>0, <1>5, <2>1 DEF Flush, DInv, WrittenInv, IdleCall
  <2>5. LogInv'
    BY <2>1 DEF DInv, LogInv
  <2> QED
    BY <2>3, <2>4, <2>5 DEF DInv
<1> QED
  BY <1>1, <1>2, <1>3, <1>4, <1>5 DEF SaveStep

\* A step that only starts or abandons a call.
LEMMA CallChangeClimbs ==
    ASSUME IInv, DInv, NEW t \in Callers, NEW r, r.pc = "idle" \/ r.pc = "readOld",
           call' = [call EXCEPT ![t] = r],
           UNCHANGED <<states, wal, diskStates, acked>>
    PROVE  DInv'
<1>2. WrittenInv'
  BY DEF IInv, CallsInv, DInv, WrittenInv
<1> QED
  BY <1>2 DEF DInv, LogInv, AckedDurable

\* A handler reads its snapshot and calls save(), or refuses.
LEMMA StartCallClimbs ==
    ASSUME IInv, DInv, NEW t \in Callers, StartCall(t)
    PROVE  DInv'
<1>1. ASSUME NEW c, NEW rec, StartSave(t, c, rec)
      PROVE  DInv'
  <2> DEFINE r == [pc |-> "readOld", contract |-> c, old |-> Absent(0),
                   new |-> [rec EXCEPT !.ver = 0]]
  <2>1. /\ call' = [call EXCEPT ![t] = r] /\ r.pc = "readOld"
        /\ UNCHANGED <<states, wal, diskStates, acked>>
    BY <1>1 DEF StartSave, treeVars
  <2> HIDE DEF r
  <2> QED
    BY <2>1, CallChangeClimbs
<1> QED
  BY <1>1 DEF StartCall, CreateOffer, AcceptOffer, SignContract, ConfirmFunding, Settle,
             Refund, Fail, Delete

\* Every step of the specification preserves the invariant.
LEMMA DStepOK == IInv /\ DInv /\ [Next]_vars => DInv'
<1> SUFFICES ASSUME IInv, DInv, [Next]_vars
             PROVE  DInv'
  OBVIOUS
<1>1. CASE UNCHANGED storageVars
  BY <1>1 DEF storageVars, DInv, LogInv, WrittenInv, AckedDurable
<1>2. CASE \E t \in Callers : StartCall(t)
  BY <1>2, StartCallClimbs
<1>3. CASE \E t \in Callers : SaveStep(t)
  BY <1>3, SaveStepClimbs
<1>4. CASE \E t \in Callers : IoError(t)
  <2> PICK t \in Callers : IoError(t)
    BY <1>4
  <2>1. /\ call' = [call EXCEPT ![t] = IdleCall]
        /\ UNCHANGED <<states, wal, diskStates, acked>>
    BY DEF IoError, treeVars
  <2>2. IdleCall.pc = "idle"
    BY DEF IdleCall
  <2> QED
    BY <2>1, <2>2, CallChangeClimbs
<1>5. CASE Persist
  BY <1>5, PersistClimbs
<1>6. CASE Crash
  BY <1>6, CrashClimbs
<1> QED
  BY <1>1, <1>2, <1>3, <1>4, <1>5, <1>6
     DEF Next, vars, ListSigned, ListConfirmed, ListDone

\* "This writes to disk synchronously before returning" (storage.rs): after
\* save has returned Ok no crash brings back an older state of the contract,
\* whoever else is saving at the time.
THEOREM Durability == Spec => []AckedDurable
<1>1. DInv => AckedDurable
  BY DEF DInv
<1> QED
  BY <1>1, DInitOK, DStepOK, Invariance, PTL DEF Spec

-----------------------------------------------------------------------------
(* Refinement: as long as one caller drives each contract and none is      *)
(* deleted, what is on disk follows DlcLifecycle.                          *)
(*                                                                         *)
(* The puts of a contract in the log lead, one promised move after the     *)
(* other, from what is on disk to what get() sees (Leads).  A caller about *)
(* to write holds a move from what get() sees (DrivenInv): it validated    *)
(* against that, and nobody else writes the contract.                      *)

SoleDrivers == \A c \in Contracts : \A t, u \in Drivers[c] : t = u

NoDelete == "delete" \notin Ops

\* The moves of DlcLifecycle, on records.
Moves(a, b) ==
    \/ a.status = "None" /\ b.status = "Offered" /\ b.accepter = a.accepter
    \/ a.status = "Offered" /\ b.status = "Accepted" /\ b.accepter \in Accepters
    \/ a.status = "Accepted" /\ b.status = "Signed" /\ b.accepter = a.accepter
    \/ a.status = "Signed" /\ b.status = "Confirmed" /\ b.accepter = a.accepter
    \/ a.status = "Confirmed" /\ b.status = "Settled" /\ b.accepter = a.accepter
    \/ a.status \in {"Signed", "Confirmed"} /\ b.status = "Refunded" /\ b.accepter = a.accepter
    \/ b.status = "Failed" /\ b.accepter = NoOne

\* The puts of c in the log lead from the record bottom to the record top.
Leads(log, c, bottom, top) ==
    /\ \A i \in Puts(log, c) :
          (\A j \in Puts(log, c) : i <= j) => Moves(bottom, log[i].rec)
    /\ \A i, j \in Puts(log, c) :
          i < j /\ (\A k \in Puts(log, c) : k <= i \/ j <= k) => Moves(log[i].rec, log[j].rec)
    /\ \A i \in Puts(log, c) : (\A j \in Puts(log, c) : j <= i) => log[i].rec = top
    /\ Puts(log, c) = {} => top = bottom

LogLeads == \A c \in Contracts : Leads(wal, c, diskStates[c], states[c])

DrivenInv ==
    \A t \in Callers :
        /\ call[t].pc # "idle" => t \in Drivers[call[t].contract]
        /\ call[t].pc \in {"readOld", "insert"} =>
              Moves(states[call[t].contract], call[t].new)

RInv == LogLeads /\ DrivenInv

-----------------------------------------------------------------------------
\* A put that is a move from the top extends the path by one.
LEMMA LeadsByPut ==
    ASSUME NEW log \in Seq(Write), NEW w \in Write, NEW bottom, NEW top,
           w.kind = "put", Moves(top, w.rec), Leads(log, w.contract, bottom, top)
    PROVE  Leads(Append(log, w), w.contract, bottom, w.rec)
<1> DEFINE n == Len(log) + 1
           new == Append(log, w)
           c == w.contract
<1>1. Puts(new, c) = Puts(log, c) \cup {n}
  BY AppendFacts DEF Puts
<1>2. /\ n \in Nat /\ new[n] = w
      /\ \A i \in Puts(log, c) : i \in Nat /\ i < n /\ new[i] = log[i]
  BY AppendFacts DEF Puts
<1> HIDE DEF n, new, c
<1>3. ASSUME NEW i \in Puts(new, c), \A j \in Puts(new, c) : i <= j
      PROVE  Moves(bottom, new[i].rec)
  <2>1. CASE i = n
    <3>1. ASSUME NEW j \in Puts(log, c) PROVE FALSE
      <4>1. n <= j /\ j \in Nat /\ j < n
        BY <1>1, <1>2, <1>3, <2>1
      <4> QED
        BY <4>1, <1>2
    <3>2. top = bottom
      BY <3>1 DEF Leads, c
    <3> QED
      BY <1>2, <2>1, <3>2
  <2>2. CASE i \in Puts(log, c)
    <3>1. \A j \in Puts(log, c) : i <= j
      BY <1>1, <1>3
    <3>2. Moves(bottom, log[i].rec)
      BY <2>2, <3>1 DEF Leads, c
    <3> QED
      BY <1>2, <2>2, <3>2
  <2> QED
    BY <1>1, <2>1, <2>2
<1>4. ASSUME NEW i \in Puts(new, c), NEW j \in Puts(new, c), i < j,
             \A k \in Puts(new, c) : k <= i \/ j <= k
      PROVE  Moves(new[i].rec, new[j].rec)
  <2>1. i \in Puts(log, c)
    BY <1>1, <1>2, <1>4
  <2>2. CASE j = n
    <3>1. \A k \in Puts(log, c) : k <= i
      BY <1>1, <1>2, <1>4, <2>2
    <3>2. log[i].rec = top
      BY <2>1, <3>1 DEF Leads, c
    <3> QED
      BY <1>2, <2>1, <2>2, <3>2
  <2>3. CASE j \in Puts(log, c)
    <3>1. Moves(log[i].rec, log[j].rec)
      BY <1>1, <1>4, <2>1, <2>3 DEF Leads, c
    <3> QED
      BY <1>2, <2>1, <2>3, <3>1
  <2> QED
    BY <1>1, <2>2, <2>3
<1>5. ASSUME NEW i \in Puts(new, c), \A j \in Puts(new, c) : j <= i
      PROVE  new[i].rec = w.rec
  BY <1>1, <1>2, <1>5
<1> QED
  BY <1>1, <1>3, <1>4, <1>5 DEF Leads, new, c

\* Another write leaves the path of c as it is.
LEMMA LeadsByOther ==
    ASSUME NEW log \in Seq(Write), NEW w \in Write, NEW bottom, NEW top,
           NEW c, w.kind # "put" \/ w.contract # c, Leads(log, c, bottom, top)
    PROVE  Leads(Append(log, w), c, bottom, top)
<1>1. Puts(Append(log, w), c) = Puts(log, c)
  BY AppendFacts DEF Puts
<1>2. \A i \in Puts(log, c) : Append(log, w)[i] = log[i]
  BY AppendFacts DEF Puts
<1> QED
  BY <1>1, <1>2 DEF Leads

\* Without its oldest write, the path starts at what that write leaves.
LEMMA LeadsByTail ==
    ASSUME NEW log \in Seq(Write), log # <<>>, NEW c, NEW bottom, NEW top,
           Leads(log, c, bottom, top)
    PROVE  /\ Leads(Tail(log), c, IF 1 \in Puts(log, c) THEN log[1].rec ELSE bottom, top)
           /\ 1 \in Puts(log, c) => Moves(bottom, log[1].rec)
<1> DEFINE base == IF 1 \in Puts(log, c) THEN log[1].rec ELSE bottom
           rest == Tail(log)
<1>1. /\ Len(log) \in Nat \ {0} /\ Len(rest) = Len(log) - 1
      /\ \A i \in 1..Len(rest) : rest[i] = log[i + 1]
  OBVIOUS
<1>2. \A i \in Puts(rest, c) : i \in Nat \ {0} /\ i + 1 \in Puts(log, c) /\ rest[i] = log[i + 1]
  BY <1>1 DEF Puts
<1>3. \A i \in Puts(log, c) : i \in Nat \ {0} /\ (i # 1 => i - 1 \in Puts(rest, c))
  BY <1>1 DEF Puts
<1>4. 1 \in Puts(log, c) => Moves(bottom, log[1].rec)
  <2>1. \A j \in Puts(log, c) : 1 <= j
    BY <1>3
  <2> QED
    BY <2>1 DEF Leads
<1> HIDE DEF base, rest
<1>5. ASSUME NEW i \in Puts(rest, c), \A j \in Puts(rest, c) : i <= j
      PROVE  Moves(base, rest[i].rec)
  <2>1. \A j \in Puts(log, c) : j = 1 \/ i + 1 <= j
    <3> TAKE j \in Puts(log, c)
    <3>1. j # 1 => j - 1 \in Puts(rest, c)
      BY <1>3
    <3>2. j # 1 => i <= j - 1
      BY <3>1, <1>5
    <3> QED
      BY <3>2, <1>2, <1>3
  <2>2. CASE 1 \in Puts(log, c)
    <3>1. 1 < i + 1 /\ \A k \in Puts(log, c) : k <= 1 \/ i + 1 <= k
      BY <1>2, <2>1
    <3>2. Moves(log[1].rec, log[i + 1].rec)
      BY <1>2, <2>2, <3>1 DEF Leads
    <3> QED
      BY <1>2, <2>2, <3>2 DEF base
  <2>3. CASE 1 \notin Puts(log, c)
    <3>1. \A j \in Puts(log, c) : i + 1 <= j
      BY <2>1, <2>3
    <3>2. Moves(bottom, log[i + 1].rec)
      BY <1>2, <3>1 DEF Leads
    <3> QED
      BY <1>2, <2>3, <3>2 DEF base
  <2> QED
    BY <2>2, <2>3
<1>6. ASSUME NEW i \in Puts(rest, c), NEW j \in Puts(rest, c), i < j,
             \A k \in Puts(rest, c) : k <= i \/ j <= k
      PROVE  Moves(rest[i].rec, rest[j].rec)
  <2>1. \A k \in Puts(log, c) : k <= i + 1 \/ j + 1 <= k
    <3> TAKE k \in Puts(log, c)
    <3>1. k # 1 => k - 1 <= i \/ j <= k - 1
      BY <1>3, <1>6
    <3> QED
      BY <3>1, <1>2, <1>3
  <2>2. i + 1 < j + 1 /\ i + 1 \in Puts(log, c) /\ j + 1 \in Puts(log, c)
    BY <1>2, <1>6
  <2>3. Moves(log[i + 1].rec, log[j + 1].rec)
    BY <2>1, <2>2 DEF Leads
  <2> QED
    BY <1>2, <2>3
<1>7. ASSUME NEW i \in Puts(rest, c), \A j \in Puts(rest, c) : j <= i
      PROVE  rest[i].rec = top
  <2>1. \A j \in Puts(log, c) : j <= i + 1
    <3> TAKE j \in Puts(log, c)
    <3>1. j # 1 => j - 1 <= i
      BY <1>3, <1>7
    <3> QED
      BY <3>1, <1>2, <1>3
  <2>2. log[i + 1].rec = top
    BY <1>2, <2>1 DEF Leads
  <2> QED
    BY <1>2, <2>2
<1>8. ASSUME Puts(rest, c) = {}
      PROVE  top = base
  <2>1. \A j \in Puts(log, c) : j = 1
    BY <1>3, <1>8
  <2>2. CASE 1 \in Puts(log, c)
    <3>1. \A j \in Puts(log, c) : j <= 1
      BY <2>1
    <3> QED
      BY <2>2, <3>1 DEF Leads, base
  <2>3. CASE 1 \notin Puts(log, c)
    BY <2>1, <2>3 DEF Leads, base
  <2> QED
    BY <2>2, <2>3
<1> QED
  BY <1>4, <1>5, <1>6, <1>7, <1>8 DEF Leads, base, rest

-----------------------------------------------------------------------------
\* A move of one contract's record on disk is a step of the lifecycle.
LEMMA MoveIsStep ==
    ASSUME diskStates \in [Contracts -> DlcState], NEW c \in Contracts, NEW r,
           Moves(diskStates[c], r), diskStates' = [diskStates EXCEPT ![c] = r]
    PROVE  Lifecycle!Next
<1> DEFINE stage == [d \in Contracts |-> diskStates[d].status]
           party == [d \in Contracts |-> diskStates[d].accepter]
<1>1. /\ [d \in Contracts |-> diskStates'[d].status] = [stage EXCEPT ![c] = r.status]
      /\ [d \in Contracts |-> diskStates'[d].accepter] = [party EXCEPT ![c] = r.accepter]
      /\ stage[c] = diskStates[c].status /\ party[c] = diskStates[c].accepter
  OBVIOUS
<1>2. r.accepter = diskStates[c].accepter => [party EXCEPT ![c] = r.accepter] = party
  OBVIOUS
<1> HIDE DEF stage, party
<1>3. \/ Lifecycle!Offer(c)
      \/ \E a \in Accepters : Lifecycle!Accept(c, a)
      \/ Lifecycle!Sign(c)
      \/ Lifecycle!Confirm(c)
      \/ Lifecycle!Settle(c)
      \/ Lifecycle!Refund(c)
      \/ Lifecycle!Fail(c)
  BY <1>1, <1>2 DEF Moves, Lifecycle!Offer, Lifecycle!Accept, Lifecycle!Sign, Lifecycle!Confirm,
        Lifecycle!Settle, Lifecycle!Refund, Lifecycle!Fail, Lifecycle!Move, stage, party
<1> QED
  BY <1>3 DEF Lifecycle!Next

LEMMA RInitOK == Init => RInv /\ Lifecycle!Init
<1> SUFFICES ASSUME Init
             PROVE  RInv /\ Lifecycle!Init
  OBVIOUS
<1>1. /\ states = [c \in Contracts |-> Absent(0)] /\ diskStates = states /\ wal = <<>>
      /\ \A t \in Callers : call[t] = IdleCall
  BY DEF Init, StorageInit
<1>2. LogLeads
  BY <1>1, NoPuts DEF LogLeads, Leads
<1>3. DrivenInv
  <2>1. IdleCall.pc = "idle"
    BY DEF IdleCall
  <2> QED
    BY <1>1, <2>1 DEF DrivenInv
<1>4. Lifecycle!Init
  <2>1. \A c \in Contracts : diskStates[c].status = "None" /\ diskStates[c].accepter = NoOne
    BY <1>1 DEF Absent
  <2> QED
    BY <2>1 DEF Lifecycle!Init
<1> QED
  BY <1>2, <1>3, <1>4 DEF RInv

\* Every handler starts a move from what it read.
LEMMA StartCallMoves ==
    ASSUME NoDelete, IInv, RInv, NEW t \in Callers, StartCall(t)
    PROVE  RInv' /\ UNCHANGED diskStates
<1>1. ASSUME NEW c \in Contracts, NEW rec \in DlcState, t \in Drivers[c], StartSave(t, c, rec),
             Moves(states[c], rec)
      PROVE  RInv' /\ UNCHANGED diskStates
  <2> DEFINE new == [rec EXCEPT !.ver = 0]
             r == [pc |-> "readOld", contract |-> c, old |-> Absent(0), new |-> new]
  <2>1. new.status = rec.status /\ new.accepter = rec.accepter
    BY DEF DlcState
  <2>2. Moves(states[c], new)
    BY <1>1, <2>1 DEF Moves
  <2>3. /\ call' = [call EXCEPT ![t] = r]
        /\ UNCHANGED <<states, wal, diskStates>>
    BY <1>1 DEF StartSave, treeVars
  <2> HIDE DEF new
  <2>4. r.pc = "readOld" /\ r.contract = c /\ r.new = new
    OBVIOUS
  <2> HIDE DEF r
  <2>5. LogLeads'
    BY <2>3 DEF RInv, LogLeads
  <2>6. DrivenInv'
    BY <1>1, <2>2, <2>3, <2>4 DEF RInv, DrivenInv, IInv, CallsInv
  <2> QED
    BY <2>3, <2>5, <2>6 DEF RInv
<1> PICK c \in Contracts :
        \/ CreateOffer(t, c)
        \/ \E a \in Accepters : AcceptOffer(t, c, a)
        \/ \E s \in ContractSign : SignContract(t, c, s)
        \/ ConfirmFunding(t, c)
        \/ Settle(t, c)
        \/ Refund(t, c)
        \/ Fail(t, c)
        \/ Delete(t, c)
  BY DEF StartCall
<1> DEFINE cur == states[c]
<1>2. cur \in DlcState /\ WellFormed(cur) /\ Absent(0) \in DlcState
  BY AbsentOK DEF IInv, TreesInv, Provenance
<1>3. CASE CreateOffer(t, c)
  <2> DEFINE rec == [Absent(0) EXCEPT !.status = "Offered"]
  <2>1. rec \in DlcState /\ rec.status = "Offered" /\ rec.accepter = NoOne
    BY <1>2 DEF Absent, DlcState, StateName
  <2>2. Moves(cur, rec)
    BY <1>2, <1>3, <2>1 DEF CreateOffer, WellFormed, Moves
  <2> QED
    BY <1>1, <1>3, <2>1, <2>2 DEF CreateOffer, Handler
<1>4. CASE \E a \in Accepters : AcceptOffer(t, c, a)
  <2> PICK a \in Accepters : AcceptOffer(t, c, a)
    BY <1>4
  <2> DEFINE rec == [cur EXCEPT !.status = "Accepted", !.accepter = a]
  <2>1. rec \in DlcState /\ rec.status = "Accepted" /\ rec.accepter = a
    BY <1>2 DEF DlcState, StateName, Party
  <2>2. Moves(cur, rec)
    BY <2>1 DEF AcceptOffer, Moves
  <2> QED
    BY <1>1, <2>1, <2>2 DEF AcceptOffer, Handler
<1>5. CASE \E s \in ContractSign : SignContract(t, c, s)
  <2> PICK s \in ContractSign : SignContract(t, c, s)
    BY <1>5
  <2> DEFINE rec == [cur EXCEPT !.status = "Signed", !.signer = s.signedBy]
  <2>1. rec \in DlcState /\ rec.status = "Signed" /\ rec.accepter = cur.accepter
    BY <1>2 DEF ContractSign, DlcState, StateName
  <2>2. Moves(cur, rec)
    BY <2>1 DEF SignContract, Moves
  <2> QED
    BY <1>1, <2>1, <2>2 DEF SignContract, Handler
<1>6. CASE ConfirmFunding(t, c)
  <2> DEFINE rec == [cur EXCEPT !.status = "Confirmed", !.funded = TRUE]
  <2>1. rec \in DlcState /\ rec.status = "Confirmed" /\ rec.accepter = cur.accepter
    BY <1>2 DEF DlcState, StateName
  <2>2. Moves(cur, rec)
    BY <1>6, <2>1 DEF ConfirmFunding, Moves
  <2> QED
    BY <1>1, <1>6, <2>1, <2>2 DEF ConfirmFunding, Handler
<1>7. CASE Settle(t, c)
  <2> DEFINE rec == [cur EXCEPT !.status = "Settled"]
  <2>1. rec \in DlcState /\ rec.status = "Settled" /\ rec.accepter = cur.accepter
    BY <1>2 DEF DlcState, StateName
  <2>2. Moves(cur, rec)
    BY <1>7, <2>1 DEF Settle, Moves
  <2> QED
    BY <1>1, <1>7, <2>1, <2>2 DEF Settle, Handler
<1>8. CASE Refund(t, c)
  <2> DEFINE rec == [cur EXCEPT !.status = "Refunded"]
  <2>1. rec \in DlcState /\ rec.status = "Refunded" /\ rec.accepter = cur.accepter
    BY <1>2 DEF DlcState, StateName
  <2>2. Moves(cur, rec)
    BY <1>8, <2>1 DEF Refund, Moves
  <2> QED
    BY <1>1, <1>8, <2>1, <2>2 DEF Refund, Handler
<1>9. CASE Fail(t, c)
  <2> DEFINE rec == [Absent(0) EXCEPT !.status = "Failed"]
  <2>1. rec \in DlcState /\ rec.status = "Failed" /\ rec.accepter = NoOne
    BY <1>2 DEF Absent, DlcState, StateName
  <2>2. Moves(cur, rec)
    BY <2>1 DEF Moves
  <2> QED
    BY <1>1, <1>9, <2>1, <2>2 DEF Fail, Handler
<1>10. CASE Delete(t, c)
  BY <1>10 DEF Delete, Handler, NoDelete
<1> QED
  BY <1>3, <1>4, <1>5, <1>6, <1>7, <1>8, <1>9, <1>10

\* The other steps of save(): the insert writes the move, and moves nothing
\* under another caller.
LEMMA SaveStepMoves ==
    ASSUME SoleDrivers, IInv, RInv, NEW t \in Callers, SaveStep(t)
    PROVE  RInv' /\ UNCHANGED diskStates
<1> DEFINE me == call[t]
<1>0. /\ me \in Call /\ me.contract \in Contracts /\ me.old \in DlcState /\ me.new \in DlcState
      /\ call \in [Callers -> Call] /\ states \in [Contracts -> DlcState]
      /\ wal \in Seq(Write)
      /\ \A c \in Contracts : states[c] \in DlcState
      /\ \A u \in Callers : call[u].contract \in Contracts
  BY DEF IInv, TreesInv, CallsInv, Call
\* A step that writes no record, and leaves t with the same contract.
<1>a. ASSUME UNCHANGED <<states, diskStates>>, LogLeads',
             NEW r, call' = [call EXCEPT ![t] = r],
             r.pc # "idle" => me.pc # "idle" /\ r.contract = me.contract,
             r.pc \in {"readOld", "insert"} => me.pc \in {"readOld", "insert"} /\ r.new = me.new
      PROVE  RInv' /\ UNCHANGED diskStates
  <2>1. DrivenInv'
    BY <1>0, <1>a DEF RInv, DrivenInv
  <2> QED
    BY <1>a, <2>1 DEF RInv
<1>b. ASSUME NEW w \in Write, w.kind # "put", Apply(w) \/ UNCHANGED <<treeVars, acked, faults>>
      PROVE  LogLeads' /\ UNCHANGED <<states, diskStates>>
  <2>1. CASE Apply(w)
    <3>1. UNCHANGED <<states, diskStates>> /\ wal' = Append(wal, w)
      BY <1>b, <2>1 DEF Apply, StatesAfter
    <3> QED
      BY <1>0, <1>b, <3>1, LeadsByOther DEF RInv, LogLeads
  <2>2. CASE UNCHANGED <<treeVars, acked, faults>>
    BY <2>2 DEF RInv, LogLeads, treeVars
  <2> QED
    BY <1>b, <2>1, <2>2
<1>1. CASE ReadOld(t)
  <2> DEFINE u == [me EXCEPT !.pc = "insert"]
             r == [u EXCEPT !.old = states[me.contract]]
  <2>1. u \in Call /\ u.pc = "insert" /\ u.contract = me.contract /\ u.new = me.new
    BY <1>0 DEF Call
  <2>2. call' = [call EXCEPT ![t] = r]
    BY <1>0, <1>1 DEF ReadOld
  <2>3. r.pc = "insert" /\ r.contract = me.contract /\ r.new = me.new
    <3> HIDE DEF u
    <3> QED
      BY <1>0, <2>1 DEF Call
  <2> HIDE DEF r, u
  <2>4. UNCHANGED <<states, diskStates>> /\ LogLeads' /\ me.pc = "readOld"
    BY <1>1 DEF ReadOld, treeVars, RInv, LogLeads
  <2> QED
    BY <1>a, <2>2, <2>3, <2>4
<1>2. CASE InsertState(t)
  <2> DEFINE c == me.contract
             n == states[c].ver + 1
             rec == [me.new EXCEPT !.ver = n]
             w == [kind |-> "put", contract |-> c, rec |-> rec]
             u == [me EXCEPT !.pc = "unindex"]
             r == [u EXCEPT !.new = rec]
  <2>1. rec \in DlcState /\ rec.status = me.new.status /\ rec.accepter = me.new.accepter
    <3>1. n \in Nat
      BY <1>0 DEF DlcState
    <3> HIDE DEF n
    <3> QED
      BY <1>0, <3>1 DEF DlcState
  <2>2. w \in Write /\ Apply(w) /\ me.pc = "insert" /\ w.kind = "put" /\ w.contract = c
        /\ w.rec = rec
    BY <1>0, <1>2, <2>1 DEF Write, InsertState
  <2>3. call' = [call EXCEPT ![t] = r]
    BY <1>0, <1>2 DEF InsertState
  <2>4. r.pc = "unindex" /\ r.contract = c
    <3>1. u \in Call /\ u.pc = "unindex" /\ u.contract = c
      BY <1>0 DEF Call
    <3> HIDE DEF u, rec
    <3> QED
      BY <2>1, <3>1 DEF Call
  <2>5. t \in Drivers[c] /\ Moves(states[c], rec)
    BY <1>0, <2>1, <2>2 DEF RInv, DrivenInv, Moves
  <2> HIDE DEF r, rec, w
  <2>6. /\ wal' = Append(wal, w) /\ UNCHANGED diskStates
        /\ states' = [states EXCEPT ![c] = rec]
    BY <2>2 DEF Apply, StatesAfter
  <2>7. LogLeads'
    <3> SUFFICES ASSUME NEW d \in Contracts
                 PROVE  Leads(wal', d, diskStates'[d], states'[d])
      BY DEF LogLeads
    <3>1. Leads(wal, d, diskStates[d], states[d])
      BY DEF RInv, LogLeads
    <3>2. CASE d = c
      <4>1. Leads(Append(wal, w), w.contract, diskStates[d], w.rec)
        BY <1>0, <2>2, <2>5, <3>1, <3>2, LeadsByPut
      <4> QED
        BY <1>0, <2>2, <2>6, <3>2, <4>1
    <3>3. CASE d # c
      <4>1. Leads(Append(wal, w), d, diskStates[d], states[d])
        BY <1>0, <2>2, <3>1, <3>3, LeadsByOther
      <4> QED
        BY <1>0, <2>6, <3>3, <4>1
    <3> QED
      BY <3>2, <3>3
  <2>8. DrivenInv'
    <3> SUFFICES ASSUME NEW v \in Callers
                 PROVE  /\ call'[v].pc # "idle" => v \in Drivers[call'[v].contract]
                        /\ call'[v].pc \in {"readOld", "insert"} =>
                             Moves(states'[call'[v].contract], call'[v].new)
      BY DEF DrivenInv
    <3>1. CASE v = t
      BY <1>0, <2>3, <2>4, <2>5, <3>1
    <3>2. CASE v # t
      <4>1. /\ call'[v] = call[v]
            /\ call[v].pc # "idle" => v \in Drivers[call[v].contract]
            /\ call[v].pc \in {"readOld", "insert"} => Moves(states[call[v].contract], call[v].new)
        BY <2>3, <3>2 DEF RInv, DrivenInv
      <4>2. call[v].pc # "idle" => call[v].contract # c
        BY <1>0, <2>5, <3>2, <4>1 DEF SoleDrivers
      <4>3. call[v].pc # "idle" => states'[call[v].contract] = states[call[v].contract]
        BY <1>0, <2>6, <4>2
      <4> QED
        BY <4>1, <4>3
    <3> QED
      BY <3>1, <3>2
  <2> QED
    BY <2>6, <2>7, <2>8 DEF RInv
<1>3. CASE RemoveOldIndex(t)
  <2> DEFINE w == [kind |-> "unindex", contract |-> me.contract, rec |-> me.old]
             u == [me EXCEPT !.pc = "reindex"]
             r == [u EXCEPT !.old = Absent(0)]
  <2>1. w \in Write /\ w.kind # "put" /\ (Apply(w) \/ UNCHANGED <<treeVars, acked, faults>>)
    BY <1>0, <1>3 DEF RemoveOldIndex, Write
  <2>2. LogLeads' /\ UNCHANGED <<states, diskStates>>
    BY <1>b, <2>1
  <2>3. call' = [call EXCEPT ![t] = r] /\ me.pc = "unindex"
    BY <1>0, <1>3 DEF RemoveOldIndex
  <2>4. r.pc = "reindex" /\ r.contract = me.contract
    <3>1. u \in Call /\ u.pc = "reindex" /\ u.contract = me.contract
      BY <1>0 DEF Call
    <3> HIDE DEF u
    <3> QED
      BY <3>1 DEF Call
  <2> HIDE DEF r
  <2> QED
    BY <1>a, <2>2, <2>3, <2>4
<1>4. CASE AddNewIndex(t)
  <2> DEFINE w == [kind |-> "index", contract |-> me.contract, rec |-> me.new]
             r == [me EXCEPT !.pc = "flush"]
  <2>1. w \in Write /\ w.kind # "put" /\ (Apply(w) \/ UNCHANGED <<treeVars, acked, faults>>)
    BY <1>0, <1>4 DEF AddNewIndex, Write
  <2>2. LogLeads' /\ UNCHANGED <<states, diskStates>>
    BY <1>b, <2>1
  <2>3. call' = [call EXCEPT ![t] = r] /\ me.pc = "reindex"
    BY <1>0, <1>4 DEF AddNewIndex
  <2>4. r.pc = "flush" /\ r.contract = me.contract
    BY <1>0 DEF Call
  <2> HIDE DEF r
  <2> QED
    BY <1>a, <2>2, <2>3, <2>4
<1>5. CASE Flush(t)
  <2>1. UNCHANGED <<states, diskStates>> /\ LogLeads' /\ call' = [call EXCEPT ![t] = IdleCall]
    BY <1>5 DEF Flush, treeVars, RInv, LogLeads
  <2>2. IdleCall.pc = "idle"
    BY DEF IdleCall
  <2> QED
    BY <1>a, <2>1, <2>2
<1> QED
  BY <1>1, <1>2, <1>3, <1>4, <1>5 DEF SaveStep

\* Persist: the oldest write reaches the disk; a put is a move there.
LEMMA PersistMoves ==
    ASSUME IInv, RInv, Persist
    PROVE  RInv' /\ (UNCHANGED diskStates \/ Lifecycle!Next)
<1> DEFINE w == Head(wal)
<1>1. /\ wal \in Seq(Write) /\ wal # <<>> /\ wal' = Tail(wal) /\ w = wal[1]
      /\ w \in Write /\ 1 \in 1..Len(wal)
      /\ UNCHANGED <<states, call>> /\ diskStates' = StatesAfter(diskStates, w)
      /\ diskStates \in [Contracts -> DlcState]
  BY DEF Persist, IInv, TreesInv
<1> HIDE DEF w
<1>0. w.contract \in Contracts
  BY <1>1 DEF Write
<1>2. \A c \in Contracts :
          /\ 1 \in Puts(wal, c) <=> w.kind = "put" /\ w.contract = c
          /\ diskStates'[c] = IF 1 \in Puts(wal, c) THEN wal[1].rec ELSE diskStates[c]
  BY <1>1 DEF StatesAfter, Puts, Write
<1>3. \A c \in Contracts :
          /\ Leads(Tail(wal), c, IF 1 \in Puts(wal, c) THEN wal[1].rec ELSE diskStates[c], states[c])
          /\ 1 \in Puts(wal, c) => Moves(diskStates[c], wal[1].rec)
  BY <1>1, LeadsByTail DEF RInv, LogLeads
<1>4. LogLeads'
  BY <1>1, <1>2, <1>3 DEF LogLeads
<1>5. DrivenInv'
  BY <1>1 DEF RInv, DrivenInv
<1>6. CASE w.kind = "put"
  <2>1. Moves(diskStates[w.contract], w.rec)
    BY <1>0, <1>1, <1>2, <1>3, <1>6
  <2>2. diskStates' = [diskStates EXCEPT ![w.contract] = w.rec]
    BY <1>1, <1>6 DEF StatesAfter
  <2>3. Lifecycle!Next
    BY <1>0, <1>1, <2>1, <2>2, MoveIsStep
  <2> QED
    BY <1>4, <1>5, <2>3 DEF RInv
<1>7. CASE w.kind # "put"
  BY <1>1, <1>4, <1>5, <1>7 DEF RInv, StatesAfter
<1> QED
  BY <1>6, <1>7

\* Every step keeps the invariant, and is a step of the lifecycle or none.
LEMMA RStepOK ==
    ASSUME SoleDrivers, NoDelete, IInv, RInv, [Next]_vars
    PROVE  RInv' /\ [Lifecycle!Next]_(Lifecycle!vars)
<1>1. UNCHANGED diskStates => UNCHANGED Lifecycle!vars
  BY DEF Lifecycle!vars
<1>2. CASE UNCHANGED <<states, diskStates, wal, call>>
  <2>1. RInv'
    BY <1>2 DEF RInv, LogLeads, DrivenInv
  <2> QED
    BY <1>1, <1>2, <2>1
<1>3. CASE \E t \in Callers : StartCall(t)
  BY <1>1, <1>3, StartCallMoves
<1>4. CASE \E t \in Callers : SaveStep(t)
  BY <1>1, <1>4, SaveStepMoves
<1>5. CASE \E t \in Callers : IoError(t)
  <2> PICK t \in Callers : IoError(t)
    BY <1>5
  <2>1. call' = [call EXCEPT ![t] = IdleCall] /\ UNCHANGED <<states, wal, diskStates>>
    BY DEF IoError, treeVars
  <2>2. IdleCall.pc = "idle"
    BY DEF IdleCall
  <2>3. DrivenInv'
    BY <2>1, <2>2 DEF RInv, DrivenInv, IInv, CallsInv
  <2>4. LogLeads'
    BY <2>1 DEF RInv, LogLeads
  <2> QED
    BY <1>1, <2>1, <2>3, <2>4 DEF RInv
<1>6. CASE Persist
  BY <1>1, <1>6, PersistMoves
<1>7. CASE Crash
  <2>1. /\ wal' = <<>> /\ states' = diskStates /\ UNCHANGED diskStates
        /\ call' = [t \in Callers |-> IdleCall]
    BY <1>7 DEF Crash
  <2>2. IdleCall.pc = "idle"
    BY DEF IdleCall
  <2>3. LogLeads'
    BY <2>1, NoPuts DEF LogLeads, Leads
  <2>4. DrivenInv'
    BY <2>1, <2>2 DEF DrivenInv
  <2> QED
    BY <1>1, <2>1, <2>3, <2>4 DEF RInv
<1> QED
  BY <1>2, <1>3, <1>4, <1>5, <1>6, <1>7
     DEF Next, vars, storageVars, ListSigned, ListConfirmed, ListDone

\* "Every transition is validated" (state_machine.rs): for any contracts and
\* counterparties, through errors and crashes, what is on disk follows the
\* lifecycle of DlcLifecycle, as long as each contract has one driver, who
\* does not delete it.  (With two drivers it does not: SettledNeverRefunded.)
THEOREM Refinement ==
    ASSUME SoleDrivers, NoDelete
    PROVE  Spec => RefinesLifecycle
<1>1. Init => RInv /\ Lifecycle!Init
  BY RInitOK
<1>2. IInv /\ RInv /\ [Next]_vars => RInv' /\ [Lifecycle!Next]_(Lifecycle!vars)
  BY RStepOK
<1> QED
  BY <1>1, <1>2, Invariance, PTL DEF Spec, RefinesLifecycle, Lifecycle!Spec

-----------------------------------------------------------------------------
(* What the steps of save() do to their caller's call, in one place.       *)

LEMMA InsertFacts ==
    ASSUME IInv, NEW t \in Callers, InsertState(t)
    PROVE  /\ \A u \in Callers \ {t} : call'[u] = call[u]
           /\ call[t].pc = "insert" /\ call'[t].pc = "unindex"
           /\ call'[t].contract = call[t].contract /\ call'[t].old = call[t].old
           /\ call'[t].new \in DlcState /\ call'[t].new.status = call[t].new.status
           /\ Apply([kind |-> "put", contract |-> call[t].contract, rec |-> call'[t].new])
           /\ states' = [states EXCEPT ![call[t].contract] = call'[t].new]
           /\ UNCHANGED index
<1> DEFINE me == call[t]
           c == me.contract
           n == states[c].ver + 1
           rec == [me.new EXCEPT !.ver = n]
           u == [me EXCEPT !.pc = "unindex"]
           r == [u EXCEPT !.new = rec]
<1>1. /\ me \in Call /\ me.new \in DlcState /\ call \in [Callers -> Call]
      /\ states[c] \in DlcState
  BY DEF IInv, CallsInv, TreesInv, Call
<1>2. rec \in DlcState /\ rec.status = me.new.status
  <2>1. n \in Nat
    BY <1>1 DEF DlcState
  <2> HIDE DEF n
  <2> QED
    BY <1>1, <2>1 DEF DlcState
<1>3. /\ me.pc = "insert" /\ call' = [call EXCEPT ![t] = r]
      /\ Apply([kind |-> "put", contract |-> c, rec |-> rec])
  BY <1>1 DEF InsertState
<1>4. r.pc = "unindex" /\ r.contract = c /\ r.old = me.old /\ r.new = rec
  <2>1. u \in Call /\ u.pc = "unindex" /\ u.contract = c /\ u.old = me.old
    BY <1>1 DEF Call
  <2> HIDE DEF u, rec
  <2> QED
    BY <1>2, <2>1 DEF Call
<1> HIDE DEF r, rec
<1>5. states' = [states EXCEPT ![c] = rec] /\ index' = index
  BY <1>3 DEF Apply, StatesAfter, IndexAfter
<1> QED
  BY <1>1, <1>2, <1>3, <1>4, <1>5

\* The other three steps that keep the caller in its call.
LEMMA StepFacts ==
    ASSUME IInv, NEW t \in Callers, ReadOld(t) \/ RemoveOldIndex(t) \/ AddNewIndex(t)
    PROVE  /\ \A u \in Callers \ {t} : call'[u] = call[u]
           /\ call'[t].contract = call[t].contract /\ call'[t].new = call[t].new
           /\ UNCHANGED states
           /\ ReadOld(t) => /\ call[t].pc = "readOld" /\ call'[t].pc = "insert"
                            /\ call'[t].old = states[call[t].contract]
           /\ RemoveOldIndex(t) => call[t].pc = "unindex" /\ call'[t].pc = "reindex"
           /\ AddNewIndex(t) => call[t].pc = "reindex" /\ call'[t].pc = "flush"
<1>1. call[t] \in Call /\ call \in [Callers -> Call]
  BY DEF IInv, CallsInv
<1>2. CASE ReadOld(t)
  BY <1>1, <1>2 DEF ReadOld, RemoveOldIndex, AddNewIndex, treeVars, Call
<1>3. CASE RemoveOldIndex(t)
  BY <1>1, <1>3 DEF ReadOld, RemoveOldIndex, AddNewIndex, treeVars, Apply, StatesAfter, Call
<1>4. CASE AddNewIndex(t)
  BY <1>1, <1>4 DEF ReadOld, RemoveOldIndex, AddNewIndex, treeVars, Apply, StatesAfter, Call
<1> QED
  BY <1>2, <1>3, <1>4

-----------------------------------------------------------------------------
(* The index, as long as one caller drives each contract: exact without    *)
(* faults.  While the driver of a contract is between its insert and its   *)
(* last index write, the index has the entry of the old state (unindex) or *)
(* none (reindex), and the caller still holds what is in the tree.         *)

EntriesOf(c) == {e \in index : e[2] = c}

EntryFor(c, rec) == IF rec.status = "None" THEN {} ELSE {<<rec.status, c>>}

Updating(t) == call[t].pc \in {"unindex", "reindex"}

CallersDrive == \A t \in Callers : call[t].pc # "idle" => t \in Drivers[call[t].contract]

ExactInv ==
    faults = 0 =>
        /\ \A c \in Contracts :
              (\A t \in Callers : call[t].contract = c => ~Updating(t))
              => EntriesOf(c) = EntryFor(c, states[c])
        /\ \A t \in Callers :
              LET c == call[t].contract IN
              /\ call[t].pc = "insert" => call[t].old = states[c]
              /\ call[t].pc = "unindex" => EntriesOf(c) = EntryFor(c, call[t].old)
              /\ call[t].pc = "reindex" => EntriesOf(c) = {}
              /\ Updating(t) => call[t].new = states[c]

-----------------------------------------------------------------------------
\* A write of contract w.contract leaves the entries of the others alone.
LEMMA EntriesAfter ==
    ASSUME IInv, NEW w \in Write, Apply(w)
    PROVE  /\ \A c \in Contracts \ {w.contract} : EntriesOf(c)' = EntriesOf(c)
           /\ w.kind = "put" => \A c \in Contracts : EntriesOf(c)' = EntriesOf(c)
           /\ w.kind = "unindex" =>
                EntriesOf(w.contract)' = EntriesOf(w.contract) \ {<<w.rec.status, w.contract>>}
           /\ w.kind = "index" =>
                EntriesOf(w.contract)' = EntriesOf(w.contract) \cup {<<w.rec.status, w.contract>>}
  BY DEF EntriesOf, Apply, IndexAfter, IInv, TreesInv, Write

LEMMA DriveOK == CallersDrive /\ IInv /\ [Next]_vars => CallersDrive'
<1> SUFFICES ASSUME CallersDrive, IInv, [Next]_vars
             PROVE  CallersDrive'
  OBVIOUS
<1>0. call \in [Callers -> Call] /\ IdleCall.pc = "idle"
  BY DEF IInv, CallsInv, IdleCall
<1>a. ASSUME NEW t \in Callers, NEW r, call' = [call EXCEPT ![t] = r],
             r.pc # "idle" => t \in Drivers[r.contract]
      PROVE  CallersDrive'
  BY <1>0, <1>a DEF CallersDrive
<1>1. CASE UNCHANGED call
  BY <1>1 DEF CallersDrive
<1>2. ASSUME NEW t \in Callers, StartCall(t)
      PROVE  CallersDrive'
  <2>1. PICK c \in Contracts : t \in Drivers[c] /\ \E rec : StartSave(t, c, rec)
    BY <1>2 DEF StartCall, CreateOffer, AcceptOffer, SignContract, ConfirmFunding, Settle,
                Refund, Fail, Delete, Handler
  <2>2. PICK rec : StartSave(t, c, rec)
    BY <2>1
  <2> DEFINE r == [pc |-> "readOld", contract |-> c, old |-> Absent(0),
                   new |-> [rec EXCEPT !.ver = 0]]
  <2>3. call' = [call EXCEPT ![t] = r] /\ r.contract = c
    BY <2>2 DEF StartSave
  <2> HIDE DEF r
  <2> QED
    BY <1>a, <2>1, <2>3
<1>3. ASSUME NEW t \in Callers, SaveStep(t)
      PROVE  CallersDrive'
  <2>1. /\ \A u \in Callers \ {t} : call'[u] = call[u]
        /\ call'[t].pc = "idle" \/ (call[t].pc # "idle" /\ call'[t].contract = call[t].contract)
    <3>1. CASE InsertState(t)
      BY <3>1, InsertFacts
    <3>2. CASE ReadOld(t) \/ RemoveOldIndex(t) \/ AddNewIndex(t)
      BY <3>2, StepFacts
    <3>3. CASE Flush(t)
      <4>1. call' = [call EXCEPT ![t] = IdleCall]
        BY <3>3 DEF Flush
      <4>2. call'[t].pc = "idle" /\ \A u \in Callers \ {t} : call'[u] = call[u]
        BY <1>0, <4>1
      <4> QED
        BY <4>2
    <3> QED
      BY <1>3, <3>1, <3>2, <3>3 DEF SaveStep
  <2> QED
    BY <2>1 DEF CallersDrive
<1>4. ASSUME NEW t \in Callers, IoError(t)
      PROVE  CallersDrive'
  BY <1>0, <1>4, <1>a DEF IoError
<1>5. CASE Crash
  BY <1>0, <1>5 DEF Crash, CallersDrive
<1> QED
  BY <1>1, <1>2, <1>3, <1>4, <1>5
     DEF Next, vars, storageVars, Persist, ListSigned, ListConfirmed, ListDone

\* What a step of t's save has to show: what happens to t's own contract.
LEMMA ExactFrame ==
    ASSUME SoleDrivers, IInv, CallersDrive, ExactInv, NEW t \in Callers, NEW c \in Contracts,
           call[t].pc # "idle", c = call[t].contract, UNCHANGED faults,
           \A u \in Callers \ {t} : call'[u] = call[u],
           call'[t].contract = c \/ call'[t].pc = "idle",
           \A d \in Contracts \ {c} : states'[d] = states[d] /\ EntriesOf(d)' = EntriesOf(d),
           faults = 0 =>
               /\ ~Updating(t)' => EntriesOf(c)' = EntryFor(c, states[c])'
               /\ call'[t].pc = "insert" => call'[t].old = states'[c]
               /\ call'[t].pc = "unindex" => EntriesOf(c)' = EntryFor(c, call'[t].old)
               /\ call'[t].pc = "reindex" => EntriesOf(c)' = {}
               /\ Updating(t)' => call'[t].new = states'[c]
    PROVE  ExactInv'
<1> SUFFICES ASSUME faults = 0
             PROVE  ExactInv'
  BY DEF ExactInv
<1>1. \A u \in Callers \ {t} : call[u].pc # "idle" =>
          call[u].contract \in Contracts /\ call[u].contract # c
  BY DEF SoleDrivers, CallersDrive, IInv, CallsInv, Call
<1>2. ASSUME NEW d \in Contracts, \A u \in Callers : call'[u].contract = d => ~Updating(u)'
      PROVE  EntriesOf(d)' = EntryFor(d, states[d])'
  <2>1. CASE d = c
    <3>1. ~Updating(t)'
      BY <1>2, <2>1 DEF Updating
    <3> QED
      BY <2>1, <3>1
  <2>2. CASE d # c
    <3>1. \A u \in Callers : call[u].contract = d => ~Updating(u)
      BY <1>2, <2>2 DEF Updating
    <3>2. EntriesOf(d) = EntryFor(d, states[d])
      BY <3>1 DEF ExactInv
    <3> QED
      BY <2>2, <3>2 DEF EntryFor
  <2> QED
    BY <2>1, <2>2
<1>3. ASSUME NEW u \in Callers, NEW d, d = call'[u].contract
      PROVE  /\ call'[u].pc = "insert" => call'[u].old = states'[d]
             /\ call'[u].pc = "unindex" => EntriesOf(d)' = EntryFor(d, call'[u].old)
             /\ call'[u].pc = "reindex" => EntriesOf(d)' = {}
             /\ Updating(u)' => call'[u].new = states'[d]
  <2>1. CASE u = t
    BY <1>3, <2>1 DEF Updating
  <2>2. CASE u # t
    <3>1. call'[u] = call[u] /\ Updating(u)' = Updating(u) /\ d = call[u].contract
      BY <1>3, <2>2 DEF Updating
    <3>2. CASE call[u].pc = "idle"
      BY <3>1, <3>2 DEF Updating
    <3>3. CASE call[u].pc # "idle"
      <4>1. states'[d] = states[d] /\ EntriesOf(d)' = EntriesOf(d)
        BY <1>1, <2>2, <3>1, <3>3
      <4>2. /\ call[u].pc = "insert" => call[u].old = states[d]
            /\ call[u].pc = "unindex" => EntriesOf(d) = EntryFor(d, call[u].old)
            /\ call[u].pc = "reindex" => EntriesOf(d) = {}
            /\ Updating(u) => call[u].new = states[d]
        BY <3>1 DEF ExactInv
      <4> QED
        BY <3>1, <4>1, <4>2
    <3> QED
      BY <3>2, <3>3
  <2> QED
    BY <2>1, <2>2
<1> QED
  BY <1>2, <1>3 DEF ExactInv

\* The steps of a save, one by one.
LEMMA SaveStepExact ==
    ASSUME SoleDrivers, IInv, CallersDrive, ExactInv, NEW t \in Callers, SaveStep(t)
    PROVE  ExactInv'
<1> DEFINE me == call[t]
<1> PICK c \in Contracts : c = me.contract
  BY DEF IInv, CallsInv, Call
<1>0. /\ me \in Call /\ c = me.contract /\ me.old \in DlcState /\ me.new \in DlcState
      /\ call \in [Callers -> Call] /\ states \in [Contracts -> DlcState]
  BY DEF IInv, CallsInv, TreesInv, Call
<1>1. me.pc # "idle"
  BY DEF SaveStep, ReadOld, InsertState, RemoveOldIndex, AddNewIndex, Flush
<1>2. faults = 0 /\ ~Updating(t) => EntriesOf(c) = EntryFor(c, states[c])
  <2>1. \A u \in Callers \ {t} : call[u].contract = c => ~Updating(u)
    BY <1>0, <1>1 DEF SoleDrivers, CallersDrive, Updating
  <2> QED
    BY <1>0, <2>1 DEF ExactInv
<1>3. faults = 0 => /\ me.pc = "insert" => me.old = states[c]
                    /\ me.pc = "unindex" => EntriesOf(c) = EntryFor(c, me.old)
                    /\ me.pc = "reindex" => EntriesOf(c) = {}
                    /\ Updating(t) => me.new = states[c]
  BY <1>0 DEF ExactInv
<1>4. CASE ReadOld(t)
  <2>1. UNCHANGED <<index, states, faults>>
    BY <1>4 DEF ReadOld, treeVars
  <2>2. /\ \A u \in Callers \ {t} : call'[u] = call[u]
        /\ call'[t].contract = c /\ me.pc = "readOld" /\ call'[t].pc = "insert"
        /\ call'[t].old = states[c]
    BY <1>4, <1>0, StepFacts
  <2>3. \A d \in Contracts : EntriesOf(d)' = EntriesOf(d)
    BY <2>1 DEF EntriesOf
  <2>4. ~Updating(t) /\ ~Updating(t)'
    BY <2>2 DEF Updating
  <2>5. EntryFor(c, states[c])' = EntryFor(c, states[c])
    BY <2>1, <2>2 DEF EntryFor
  <2> QED
    BY <1>0, <1>1, <1>2, <2>1, <2>2, <2>3, <2>4, <2>5, ExactFrame
<1>5. CASE InsertState(t)
  <2> DEFINE w == [kind |-> "put", contract |-> c, rec |-> call'[t].new]
  <2>1. /\ \A u \in Callers \ {t} : call'[u] = call[u]
        /\ me.pc = "insert" /\ call'[t].pc = "unindex"
        /\ call'[t].contract = c /\ call'[t].old = me.old
        /\ states' = [states EXCEPT ![c] = call'[t].new] /\ UNCHANGED index
        /\ Apply(w)
    BY <1>0, <1>5, InsertFacts
  <2>2. \A d \in Contracts : EntriesOf(d)' = EntriesOf(d)
    BY <2>1 DEF EntriesOf
  <2>3. ~Updating(t) /\ Updating(t)' /\ UNCHANGED faults
    BY <2>1 DEF Updating, Apply
  <2>4. states'[c] = call'[t].new /\ \A d \in Contracts \ {c} : states'[d] = states[d]
    BY <1>0, <2>1
  <2> QED
    BY <1>0, <1>1, <1>2, <1>3, <2>1, <2>2, <2>3, <2>4, ExactFrame
<1>6. CASE RemoveOldIndex(t)
  <2> DEFINE w == [kind |-> "unindex", contract |-> c, rec |-> me.old]
  <2>1. /\ \A u \in Callers \ {t} : call'[u] = call[u]
        /\ me.pc = "unindex" /\ call'[t].pc = "reindex" /\ call'[t].contract = c
        /\ call'[t].new = me.new /\ UNCHANGED states
    BY <1>6, <1>0, StepFacts
  <2>2. Updating(t) /\ Updating(t)' /\ UNCHANGED faults
    BY <1>6, <2>1 DEF Updating, RemoveOldIndex, Apply
  <2>3. /\ \A d \in Contracts \ {c} : EntriesOf(d)' = EntriesOf(d)
        /\ faults = 0 => EntriesOf(c)' = {}
    <3>1. CASE me.old.status = "None" /\ UNCHANGED <<treeVars, acked, faults>>
      <4>1. \A d \in Contracts : EntriesOf(d)' = EntriesOf(d)
        BY <3>1 DEF EntriesOf, treeVars
      <4>2. EntryFor(c, me.old) = {}
        BY <3>1 DEF EntryFor
      <4> QED
        BY <1>0, <1>3, <2>1, <4>1, <4>2
    <3>2. CASE me.old.status # "None" /\ Apply(w)
      <4>1. w \in Write /\ w.kind = "unindex" /\ w.contract = c /\ w.rec = me.old
        BY <1>0 DEF Write
      <4>2. EntryFor(c, me.old) = {<<me.old.status, c>>}
        BY <3>2 DEF EntryFor
      <4> HIDE DEF w
      <4>3. /\ \A d \in Contracts \ {c} : EntriesOf(d)' = EntriesOf(d)
            /\ EntriesOf(c)' = EntriesOf(c) \ {<<me.old.status, c>>}
        BY <3>2, <4>1, EntriesAfter DEF EntriesOf
      <4> QED
        BY <1>3, <2>1, <4>2, <4>3
    <3> QED
      BY <1>0, <1>6, <3>1, <3>2 DEF RemoveOldIndex
  <2> QED
    BY <1>0, <1>1, <1>3, <2>1, <2>2, <2>3, ExactFrame
<1>7. CASE AddNewIndex(t)
  <2> DEFINE w == [kind |-> "index", contract |-> c, rec |-> me.new]
  <2>1. /\ \A u \in Callers \ {t} : call'[u] = call[u]
        /\ me.pc = "reindex" /\ call'[t].pc = "flush" /\ call'[t].contract = c
        /\ UNCHANGED states
    BY <1>7, <1>0, StepFacts
  <2>2. Updating(t) /\ ~Updating(t)' /\ UNCHANGED faults
    BY <1>7, <2>1 DEF Updating, AddNewIndex, Apply
  <2>3. /\ \A d \in Contracts \ {c} : EntriesOf(d)' = EntriesOf(d)
        /\ faults = 0 => EntriesOf(c)' = EntryFor(c, me.new)
    <3>1. CASE me.new.status = "None" /\ UNCHANGED <<treeVars, acked, faults>>
      <4>1. \A d \in Contracts : EntriesOf(d)' = EntriesOf(d)
        BY <3>1 DEF EntriesOf, treeVars
      <4>2. EntryFor(c, me.new) = {}
        BY <3>1 DEF EntryFor
      <4> QED
        BY <1>0, <1>3, <2>1, <4>1, <4>2
    <3>2. CASE me.new.status # "None" /\ Apply(w)
      <4>1. w \in Write /\ w.kind = "index" /\ w.contract = c /\ w.rec = me.new
        BY <1>0 DEF Write
      <4>2. EntryFor(c, me.new) = {<<me.new.status, c>>}
        BY <3>2 DEF EntryFor
      <4> HIDE DEF w
      <4>3. /\ \A d \in Contracts \ {c} : EntriesOf(d)' = EntriesOf(d)
            /\ EntriesOf(c)' = EntriesOf(c) \cup {<<me.new.status, c>>}
        BY <3>2, <4>1, EntriesAfter DEF EntriesOf
      <4> QED
        BY <1>3, <2>1, <4>2, <4>3
    <3> QED
      BY <1>0, <1>7, <3>1, <3>2 DEF AddNewIndex
  <2>4. faults = 0 => EntryFor(c, states[c])' = EntryFor(c, me.new)
    BY <1>3, <2>1, <2>2 DEF EntryFor
  <2> QED
    BY <1>0, <1>1, <1>3, <2>1, <2>2, <2>3, <2>4, ExactFrame
<1>8. CASE Flush(t)
  <2>1. /\ UNCHANGED <<index, states, faults>> /\ me.pc = "flush"
        /\ call' = [call EXCEPT ![t] = IdleCall] /\ IdleCall.pc = "idle"
    BY <1>8 DEF Flush, treeVars, IdleCall
  <2>2. call'[t].pc = "idle" /\ \A u \in Callers \ {t} : call'[u] = call[u]
    BY <1>0, <2>1
  <2>3. \A d \in Contracts : EntriesOf(d)' = EntriesOf(d)
    BY <2>1 DEF EntriesOf
  <2>4. ~Updating(t) /\ ~Updating(t)'
    BY <2>1, <2>2 DEF Updating
  <2>5. EntryFor(c, states[c])' = EntryFor(c, states[c])
    BY <2>1 DEF EntryFor
  <2> QED
    BY <1>0, <1>1, <1>2, <2>1, <2>2, <2>3, <2>4, <2>5, ExactFrame
<1> QED
  BY <1>4, <1>5, <1>6, <1>7, <1>8 DEF SaveStep

LEMMA ExactInitOK == Init => CallersDrive /\ ExactInv
<1> SUFFICES ASSUME Init
             PROVE  CallersDrive /\ ExactInv
  OBVIOUS
<1>1. /\ \A t \in Callers : call[t].pc = "idle"
      /\ index = {} /\ \A c \in Contracts : states[c].status = "None"
  BY DEF Init, StorageInit, IdleCall, Absent
<1> QED
  BY <1>1 DEF CallersDrive, ExactInv, Updating, EntriesOf, EntryFor

\* A step that leaves the tree and the index alone, and starts or changes no
\* save that is past its first read.
LEMMA QuietStepExact ==
    ASSUME ExactInv, UNCHANGED <<states, index, faults>>,
           \A u \in Callers : \/ call'[u] = call[u]
                              \/ call[u].pc = "idle" /\ call'[u].pc = "readOld"
    PROVE  ExactInv'
<1> SUFFICES ASSUME faults = 0
             PROVE  ExactInv'
  BY DEF ExactInv
<1>1. \A d : EntriesOf(d)' = EntriesOf(d)
  BY DEF EntriesOf
<1>2. \A u \in Callers : Updating(u)' = Updating(u) /\ (Updating(u) => call'[u] = call[u])
  BY DEF Updating
<1>3. ASSUME NEW d \in Contracts, \A u \in Callers : call'[u].contract = d => ~Updating(u)'
      PROVE  EntriesOf(d)' = EntryFor(d, states[d])'
  <2>1. \A u \in Callers : call[u].contract = d => ~Updating(u)
    BY <1>2, <1>3
  <2>2. EntriesOf(d) = EntryFor(d, states[d])
    BY <2>1 DEF ExactInv
  <2> QED
    BY <1>1, <2>2 DEF EntryFor
<1>4. ASSUME NEW u \in Callers, NEW d, d = call'[u].contract
      PROVE  /\ call'[u].pc = "insert" => call'[u].old = states'[d]
             /\ call'[u].pc = "unindex" => EntriesOf(d)' = EntryFor(d, call'[u].old)
             /\ call'[u].pc = "reindex" => EntriesOf(d)' = {}
             /\ Updating(u)' => call'[u].new = states'[d]
  <2>1. CASE call'[u] = call[u]
    BY <1>1, <1>2, <1>4, <2>1 DEF ExactInv
  <2>2. CASE call'[u].pc = "readOld"
    BY <2>2 DEF Updating
  <2> QED
    BY <2>1, <2>2
<1> QED
  BY <1>3, <1>4 DEF ExactInv

LEMMA ExactStepOK ==
    ASSUME SoleDrivers, IInv, CallersDrive, ExactInv, [Next]_vars
    PROVE  ExactInv'
<1>0. faults \in Nat /\ call \in [Callers -> Call]
  BY DEF IInv, HistoryInv, CallsInv
<1>a. ASSUME faults' = faults + 1
      PROVE  ExactInv'
  <2>1. faults' # 0
    BY <1>0, <1>a
  <2> QED
    BY <2>1 DEF ExactInv
<1>1. CASE UNCHANGED <<states, index, faults, call>>
  BY <1>1, QuietStepExact
<1>2. ASSUME NEW t \in Callers, StartCall(t)
      PROVE  ExactInv'
  <2>1. PICK c, rec : StartSave(t, c, rec)
    BY <1>2 DEF StartCall, CreateOffer, AcceptOffer, SignContract, ConfirmFunding, Settle,
                Refund, Fail, Delete
  <2> DEFINE r == [pc |-> "readOld", contract |-> c, old |-> Absent(0),
                   new |-> [rec EXCEPT !.ver = 0]]
  <2>2. /\ call' = [call EXCEPT ![t] = r] /\ r.pc = "readOld" /\ call[t].pc = "idle"
        /\ UNCHANGED <<states, index, faults>>
    BY <2>1 DEF StartSave, treeVars, Idle
  <2> HIDE DEF r
  <2> QED
    BY <1>0, <2>2, QuietStepExact
<1>3. CASE \E t \in Callers : SaveStep(t)
  BY <1>3, SaveStepExact
<1>4. CASE \E t \in Callers : IoError(t)
  BY <1>4, <1>a DEF IoError
<1>5. CASE Crash
  BY <1>5, <1>a DEF Crash
<1> QED
  BY <1>1, <1>2, <1>3, <1>4, <1>5
     DEF Next, vars, storageVars, Persist, ListSigned, ListConfirmed, ListDone

\* update_index (storage.rs) keeps the index exact: for any contracts, as long
\* as each has one driver and no fault occurred, a contract nobody is saving is
\* listed under the name of its current state and nowhere else.
THEOREM IndexMatches ==
    ASSUME SoleDrivers
    PROVE  Spec => []IndexExact
<1>1. ExactInv => IndexExact
  <2> SUFFICES ASSUME ExactInv, faults = 0, NEW c \in Contracts,
                      \A t \in Callers : Idle(t) \/ call[t].contract # c
               PROVE  EntriesOf(c) = EntryFor(c, states[c])
    BY DEF IndexExact, EntriesOf, EntryFor
  <2>1. \A t \in Callers : call[t].contract = c => ~Updating(t)
    BY DEF Idle, Updating
  <2> QED
    BY <2>1 DEF ExactInv
<1>2. IInv /\ CallersDrive /\ ExactInv /\ [Next]_vars => CallersDrive' /\ ExactInv'
  BY DriveOK, ExactStepOK
<1> QED
  BY <1>1, <1>2, ExactInitOK, Invariance, PTL DEF Spec

-----------------------------------------------------------------------------
(* The index, with faults: never ahead of the states.  In the log the puts *)
(* of a contract rise in rank from what is on disk to what get() sees, and *)
(* an index entry in it comes after a put of its rank (Rises): whatever    *)
(* prefix of the log a crash keeps, no entry is ahead.                     *)

RankOf(rec) == Rank[rec.status]

\* The positions of the index entries that are added for contract c.
Adds(log, c) == {i \in 1..Len(log) : log[i].kind = "index" /\ log[i].contract = c}

Rises(log, c, bottom, top) ==
    /\ bottom <= top
    /\ \A i \in Puts(log, c) : bottom <= RankOf(log[i].rec) /\ RankOf(log[i].rec) <= top
    /\ \A i, j \in Puts(log, c) : i < j => RankOf(log[i].rec) <= RankOf(log[j].rec)
    /\ bottom = top \/ \E i \in Puts(log, c) : RankOf(log[i].rec) = top
    /\ \A i \in Adds(log, c) :
          \/ RankOf(log[i].rec) <= bottom
          \/ \E j \in Puts(log, c) : j < i /\ RankOf(log[i].rec) <= RankOf(log[j].rec)

LogRises == \A c \in Contracts : Rises(wal, c, RankOf(diskStates[c]), RankOf(states[c]))

\* The entries of an index, against the states of a tree.
Behind(entries, tree) ==
    \A s \in StateName, c \in Contracts : <<s, c>> \in entries => Rank[s] <= RankOf(tree[c])

AheadInv ==
    /\ LogRises
    /\ Behind(index, states)
    /\ Behind(diskIndex, diskStates)
    /\ \A t \in Callers : Updating(t) => RankOf(call[t].new) <= RankOf(states[call[t].contract])

-----------------------------------------------------------------------------
LEMMA RankFacts ==
    /\ \A s \in StateName \cup {"None"} : Rank[s] \in Nat
    /\ \A r \in DlcState : RankOf(r) \in Nat
<1>1. \A s \in StateName \cup {"None"} : Rank[s] \in Nat
  BY DEF Rank, StateName
<1> QED
  BY <1>1 DEF RankOf, DlcState

\* The protocol only moves up in rank.
LEMMA MovesRise ==
    ASSUME NEW a \in DlcState, NEW b \in DlcState, Moves(a, b)
    PROVE  RankOf(a) <= RankOf(b)
  BY DEF Moves, RankOf, Rank, DlcState, StateName

LEMMA RanksInLog ==
    ASSUME NEW log \in Seq(Write)
    PROVE  \A i \in 1..Len(log) : RankOf(log[i].rec) \in Nat
<1>1. \A i \in 1..Len(log) : log[i] \in Write
  OBVIOUS
<1>2. \A i \in 1..Len(log) : log[i].rec \in DlcState
  BY <1>1 DEF Write
<1> QED
  BY <1>2, RankFacts

LEMMA RisesByPut ==
    ASSUME NEW log \in Seq(Write), NEW w \in Write, NEW bottom \in Nat, NEW top \in Nat,
           w.kind = "put", top <= RankOf(w.rec), Rises(log, w.contract, bottom, top)
    PROVE  Rises(Append(log, w), w.contract, bottom, RankOf(w.rec))
<1> DEFINE n == Len(log) + 1
           new == Append(log, w)
           c == w.contract
           rank(i) == RankOf(new[i].rec)
<1>1. Puts(new, c) = Puts(log, c) \cup {n} /\ Adds(new, c) = Adds(log, c)
  BY AppendFacts DEF Puts, Adds
<1>2. /\ n \in Nat /\ rank(n) = RankOf(w.rec) /\ rank(n) \in Nat
      /\ \A i \in Puts(log, c) \cup Adds(log, c) :
            i \in Nat /\ i < n /\ rank(i) = RankOf(log[i].rec) /\ rank(i) \in Nat
  <2>1. n \in Nat /\ new[n] = w /\ w.rec \in DlcState
    BY AppendFacts DEF Write
  <2>2. \A i \in Puts(log, c) \cup Adds(log, c) :
           /\ i \in 1..Len(log) /\ i < n /\ new[i] = log[i]
    BY AppendFacts DEF Puts, Adds
  <2> HIDE DEF n, new
  <2> QED
    BY <2>1, <2>2, RanksInLog, RankFacts
<1>3. /\ bottom <= top
      /\ \A i \in Puts(log, c) : bottom <= rank(i) /\ rank(i) <= top
      /\ \A i, j \in Puts(log, c) : i < j => rank(i) <= rank(j)
      /\ \A i \in Adds(log, c) : \/ rank(i) <= bottom
                                 \/ \E j \in Puts(log, c) : j < i /\ rank(i) <= rank(j)
  BY <1>2 DEF Rises
<1>4. top <= rank(n)
  BY <1>2
<1> HIDE DEF n, rank
<1>5. /\ bottom <= rank(n)
      /\ \A i \in Puts(new, c) : bottom <= rank(i) /\ rank(i) <= rank(n)
      /\ \A i, j \in Puts(new, c) : i < j => rank(i) <= rank(j)
      /\ \E i \in Puts(new, c) : rank(i) = rank(n)
  BY <1>1, <1>2, <1>3, <1>4
<1>6. \A i \in Adds(new, c) : \/ rank(i) <= bottom
                              \/ \E j \in Puts(new, c) : j < i /\ rank(i) <= rank(j)
  BY <1>1, <1>3
<1> QED
  BY <1>2, <1>5, <1>6 DEF Rises, rank

\* An entry of a rank that was reached, added after it was reached.
LEMMA RisesByAdd ==
    ASSUME NEW log \in Seq(Write), NEW w \in Write, NEW bottom \in Nat, NEW top \in Nat,
           w.kind = "index", RankOf(w.rec) <= top, Rises(log, w.contract, bottom, top)
    PROVE  Rises(Append(log, w), w.contract, bottom, top)
<1> DEFINE n == Len(log) + 1
           new == Append(log, w)
           c == w.contract
           rank(i) == RankOf(new[i].rec)
<1>1. Puts(new, c) = Puts(log, c) /\ Adds(new, c) = Adds(log, c) \cup {n}
  BY AppendFacts DEF Puts, Adds
<1>2. /\ n \in Nat /\ rank(n) = RankOf(w.rec)
      /\ \A i \in Puts(log, c) \cup Adds(log, c) : i \in Nat /\ i < n /\ rank(i) = RankOf(log[i].rec)
  BY AppendFacts DEF Puts, Adds
<1>3. /\ bottom <= top
      /\ \A i \in Puts(log, c) : bottom <= rank(i) /\ rank(i) <= top
      /\ \A i, j \in Puts(log, c) : i < j => rank(i) <= rank(j)
      /\ bottom = top \/ \E i \in Puts(log, c) : rank(i) = top
      /\ \A i \in Adds(log, c) : \/ rank(i) <= bottom
                                 \/ \E j \in Puts(log, c) : j < i /\ rank(i) <= rank(j)
  BY <1>2 DEF Rises
<1>4. rank(n) <= top
  BY <1>2
<1> HIDE DEF n, rank
<1>5. \A i \in Adds(new, c) : \/ rank(i) <= bottom
                              \/ \E j \in Puts(new, c) : j < i /\ rank(i) <= rank(j)
  BY <1>1, <1>2, <1>3, <1>4
<1> QED
  BY <1>1, <1>3, <1>5 DEF Rises, rank

\* A removal, or a write of another contract.
LEMMA RisesByOther ==
    ASSUME NEW log \in Seq(Write), NEW w \in Write, NEW bottom, NEW top, NEW c,
           w.kind = "unindex" \/ w.contract # c, Rises(log, c, bottom, top)
    PROVE  Rises(Append(log, w), c, bottom, top)
<1> DEFINE new == Append(log, w)
<1>1. Puts(new, c) = Puts(log, c) /\ Adds(new, c) = Adds(log, c)
  BY AppendFacts DEF Puts, Adds
<1>2. \A i \in Puts(log, c) \cup Adds(log, c) : new[i] = log[i]
  BY AppendFacts DEF Puts, Adds
<1> HIDE DEF new
<1>3. Rises(new, c, bottom, top)
  BY <1>1, <1>2 DEF Rises
<1> QED
  BY <1>3 DEF new

\* Without its oldest write, the log starts at what that write leaves; an entry
\* that comes first has the rank of the state on disk at most.
LEMMA RisesByTail ==
    ASSUME NEW log \in Seq(Write), log # <<>>, NEW bottom \in Nat, NEW top \in Nat,
           NEW c, Rises(log, c, bottom, top)
    PROVE  /\ Rises(Tail(log), c, IF 1 \in Puts(log, c) THEN RankOf(log[1].rec) ELSE bottom, top)
           /\ 1 \in Puts(log, c) => bottom <= RankOf(log[1].rec)
           /\ 1 \in Adds(log, c) => RankOf(log[1].rec) <= bottom
<1> DEFINE base == IF 1 \in Puts(log, c) THEN RankOf(log[1].rec) ELSE bottom
           rest == Tail(log)
           rank(i) == RankOf(log[i].rec)
<1>1. /\ Len(log) \in Nat \ {0} /\ Len(rest) = Len(log) - 1
      /\ \A i \in 1..Len(rest) : rest[i] = log[i + 1]
  OBVIOUS
<1>2. \A i \in Puts(rest, c) : i \in Nat \ {0} /\ i + 1 \in Puts(log, c) /\ RankOf(rest[i].rec) = rank(i + 1)
  BY <1>1 DEF Puts
<1>3. \A i \in Adds(rest, c) : i \in Nat \ {0} /\ i + 1 \in Adds(log, c) /\ RankOf(rest[i].rec) = rank(i + 1)
  BY <1>1 DEF Adds
<1>4. \A i \in Puts(log, c) : i \in Nat \ {0} /\ (i # 1 => i - 1 \in Puts(rest, c))
  BY <1>1 DEF Puts
<1>5. \A i \in Puts(log, c) \cup Adds(log, c) : rank(i) \in Nat
  BY RanksInLog DEF Puts, Adds
<1>6. /\ bottom <= top
      /\ \A i \in Puts(log, c) : bottom <= rank(i) /\ rank(i) <= top
      /\ \A i, j \in Puts(log, c) : i < j => rank(i) <= rank(j)
      /\ bottom = top \/ \E i \in Puts(log, c) : rank(i) = top
      /\ \A i \in Adds(log, c) : \/ rank(i) <= bottom
                                 \/ \E j \in Puts(log, c) : j < i /\ rank(i) <= rank(j)
  BY DEF Rises
<1>7. base = IF 1 \in Puts(log, c) THEN rank(1) ELSE bottom
  OBVIOUS
<1> HIDE DEF base, rest, rank
<1>8. base \in Nat /\ bottom <= base /\ base <= top
  BY <1>5, <1>6, <1>7
<1>9. \A i \in Puts(rest, c) : base <= rank(i + 1) /\ rank(i + 1) <= top
  <2> TAKE i \in Puts(rest, c)
  <2>1. i + 1 \in Puts(log, c) /\ 1 < i + 1
    BY <1>2
  <2> QED
    BY <1>6, <1>7, <2>1
<1>10. \A i, j \in Puts(rest, c) : i < j => rank(i + 1) <= rank(j + 1)
  <2> TAKE i, j \in Puts(rest, c)
  <2>1. i + 1 \in Puts(log, c) /\ j + 1 \in Puts(log, c) /\ (i < j => i + 1 < j + 1)
    BY <1>2
  <2> QED
    BY <1>6, <2>1
<1>11. base = top \/ \E i \in Puts(rest, c) : rank(i + 1) = top
  <2>1. CASE bottom = top
    BY <1>8, <2>1
  <2>2. CASE \E i \in Puts(log, c) : rank(i) = top
    <3> PICK i \in Puts(log, c) : rank(i) = top
      BY <2>2
    <3>1. CASE i = 1
      BY <1>7, <3>1
    <3>2. CASE i # 1
      <4>1. i - 1 \in Puts(rest, c) /\ (i - 1) + 1 = i
        BY <1>4, <3>2
      <4> QED
        BY <4>1
    <3> QED
      BY <3>1, <3>2
  <2> QED
    BY <1>6, <2>1, <2>2
<1>12. ASSUME NEW i \in Adds(rest, c)
       PROVE  \/ rank(i + 1) <= base
              \/ \E j \in Puts(rest, c) : j < i /\ rank(i + 1) <= rank(j + 1)
  <2>1. i \in Nat \ {0} /\ i + 1 \in Adds(log, c) /\ rank(i + 1) \in Nat
    BY <1>3, <1>5
  <2>2. CASE rank(i + 1) <= bottom
    BY <1>8, <2>1, <2>2
  <2>3. CASE \E j \in Puts(log, c) : j < i + 1 /\ rank(i + 1) <= rank(j)
    <3> PICK j \in Puts(log, c) : j < i + 1 /\ rank(i + 1) <= rank(j)
      BY <2>3
    <3>1. CASE j = 1
      BY <1>7, <3>1
    <3>2. CASE j # 1
      <4>1. j - 1 \in Puts(rest, c) /\ (j - 1) + 1 = j /\ j - 1 < i
        BY <1>4, <2>1, <3>2
      <4> QED
        BY <4>1
    <3> QED
      BY <3>1, <3>2
  <2> QED
    BY <1>6, <2>1, <2>2, <2>3
<1>13. Rises(rest, c, base, top)
  <2>1. /\ \A i \in Puts(rest, c) : RankOf(rest[i].rec) = rank(i + 1)
        /\ \A i \in Adds(rest, c) : RankOf(rest[i].rec) = rank(i + 1)
    BY <1>2, <1>3
  <2> QED
    BY <1>8, <1>9, <1>10, <1>11, <1>12, <2>1 DEF Rises
<1>14. 1 \in Puts(log, c) => bottom <= rank(1)
  BY <1>6
<1>15. 1 \in Adds(log, c) => rank(1) <= bottom
  BY <1>4, <1>6
<1> QED
  BY <1>13, <1>14, <1>15 DEF base, rest, rank

-----------------------------------------------------------------------------
LEMMA AheadInitOK == Init => AheadInv
<1> SUFFICES ASSUME Init
             PROVE  AheadInv
  OBVIOUS
<1>1. /\ index = {} /\ diskIndex = {} /\ wal = <<>> /\ diskStates = states
      /\ \A t \in Callers : call[t].pc = "idle"
      /\ states \in [Contracts -> DlcState]
  BY InitOK DEF Init, StorageInit, IdleCall, IInv, TreesInv
<1>2. LogRises
  <2> SUFFICES ASSUME NEW c \in Contracts
               PROVE  Rises(wal, c, RankOf(diskStates[c]), RankOf(states[c]))
    BY DEF LogRises
  <2>1. RankOf(states[c]) \in Nat
    BY <1>1, RankFacts
  <2>2. Puts(<<>>, c) = {} /\ Adds(<<>>, c) = {}
    BY NoPuts DEF Adds
  <2> QED
    BY <1>1, <2>1, <2>2 DEF Rises
<1> QED
  BY <1>1, <1>2 DEF AheadInv, Behind, Updating

\* One write: a put goes up, an added entry has a rank that was reached.
LEMMA ApplyRises ==
    ASSUME IInv, AheadInv, NEW w \in Write, Apply(w),
           w.kind = "put" => RankOf(states[w.contract]) <= RankOf(w.rec),
           w.kind = "index" => RankOf(w.rec) <= RankOf(states[w.contract])
    PROVE  /\ LogRises' /\ Behind(index, states)' /\ Behind(diskIndex, diskStates)'
           /\ \A c \in Contracts : RankOf(states[c]) <= RankOf(states'[c])
<1>1. /\ wal \in Seq(Write) /\ wal' = Append(wal, w) /\ UNCHANGED <<diskStates, diskIndex>>
      /\ states \in [Contracts -> DlcState] /\ diskStates \in [Contracts -> DlcState]
      /\ states' = StatesAfter(states, w) /\ index' = IndexAfter(index, w)
  BY DEF Apply, IInv, TreesInv
<1>2. w.contract \in Contracts /\ w.rec \in DlcState /\ w.kind \in {"put", "unindex", "index"}
  BY DEF Write
<1>3. /\ \A c \in Contracts : RankOf(states[c]) \in Nat /\ RankOf(diskStates[c]) \in Nat
      /\ RankOf(w.rec) \in Nat /\ \A s \in StateName : Rank[s] \in Nat
  BY <1>1, <1>2, RankFacts
<1>4. \A c \in Contracts :
         states'[c] = IF w.kind = "put" /\ c = w.contract THEN w.rec ELSE states[c]
  BY <1>1, <1>2 DEF StatesAfter
<1>5. \A c \in Contracts : RankOf(states[c]) <= RankOf(states'[c])
  BY <1>3, <1>4
<1>6. LogRises'
  <2> SUFFICES ASSUME NEW c \in Contracts
               PROVE  Rises(wal', c, RankOf(diskStates'[c]), RankOf(states'[c]))
    BY DEF LogRises, RankOf
  <2> DEFINE bottom == RankOf(diskStates[c])
             top == RankOf(states[c])
  <2>1. Rises(wal, c, bottom, top) /\ bottom \in Nat /\ top \in Nat
    BY <1>3 DEF AheadInv, LogRises
  <2>2. CASE w.kind = "put" /\ c = w.contract
    <3>1. Rises(Append(wal, w), w.contract, bottom, RankOf(w.rec))
      <4> HIDE DEF bottom
      <4> QED
        BY <1>1, <2>1, <2>2, RisesByPut
    <3> QED
      BY <1>1, <1>4, <2>2, <3>1
  <2>3. CASE w.kind = "index" /\ c = w.contract
    <3>1. Rises(Append(wal, w), w.contract, bottom, top)
      BY <1>1, <2>1, <2>3, RisesByAdd
    <3> QED
      BY <1>1, <1>4, <2>3, <3>1
  <2>4. CASE w.kind = "unindex" \/ c # w.contract
    <3>1. Rises(Append(wal, w), c, bottom, top)
      BY <1>1, <2>1, <2>4, RisesByOther
    <3> QED
      BY <1>1, <1>4, <2>4, <3>1
  <2> QED
    BY <1>2, <2>2, <2>3, <2>4
<1>7. Behind(index, states)'
  <2> SUFFICES ASSUME NEW s \in StateName, NEW c \in Contracts, <<s, c>> \in index'
               PROVE  Rank[s] <= RankOf(states'[c])
    BY DEF Behind, RankOf, Rank
  <2>1. CASE <<s, c>> \in index
    <3>1. Rank[s] <= RankOf(states[c])
      BY <2>1 DEF AheadInv, Behind
    <3>2. RankOf(states'[c]) \in Nat
      BY <1>3, <1>4
    <3> QED
      BY <1>3, <1>5, <3>1, <3>2
  <2>2. CASE <<s, c>> \notin index
    <3>1. w.kind = "index" /\ s = w.rec.status /\ c = w.contract
      BY <1>1, <1>2, <2>2 DEF IndexAfter
    <3> QED
      BY <1>4, <3>1 DEF RankOf
  <2> QED
    BY <2>1, <2>2
<1>8. Behind(diskIndex, diskStates)'
  BY <1>1 DEF AheadInv, Behind, RankOf
<1> QED
  BY <1>5, <1>6, <1>7, <1>8

\* A step that touches neither tree, and starts no update of the index.
LEMMA QuietStepAhead ==
    ASSUME AheadInv, UNCHANGED treeVars,
           \A u \in Callers : Updating(u)' => call'[u] = call[u]
    PROVE  AheadInv'
<1>1. LogRises' /\ Behind(index, states)' /\ Behind(diskIndex, diskStates)'
  BY DEF treeVars, AheadInv, LogRises, Behind, RankOf
<1>2. ASSUME NEW u \in Callers, Updating(u)'
      PROVE  RankOf(call'[u].new) <= RankOf(states'[call'[u].contract])
  <2>1. call'[u] = call[u] /\ Updating(u)
    BY <1>2 DEF Updating
  <2> QED
    BY <2>1 DEF treeVars, AheadInv
<1> QED
  BY <1>1, <1>2 DEF AheadInv, RankOf

\* The steps of a save.
LEMMA SaveStepAhead ==
    ASSUME IInv, RInv, AheadInv, NEW t \in Callers, SaveStep(t)
    PROVE  AheadInv'
<1>0. /\ call[t] \in Call /\ call[t].old \in DlcState /\ call[t].new \in DlcState
      /\ call \in [Callers -> Call] /\ states \in [Contracts -> DlcState]
      /\ \A u \in Callers : call[u].contract \in Contracts /\ call[u].new \in DlcState
  BY DEF IInv, CallsInv, TreesInv, Call
<1> PICK c \in Contracts : c = call[t].contract
  BY <1>0
<1>1. /\ \A d \in Contracts : RankOf(states[d]) \in Nat
      /\ \A u \in Callers : RankOf(call[u].new) \in Nat
  BY <1>0, RankFacts
\* What is left to show of a write of t.
<1>a. ASSUME NEW w \in Write, Apply(w),
             w.kind = "put" => RankOf(states[w.contract]) <= RankOf(w.rec),
             w.kind = "index" => RankOf(w.rec) <= RankOf(states[w.contract]),
             \A u \in Callers \ {t} : call'[u] = call[u],
             call'[t].contract = c,
             Updating(t)' => RankOf(call'[t].new) <= RankOf(states'[c])
      PROVE  AheadInv'
  <2>1. /\ LogRises' /\ Behind(index, states)' /\ Behind(diskIndex, diskStates)'
        /\ \A d \in Contracts : RankOf(states[d]) <= RankOf(states'[d])
    BY <1>a, ApplyRises
  <2>2. states' \in [Contracts -> DlcState]
    BY <1>0, <1>a DEF Apply, StatesAfter, Write
  <2>3. \A d \in Contracts : RankOf(states'[d]) \in Nat
    BY <2>2, RankFacts
  <2>4. ASSUME NEW u \in Callers, Updating(u)'
        PROVE  RankOf(call'[u].new) <= RankOf(states'[call'[u].contract])
    <3>1. CASE u = t
      BY <1>a, <2>4, <3>1
    <3>2. CASE u # t
      <4>1. call'[u] = call[u] /\ Updating(u)
        BY <1>a, <2>4, <3>2 DEF Updating
      <4>2. RankOf(call[u].new) <= RankOf(states[call[u].contract])
        BY <4>1 DEF AheadInv
      <4> QED
        BY <1>0, <1>1, <2>1, <2>3, <4>1, <4>2
    <3> QED
      BY <3>1, <3>2
  <2> QED
    BY <2>1, <2>4 DEF AheadInv, RankOf
<1>2. CASE ReadOld(t)
  <2>1. UNCHANGED treeVars
    BY <1>2 DEF ReadOld
  <2>2. call'[t].pc = "insert" /\ \A u \in Callers \ {t} : call'[u] = call[u]
    BY <1>2, StepFacts
  <2> QED
    BY <2>1, <2>2, QuietStepAhead DEF Updating
<1>3. CASE InsertState(t)
  <2> PICK rec \in DlcState : rec = call'[t].new
    BY <1>3, InsertFacts
  <2> DEFINE w == [kind |-> "put", contract |-> c, rec |-> rec]
  <2>1. /\ \A u \in Callers \ {t} : call'[u] = call[u]
        /\ call[t].pc = "insert" /\ call'[t].contract = c
        /\ rec.status = call[t].new.status
        /\ Apply(w) /\ states' = [states EXCEPT ![c] = rec]
    BY <1>0, <1>3, InsertFacts
  <2>2. w \in Write /\ w.kind = "put" /\ w.contract = c /\ w.rec = rec
    BY DEF Write
  <2>3. RankOf(states[c]) <= RankOf(rec)
    <3>1. Moves(states[c], call[t].new)
      BY <2>1 DEF RInv, DrivenInv
    <3>2. RankOf(rec) = RankOf(call[t].new)
      BY <2>1 DEF RankOf
    <3> QED
      BY <1>0, <3>1, <3>2, MovesRise
  <2>4. states'[c] = rec /\ RankOf(rec) \in Nat
    BY <1>0, <2>1, RankFacts
  <2> HIDE DEF w
  <2> QED
    BY <1>a, <2>1, <2>2, <2>3, <2>4
<1>4. CASE RemoveOldIndex(t)
  <2> PICK old \in DlcState : old = call[t].old
    BY <1>0
  <2> DEFINE w == [kind |-> "unindex", contract |-> c, rec |-> old]
  <2>1. /\ \A u \in Callers \ {t} : call'[u] = call[u]
        /\ call[t].pc = "unindex" /\ call'[t].contract = c
        /\ call'[t].new = call[t].new /\ UNCHANGED states
    BY <1>4, StepFacts
  <2>2. RankOf(call'[t].new) <= RankOf(states'[c])
    BY <2>1 DEF AheadInv, Updating
  <2>3. CASE Apply(w)
    <3>1. w \in Write /\ w.kind = "unindex"
      BY DEF Write
    <3> HIDE DEF w
    <3> QED
      BY <1>a, <2>1, <2>2, <2>3, <3>1
  <2>4. CASE UNCHANGED treeVars
    <3>1. LogRises' /\ Behind(index, states)' /\ Behind(diskIndex, diskStates)'
      BY <2>4 DEF treeVars, AheadInv, LogRises, Behind, RankOf
    <3>2. ASSUME NEW u \in Callers, Updating(u)'
          PROVE  RankOf(call'[u].new) <= RankOf(states'[call'[u].contract])
      <4>1. CASE u = t
        BY <2>1, <2>2, <4>1
      <4>2. CASE u # t
        BY <2>1, <3>2, <4>2 DEF Updating, AheadInv
      <4> QED
        BY <4>1, <4>2
    <3> QED
      BY <3>1, <3>2 DEF AheadInv, RankOf
  <2> QED
    BY <1>4, <2>3, <2>4 DEF RemoveOldIndex
<1>5. CASE AddNewIndex(t)
  <2> PICK new \in DlcState : new = call[t].new
    BY <1>0
  <2> DEFINE w == [kind |-> "index", contract |-> c, rec |-> new]
  <2>1. /\ \A u \in Callers \ {t} : call'[u] = call[u]
        /\ call[t].pc = "reindex" /\ call'[t].pc = "flush" /\ call'[t].contract = c
    BY <1>5, StepFacts
  <2>2. RankOf(new) <= RankOf(states[c]) /\ ~Updating(t)'
    BY <2>1 DEF AheadInv, Updating
  <2>3. CASE Apply(w)
    <3>1. w \in Write /\ w.kind = "index" /\ w.contract = c /\ w.rec = new
      BY DEF Write
    <3> HIDE DEF w
    <3> QED
      BY <1>a, <2>1, <2>2, <2>3, <3>1
  <2>4. CASE UNCHANGED treeVars
    BY <2>1, <2>2, <2>4, QuietStepAhead
  <2> QED
    BY <1>5, <2>3, <2>4 DEF AddNewIndex
<1>6. CASE Flush(t)
  <2>1. UNCHANGED treeVars /\ call' = [call EXCEPT ![t] = IdleCall] /\ IdleCall.pc = "idle"
    BY <1>6 DEF Flush, IdleCall
  <2>2. call'[t].pc = "idle" /\ \A u \in Callers \ {t} : call'[u] = call[u]
    BY <1>0, <2>1
  <2> QED
    BY <2>1, <2>2, QuietStepAhead DEF Updating
<1> QED
  BY <1>2, <1>3, <1>4, <1>5, <1>6 DEF SaveStep

\* Persist: the oldest write reaches the disk.
LEMMA PersistAhead ==
    ASSUME IInv, AheadInv, Persist
    PROVE  AheadInv'
<1> PICK w \in Write : w = wal[1]
  BY DEF Persist, IInv, TreesInv
<1>1. /\ wal \in Seq(Write) /\ wal # <<>> /\ wal' = Tail(wal) /\ 1 \in 1..Len(wal)
      /\ UNCHANGED <<states, index, call>>
      /\ diskStates' = StatesAfter(diskStates, w) /\ diskIndex' = IndexAfter(diskIndex, w)
      /\ states \in [Contracts -> DlcState] /\ diskStates \in [Contracts -> DlcState]
  BY DEF Persist, IInv, TreesInv
<1>2. w.contract \in Contracts /\ w.rec \in DlcState /\ w.kind \in {"put", "unindex", "index"}
  BY DEF Write
<1>3. /\ \A c \in Contracts : RankOf(states[c]) \in Nat /\ RankOf(diskStates[c]) \in Nat
      /\ RankOf(w.rec) \in Nat /\ \A s \in StateName : Rank[s] \in Nat
  BY <1>1, <1>2, RankFacts
<1>4. \A c \in Contracts :
         /\ 1 \in Puts(wal, c) <=> w.kind = "put" /\ w.contract = c
         /\ 1 \in Adds(wal, c) <=> w.kind = "index" /\ w.contract = c
  BY <1>1 DEF Puts, Adds
<1>5. \A c \in Contracts :
         diskStates'[c] = IF 1 \in Puts(wal, c) THEN w.rec ELSE diskStates[c]
  BY <1>1, <1>2, <1>4 DEF StatesAfter
<1>6. \A c \in Contracts :
         /\ Rises(Tail(wal), c, IF 1 \in Puts(wal, c) THEN RankOf(w.rec) ELSE RankOf(diskStates[c]),
                  RankOf(states[c]))
         /\ 1 \in Puts(wal, c) => RankOf(diskStates[c]) <= RankOf(w.rec)
         /\ 1 \in Adds(wal, c) => RankOf(w.rec) <= RankOf(diskStates[c])
  <2> TAKE c \in Contracts
  <2> DEFINE bottom == RankOf(diskStates[c])
             top == RankOf(states[c])
  <2>1. Rises(wal, c, bottom, top) /\ bottom \in Nat /\ top \in Nat
    BY <1>3 DEF AheadInv, LogRises
  <2> HIDE DEF bottom, top
  <2>2. /\ Rises(Tail(wal), c, IF 1 \in Puts(wal, c) THEN RankOf(wal[1].rec) ELSE bottom, top)
        /\ 1 \in Puts(wal, c) => bottom <= RankOf(wal[1].rec)
        /\ 1 \in Adds(wal, c) => RankOf(wal[1].rec) <= bottom
    BY <1>1, <2>1, RisesByTail
  <2> QED
    BY <2>2 DEF bottom, top
<1>7. LogRises'
  <2> SUFFICES ASSUME NEW c \in Contracts
               PROVE  Rises(wal', c, RankOf(diskStates'[c]), RankOf(states'[c]))
    BY DEF LogRises, RankOf
  <2>1. RankOf(diskStates'[c]) =
            IF 1 \in Puts(wal, c) THEN RankOf(w.rec) ELSE RankOf(diskStates[c])
    BY <1>5
  <2> QED
    BY <1>1, <1>6, <2>1
<1>8. Behind(diskIndex, diskStates)'
  <2> SUFFICES ASSUME NEW s \in StateName, NEW c \in Contracts, <<s, c>> \in diskIndex'
               PROVE  Rank[s] <= RankOf(diskStates'[c])
    BY DEF Behind, RankOf, Rank
  <2>1. CASE <<s, c>> \in diskIndex
    <3>1. Rank[s] <= RankOf(diskStates[c])
      BY <2>1 DEF AheadInv, Behind
    <3> QED
      BY <1>3, <1>5, <1>6, <3>1
  <2>2. CASE <<s, c>> \notin diskIndex
    <3>1. w.kind = "index" /\ s = w.rec.status /\ c = w.contract
      BY <1>1, <1>2, <2>2 DEF IndexAfter
    <3>2. Rank[s] = RankOf(w.rec)
      BY <3>1 DEF RankOf
    <3> QED
      BY <1>4, <1>5, <1>6, <3>1, <3>2
  <2> QED
    BY <2>1, <2>2
<1>9. Behind(index, states)'
  BY <1>1 DEF AheadInv, Behind, RankOf
<1>10. \A t \in Callers : Updating(t)' => RankOf(call'[t].new) <= RankOf(states'[call'[t].contract])
  BY <1>1 DEF AheadInv, Updating
<1> QED
  BY <1>7, <1>8, <1>9, <1>10 DEF AheadInv, RankOf

LEMMA AheadStepOK ==
    ASSUME IInv, RInv, AheadInv, [Next]_vars
    PROVE  AheadInv'
<1>0. call \in [Callers -> Call] /\ IdleCall.pc = "idle"
  BY DEF IInv, CallsInv, IdleCall
<1>1. CASE UNCHANGED <<treeVars, call>>
  BY <1>1, QuietStepAhead
<1>2. ASSUME NEW t \in Callers, StartCall(t)
      PROVE  AheadInv'
  <2>1. PICK c, rec : StartSave(t, c, rec)
    BY <1>2 DEF StartCall, CreateOffer, AcceptOffer, SignContract, ConfirmFunding, Settle,
                Refund, Fail, Delete
  <2> DEFINE r == [pc |-> "readOld", contract |-> c, old |-> Absent(0),
                   new |-> [rec EXCEPT !.ver = 0]]
  <2>2. call' = [call EXCEPT ![t] = r] /\ r.pc = "readOld" /\ UNCHANGED treeVars
    BY <2>1 DEF StartSave
  <2> HIDE DEF r
  <2>3. \A u \in Callers : Updating(u)' => call'[u] = call[u]
    BY <1>0, <2>2 DEF Updating
  <2> QED
    BY <2>2, <2>3, QuietStepAhead
<1>3. CASE \E t \in Callers : SaveStep(t)
  BY <1>3, SaveStepAhead
<1>4. ASSUME NEW t \in Callers, IoError(t)
      PROVE  AheadInv'
  <2>1. UNCHANGED treeVars /\ call' = [call EXCEPT ![t] = IdleCall]
    BY <1>4 DEF IoError
  <2>2. \A u \in Callers : Updating(u)' => call'[u] = call[u]
    BY <1>0, <2>1 DEF Updating
  <2> QED
    BY <2>1, <2>2, QuietStepAhead
<1>5. CASE Persist
  BY <1>5, PersistAhead
<1>6. CASE Crash
  <2>1. /\ wal' = <<>> /\ states' = diskStates /\ index' = diskIndex
        /\ UNCHANGED <<diskStates, diskIndex>> /\ call' = [t \in Callers |-> IdleCall]
        /\ diskStates \in [Contracts -> DlcState]
    BY <1>6 DEF Crash, IInv, TreesInv
  <2>2. Behind(index, states)' /\ Behind(diskIndex, diskStates)'
    BY <2>1 DEF AheadInv, Behind, RankOf
  <2>3. LogRises'
    <3> SUFFICES ASSUME NEW c \in Contracts
                 PROVE  Rises(wal', c, RankOf(diskStates'[c]), RankOf(states'[c]))
      BY DEF LogRises, RankOf
    <3>1. RankOf(diskStates[c]) \in Nat
      BY <2>1, RankFacts
    <3>2. Puts(<<>>, c) = {} /\ Adds(<<>>, c) = {}
      BY NoPuts DEF Adds
    <3>3. Rises(<<>>, c, RankOf(diskStates[c]), RankOf(diskStates[c]))
      BY <3>1, <3>2 DEF Rises
    <3> QED
      BY <2>1, <3>3
  <2>4. \A t \in Callers : ~Updating(t)'
    BY <1>0, <2>1 DEF Updating
  <2> QED
    BY <2>2, <2>3, <2>4 DEF AheadInv
<1> QED
  BY <1>1, <1>2, <1>3, <1>4, <1>5, <1>6
     DEF Next, vars, storageVars, treeVars, ListSigned, ListConfirmed, ListDone

\* The order of the writes of save() (storage.rs: insert, then update_index):
\* for any contracts, as long as each has one driver, who does not delete it,
\* no I/O error and no crash leaves an index entry for a state that the
\* contract has not reached.
THEOREM NeverAhead ==
    ASSUME SoleDrivers, NoDelete
    PROVE  Spec => []IndexNeverAhead
<1>1. IInv /\ AheadInv => IndexNeverAhead
  <2> SUFFICES ASSUME IInv, AheadInv, NEW e \in index
               PROVE  Rank[e[1]] <= Rank[states[e[2]].status]
    BY DEF IndexNeverAhead
  <2>1. PICK s \in StateName, c \in Contracts : e = <<s, c>>
    BY DEF IInv, TreesInv
  <2>2. Rank[s] <= RankOf(states[c])
    BY <2>1 DEF AheadInv, Behind
  <2> QED
    BY <2>1, <2>2 DEF RankOf
<1>2. IInv /\ RInv /\ AheadInv /\ [Next]_vars => RInv' /\ AheadInv'
  BY RStepOK, AheadStepOK
<1> QED
  BY <1>1, <1>2, RInitOK, AheadInitOK, Invariance, PTL DEF Spec

-----------------------------------------------------------------------------
(* The outcome of a contract.  Refinement leaves one way out of it, the    *)
(* step to Failed: only fail() writes it.                                  *)

NoFail == "fail" \notin Ops

NoneFailed ==
    /\ \A c \in Contracts : states[c].status # "Failed" /\ diskStates[c].status # "Failed"
    /\ \A i \in 1..Len(wal) : wal[i].kind = "put" => wal[i].rec.status # "Failed"
    /\ \A t \in Callers : call[t].new.status # "Failed"

LEMMA FailedInitOK == Init => NoneFailed
<1>1. IdleCall.new.status = "None" /\ Absent(0).status = "None"
  BY DEF IdleCall, Absent
<1>2. Init => /\ \A c \in Contracts : states[c] = Absent(0) /\ diskStates[c] = Absent(0)
              /\ wal = <<>> /\ \A t \in Callers : call[t] = IdleCall
  BY DEF Init, StorageInit
<1> QED
  BY <1>1, <1>2 DEF NoneFailed

LEMMA StartCallFailed ==
    ASSUME NoFail, IInv, NoneFailed, NEW t \in Callers, StartCall(t)
    PROVE  NoneFailed'
<1>1. ASSUME NEW c \in Contracts, NEW rec, rec.status # "Failed", rec \in DlcState,
             StartSave(t, c, rec)
      PROVE  NoneFailed'
  <2> DEFINE new == [rec EXCEPT !.ver = 0]
             r == [pc |-> "readOld", contract |-> c, old |-> Absent(0), new |-> new]
  <2>1. new.status # "Failed"
    BY <1>1 DEF DlcState
  <2> HIDE DEF new
  <2>2. r.new = new
    OBVIOUS
  <2>3. call' = [call EXCEPT ![t] = r] /\ UNCHANGED <<states, wal, diskStates>>
    BY <1>1 DEF StartSave, treeVars, new
  <2> HIDE DEF r
  <2> QED
    BY <2>1, <2>2, <2>3 DEF NoneFailed, IInv, CallsInv
<1> PICK c \in Contracts :
        \/ CreateOffer(t, c)
        \/ \E a \in Accepters : AcceptOffer(t, c, a)
        \/ \E s \in ContractSign : SignContract(t, c, s)
        \/ ConfirmFunding(t, c)
        \/ Settle(t, c)
        \/ Refund(t, c)
        \/ Fail(t, c)
        \/ Delete(t, c)
  BY DEF StartCall
<1> DEFINE cur == states[c]
<1>2. cur \in DlcState /\ Absent(0) \in DlcState /\ Absent(0).status = "None"
  BY AbsentOK DEF IInv, TreesInv, Absent
<1>3. CASE CreateOffer(t, c)
  <2> DEFINE rec == [Absent(0) EXCEPT !.status = "Offered"]
  <2>1. rec \in DlcState /\ rec.status = "Offered"
    BY <1>2 DEF DlcState, StateName
  <2> QED
    BY <1>1, <1>3, <2>1 DEF CreateOffer
<1>4. CASE \E a \in Accepters : AcceptOffer(t, c, a)
  <2> PICK a \in Accepters : AcceptOffer(t, c, a)
    BY <1>4
  <2> DEFINE rec == [cur EXCEPT !.status = "Accepted", !.accepter = a]
  <2>1. rec \in DlcState /\ rec.status = "Accepted"
    BY <1>2 DEF DlcState, StateName, Party
  <2> QED
    BY <1>1, <2>1 DEF AcceptOffer
<1>5. CASE \E s \in ContractSign : SignContract(t, c, s)
  <2> PICK s \in ContractSign : SignContract(t, c, s)
    BY <1>5
  <2> DEFINE rec == [cur EXCEPT !.status = "Signed", !.signer = s.signedBy]
  <2>1. rec \in DlcState /\ rec.status = "Signed"
    BY <1>2 DEF ContractSign, DlcState, StateName
  <2> QED
    BY <1>1, <2>1 DEF SignContract
<1>6. CASE ConfirmFunding(t, c)
  <2> DEFINE rec == [cur EXCEPT !.status = "Confirmed", !.funded = TRUE]
  <2>1. rec \in DlcState /\ rec.status = "Confirmed"
    BY <1>2 DEF DlcState, StateName
  <2> QED
    BY <1>1, <1>6, <2>1 DEF ConfirmFunding
<1>7. CASE Settle(t, c)
  <2> DEFINE rec == [cur EXCEPT !.status = "Settled"]
  <2>1. rec \in DlcState /\ rec.status = "Settled"
    BY <1>2 DEF DlcState, StateName
  <2> QED
    BY <1>1, <1>7, <2>1 DEF Settle
<1>8. CASE Refund(t, c)
  <2> DEFINE rec == [cur EXCEPT !.status = "Refunded"]
  <2>1. rec \in DlcState /\ rec.status = "Refunded"
    BY <1>2 DEF DlcState, StateName
  <2> QED
    BY <1>1, <1>8, <2>1 DEF Refund
<1>9. CASE Fail(t, c)
  BY <1>9 DEF Fail, Handler, NoFail
<1>10. CASE Delete(t, c)
  BY <1>1, <1>2, <1>10 DEF Delete
<1> QED
  BY <1>3, <1>4, <1>5, <1>6, <1>7, <1>8, <1>9, <1>10

LEMMA SaveStepFailed ==
    ASSUME IInv, NoneFailed, NEW t \in Callers, SaveStep(t)
    PROVE  NoneFailed'
<1>0. /\ call \in [Callers -> Call] /\ wal \in Seq(Write)
      /\ states \in [Contracts -> DlcState] /\ call[t].contract \in Contracts
      /\ call[t].old \in DlcState /\ call[t].new \in DlcState
  BY DEF IInv, CallsInv, TreesInv, Call
<1>1. CASE InsertState(t)
  <2> DEFINE rec == call'[t].new
             w == [kind |-> "put", contract |-> call[t].contract, rec |-> rec]
  <2>1. /\ \A u \in Callers \ {t} : call'[u] = call[u]
        /\ rec \in DlcState /\ rec.status # "Failed"
        /\ wal' = Append(wal, w) /\ UNCHANGED diskStates
        /\ states' = [states EXCEPT ![call[t].contract] = rec]
    BY <1>1, InsertFacts DEF Apply, NoneFailed
  <2>2. w \in Write /\ w.rec = rec
    BY <1>0, <2>1 DEF Write
  <2> HIDE DEF w
  <2>3. \A i \in 1..Len(wal') : wal'[i].kind = "put" => wal'[i].rec.status # "Failed"
    BY <1>0, <2>1, <2>2, AppendFacts DEF NoneFailed
  <2> QED
    BY <1>0, <2>1, <2>3 DEF NoneFailed
<1>2. CASE ReadOld(t) \/ RemoveOldIndex(t) \/ AddNewIndex(t)
  <2>1. /\ \A u \in Callers : call'[u].new = call[u].new
        /\ UNCHANGED states
    BY <1>2, StepFacts
  <2>2. /\ UNCHANGED diskStates
        /\ \/ UNCHANGED wal
           \/ \E w \in Write : w.kind # "put" /\ wal' = Append(wal, w)
    BY <1>0, <1>2 DEF ReadOld, RemoveOldIndex, AddNewIndex, treeVars, Apply, Write
  <2>3. \A i \in 1..Len(wal') : wal'[i].kind = "put" => wal'[i].rec.status # "Failed"
    BY <1>0, <2>2, AppendFacts DEF NoneFailed
  <2> QED
    BY <2>1, <2>2, <2>3 DEF NoneFailed
<1>3. CASE Flush(t)
  <2>1. UNCHANGED treeVars /\ call' = [call EXCEPT ![t] = IdleCall]
    BY <1>3 DEF Flush
  <2>2. IdleCall.new.status = "None"
    BY DEF IdleCall, Absent
  <2> QED
    BY <1>0, <2>1, <2>2 DEF NoneFailed, treeVars
<1> QED
  BY <1>1, <1>2, <1>3 DEF SaveStep

LEMMA FailedStepOK ==
    ASSUME NoFail, IInv, NoneFailed, [Next]_vars
    PROVE  NoneFailed'
<1>0. /\ call \in [Callers -> Call] /\ wal \in Seq(Write)
      /\ diskStates \in [Contracts -> DlcState]
      /\ IdleCall.new.status = "None"
  BY DEF IInv, CallsInv, TreesInv, IdleCall, Absent
<1>1. CASE UNCHANGED <<states, diskStates, wal, call>>
  BY <1>1 DEF NoneFailed
<1>2. CASE \E t \in Callers : StartCall(t)
  BY <1>2, StartCallFailed
<1>3. CASE \E t \in Callers : SaveStep(t)
  BY <1>3, SaveStepFailed
<1>4. CASE \E t \in Callers : IoError(t)
  BY <1>0, <1>4 DEF IoError, treeVars, NoneFailed
<1>5. CASE Persist
  <2> DEFINE w == Head(wal)
  <2>1. /\ w = wal[1] /\ wal' = Tail(wal) /\ UNCHANGED <<states, call>>
        /\ diskStates' = StatesAfter(diskStates, w)
        /\ 1 \in 1..Len(wal) /\ Len(Tail(wal)) = Len(wal) - 1 /\ Len(wal) \in Nat
        /\ \A i \in 1..Len(Tail(wal)) : i + 1 \in 1..Len(wal) /\ Tail(wal)[i] = wal[i + 1]
    BY <1>0, <1>5 DEF Persist
  <2> HIDE DEF w
  <2>2. \A c \in Contracts : diskStates'[c].status # "Failed"
    BY <1>0, <2>1 DEF StatesAfter, NoneFailed
  <2> QED
    BY <2>1, <2>2 DEF NoneFailed
<1>6. CASE Crash
  <2>1. /\ wal' = <<>> /\ states' = diskStates /\ UNCHANGED diskStates
        /\ call' = [t \in Callers |-> IdleCall]
    BY <1>6 DEF Crash
  <2> QED
    BY <1>0, <2>1 DEF NoneFailed
<1> QED
  BY <1>1, <1>2, <1>3, <1>4, <1>5, <1>6
     DEF Next, vars, storageVars, ListSigned, ListConfirmed, ListDone

\* A settled or refunded contract, once on disk, keeps that outcome.
OutcomeIsFinal ==
    [][\A c \in Contracts :
           diskStates[c].status \in {"Settled", "Refunded"}
           => diskStates'[c].status = diskStates[c].status]_vars

\* "Every transition is validated" (state_machine.rs): for any contracts,
\* through errors and crashes, a settled or refunded contract on disk keeps
\* that outcome, as long as each contract has one driver, who neither deletes
\* it nor fails it.  With a second driver it does not, nor does fail() look at
\* what it overwrites: both assumptions are needed.
THEOREM OutcomeKept ==
    ASSUME SoleDrivers, NoDelete, NoFail
    PROVE  Spec => OutcomeIsFinal
<1> DEFINE Kept == \A c \in Contracts :
               diskStates[c].status \in {"Settled", "Refunded"}
               => diskStates'[c].status = diskStates[c].status
<1>1. ASSUME IInv, NoneFailed', [Lifecycle!Next]_(Lifecycle!vars)
      PROVE  Kept
  <2> DEFINE stage == [c \in Contracts |-> diskStates[c].status]
             next == [c \in Contracts |-> diskStates'[c].status]
  <2>1. \A d \in Contracts : /\ stage[d] = diskStates[d].status
                             /\ next[d] = diskStates'[d].status /\ next[d] # "Failed"
    BY <1>1 DEF NoneFailed
  <2>2. CASE next = stage
    BY <2>1, <2>2
  <2>3. CASE Lifecycle!Next
    <3>1. PICK c \in Contracts, from \in {{"None"}, {"Offered"}, {"Accepted"}, {"Signed"},
                   {"Confirmed"}, {"Signed", "Confirmed"}}, to \in StateName :
            \/ stage[c] \in from /\ next = [stage EXCEPT ![c] = to]
            \/ next = [stage EXCEPT ![c] = "Failed"]
      BY <2>3 DEF Lifecycle!Next, Lifecycle!Move, Lifecycle!Offer, Lifecycle!Accept,
                  Lifecycle!Sign, Lifecycle!Confirm, Lifecycle!Settle, Lifecycle!Refund,
                  Lifecycle!Fail, StateName
    <3>2. next # [stage EXCEPT ![c] = "Failed"]
      BY <2>1
    <3> HIDE DEF stage, next
    <3>3. stage[c] \notin {"Settled", "Refunded"} /\ \A d \in Contracts \ {c} : next[d] = stage[d]
      BY <3>1, <3>2 DEF stage
    <3> QED
      BY <2>1, <3>3
  <2> QED
    BY <1>1, <2>2, <2>3 DEF Lifecycle!vars
<1>2. IInv /\ RInv /\ NoneFailed /\ [Next]_vars => RInv' /\ NoneFailed' /\ Kept
  BY <1>1, RStepOK, FailedStepOK
<1>3. Init => RInv /\ NoneFailed
  BY RInitOK, FailedInitOK
<1> HIDE DEF Kept
<1>4. Spec => [][Kept]_vars
  BY <1>2, <1>3, Invariance, PTL DEF Spec
<1> QED
  BY <1>4 DEF Kept, OutcomeIsFinal

=============================================================================
