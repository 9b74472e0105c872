------------------------------ MODULE Signing -------------------------------
(***************************************************************************)
(* Signer::sign and SigningPolicy (crates/scp-signer: signer.rs, policy.rs)*)
(* A request is validated (rate limit, then amount limits, each under its  *)
(* own read lock), signed by the keystore and only then recorded under the *)
(* write locks.  Tasks share one signer, and time passes between any two   *)
(* of these steps.                                                         *)
(*                                                                         *)
(* The blocked requesters and the operation list never change and are left *)
(* out.  record_sign holds the first of its locks to the end and is one    *)
(* step: nobody who passes the rate check can have seen half of it.        *)
(***************************************************************************)
EXTENDS Naturals, FiniteSets, Functions

CONSTANTS
    Tasks,          \* tasks that share the signer
    Amounts,        \* satoshis of a request; 0 for one without an amount
    MaxPerMinute, MaxPerSign, MaxPerHour,   \* PolicyConfig
    Minute, Hour,   \* 60 and 3600, in ticks of the clock
    MaxTime,        \* bound on the clock
    MaxSigns        \* bound on the signatures in a behaviour

ASSUME TasksAssumption == IsFiniteSet(Tasks) /\ Tasks # {}
ASSUME PolicyAssumption ==
    /\ Amounts \subseteq Nat
    /\ MaxPerMinute \in Nat /\ MaxPerSign \in Nat /\ MaxPerHour \in Nat
    /\ Minute \in Nat /\ Hour \in Nat \ {0}
    /\ MaxTime \in Nat /\ MaxSigns \in Nat

VARIABLES
    clock,
    recent,         \* recent_signs: number and time of the signatures recorded
    hourly,         \* the youngest entry of hourly_amounts, [hour, total]
    call,           \* the request each task is serving
    made            \* history: number and time of every signature made

vars == <<clock, recent, hourly, call, made>>

Sign == [n: Nat, time: Nat]
Call == [pc: {"idle", "checkAmount", "sign", "record"}, amount: Nat, n: Nat]
IdleCall == [pc |-> "idle", amount |-> 0, n |-> 0]

\* Type invariant: the clocks, the windows of recent signatures and the requests in
\* flight keep the types of policy.rs and signer.rs.
TypeOK ==
    /\ clock \in Nat
    /\ recent \subseteq Sign /\ IsFiniteSet(recent)
    /\ hourly \in [hour: Nat, total: Nat]
    /\ call \in [Tasks -> Call]
    /\ made \subseteq Sign /\ IsFiniteSet(made)

Init ==
    /\ clock = 0
    /\ recent = {}
    /\ hourly = [hour |-> 0, total |-> 0]
    /\ call = [t \in Tasks |-> IdleCall]
    /\ made = {}

LastMinute(signs) == {s \in signs : s.time + Minute > clock}

CurrentHour == clock \div Hour
HourTotal == IF hourly.hour = CurrentHour THEN hourly.total ELSE 0

-----------------------------------------------------------------------------
\* validate(), first half; a refused request changes nothing and is no step.
CheckRate(t, amount) ==
    /\ call[t].pc = "idle"
    /\ Cardinality(made) < MaxSigns
    /\ Cardinality(LastMinute(recent)) < MaxPerMinute
    /\ call' = [call EXCEPT ![t] = [pc |-> "checkAmount", amount |-> amount, n |-> 0]]
    /\ UNCHANGED <<clock, recent, hourly, made>>

\* Variant: only the total so far is held against the hourly limit.
AmountAllowedSoFar(amount) ==
    amount = 0 \/ (amount <= MaxPerSign /\ HourTotal <= MaxPerHour)

\* A request without an amount passes check_amount_limit by.
AmountAllowed(amount) ==
    amount = 0 \/ (amount <= MaxPerSign /\ HourTotal + amount <= MaxPerHour)

CheckAmount(t) ==
    /\ call[t].pc = "checkAmount"
    /\ \/ AmountAllowed(call[t].amount) /\ call' = [call EXCEPT ![t].pc = "sign"]
       \/ ~AmountAllowed(call[t].amount) /\ call' = [call EXCEPT ![t] = IdleCall]
    /\ UNCHANGED <<clock, recent, hourly, made>>

\* keystore.sign: it fails for a key that is unknown or was deleted.
KeystoreSign(t) ==
    LET n == Cardinality(made) IN
    /\ call[t].pc = "sign"
    /\ made' = made \cup {[n |-> n, time |-> clock]}
    /\ call' = [call EXCEPT ![t].pc = "record", ![t].n = n]
    /\ UNCHANGED <<clock, recent, hourly>>

KeystoreFail(t) ==
    /\ call[t].pc = "sign"
    /\ call' = [call EXCEPT ![t] = IdleCall]
    /\ UNCHANGED <<clock, recent, hourly, made>>

\* Variant: the entries of the last minute are dropped, the older ones kept.
RecordAndForget(t) ==
    /\ call[t].pc = "record"
    /\ recent' = {s \in recent : s.time + Minute <= clock} \cup {[n |-> call[t].n, time |-> clock]}
    /\ UNCHANGED hourly
    /\ call' = [call EXCEPT ![t] = IdleCall]
    /\ UNCHANGED <<clock, made>>

\* Variant: the amount is taken off the hour's total.
RecordNegative(t) ==
    /\ call[t].pc = "record"
    /\ recent' = LastMinute(recent \cup {[n |-> call[t].n, time |-> clock]})
    /\ hourly' = [hour |-> CurrentHour, total |-> HourTotal - call[t].amount]
    /\ call' = [call EXCEPT ![t] = IdleCall]
    /\ UNCHANGED <<clock, made>>

\* record_sign notes the time it runs, not the time of the signature, and
\* drops what is older than a minute; entry(hour) += amount.
RecordSign(t) ==
    LET amount == call[t].amount IN
    /\ call[t].pc = "record"
    /\ recent' = LastMinute(recent \cup {[n |-> call[t].n, time |-> clock]})
    /\ \/ amount = 0 /\ UNCHANGED hourly
       \/ amount # 0 /\ hourly' = [hour |-> CurrentHour, total |-> HourTotal + amount]
    /\ call' = [call EXCEPT ![t] = IdleCall]
    /\ UNCHANGED <<clock, made>>

Tick ==
    /\ clock < MaxTime
    /\ clock' = clock + 1
    /\ UNCHANGED <<recent, hourly, call, made>>

Next ==
    \/ \E t \in Tasks :
          \/ \E amount \in Amounts : CheckRate(t, amount)
          \/ CheckAmount(t)
          \/ KeystoreSign(t)
          \/ KeystoreFail(t)
          \/ RecordSign(t)
    \/ Tick

Spec == Init /\ [][Next]_vars

-----------------------------------------------------------------------------
(* Correctness.                                                            *)

\* "Maximum signs per minute" (policy.rs), as far as the code keeps to it:
\* a request is counted only when it has been signed, so every other task
\* may slip through beside it, but never more than one request each.  With
\* one task the limit is exact.
RateBound ==
    Cardinality(LastMinute(made)) + 1 <= MaxPerMinute + Cardinality(Tasks)

\* "Maximum total amount per hour" (policy.rs), in the same sense: the hour's
\* total exceeds the limit by at most one largest request per other task.
AmountBound ==
    HourTotal + SumFunction([t \in Tasks |-> IF call[t].pc \in {"sign", "record"}
                                             THEN call[t].amount ELSE 0])
    <= MaxPerHour + (Cardinality(Tasks) - 1) * MaxPerSign

=============================================================================
