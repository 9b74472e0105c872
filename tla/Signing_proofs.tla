--------------------------- MODULE Signing_proofs ---------------------------
(***************************************************************************)
(* Proofs about module Signing: for any number of tasks, any limits and    *)
(* any passage of time, the rate limit is exceeded by less than one        *)
(* request per task that shares the signer, and the limit per hour by at   *)
(* most one largest request per other task.                                *)
(*                                                                         *)
(* The argument counts two things together: the signatures recorded in the *)
(* last minute and the requests on their way (RateInv).  It carries over   *)
(* to the signatures really made because each of those made in the last    *)
(* minute is either recorded, at a time that is no earlier, or still held  *)
(* by the task that made it (Accounted), under a number of its own         *)
(* (Numbered).                                                             *)
(*                                                                         *)
(* The hourly limit adds amounts instead (AInv): the total recorded in the *)
(* current hour and what has passed the check and is not recorded yet.     *)
(***************************************************************************)
EXTENDS Signing, Arithmetic

InFlight == {t \in Tasks : call[t].pc # "idle"}

RateInv ==
    Cardinality(LastMinute(recent)) + Cardinality(InFlight) + 1
    <= MaxPerMinute + Cardinality(Tasks)

Numbered ==
    /\ \A s \in made : s.n < Cardinality(made) /\ s.time <= clock
    /\ \A s1, s2 \in made : s1.n = s2.n => s1 = s2

Recorded(s) == \E r \in recent : r.n = s.n /\ s.time <= r.time
Held(s) == \E t \in Tasks : call[t].pc = "record" /\ call[t].n = s.n

Accounted == \A s \in LastMinute(made) : Recorded(s) \/ Held(s)

SInv == TypeOK /\ RateInv /\ Numbered /\ Accounted

-----------------------------------------------------------------------------
(* Counting.                                                               *)

\* A set that injects into a finite set is finite and no larger.
LEMMA InjectionBound ==
    ASSUME NEW S, NEW T, IsFiniteSet(T), NEW f \in [S -> T],
           \A x, y \in S : f[x] = f[y] => x = y
    PROVE  IsFiniteSet(S) /\ Cardinality(S) <= Cardinality(T)
  <1>1. f \in Injection(S, T)
    BY DEF Injection, IsInjective
  <1>2. QED
    BY <1>1, FS_Injection

\* A union of two finite sets is no larger than the two together.
LEMMA UnionBound ==
    ASSUME NEW S, NEW T, IsFiniteSet(S), IsFiniteSet(T)
    PROVE  /\ IsFiniteSet(S \cup T)
           /\ Cardinality(S \cup T) <= Cardinality(S) + Cardinality(T)
  <1>1. Cardinality(S) \in Nat /\ Cardinality(T) \in Nat
    BY FS_CardinalityType
  <1>2. IsFiniteSet(S \cap T) /\ Cardinality(S \cap T) \in Nat
    BY FS_Subset, FS_CardinalityType, S \cap T \in SUBSET S
  <1>3. QED
    BY <1>1, <1>2, FS_Union

\* The windows of the last minute are finite sets.
LEMMA Finite ==
    ASSUME TypeOK
    PROVE  /\ IsFiniteSet(LastMinute(recent)) /\ Cardinality(LastMinute(recent)) \in Nat
           /\ IsFiniteSet(LastMinute(made)) /\ Cardinality(LastMinute(made)) \in Nat
           /\ IsFiniteSet(InFlight) /\ Cardinality(InFlight) \in Nat
           /\ Cardinality(InFlight) <= Cardinality(Tasks)
           /\ Cardinality(Tasks) \in Nat
           /\ Cardinality(made) \in Nat
  <1>1. LastMinute(recent) \in SUBSET recent /\ LastMinute(made) \in SUBSET made
        /\ InFlight \in SUBSET Tasks
    BY DEF LastMinute, InFlight
  <1>2. IsFiniteSet(recent) /\ IsFiniteSet(made) /\ IsFiniteSet(Tasks)
    BY TasksAssumption DEF TypeOK
  <1>3. QED
    BY <1>1, <1>2, FS_Subset, FS_CardinalityType

-----------------------------------------------------------------------------
(* The invariant implies the bound.                                        *)

\* The invariant bounds the signatures of any minute.
LEMMA BoundFromInvariant ==
    ASSUME SInv
    PROVE  RateBound
  <1> DEFINE R == {s \in LastMinute(made) : Recorded(s)}
             H == {s \in LastMinute(made) : ~Recorded(s)}
  <1>1. LastMinute(made) = R \cup H
    OBVIOUS
  <1>2. \A s \in LastMinute(made) : s \in made /\ s.n \in Nat /\ s.time \in Nat
                                    /\ s.time + Minute > clock
    BY DEF SInv, TypeOK, LastMinute, Sign
  <1>3. \A s1, s2 \in LastMinute(made) : s1.n = s2.n => s1 = s2
    BY <1>2 DEF SInv, Numbered
  <1>4. IsFiniteSet(R) /\ Cardinality(R) <= Cardinality(LastMinute(recent))
    <2> DEFINE f == [s \in R |-> CHOOSE r \in LastMinute(recent) : r.n = s.n]
    <2>1. \A s \in R : \E r \in LastMinute(recent) : r.n = s.n
      <3> SUFFICES ASSUME NEW s \in R
                   PROVE  \E r \in LastMinute(recent) : r.n = s.n
        OBVIOUS
      <3>1. PICK r \in recent : r.n = s.n /\ s.time <= r.time
        BY DEF Recorded
      <3>2. r.time \in Nat /\ clock \in Nat /\ Minute \in Nat
        BY PolicyAssumption DEF SInv, TypeOK, Sign
      <3>3. r.time + Minute > clock
        BY <1>2, <3>1, <3>2
      <3>4. QED
        BY <3>1, <3>3 DEF LastMinute
    <2>2. \A s \in R : f[s] \in LastMinute(recent) /\ f[s].n = s.n
      BY <2>1
    <2>3. f \in [R -> LastMinute(recent)]
      BY <2>2
    <2>4. \A x, y \in R : f[x] = f[y] => x = y
      BY <2>2, <1>3
    <2> HIDE DEF f, R
    <2>5. IsFiniteSet(LastMinute(recent))
      BY Finite DEF SInv
    <2>6. QED
      BY <2>3, <2>4, <2>5, InjectionBound
  <1>5. IsFiniteSet(H) /\ Cardinality(H) <= Cardinality(InFlight)
    <2> DEFINE g == [s \in H |-> CHOOSE t \in InFlight : call[t].n = s.n]
    <2>1. \A s \in H : \E t \in InFlight : call[t].n = s.n
      BY DEF SInv, Accounted, Held, InFlight
    <2>2. \A s \in H : g[s] \in InFlight /\ call[g[s]].n = s.n
      BY <2>1
    <2>3. g \in [H -> InFlight]
      BY <2>2
    <2>4. \A x, y \in H : g[x] = g[y] => x = y
      BY <2>2, <1>3
    <2> HIDE DEF g, H
    <2>5. IsFiniteSet(InFlight)
      BY Finite DEF SInv
    <2>6. QED
      BY <2>3, <2>4, <2>5, InjectionBound
  <1> HIDE DEF R, H
  <1>6. /\ Cardinality(R) \in Nat /\ Cardinality(H) \in Nat
        /\ Cardinality(LastMinute(made)) <= Cardinality(R) + Cardinality(H)
    BY <1>1, <1>4, <1>5, UnionBound, FS_CardinalityType
  <1>7. QED
    BY <1>4, <1>5, <1>6, Finite, PolicyAssumption DEF SInv, RateInv, RateBound

-----------------------------------------------------------------------------
(* The invariant holds initially and is preserved.                         *)

\* A new signer has signed nothing.
LEMMA InitInv == Init => SInv
  <1> SUFFICES ASSUME Init PROVE SInv
    OBVIOUS
  <1>1. IsFiniteSet({}) /\ Cardinality({}) = 0
    BY FS_EmptySet
  <1>2. TypeOK
    BY <1>1 DEF Init, TypeOK, Call, IdleCall
  <1>3. LastMinute(recent) = {} /\ LastMinute(made) = {} /\ InFlight = {}
    BY DEF Init, LastMinute, InFlight, IdleCall
  <1>4. Cardinality(Tasks) \in Nat /\ Cardinality(Tasks) # 0
    BY TasksAssumption, FS_CardinalityType, FS_EmptySet
  <1>5. RateInv
    BY <1>1, <1>3, <1>4, PolicyAssumption DEF RateInv
  <1>6. Numbered /\ Accounted
    BY <1>3 DEF Init, Numbered, Accounted
  <1>7. QED
    BY <1>2, <1>5, <1>6 DEF SInv

\* A step that leaves the clock, the signatures and the requests' numbers
\* alone and lets no new request pass.
LEMMA InFlightShrinks ==
    ASSUME TypeOK, NEW t \in Tasks, NEW r \in Call, call' = [call EXCEPT ![t] = r],
           r.pc # "idle" => call[t].pc # "idle"
    PROVE  /\ call' \in [Tasks -> Call]
           /\ IsFiniteSet(InFlight') /\ Cardinality(InFlight') \in Nat
           /\ Cardinality(InFlight') <= Cardinality(InFlight)
  <1>1. call' \in [Tasks -> Call]
    BY DEF TypeOK
  <1>2. InFlight' \in SUBSET InFlight
    BY DEF InFlight, TypeOK
  <1>3. IsFiniteSet(InFlight)
    BY Finite
  <1>4. QED
    BY <1>1, <1>2, <1>3, FS_Subset, FS_CardinalityType

\* CheckRate: a request passes the limit and is in flight from then on.
LEMMA CheckRateInv ==
    ASSUME SInv, NEW t \in Tasks, NEW amount \in Amounts, CheckRate(t, amount)
    PROVE  SInv'
  <1> DEFINE r == [pc |-> "checkAmount", amount |-> amount, n |-> 0]
  <1>1. r \in Call /\ call' = [call EXCEPT ![t] = r] /\ call[t].pc = "idle"
    BY PolicyAssumption DEF CheckRate, Call
  <1>2. TypeOK'
    BY <1>1 DEF SInv, TypeOK, CheckRate
  <1>3. LastMinute(recent)' = LastMinute(recent) /\ LastMinute(made)' = LastMinute(made)
    BY DEF CheckRate, LastMinute
  <1>4. /\ Cardinality(LastMinute(recent)) \in Nat
        /\ Cardinality(InFlight') \in Nat /\ Cardinality(Tasks) \in Nat
        /\ Cardinality(InFlight') <= Cardinality(Tasks)
    <2>1. InFlight' \in SUBSET Tasks
      BY DEF InFlight
    <2>2. QED
      BY <2>1, TasksAssumption, FS_Subset, FS_CardinalityType, Finite DEF SInv
  <1>5. RateInv'
    <2>1. Cardinality(LastMinute(recent)) < MaxPerMinute
      BY DEF CheckRate
    <2>2. QED
      BY <2>1, <1>3, <1>4, PolicyAssumption DEF RateInv
  <1>6. Numbered'
    BY DEF SInv, Numbered, CheckRate
  <1>7. Accounted'
    BY <1>1, <1>3 DEF SInv, Accounted, Recorded, Held, CheckRate, TypeOK
  <1>8. QED
    BY <1>2, <1>5, <1>6, <1>7 DEF SInv

\* CheckAmount and KeystoreFail: the request goes on or is given up.
LEMMA WaitingInv ==
    ASSUME SInv, NEW t \in Tasks, CheckAmount(t) \/ KeystoreFail(t)
    PROVE  SInv'
  <1>1. PICK r \in Call : /\ call' = [call EXCEPT ![t] = r]
                          /\ call[t].pc \notin {"idle", "record"}
    <2>1. [call[t] EXCEPT !.pc = "sign"] \in Call /\ IdleCall \in Call
      BY DEF SInv, TypeOK, Call, IdleCall
    <2>2. CASE CheckAmount(t)
      BY <2>1, <2>2 DEF CheckAmount, SInv, TypeOK
    <2>3. CASE KeystoreFail(t)
      BY <2>1, <2>3 DEF KeystoreFail
    <2>4. QED
      BY <2>2, <2>3
  <1>2. UNCHANGED <<clock, recent, hourly, made>>
    BY DEF CheckAmount, KeystoreFail
  <1>3. /\ call' \in [Tasks -> Call]
        /\ Cardinality(InFlight') \in Nat
        /\ Cardinality(InFlight') <= Cardinality(InFlight)
    BY <1>1, InFlightShrinks DEF SInv
  <1>4. TypeOK'
    BY <1>2, <1>3 DEF SInv, TypeOK
  <1>5. LastMinute(recent)' = LastMinute(recent) /\ LastMinute(made)' = LastMinute(made)
    BY <1>2 DEF LastMinute
  <1>6. RateInv'
    BY <1>3, <1>5, Finite, PolicyAssumption DEF SInv, RateInv
  <1>7. Numbered'
    BY <1>2 DEF SInv, Numbered
  <1>8. Accounted'
    BY <1>1, <1>2, <1>5 DEF SInv, Accounted, Recorded, Held, TypeOK
  <1>9. QED
    BY <1>4, <1>6, <1>7, <1>8 DEF SInv

\* KeystoreSign: a signature exists that recent_signs does not know yet.
LEMMA KeystoreSignInv ==
    ASSUME SInv, NEW t \in Tasks, KeystoreSign(t)
    PROVE  SInv'
  <1> DEFINE n == Cardinality(made)
             s0 == [n |-> n, time |-> clock]
             r == [call[t] EXCEPT !.pc = "record", !.n = n]
  <1>1. n \in Nat /\ s0 \in Sign /\ r \in Call
    BY Finite DEF SInv, TypeOK, Sign, Call
  <1>2. /\ call[t].pc = "sign" /\ call' = [call EXCEPT ![t] = r]
        /\ made' = made \cup {s0} /\ UNCHANGED <<clock, recent, hourly>>
    BY DEF KeystoreSign, SInv, TypeOK
  <1>3. \A s \in made : s \in Sign /\ s.n < n /\ s.time <= clock
    BY DEF SInv, TypeOK, Numbered
  <1>4. s0 \notin made
    BY <1>1, <1>3
  <1>5. IsFiniteSet(made') /\ Cardinality(made') = n + 1
    BY <1>2, <1>4, FS_AddElement DEF SInv, TypeOK
  <1>6. /\ call' \in [Tasks -> Call]
        /\ Cardinality(InFlight') \in Nat
        /\ Cardinality(InFlight') <= Cardinality(InFlight)
    BY <1>1, <1>2, InFlightShrinks DEF SInv
  <1> HIDE DEF r
  <1>7. TypeOK'
    BY <1>1, <1>2, <1>5, <1>6 DEF SInv, TypeOK
  <1>8. RateInv'
    <2>1. LastMinute(recent)' = LastMinute(recent)
      BY <1>2 DEF LastMinute
    <2>2. QED
      BY <2>1, <1>6, Finite, PolicyAssumption DEF SInv, RateInv
  <1>9. Numbered'
    <2>1. \A s \in made' : s.n < n + 1 /\ s.time <= clock'
      BY <1>1, <1>2, <1>3 DEF SInv, TypeOK, Sign
    <2>2. \A s1, s2 \in made' : s1.n = s2.n => s1 = s2
      BY <1>1, <1>2, <1>3 DEF SInv, Numbered, Sign
    <2>3. QED
      BY <2>1, <2>2, <1>5 DEF Numbered
  <1>10. Accounted'
    <2> SUFFICES ASSUME NEW s \in LastMinute(made)'
                 PROVE  Recorded(s)' \/ Held(s)'
      BY DEF Accounted
    <2>1. CASE s = s0
      BY <2>1, <1>2 DEF Held, r, SInv, TypeOK
    <2>2. CASE s # s0
      <3>1. s \in LastMinute(made)
        BY <2>2, <1>2 DEF LastMinute
      <3>2. Recorded(s) \/ Held(s)
        BY <3>1 DEF SInv, Accounted
      <3>3. QED
        BY <3>2, <1>2 DEF Recorded, Held, SInv, TypeOK
    <2>3. QED
      BY <2>1, <2>2
  <1>11. QED
    BY <1>7, <1>8, <1>9, <1>10 DEF SInv

\* Lemma: one more element makes a finite set at most one larger (the
\* window of recent_signs, when record_sign adds a signature to it).
LEMMA AddAtMostOne ==
    ASSUME NEW S, NEW x, IsFiniteSet(S)
    PROVE  /\ IsFiniteSet(S \cup {x}) /\ Cardinality(S \cup {x}) \in Nat
           /\ Cardinality(S \cup {x}) <= Cardinality(S) + 1
  <1>1. IsFiniteSet(S \cup {x}) /\ Cardinality(S) \in Nat
    BY FS_AddElement, FS_CardinalityType
  <1>2. Cardinality(S \cup {x}) = Cardinality(S)
        \/ Cardinality(S \cup {x}) = Cardinality(S) + 1
    BY FS_AddElement
  <1>3. QED
    BY <1>1, <1>2

\* RecordSign: recent_signs forgets the old minutes and learns the signature.
LEMMA RecordSignInv ==
    ASSUME SInv, NEW t \in Tasks, RecordSign(t)
    PROVE  SInv'
  <1> DEFINE r0 == [n |-> call[t].n, time |-> clock]
             old == LastMinute(recent)
  <1>1. /\ call[t].pc = "record" /\ call' = [call EXCEPT ![t] = IdleCall]
        /\ recent' = LastMinute(recent \cup {r0})
        /\ UNCHANGED <<clock, made>>
    BY DEF RecordSign
  <1>2. r0 \in Sign /\ IdleCall \in Call /\ clock \in Nat /\ Minute \in Nat
    BY PolicyAssumption DEF SInv, TypeOK, Sign, Call, IdleCall
  <1>3. IsFiniteSet(old) /\ Cardinality(old) \in Nat
        /\ IsFiniteSet(InFlight) /\ Cardinality(InFlight) \in Nat
    BY Finite DEF SInv
  <1>4. recent' \in SUBSET (old \cup {r0}) /\ LastMinute(recent)' = recent'
    BY <1>1 DEF LastMinute
  <1>5. /\ IsFiniteSet(recent') /\ Cardinality(recent') \in Nat
        /\ Cardinality(recent') <= Cardinality(old) + 1
    <2>1. /\ IsFiniteSet(old \cup {r0})
          /\ Cardinality(old \cup {r0}) \in Nat
          /\ Cardinality(old \cup {r0}) <= Cardinality(old) + 1
      BY <1>3, AddAtMostOne
    <2>2. QED
      BY <2>1, <1>3, <1>4, FS_Subset, FS_CardinalityType
  <1>6. InFlight' = InFlight \ {t} /\ t \in InFlight
    BY <1>1 DEF InFlight, IdleCall, SInv, TypeOK
  <1>7. Cardinality(InFlight') = Cardinality(InFlight) - 1
    BY <1>3, <1>6, FS_RemoveElement
  <1>8. hourly' \in [hour: Nat, total: Nat]
    <2>1. CurrentHour \in Nat
      BY DivNat, PolicyAssumption DEF CurrentHour, SInv, TypeOK
    <2>2. HourTotal \in Nat /\ call[t].amount \in Nat
      BY DEF HourTotal, SInv, TypeOK, Call
    <2>3. QED
      BY <2>1, <2>2 DEF RecordSign, SInv, TypeOK
  <1>9. TypeOK'
    <2>1. recent' \subseteq Sign
      BY <1>2, <1>4 DEF SInv, TypeOK, LastMinute
    <2>2. QED
      BY <2>1, <1>1, <1>2, <1>5, <1>8 DEF SInv, TypeOK
  <1>10. RateInv'
    BY <1>3, <1>4, <1>5, <1>7, Finite, PolicyAssumption DEF SInv, RateInv
  <1>11. Numbered'
    BY <1>1 DEF SInv, Numbered
  <1>12. Accounted'
    <2> SUFFICES ASSUME NEW s \in LastMinute(made)'
                 PROVE  Recorded(s)' \/ Held(s)'
      BY DEF Accounted
    <2>1. s \in LastMinute(made) /\ s \in made /\ s.time \in Nat /\ s.time + Minute > clock
      BY <1>1 DEF LastMinute, SInv, TypeOK, Sign
    <2>2. s.time <= clock
      BY <2>1 DEF SInv, Numbered
    <2>3. CASE Recorded(s)
      <3>1. PICK r \in recent : r.n = s.n /\ s.time <= r.time
        BY <2>3 DEF Recorded
      <3>2. r.time \in Nat
        BY DEF SInv, TypeOK, Sign
      <3>3. r.time + Minute > clock
        BY <2>1, <3>1, <3>2, <1>2
      <3>4. r \in recent'
        BY <3>3, <1>1 DEF LastMinute
      <3>5. QED
        BY <3>1, <3>4 DEF Recorded
    <2>4. CASE Held(s)
      <3>1. PICK u \in Tasks : call[u].pc = "record" /\ call[u].n = s.n
        BY <2>4 DEF Held
      <3>2. CASE u = t
        <4>1. r0.time + Minute > clock
          BY <2>1, <2>2, <1>2
        <4>2. r0 \in recent'
          BY <4>1, <1>1 DEF LastMinute
        <4>3. r0.n = s.n /\ s.time <= r0.time
          BY <3>1, <3>2, <2>2
        <4>4. QED
          BY <4>2, <4>3 DEF Recorded
      <3>3. CASE u # t
        BY <3>1, <3>3, <1>1 DEF Held, SInv, TypeOK
      <3>4. QED
        BY <3>2, <3>3
    <2>5. QED
      BY <2>1, <2>3, <2>4 DEF SInv, Accounted
  <1>13. QED
    BY <1>9, <1>10, <1>11, <1>12 DEF SInv

\* Tick: time passes, so the windows can only lose signatures.
LEMMA TickInv ==
    ASSUME SInv, Tick
    PROVE  SInv'
  <1>1. clock \in Nat /\ clock' = clock + 1 /\ UNCHANGED <<recent, hourly, call, made>>
    BY DEF Tick, SInv, TypeOK
  <1>2. TypeOK'
    BY <1>1 DEF SInv, TypeOK
  <1>3. LastMinute(recent)' \in SUBSET LastMinute(recent)
        /\ LastMinute(made)' \in SUBSET LastMinute(made)
    BY <1>1, PolicyAssumption DEF LastMinute, SInv, TypeOK, Sign
  <1>4. RateInv'
    <2>1. InFlight' = InFlight
      BY <1>1 DEF InFlight
    <2>2. Cardinality(LastMinute(recent)') \in Nat
          /\ Cardinality(LastMinute(recent)') <= Cardinality(LastMinute(recent))
      BY <1>3, Finite, FS_Subset, FS_CardinalityType DEF SInv
    <2>3. QED
      BY <2>1, <2>2, Finite, PolicyAssumption DEF SInv, RateInv
  <1>5. Numbered'
    BY <1>1 DEF SInv, Numbered, TypeOK, Sign
  <1>6. Accounted'
    BY <1>1, <1>3 DEF SInv, Accounted, Recorded, Held
  <1>7. QED
    BY <1>2, <1>4, <1>5, <1>6 DEF SInv

\* Every step of the specification preserves the invariant.
LEMMA NextInv == SInv /\ [Next]_vars => SInv'
  <1> SUFFICES ASSUME SInv, [Next]_vars PROVE SInv'
    OBVIOUS
  <1>1. ASSUME NEW t \in Tasks, NEW amount \in Amounts, CheckRate(t, amount) PROVE SInv'
    BY <1>1, CheckRateInv
  <1>2. ASSUME NEW t \in Tasks, CheckAmount(t) PROVE SInv'
    BY <1>2, WaitingInv
  <1>3. ASSUME NEW t \in Tasks, KeystoreSign(t) PROVE SInv'
    BY <1>3, KeystoreSignInv
  <1>4. ASSUME NEW t \in Tasks, KeystoreFail(t) PROVE SInv'
    BY <1>4, WaitingInv
  <1>5. ASSUME NEW t \in Tasks, RecordSign(t) PROVE SInv'
    BY <1>5, RecordSignInv
  <1>6. CASE Tick
    BY <1>6, TickInv
  <1>7. CASE UNCHANGED vars
    BY <1>7 DEF vars, SInv, TypeOK, RateInv, Numbered, Accounted, LastMinute, InFlight,
                Recorded, Held
  <1>8. QED
    BY <1>1, <1>2, <1>3, <1>4, <1>5, <1>6, <1>7 DEF Next

-----------------------------------------------------------------------------
\* The records of the policy, the requests and the signatures made keep
\* their types (signer.rs, policy.rs).
THEOREM SigningTypes == Spec => []TypeOK
  <1>1. SInv => TypeOK
    BY DEF SInv
  <1>2. QED
    BY <1>1, InitInv, NextInv, PTL DEF Spec

\* "Maximum signs per minute" (policy.rs): the signatures of any minute
\* exceed the limit by less than the number of tasks, whatever the tasks, the
\* limit, the length of the minute and the interleaving.
THEOREM RateLimit == Spec => []RateBound
  <1>1. SInv => RateBound
    BY BoundFromInvariant
  <1>2. QED
    BY <1>1, InitInv, NextInv, PTL DEF Spec

-----------------------------------------------------------------------------
(* The hourly limit.                                                       *)

\* The amount a request has passed the check with and not been recorded for.
Waiting(r) == IF r.pc \in {"sign", "record"} THEN r.amount ELSE 0

Pending(c) == [t \in Tasks |-> Waiting(c[t])]

Due(c) == SumFunction(Pending(c))

OthersMost == (Cardinality(Tasks) - 1) * MaxPerSign

AInv ==
    /\ hourly.hour <= CurrentHour
    /\ \A t \in Tasks : Waiting(call[t]) <= MaxPerSign
    /\ HourTotal + Due(call) <= MaxPerHour + OthersMost

LEMMA AmountBoundIs == AmountBound <=> HourTotal + Due(call) <= MaxPerHour + OthersMost
  BY DEF AmountBound, Due, Pending, Waiting, OthersMost

LEMMA WaitingNat ==
    \A r \in Call : /\ Waiting(r) \in Nat
                     /\ Waiting(IdleCall) = 0 /\ Waiting(IdleCall) <= Waiting(r)
  BY DEF Waiting, Call, IdleCall

LEMMA Clocks ==
    ASSUME TypeOK
    PROVE  /\ CurrentHour \in Nat /\ HourTotal \in Nat
           /\ hourly.hour \in Nat /\ hourly.total \in Nat
           /\ Due(call) \in Nat /\ OthersMost \in Nat
           /\ Pending(call) \in [Tasks -> Nat]
           /\ MaxPerHour \in Nat /\ MaxPerSign \in Nat
  <1>1. CurrentHour \in Nat /\ MaxPerHour \in Nat /\ MaxPerSign \in Nat
    BY DivNat, PolicyAssumption DEF CurrentHour, TypeOK
  <1>2. HourTotal \in Nat /\ hourly.hour \in Nat /\ hourly.total \in Nat
    BY DEF HourTotal, TypeOK
  <1>3. Pending(call) \in [Tasks -> Nat]
    BY WaitingNat DEF Pending, TypeOK
  <1>4. Due(call) \in Nat
    BY <1>3, TasksAssumption, SumNat DEF Due
  <1>5. Cardinality(Tasks) \in Nat /\ Cardinality(Tasks) # 0
    BY TasksAssumption, FS_CardinalityType, FS_EmptySet
  <1>6. OthersMost \in Nat
    BY <1>1, <1>5, ProductNat DEF OthersMost
  <1>7. QED
    BY <1>1, <1>2, <1>3, <1>4, <1>6

\* One request moves.
LEMMA DueMoves ==
    ASSUME TypeOK, NEW t \in Tasks, NEW r \in Call, call' = [call EXCEPT ![t] = r]
    PROVE  /\ Due(call') \in Nat /\ Waiting(r) \in Nat /\ Waiting(call[t]) \in Nat
           /\ Due(call') = Due(call) + Waiting(r) - Waiting(call[t])
           /\ \A u \in Tasks \ {t} : call'[u] = call[u]
           /\ call'[t] = r
  <1> DEFINE f == Pending(call)
             g == Pending(call')
  <1>1. f \in [Tasks -> Nat] /\ g \in [Tasks -> Nat]
    BY WaitingNat DEF Pending, TypeOK
  <1>2. call'[t] = r /\ \A u \in Tasks \ {t} : call'[u] = call[u]
    BY DEF TypeOK
  <1>3. g[t] = Waiting(r) /\ f[t] = Waiting(call[t]) /\ \A u \in Tasks \ {t} : g[u] = f[u]
    BY <1>2 DEF Pending
  <1> HIDE DEF f, g
  <1>4. f \in [Tasks -> Int] /\ g \in [Tasks -> Int]
    BY <1>1
  <1>5. SumFunction(g) = SumFunction(f) + g[t] - f[t]
    BY <1>3, <1>4, TasksAssumption, SumChange
  <1>6. SumFunction(g) \in Nat
    BY <1>1, TasksAssumption, SumNat
  <1>7. QED
    BY <1>1, <1>2, <1>3, <1>5, <1>6 DEF Due, f, g

\* Beside a task that waits for nothing, the others wait for a largest request each.
LEMMA DueOfOthers ==
    ASSUME TypeOK, NEW t \in Tasks, Waiting(call[t]) = 0,
           \A u \in Tasks : Waiting(call[u]) <= MaxPerSign
    PROVE  Due(call) <= OthersMost
  <1> DEFINE f == Pending(call)
             g == [f EXCEPT ![t] = MaxPerSign]
             n == Cardinality(Tasks)
             c == MaxPerSign
  <1>1. /\ f \in [Tasks -> Nat] /\ f[t] = 0 /\ c \in Nat
        /\ \A u \in Tasks : f[u] <= c
    BY Clocks DEF Pending
  <1> HIDE DEF f
  <1>2. /\ g \in [Tasks -> Int] /\ f \in [Tasks -> Int] /\ g[t] = c
        /\ \A u \in Tasks \ {t} : g[u] = f[u]
        /\ \A u \in Tasks : g[u] <= c
    BY <1>1
  <1> HIDE DEF g
  <1>3. SumFunction(g) = SumFunction(f) + g[t] - f[t]
    BY <1>2, TasksAssumption, SumChange
  <1>4. SumFunction(g) <= c * n /\ SumFunction(g) \in Int /\ SumFunction(f) \in Int
    BY <1>1, <1>2, TasksAssumption, SumBounded, SumType
  <1>5. n \in Nat
    BY TasksAssumption, FS_CardinalityType
  <1>6. (n - 1) * c = c * n - c /\ c * n \in Int
    BY <1>1, <1>5
  <1> HIDE DEF n, c
  <1>7. SumFunction(f) <= (n - 1) * c
    <2> DEFINE cn == c * n
    <2>1. SumFunction(f) + c - 0 <= cn /\ (n - 1) * c = cn - c /\ cn \in Int /\ c \in Nat
      BY <1>1, <1>2, <1>3, <1>4, <1>6
    <2> HIDE DEF cn
    <2>2. QED
      BY <1>4, <2>1
  <1>8. QED
    BY <1>7 DEF Due, OthersMost, f, n, c

\* A request moves without the hour's total: what it waits for does not grow.
LEMMA AmountKept ==
    ASSUME TypeOK, AInv, NEW t \in Tasks, NEW r \in Call, call' = [call EXCEPT ![t] = r],
           Waiting(r) <= Waiting(call[t]), UNCHANGED <<clock, hourly>>
    PROVE  AInv'
  <1>1. /\ Due(call') \in Nat /\ Waiting(r) \in Nat /\ Waiting(call[t]) \in Nat
        /\ Due(call') = Due(call) + Waiting(r) - Waiting(call[t])
        /\ \A u \in Tasks \ {t} : call'[u] = call[u]
        /\ call'[t] = r
    BY DueMoves
  <1>2. CurrentHour' = CurrentHour /\ HourTotal' = HourTotal
    BY DEF CurrentHour, HourTotal
  <1>3. \A u \in Tasks : Waiting(call'[u]) <= MaxPerSign
    BY <1>1, Clocks DEF AInv
  <1>4. HourTotal + Due(call') <= MaxPerHour + OthersMost
    BY <1>1, Clocks DEF AInv
  <1>5. QED
    BY <1>2, <1>3, <1>4 DEF AInv

LEMMA InitAmount == Init => AInv
  <1> SUFFICES ASSUME Init PROVE AInv
    OBVIOUS
  <1>1. TypeOK
    BY InitInv DEF SInv
  <1>2. hourly.hour = 0 /\ hourly.total = 0 /\ \A t \in Tasks : Waiting(call[t]) = 0
    BY WaitingNat, <1>1 DEF Init, Waiting, IdleCall
  <1>3. HourTotal = 0
    BY <1>2 DEF HourTotal
  <1>4. PICK t \in Tasks : TRUE
    BY TasksAssumption
  <1>5. \A u \in Tasks : Waiting(call[u]) <= MaxPerSign
    BY <1>1, <1>2, Clocks
  <1>6. Due(call) <= OthersMost
    BY <1>1, <1>2, <1>4, <1>5, DueOfOthers
  <1>7. QED
    BY <1>1, <1>2, <1>3, <1>5, <1>6, Clocks DEF AInv

\* check_amount_limit: a request that passes leaves room for the others only.
LEMMA CheckAmountBound ==
    ASSUME TypeOK, AInv, NEW t \in Tasks, CheckAmount(t)
    PROVE  AInv'
  <1>1. call[t] \in Call /\ call[t].pc = "checkAmount" /\ UNCHANGED <<clock, hourly>>
        /\ IdleCall \in Call
    BY DEF CheckAmount, TypeOK, Call, IdleCall
  <1>2. Waiting(call[t]) = 0
    BY <1>1 DEF Waiting
  <1>3. CASE call' = [call EXCEPT ![t] = IdleCall]
    BY <1>1, <1>2, <1>3, WaitingNat, AmountKept
  <1>4. CASE AmountAllowed(call[t].amount) /\ call' = [call EXCEPT ![t].pc = "sign"]
    <2> DEFINE q == call[t]
               r == [q EXCEPT !.pc = "sign"]
    <2>1. call' = [call EXCEPT ![t] = r]
      BY <1>4
    <2>2. r \in Call /\ r.amount = q.amount /\ r.pc = "sign"
      <3> HIDE DEF q
      <3>1. QED
        BY <1>1 DEF Call, q
    <2>3. Waiting(r) = q.amount /\ q.amount \in Nat
      BY <1>1, <2>2 DEF Waiting, Call
    <2>4. CASE q.amount = 0
      <3>1. Waiting(r) <= Waiting(call[t])
        BY <1>2, <2>3, <2>4
      <3> HIDE DEF r, q
      <3>2. QED
        BY <1>1, <2>1, <2>2, <3>1, AmountKept
    <2> HIDE DEF r, q
    <2>5. CASE q.amount # 0
      <3>1. q.amount <= MaxPerSign /\ HourTotal + q.amount <= MaxPerHour
        BY <1>4, <2>5 DEF AmountAllowed, q
      <3>2. /\ Due(call') = Due(call) + Waiting(r) - Waiting(call[t])
            /\ Due(call') \in Nat
            /\ \A u \in Tasks \ {t} : call'[u] = call[u]
            /\ call'[t] = r
        BY <2>1, <2>2, DueMoves
      <3>3. Due(call) <= OthersMost
        BY <1>2, DueOfOthers DEF AInv
      <3>4. CurrentHour' = CurrentHour /\ HourTotal' = HourTotal
        BY <1>1 DEF CurrentHour, HourTotal
      <3>5. \A u \in Tasks : Waiting(call'[u]) <= MaxPerSign
        BY <2>3, <3>1, <3>2 DEF AInv
      <3>6. HourTotal + Due(call') <= MaxPerHour + OthersMost
        BY <1>2, <2>3, <3>1, <3>2, <3>3, Clocks
      <3>7. QED
        BY <1>1, <3>4, <3>5, <3>6 DEF AInv
    <2>6. QED
      BY <2>4, <2>5
  <1>5. QED
    BY <1>3, <1>4 DEF CheckAmount

\* record_sign: the amount leaves the request and enters the hour's total.
LEMMA RecordSignBound ==
    ASSUME TypeOK, AInv, NEW t \in Tasks, RecordSign(t)
    PROVE  AInv'
  <1> DEFINE a == call[t].amount
  <1>1. /\ call[t] \in Call /\ call[t].pc = "record" /\ IdleCall \in Call
        /\ call' = [call EXCEPT ![t] = IdleCall] /\ UNCHANGED clock
        /\ \/ a = 0 /\ UNCHANGED hourly
           \/ a # 0 /\ hourly' = [hour |-> CurrentHour, total |-> HourTotal + a]
    BY DEF RecordSign, TypeOK, Call, IdleCall
  <1>2. /\ Waiting(call[t]) = a /\ a \in Nat
        /\ Waiting(IdleCall) = 0 /\ Waiting(IdleCall) <= Waiting(call[t])
    BY <1>1, WaitingNat DEF Waiting, Call
  <1>3. CASE UNCHANGED hourly
    BY <1>1, <1>2, <1>3, AmountKept
  <1>4. CASE hourly' = [hour |-> CurrentHour, total |-> HourTotal + a]
    <2>1. /\ Due(call') = Due(call) + 0 - a /\ Due(call') \in Nat
          /\ \A u \in Tasks \ {t} : call'[u] = call[u]
          /\ call'[t] = IdleCall
      BY <1>1, <1>2, DueMoves
    <2>2. CurrentHour' = CurrentHour
      BY <1>1 DEF CurrentHour
    <2>3. hourly'.hour = CurrentHour /\ HourTotal' = HourTotal + a
      BY <1>4, <2>2 DEF HourTotal
    <2>4. \A u \in Tasks : Waiting(call'[u]) <= MaxPerSign
      BY <1>2, <2>1, Clocks DEF AInv
    <2>5. HourTotal' + Due(call') <= MaxPerHour + OthersMost
      BY <1>2, <2>1, <2>3, Clocks DEF AInv
    <2>6. QED
      BY <2>2, <2>3, <2>4, <2>5, Clocks DEF AInv
  <1>5. QED
    BY <1>1, <1>3, <1>4

\* Time passes: the total of an hour that is over counts no more.
LEMMA TickBound ==
    ASSUME TypeOK, AInv, Tick
    PROVE  AInv'
  <1>1. clock \in Nat /\ clock' = clock + 1 /\ UNCHANGED <<hourly, call>>
        /\ Hour \in Nat /\ Hour > 0
    BY PolicyAssumption DEF Tick, TypeOK
  <1>2. CurrentHour <= CurrentHour' /\ CurrentHour' \in Nat
    <2> DEFINE d == clock \div Hour
    <2>1. d \in Nat /\ Hour * d \in Nat /\ Hour * d <= clock
      BY <1>1, DivBelow
    <2> HIDE DEF d
    <2>2. d * Hour <= clock + 1 /\ clock + 1 \in Nat
      BY <1>1, <2>1
    <2>3. d <= (clock + 1) \div Hour /\ (clock + 1) \div Hour \in Nat
      BY <1>1, <2>1, <2>2, DivAtLeast, DivNat
    <2>4. QED
      BY <1>1, <2>3 DEF CurrentHour, d
  <1>3. HourTotal' <= HourTotal /\ HourTotal' \in Nat
    <2>1. CASE CurrentHour' = CurrentHour
      BY <1>1, <2>1, Clocks DEF HourTotal
    <2>2. CASE CurrentHour' # CurrentHour
      <3>1. hourly.hour # CurrentHour'
        BY <1>2, <2>2, Clocks DEF AInv
      <3>2. HourTotal' = 0
        BY <1>1, <3>1 DEF HourTotal
      <3>3. QED
        BY <3>2, Clocks
    <2>3. QED
      BY <2>1, <2>2
  <1>4. HourTotal' + Due(call) <= MaxPerHour + OthersMost
    BY <1>3, Clocks DEF AInv
  <1>5. hourly.hour <= CurrentHour'
    BY <1>2, Clocks DEF AInv
  <1>6. QED
    BY <1>1, <1>4, <1>5 DEF AInv

LEMMA NextAmount == TypeOK /\ AInv /\ [Next]_vars => AInv'
  <1> SUFFICES ASSUME TypeOK, AInv, [Next]_vars PROVE AInv'
    OBVIOUS
  <1>1. ASSUME NEW t \in Tasks, NEW amount \in Amounts, CheckRate(t, amount) PROVE AInv'
    <2> DEFINE r == [pc |-> "checkAmount", amount |-> amount, n |-> 0]
    <2>1. r \in Call /\ call' = [call EXCEPT ![t] = r] /\ call[t].pc = "idle"
          /\ UNCHANGED <<clock, hourly>>
      BY <1>1, PolicyAssumption DEF CheckRate, Call
    <2>2. Waiting(r) <= Waiting(call[t])
      BY <2>1 DEF Waiting
    <2> HIDE DEF r
    <2>3. QED
      BY <2>1, <2>2, AmountKept
  <1>2. ASSUME NEW t \in Tasks, CheckAmount(t) PROVE AInv'
    BY <1>2, CheckAmountBound
  <1>3. ASSUME NEW t \in Tasks, KeystoreSign(t) PROVE AInv'
    <2> DEFINE q == call[t]
               n == Cardinality(made)
               r == [q EXCEPT !.pc = "record", !.n = n]
    <2>1. q \in Call /\ q.pc = "sign" /\ n \in Nat /\ UNCHANGED <<clock, hourly>>
      BY <1>3, Finite DEF KeystoreSign, TypeOK
    <2>2. call' = [call EXCEPT ![t] = r]
      BY <1>3 DEF KeystoreSign, TypeOK
    <2>3. r \in Call /\ r.amount = q.amount /\ r.pc = "record"
      <3> HIDE DEF q, n
      <3>1. QED
        BY <2>1 DEF Call
    <2>4. Waiting(r) <= Waiting(q)
      BY <2>1, <2>3 DEF Waiting, Call
    <2> HIDE DEF r
    <2>5. QED
      BY <2>1, <2>2, <2>3, <2>4, AmountKept
  <1>4. ASSUME NEW t \in Tasks, KeystoreFail(t) PROVE AInv'
    <2>1. IdleCall \in Call /\ call' = [call EXCEPT ![t] = IdleCall]
          /\ UNCHANGED <<clock, hourly>> /\ call[t] \in Call
      BY <1>4 DEF KeystoreFail, Call, IdleCall, TypeOK
    <2>2. QED
      BY <2>1, WaitingNat, AmountKept
  <1>5. ASSUME NEW t \in Tasks, RecordSign(t) PROVE AInv'
    BY <1>5, RecordSignBound
  <1>6. CASE Tick
    BY <1>6, TickBound
  <1>7. CASE UNCHANGED vars
    BY <1>7 DEF vars, AInv, CurrentHour, HourTotal
  <1>8. QED
    BY <1>1, <1>2, <1>3, <1>4, <1>5, <1>6, <1>7 DEF Next

\* "Maximum total amount per hour" (policy.rs): what was recorded in the current
\* hour and what has passed the check and is not recorded yet exceed the
\* limit by at most one largest request per other task, whatever the
\* tasks, the limits, the length of the hour and the interleaving.
THEOREM HourlyLimit == Spec => []AmountBound
  <1>1. Init => SInv /\ AInv
    BY InitInv, InitAmount
  <1>2. SInv /\ AInv /\ [Next]_vars => (SInv /\ AInv)'
    BY NextInv, NextAmount DEF SInv
  <1>3. SInv /\ AInv => AmountBound
    BY AmountBoundIs DEF AInv
  <1>4. QED
    BY <1>1, <1>2, <1>3, PTL DEF Spec

=============================================================================
