-------------------------- MODULE AgentVault_proofs --------------------------
(***************************************************************************)
(* Proofs about module AgentVault, for channels of any capacity, any       *)
(* depositors and any number of alarms.                                    *)
(*                                                                         *)
(* The spread a score asks for is on its way (SpreadInv): in the hands of  *)
(* the agent, or the last spread in the signal channel, or in the hands of *)
(* the handler, or set.                                                    *)
(*                                                                         *)
(* No alarm is applied that was not made (AlarmsCounted): those applied,   *)
(* those in the two channels and those in the hands of the agent and the   *)
(* handler are together no more than were made.                            *)
(***************************************************************************)
EXTENDS AgentVault, FiniteSetTheorems, TLAPS

\* What a spread goes through: the types, and that the agent sends what the score
\* it looks at calls for.
PathOK ==
    /\ sentimentQ \in Seq(Score)
    /\ agent \in [pc: {"select", "emit"}, signal: Signal, sentiment: Score]
    /\ signalQ \in Seq(Signal)
    /\ handler \in [pc: {"recv", "handle"}, signal: Signal]
    /\ agent.pc = "emit" => agent.signal = SignalFor(agent.sentiment)

IsSpread(signal) == signal.kind \in {"WidenSpread", "NarrowSpread"}

NoSpreadIn(q) == \A i \in 1 .. Len(q) : ~IsSpread(q[i])

\* signal is the last in q to set a spread.
LastSpread(q, signal) ==
    \E i \in 1 .. Len(q) : q[i] = signal /\ \A j \in i + 1 .. Len(q) : ~IsSpread(q[j])

Wanted == ~HighRisk(agent.sentiment) /\ SpreadFactor(agent.sentiment) # 100
WantedSignal == WidenSpread(SpreadFactor(agent.sentiment))

Underway ==
    \/ agent.pc = "emit" /\ agent.signal = WantedSignal
    \/ LastSpread(signalQ, WantedSignal)
    \/ NoSpreadIn(signalQ) /\ handler.pc = "handle" /\ handler.signal = WantedSignal
    \/ /\ NoSpreadIn(signalQ)
       /\ handler.pc = "handle" => ~IsSpread(handler.signal)
       /\ spreadMultiplier = SpreadFactor(agent.sentiment)

SpreadInv == Wanted => Underway

\* Nobody but the agent sets spreads.
AgentOnlySpreads == \A signal \in OperatorSignals : ~IsSpread(signal)

-----------------------------------------------------------------------------
(* Signals, and what a channel does to the last spread in it.              *)

LEMMA SignalTypes ==
    /\ NoSignal \in Signal
    /\ \A score \in Score : SpreadFactor(score) \in {100, 120, 200}
    /\ \A factor \in Nat : WidenSpread(factor) \in Signal
    /\ \A factor \in Nat : /\ WidenSpread(factor).kind = "WidenSpread"
                           /\ WidenSpread(factor).factor = factor
    /\ \A timed \in BOOLEAN : CircuitBreaker(timed) \in Signal
    /\ \A score \in Score : SignalFor(score) \in Signal
  <1>1. NoSignal \in Signal
    BY DEF NoSignal, Signal
  <1>2. \A score \in Score : SpreadFactor(score) \in {100, 120, 200}
    BY DEF Score, SpreadFactor
  <1>3. ASSUME NEW factor \in Nat
        PROVE  /\ WidenSpread(factor) \in Signal
               /\ WidenSpread(factor).kind = "WidenSpread"
               /\ WidenSpread(factor).factor = factor
    <2> DEFINE u == [NoSignal EXCEPT !.kind = "WidenSpread"]
    <2>1. u \in Signal /\ u.kind = "WidenSpread"
      BY <1>1 DEF Signal
    <2>2. WidenSpread(factor) = [u EXCEPT !.factor = factor]
      BY DEF WidenSpread
    <2> HIDE DEF u
    <2>3. LET w == [u EXCEPT !.factor = factor] IN
          w \in Signal /\ w.kind = u.kind /\ w.factor = factor
      BY <2>1 DEF Signal
    <2>4. QED
      BY <2>1, <2>2, <2>3
  <1>4. ASSUME NEW timed \in BOOLEAN PROVE CircuitBreaker(timed) \in Signal
    <2> DEFINE u == [NoSignal EXCEPT !.kind = "CircuitBreaker"]
    <2>1. u \in Signal
      BY <1>1 DEF Signal
    <2>2. CircuitBreaker(timed) = [u EXCEPT !.timed = timed]
      BY DEF CircuitBreaker
    <2> HIDE DEF u
    <2>3. [u EXCEPT !.timed = timed] \in Signal
      BY <2>1 DEF Signal
    <2>4. QED
      BY <2>2, <2>3
  <1>5. ASSUME NEW score \in Score PROVE SignalFor(score) \in Signal
    <2>1. CircuitBreaker(TRUE) \in Signal
      BY <1>4
    <2>2. WidenSpread(SpreadFactor(score)) \in Signal
      BY <1>2, <1>3
    <2>3. QED
      BY <1>1, <2>1, <2>2 DEF SignalFor
  <1>6. QED
    BY <1>1, <1>2, <1>3, <1>4, <1>5

LEMMA AppendSpread ==
    ASSUME NEW q \in Seq(Signal), NEW s \in Signal, NEW t \in Signal
    PROVE  /\ Append(q, s) \in Seq(Signal)
           /\ LastSpread(Append(q, s), s)
           /\ ~IsSpread(s) /\ LastSpread(q, t) => LastSpread(Append(q, s), t)
           /\ ~IsSpread(s) /\ NoSpreadIn(q) => NoSpreadIn(Append(q, s))
  <1> DEFINE r == Append(q, s)
  <1>1. /\ r \in Seq(Signal) /\ Len(r) = Len(q) + 1 /\ Len(q) \in Nat
        /\ r[Len(q) + 1] = s
        /\ \A i \in 1 .. Len(q) : r[i] = q[i]
    OBVIOUS
  <1> HIDE DEF r
  <1>2. LastSpread(r, s)
    BY <1>1 DEF LastSpread
  <1>3. ASSUME ~IsSpread(s), LastSpread(q, t) PROVE LastSpread(r, t)
    <2>1. PICK i \in 1 .. Len(q) : q[i] = t /\ \A j \in i + 1 .. Len(q) : ~IsSpread(q[j])
      BY <1>3 DEF LastSpread
    <2>2. i \in 1 .. Len(r) /\ r[i] = t
      BY <1>1, <2>1
    <2>3. \A j \in i + 1 .. Len(r) : ~IsSpread(r[j])
      BY <1>1, <1>3, <2>1
    <2>4. QED
      BY <2>2, <2>3 DEF LastSpread
  <1>4. ASSUME ~IsSpread(s), NoSpreadIn(q) PROVE NoSpreadIn(r)
    BY <1>1, <1>4 DEF NoSpreadIn
  <1>5. QED
    BY <1>1, <1>2, <1>3, <1>4 DEF r

LEMMA TailSpread ==
    ASSUME NEW q \in Seq(Signal), q # <<>>, NEW t \in Signal
    PROVE  /\ Head(q) \in Signal /\ Tail(q) \in Seq(Signal)
           /\ LastSpread(q, t) => LastSpread(Tail(q), t) \/ (Head(q) = t /\ NoSpreadIn(Tail(q)))
           /\ NoSpreadIn(q) => ~IsSpread(Head(q)) /\ NoSpreadIn(Tail(q))
  <1> DEFINE r == Tail(q)
  <1>1. /\ r \in Seq(Signal) /\ Len(q) \in Nat \ {0} /\ Len(r) = Len(q) - 1
        /\ Head(q) = q[1] /\ Head(q) \in Signal
        /\ \A i \in 1 .. Len(r) : r[i] = q[i + 1]
    OBVIOUS
  <1> HIDE DEF r
  <1>2. ASSUME LastSpread(q, t) PROVE LastSpread(r, t) \/ (Head(q) = t /\ NoSpreadIn(r))
    <2>1. PICK i \in 1 .. Len(q) : q[i] = t /\ \A j \in i + 1 .. Len(q) : ~IsSpread(q[j])
      BY <1>2 DEF LastSpread
    <2>2. CASE i = 1
      <3>1. \A j \in 1 .. Len(r) : j + 1 \in 2 .. Len(q)
        BY <1>1
      <3>2. QED
        BY <1>1, <2>1, <2>2, <3>1 DEF NoSpreadIn
    <2>3. CASE i # 1
      <3>1. i - 1 \in 1 .. Len(r) /\ r[i - 1] = t
        BY <1>1, <2>1, <2>3
      <3>2. \A j \in (i - 1) + 1 .. Len(r) : ~IsSpread(r[j])
        BY <1>1, <2>1, <2>3
      <3>3. QED
        BY <3>1, <3>2 DEF LastSpread
    <2>4. QED
      BY <2>2, <2>3
  <1>3. ASSUME NoSpreadIn(q) PROVE ~IsSpread(Head(q)) /\ NoSpreadIn(r)
    BY <1>1, <1>3 DEF NoSpreadIn
  <1>4. QED
    BY <1>1, <1>2, <1>3 DEF r

-----------------------------------------------------------------------------
LEMMA InitPath == Init => PathOK /\ SpreadInv
  BY SignalTypes DEF Init, PathOK, SpreadInv, Wanted, SpreadFactor, Score

LEMMA StepPath ==
    ASSUME PathOK, [Next]_vars
    PROVE  PathOK'
  <1> USE DEF PathOK
  <1>1. CASE Fetch
    BY <1>1 DEF Fetch
  <1>2. CASE OnSentiment
    <2>1. Head(sentimentQ) \in Score /\ Tail(sentimentQ) \in Seq(Score)
      BY <1>2 DEF OnSentiment
    <2>2. QED
      BY <1>2, <2>1, SignalTypes DEF OnSentiment
  <1>3. CASE OnEvent
    BY <1>3 DEF OnEvent
  <1>4. CASE EmitSignal
    <2> DEFINE u == [agent EXCEPT !.pc = "select"]
    <2>1. u \in [pc: {"select", "emit"}, signal: Signal, sentiment: Score] /\ u.pc = "select"
      OBVIOUS
    <2>2. agent' = [u EXCEPT !.signal = NoSignal]
      BY <1>4 DEF EmitSignal
    <2> HIDE DEF u
    <2>3. /\ agent' \in [pc: {"select", "emit"}, signal: Signal, sentiment: Score]
          /\ agent'.pc = "select" /\ agent'.sentiment = u.sentiment
      BY <2>1, <2>2, SignalTypes
    <2>4. signalQ' \in Seq(Signal)
      BY <1>4 DEF EmitSignal
    <2>5. QED
      BY <1>4, <2>3, <2>4 DEF EmitSignal
  <1>5. CASE OperatorSend
    BY <1>5, OperatorAssumption DEF OperatorSend
  <1>6. CASE Receive
    BY <1>6 DEF Receive
  <1>7. CASE HandleSignal
    BY <1>7, SignalTypes DEF HandleSignal
  <1>8. CASE \E id \in timers : TimerFires(id)
    BY <1>8 DEF TimerFires
  <1>9. CASE \E d \in Depositors : StartDeposit(d) \/ UpdatePool(d) \/ SendEvent(d)
    BY <1>9 DEF StartDeposit, UpdatePool, SendEvent
  <1>10. CASE UNCHANGED vars
    BY <1>10 DEF vars
  <1>11. QED
    BY <1>1, <1>2, <1>3, <1>4, <1>5, <1>6, <1>7, <1>8, <1>9, <1>10 DEF Next

\* A step that touches neither the agent nor the spread's path.
LEMMA OffPath ==
    ASSUME SpreadInv, UNCHANGED <<agent, signalQ, handler, spreadMultiplier>>
    PROVE  SpreadInv'
  BY DEF SpreadInv, Wanted, WantedSignal, Underway

LEMMA StepSpread ==
    ASSUME AgentOnlySpreads, PathOK, SpreadInv, [Next]_vars
    PROVE  SpreadInv'
  <1>0. agent.sentiment \in Score /\ WantedSignal \in Signal
        /\ SpreadFactor(agent.sentiment) \in {100, 120, 200}
        /\ WantedSignal.factor = SpreadFactor(agent.sentiment) /\ IsSpread(WantedSignal)
    BY SignalTypes DEF PathOK, WantedSignal, IsSpread
  <1>1. CASE OnSentiment
    <2>1. Head(sentimentQ) \in Score
      BY <1>1 DEF OnSentiment, PathOK
    <2> SUFFICES ASSUME Wanted' PROVE Underway'
      BY DEF SpreadInv
    <2>2. agent'.sentiment = Head(sentimentQ)
      BY <1>1 DEF OnSentiment
    <2>3. SignalFor(Head(sentimentQ)) = WidenSpread(SpreadFactor(Head(sentimentQ)))
      BY <2>2 DEF Wanted, SignalFor
    <2>4. WidenSpread(SpreadFactor(Head(sentimentQ))) # NoSignal
      <3>1. SpreadFactor(Head(sentimentQ)) \in Nat
        BY <2>1, SignalTypes
      <3>2. QED
        BY <3>1, SignalTypes DEF NoSignal
    <2>5. agent'.pc = "emit" /\ agent'.signal = WantedSignal'
      BY <1>1, <2>2, <2>3, <2>4 DEF OnSentiment, WantedSignal
    <2>6. QED
      BY <2>5 DEF Underway
  <1>2. CASE EmitSignal
    <2> SUFFICES ASSUME Wanted' PROVE Underway'
      BY DEF SpreadInv
    <2>1. /\ agent.pc = "emit" /\ agent.signal \in Signal
          /\ agent' = [agent EXCEPT !.pc = "select", !.signal = NoSignal]
          /\ signalQ' = Append(signalQ, agent.signal)
      BY <1>2 DEF EmitSignal, PathOK
    <2>2. agent'.sentiment = agent.sentiment
      <3> DEFINE u == [agent EXCEPT !.pc = "select"]
      <3>1. u \in [pc: {"select", "emit"}, signal: Signal, sentiment: Score]
            /\ u.sentiment = agent.sentiment
        BY DEF PathOK
      <3>2. agent' = [u EXCEPT !.signal = NoSignal]
        BY <2>1
      <3> HIDE DEF u
      <3>3. QED
        BY <3>1, <3>2
    <2>3. agent.signal = WantedSignal /\ WantedSignal' = WantedSignal
      BY <2>1, <2>2 DEF PathOK, Wanted, SignalFor, WantedSignal
    <2>4. LastSpread(signalQ', WantedSignal')
      BY <2>1, <2>3, AppendSpread DEF PathOK
    <2>5. QED
      BY <2>4 DEF Underway
  <1>3. CASE OperatorSend
    <2>1. PICK signal \in OperatorSignals : signalQ' = Append(signalQ, signal)
      BY <1>3 DEF OperatorSend
    <2>2. signal \in Signal /\ ~IsSpread(signal)
      BY <2>1, OperatorAssumption DEF AgentOnlySpreads
    <2>3. /\ LastSpread(signalQ, WantedSignal) => LastSpread(signalQ', WantedSignal)
          /\ NoSpreadIn(signalQ) => NoSpreadIn(signalQ')
      BY <1>0, <2>1, <2>2, AppendSpread DEF PathOK
    <2>4. UNCHANGED <<agent, handler, spreadMultiplier>>
      BY <1>3 DEF OperatorSend, poolVars
    <2>5. WantedSignal' = WantedSignal /\ Wanted' = Wanted
      BY <2>4 DEF WantedSignal, Wanted
    <2>6. QED
      BY <2>3, <2>4, <2>5 DEF SpreadInv, Underway
  <1>4. CASE Receive
    <2>1. /\ signalQ # <<>> /\ handler.pc = "recv" /\ signalQ' = Tail(signalQ)
          /\ handler'.pc = "handle" /\ handler'.signal = Head(signalQ)
          /\ UNCHANGED <<agent, spreadMultiplier>>
      BY <1>4 DEF Receive, poolVars
    <2>2. /\ LastSpread(signalQ, WantedSignal) =>
               \/ LastSpread(signalQ', WantedSignal)
               \/ Head(signalQ) = WantedSignal /\ NoSpreadIn(signalQ')
          /\ NoSpreadIn(signalQ) => ~IsSpread(Head(signalQ)) /\ NoSpreadIn(signalQ')
      BY <1>0, <2>1, TailSpread DEF PathOK
    <2>3. WantedSignal' = WantedSignal /\ Wanted' = Wanted
      BY <2>1 DEF WantedSignal, Wanted
    <2>4. QED
      BY <2>1, <2>2, <2>3 DEF SpreadInv, Underway
  <1>5. CASE HandleSignal
    <2>1. /\ handler.pc = "handle" /\ handler'.pc = "recv" /\ Apply(handler.signal)
          /\ UNCHANGED <<agent, signalQ>>
      BY <1>5 DEF HandleSignal
    <2>2. ~IsSpread(handler.signal) => spreadMultiplier' = spreadMultiplier
      BY <2>1 DEF Apply, SetSpread, Activate, Deactivate, IsSpread
    <2>3. Wanted /\ handler.signal = WantedSignal =>
            spreadMultiplier' = SpreadFactor(agent.sentiment)
      <3>1. WantedSignal.kind = "WidenSpread"
        BY <1>0, SignalTypes DEF WantedSignal
      <3>2. QED
        BY <1>0, <2>1, <3>1 DEF Apply, SetSpread, Activate, Deactivate, AtLeastBase
    <2>4. WantedSignal' = WantedSignal /\ Wanted' = Wanted
      BY <2>1 DEF WantedSignal, Wanted
    <2>5. QED
      BY <2>1, <2>2, <2>3, <2>4 DEF SpreadInv, Underway
  <1>6. CASE Fetch \/ OnEvent
    BY <1>6, OffPath DEF Fetch, OnEvent, poolVars
  <1>7. CASE \E id \in timers : TimerFires(id)
    BY <1>7, OffPath DEF TimerFires
  <1>8. CASE \E d \in Depositors : StartDeposit(d) \/ UpdatePool(d) \/ SendEvent(d)
    BY <1>8, OffPath DEF StartDeposit, UpdatePool, SendEvent, poolVars
  <1>9. CASE UNCHANGED vars
    BY <1>9, OffPath DEF vars
  <1>10. QED
    BY <1>1, <1>2, <1>3, <1>4, <1>5, <1>6, <1>7, <1>8, <1>9 DEF Next

\* When nothing is on its way, what the agent asked for is set.
LEMMA SpreadArrived == PathOK /\ SpreadInv => SpreadFollowsAgent
  <1> SUFFICES ASSUME PathOK, SpreadInv, Wanted,
                      agent.pc = "select", signalQ = <<>>, handler.pc = "recv"
               PROVE  spreadMultiplier = SpreadFactor(agent.sentiment)
    BY DEF SpreadFollowsAgent, Wanted
  <1>1. ~LastSpread(signalQ, WantedSignal)
    BY DEF LastSpread
  <1>2. QED
    BY <1>1 DEF SpreadInv, Underway

LEMMA StepBreaker ==
    ASSUME BreakerHasTimer, [Next]_vars
    PROVE  BreakerHasTimer'
  <1> USE DEF BreakerHasTimer
  <1>1. CASE HandleSignal
    <2>1. CASE SetSpread(handler.signal)
      BY <2>1 DEF SetSpread
    <2>2. CASE Activate(handler.signal)
      BY <2>2 DEF Activate
    <2>3. CASE Deactivate(handler.signal)
      BY <2>3 DEF Deactivate
    <2>4. QED
      BY <1>1, <2>1, <2>2, <2>3 DEF HandleSignal, Apply
  <1>2. CASE \E id \in timers : TimerFires(id)
    BY <1>2 DEF TimerFires
  <1>3. CASE \E d \in Depositors : StartDeposit(d) \/ UpdatePool(d) \/ SendEvent(d)
    BY <1>3 DEF StartDeposit, UpdatePool, SendEvent, poolVars
  <1>4. CASE Fetch \/ OnSentiment \/ OnEvent \/ EmitSignal \/ OperatorSend \/ Receive
    <2>1. UNCHANGED poolVars
      BY <1>4 DEF Fetch, OnSentiment, OnEvent, EmitSignal, OperatorSend, Receive
    <2>2. QED
      BY <2>1 DEF poolVars
  <1>5. CASE UNCHANGED vars
    BY <1>5 DEF vars
  <1>6. QED
    BY <1>1, <1>2, <1>3, <1>4, <1>5 DEF Next

-----------------------------------------------------------------------------
(* Alarms: counted where they are.                                         *)

IsAlarm(signal) == signal.kind = "CircuitBreaker"
AlarmSignals == {signal \in Signal : IsAlarm(signal)}

\* Where a channel holds a message of set X.
Places(q, X) == {i \in 1 .. Len(q) : q[i] \in X}

AlarmsAhead == Cardinality(Places(sentimentQ, {"panic"}))
AlarmsSent == Cardinality(Places(signalQ, AlarmSignals))
AgentHolds == IF agent.pc = "emit" /\ IsAlarm(agent.signal) THEN 1 ELSE 0
HandlerHolds == IF handler.pc = "handle" /\ IsAlarm(handler.signal) THEN 1 ELSE 0

AlarmsCounted == lastAlarm.id + AlarmsAhead + AgentHolds + AlarmsSent + HandlerHolds <= alarms

LEMMA PlacesFinite ==
    ASSUME NEW S, NEW q \in Seq(S), NEW X
    PROVE  IsFiniteSet(Places(q, X)) /\ Cardinality(Places(q, X)) \in Nat
  <1>1. IsFiniteSet(1 .. Len(q))
    BY FS_Interval
  <1>2. Places(q, X) \subseteq 1 .. Len(q)
    BY DEF Places
  <1>3. QED
    BY <1>1, <1>2, FS_Subset, FS_CardinalityType

LEMMA PlacesAppend ==
    ASSUME NEW S, NEW q \in Seq(S), NEW e \in S, NEW X
    PROVE  Cardinality(Places(Append(q, e), X)) =
             Cardinality(Places(q, X)) + (IF e \in X THEN 1 ELSE 0)
  <1> DEFINE r == Append(q, e)
             n == Len(q)
             P == Places(q, X)
  <1>1. /\ n \in Nat /\ Len(r) = n + 1 /\ r[n + 1] = e
        /\ \A i \in 1 .. n : r[i] = q[i]
        /\ 1 .. (n + 1) = (1 .. n) \cup {n + 1} /\ n + 1 \notin 1 .. n
    OBVIOUS
  <1> HIDE DEF r
  <1>2. Places(r, X) = IF e \in X THEN P \cup {n + 1} ELSE P
    BY <1>1 DEF Places
  <1>3. n + 1 \notin P
    BY <1>1 DEF Places
  <1>4. IsFiniteSet(P) /\ Cardinality(P) \in Nat
    BY PlacesFinite
  <1> HIDE DEF P, n
  <1>5. Cardinality(P \cup {n + 1}) = Cardinality(P) + 1
    BY <1>3, <1>4, FS_AddElement
  <1>6. QED
    BY <1>2, <1>4, <1>5 DEF r, P

LEMMA PlacesTail ==
    ASSUME NEW S, NEW q \in Seq(S), q # <<>>, NEW X
    PROVE  Cardinality(Places(q, X)) =
             Cardinality(Places(Tail(q), X)) + (IF Head(q) \in X THEN 1 ELSE 0)
  <1> DEFINE r == Tail(q)
             n == Len(q)
             P == Places(q, X)
             R == Places(r, X)
             shift == [j \in R |-> j + 1]
  <1>1. /\ n \in Nat \ {0} /\ Len(r) = n - 1 /\ Head(q) = q[1]
        /\ \A i \in 1 .. n - 1 : r[i] = q[i + 1]
        /\ r \in Seq(S)
    OBVIOUS
  <1> HIDE DEF r
  <1>2. R \subseteq 1 .. n - 1 /\ \A j \in 1 .. n - 1 : j \in R <=> j + 1 \in P
    BY <1>1 DEF Places
  <1>3. P \subseteq 1 .. n /\ (1 \in P <=> Head(q) \in X)
    BY <1>1 DEF Places
  <1>4. IsFiniteSet(P) /\ Cardinality(P) \in Nat /\ IsFiniteSet(R) /\ Cardinality(R) \in Nat
    BY <1>1, PlacesFinite
  <1> HIDE DEF P, R
  <1>5. shift \in Bijection(R, P \ {1})
    <2>1. \A j \in R : j \in Nat /\ j + 1 \in P \ {1}
      BY <1>1, <1>2
    <2>2. shift \in [R -> P \ {1}]
      BY <2>1
    <2>3. \A j, k \in R : shift[j] = shift[k] => j = k
      BY <2>1
    <2>4. ASSUME NEW i \in P \ {1} PROVE \E j \in R : shift[j] = i
      <3>1. i - 1 \in 1 .. n - 1 /\ (i - 1) + 1 = i
        BY <1>1, <1>3
      <3>2. i - 1 \in R
        BY <1>2, <3>1
      <3>3. QED
        BY <3>1, <3>2
    <2> HIDE DEF shift
    <2>5. QED
      BY <2>2, <2>3, <2>4 DEF Bijection, Injection, Surjection, IsInjective
  <1>6. Cardinality(P \ {1}) = Cardinality(R)
    BY <1>4, <1>5, FS_Bijection DEF ExistsBijection
  <1>7. Cardinality(P \ {1}) = IF 1 \in P THEN Cardinality(P) - 1 ELSE Cardinality(P)
    BY <1>4, FS_RemoveElement
  <1>8. QED
    BY <1>3, <1>4, <1>6, <1>7 DEF P, R, r

LEMMA CountTypes ==
    ASSUME TypeOK
    PROVE  /\ AlarmsAhead \in Nat /\ AlarmsSent \in Nat
           /\ AgentHolds \in Nat /\ HandlerHolds \in Nat
           /\ lastAlarm.id \in Nat /\ alarms \in Nat /\ MaxAlarms \in Nat /\ alarms <= MaxAlarms
  <1>1. AlarmsAhead \in Nat
    BY PlacesFinite DEF TypeOK, AlarmsAhead
  <1>2. AlarmsSent \in Nat
    BY PlacesFinite DEF TypeOK, AlarmsSent
  <1>3. AgentHolds \in Nat /\ HandlerHolds \in Nat
    BY DEF AgentHolds, HandlerHolds
  <1>4. QED
    BY <1>1, <1>2, <1>3, CapacityAssumption DEF TypeOK

LEMMA InitTypes == Init => TypeOK /\ AlarmsCounted
  <1> SUFFICES ASSUME Init PROVE TypeOK /\ AlarmsCounted
    OBVIOUS
  <1>1. TypeOK
    <2>1. /\ sentimentQ \in Seq(Score) /\ Len(sentimentQ) <= SentimentCap
          /\ signalQ \in Seq(Signal) /\ Len(signalQ) <= SignalCap
          /\ eventQ \in Seq(Depositors) /\ Len(eventQ) <= EventCap
      BY CapacityAssumption DEF Init
    <2>2. /\ agent \in [pc: {"select", "emit"}, signal: Signal, sentiment: Score]
          /\ handler \in [pc: {"recv", "handle"}, signal: Signal]
      BY SignalTypes DEF Init, Score
    <2>3. /\ depositor \in [Depositors -> {"idle", "pool", "emit"}]
          /\ circuitBreaker \in BOOLEAN /\ timers \subseteq 1 .. MaxAlarms
      BY DEF Init
    <2>4. /\ spreadMultiplier \in Nat \ 0 .. 99 /\ alarms \in 0 .. MaxAlarms
          /\ 0 \in 0 .. MaxAlarms
      BY CapacityAssumption DEF Init
    <2>5. lastAlarm \in [id: 0 .. MaxAlarms, timed: BOOLEAN]
      BY <2>4 DEF Init
    <2>6. QED
      BY <2>1, <2>2, <2>3, <2>4, <2>5 DEF TypeOK
  <1>2. Places(sentimentQ, {"panic"}) = {} /\ Places(signalQ, AlarmSignals) = {}
    BY DEF Init, Places
  <1>3. AlarmsAhead = 0 /\ AlarmsSent = 0
    BY <1>2, FS_EmptySet DEF AlarmsAhead, AlarmsSent
  <1>4. AgentHolds = 0 /\ HandlerHolds = 0
    BY DEF Init, AgentHolds, HandlerHolds
  <1>5. QED
    BY <1>1, <1>3, <1>4 DEF Init, AlarmsCounted

\* Where a step leaves an alarm, the count of that place stays.
LEMMA CountsKept ==
    /\ UNCHANGED sentimentQ => AlarmsAhead' = AlarmsAhead
    /\ UNCHANGED agent => AgentHolds' = AgentHolds
    /\ UNCHANGED signalQ => AlarmsSent' = AlarmsSent
    /\ UNCHANGED handler => HandlerHolds' = HandlerHolds
  BY DEF AlarmsAhead, AgentHolds, AlarmsSent, HandlerHolds

LEMMA FetchTypes ==
    ASSUME TypeOK, AlarmsCounted, Fetch
    PROVE  TypeOK' /\ AlarmsCounted'
  <1>1. PICK score \in Score :
          /\ HighRisk(score) => alarms < MaxAlarms
          /\ sentimentQ' = Append(sentimentQ, score)
          /\ alarms' = IF HighRisk(score) THEN alarms + 1 ELSE alarms
    BY DEF Fetch
  <1>2. /\ Len(sentimentQ) < SentimentCap
        /\ UNCHANGED <<agent, signalQ, handler, eventQ, depositor, circuitBreaker,
                       spreadMultiplier, timers, lastAlarm>>
    BY DEF Fetch, poolVars
  <1>3. alarms' \in 0 .. MaxAlarms
    BY <1>1, CountTypes
  <1>4. sentimentQ' \in Seq(Score) /\ Len(sentimentQ') <= SentimentCap
    BY <1>1, <1>2, CapacityAssumption DEF TypeOK
  <1>5. TypeOK'
    BY <1>2, <1>3, <1>4 DEF TypeOK
  <1>6. AlarmsAhead' = AlarmsAhead + (IF score \in {"panic"} THEN 1 ELSE 0)
    BY <1>1, PlacesAppend DEF TypeOK, AlarmsAhead
  <1>7. alarms' = alarms + (IF score \in {"panic"} THEN 1 ELSE 0)
    BY <1>1, CountTypes DEF HighRisk
  <1>8. AlarmsCounted'
    <2> DEFINE one == IF score \in {"panic"} THEN 1 ELSE 0
    <2>1. one \in Nat
      OBVIOUS
    <2>2. AlarmsAhead' = AlarmsAhead + one /\ alarms' = alarms + one
      BY <1>6, <1>7
    <2> HIDE DEF one
    <2>3. /\ AgentHolds' = AgentHolds /\ AlarmsSent' = AlarmsSent
          /\ HandlerHolds' = HandlerHolds /\ lastAlarm'.id = lastAlarm.id
      BY <1>2, CountsKept
    <2>4. QED
      BY <2>1, <2>2, <2>3, CountTypes DEF AlarmsCounted
  <1>9. QED
    BY <1>5, <1>8

LEMMA OnSentimentTypes ==
    ASSUME TypeOK, AlarmsCounted, OnSentiment
    PROVE  TypeOK' /\ AlarmsCounted'
  <1> DEFINE score == Head(sentimentQ)
             signal == SignalFor(score)
             one == IF score \in {"panic"} THEN 1 ELSE 0
  <1>1. /\ agent.pc = "select" /\ sentimentQ # <<>> /\ sentimentQ' = Tail(sentimentQ)
        /\ agent' = [pc |-> IF signal = NoSignal THEN "select" ELSE "emit",
                     signal |-> signal, sentiment |-> score]
        /\ UNCHANGED <<signalQ, handler, eventQ, depositor, circuitBreaker,
                       spreadMultiplier, timers, lastAlarm, alarms>>
    BY DEF OnSentiment, poolVars
  <1>2. /\ score \in Score /\ sentimentQ' \in Seq(Score)
        /\ Len(sentimentQ') <= SentimentCap
    BY <1>1, CapacityAssumption DEF TypeOK
  <1>3. signal \in Signal
    BY <1>2, SignalTypes
  <1>4. TypeOK'
    BY <1>1, <1>2, <1>3 DEF TypeOK
  <1>5. AlarmsAhead = AlarmsAhead' + one
    BY <1>1, PlacesTail DEF TypeOK, AlarmsAhead
  <1>6. AgentHolds = 0
    BY <1>1 DEF AgentHolds
  <1>7. AgentHolds' <= one
    <2>1. IsAlarm(signal) => score = "panic"
      <3>1. score # "panic" => signal = NoSignal \/ signal = WidenSpread(SpreadFactor(score))
        BY DEF SignalFor, HighRisk
      <3>2. NoSignal.kind = "none" /\ WidenSpread(SpreadFactor(score)).kind = "WidenSpread"
        BY <1>2, SignalTypes DEF NoSignal
      <3>3. QED
        BY <3>1, <3>2 DEF IsAlarm
    <2>2. agent'.signal = signal
      BY <1>1
    <2> HIDE DEF signal
    <2>3. QED
      BY <2>1, <2>2 DEF AgentHolds
  <1>8. one \in Nat /\ AgentHolds' \in Nat
    BY DEF AgentHolds
  <1>9. AlarmsCounted'
    <2>1. AlarmsAhead' \in Nat
      BY <1>2, PlacesFinite DEF AlarmsAhead
    <2>2. /\ AlarmsSent' = AlarmsSent /\ HandlerHolds' = HandlerHolds
          /\ lastAlarm'.id = lastAlarm.id /\ alarms' = alarms
      BY <1>1, CountsKept
    <2> HIDE DEF one
    <2>3. QED
      BY <1>5, <1>6, <1>7, <1>8, <2>1, <2>2, CountTypes DEF AlarmsCounted
  <1>10. QED
    BY <1>4, <1>9

LEMMA EmitSignalTypes ==
    ASSUME TypeOK, AlarmsCounted, EmitSignal
    PROVE  TypeOK' /\ AlarmsCounted'
  <1> DEFINE signal == agent.signal
             one == IF signal \in AlarmSignals THEN 1 ELSE 0
             u == [agent EXCEPT !.pc = "select"]
  <1>1. /\ agent.pc = "emit" /\ Len(signalQ) < SignalCap
        /\ signalQ' = Append(signalQ, signal)
        /\ agent' = [u EXCEPT !.signal = NoSignal]
        /\ UNCHANGED <<sentimentQ, handler, eventQ, depositor, circuitBreaker,
                       spreadMultiplier, timers, lastAlarm, alarms>>
    BY DEF EmitSignal, poolVars
  <1>2. signal \in Signal /\ u \in [pc: {"select", "emit"}, signal: Signal, sentiment: Score]
        /\ u.pc = "select"
    BY DEF TypeOK
  <1> HIDE DEF u
  <1>3. agent' \in [pc: {"select", "emit"}, signal: Signal, sentiment: Score]
        /\ agent'.pc = "select"
    BY <1>1, <1>2, SignalTypes
  <1>4. AgentHolds = one /\ AgentHolds' = 0
    BY <1>1, <1>2, <1>3 DEF AgentHolds, AlarmSignals
  <1> HIDE DEF signal
  <1>5. signalQ' \in Seq(Signal) /\ Len(signalQ') <= SignalCap
    <2>1. signalQ \in Seq(Signal)
      BY DEF TypeOK
    <2>2. Append(signalQ, signal) \in Seq(Signal)
          /\ Len(Append(signalQ, signal)) = Len(signalQ) + 1 /\ Len(signalQ) \in Nat
      BY <1>2, <2>1
    <2>3. QED
      BY <1>1, <2>2, CapacityAssumption
  <1>6. TypeOK'
    BY <1>1, <1>3, <1>5 DEF TypeOK
  <1>7. AlarmsSent' = AlarmsSent + one
    <2>1. signalQ \in Seq(Signal)
      BY DEF TypeOK
    <2>2. QED
      BY <1>1, <1>2, <2>1, PlacesAppend DEF AlarmsSent
  <1>8. AlarmsCounted'
    <2>1. one \in Nat
      OBVIOUS
    <2>2. /\ AlarmsAhead' = AlarmsAhead /\ HandlerHolds' = HandlerHolds
          /\ lastAlarm'.id = lastAlarm.id /\ alarms' = alarms
      BY <1>1, CountsKept
    <2> HIDE DEF one
    <2>3. QED
      BY <1>4, <1>7, <2>1, <2>2, CountTypes DEF AlarmsCounted
  <1>9. QED
    BY <1>6, <1>8

LEMMA OperatorSendTypes ==
    ASSUME TypeOK, AlarmsCounted, OperatorSend
    PROVE  TypeOK' /\ AlarmsCounted'
  <1>1. PICK signal \in OperatorSignals :
          /\ signalQ' = Append(signalQ, signal)
          /\ \/ signal.kind = "CircuitBreaker" /\ alarms < MaxAlarms /\ alarms' = alarms + 1
             \/ signal.kind # "CircuitBreaker" /\ UNCHANGED alarms
    BY DEF OperatorSend
  <1> DEFINE one == IF signal \in AlarmSignals THEN 1 ELSE 0
  <1>2. /\ Len(signalQ) < SignalCap /\ signal \in Signal
        /\ UNCHANGED <<sentimentQ, agent, handler, eventQ, depositor, circuitBreaker,
                       spreadMultiplier, timers, lastAlarm>>
    BY OperatorAssumption DEF OperatorSend, poolVars
  <1>3. alarms' \in 0 .. MaxAlarms
    BY <1>1, CountTypes
  <1>4. signalQ' \in Seq(Signal) /\ Len(signalQ') <= SignalCap
    BY <1>1, <1>2, CapacityAssumption DEF TypeOK
  <1>5. TypeOK'
    BY <1>2, <1>3, <1>4 DEF TypeOK
  <1>6. AlarmsSent' = AlarmsSent + one
    BY <1>1, <1>2, PlacesAppend DEF TypeOK, AlarmsSent
  <1>7. alarms' = alarms + one
    BY <1>1, <1>2, CountTypes DEF AlarmSignals, IsAlarm
  <1> HIDE DEF one
  <1>8. AlarmsCounted'
    <2>1. one \in Nat
      BY DEF one
    <2>2. /\ AlarmsAhead' = AlarmsAhead /\ AgentHolds' = AgentHolds
          /\ HandlerHolds' = HandlerHolds /\ lastAlarm'.id = lastAlarm.id
      BY <1>2, CountsKept
    <2>3. QED
      BY <1>6, <1>7, <2>1, <2>2, CountTypes DEF AlarmsCounted
  <1>9. QED
    BY <1>5, <1>8

LEMMA ReceiveTypes ==
    ASSUME TypeOK, AlarmsCounted, Receive
    PROVE  TypeOK' /\ AlarmsCounted'
  <1> DEFINE signal == Head(signalQ)
             one == IF signal \in AlarmSignals THEN 1 ELSE 0
  <1>1. /\ handler.pc = "recv" /\ signalQ # <<>> /\ signalQ' = Tail(signalQ)
        /\ handler' = [pc |-> "handle", signal |-> signal]
        /\ UNCHANGED <<sentimentQ, agent, eventQ, depositor, circuitBreaker,
                       spreadMultiplier, timers, lastAlarm, alarms>>
    BY DEF Receive, poolVars
  <1>2. signal \in Signal /\ signalQ' \in Seq(Signal) /\ Len(signalQ') <= SignalCap
    BY <1>1, CapacityAssumption DEF TypeOK
  <1>3. TypeOK'
    BY <1>1, <1>2 DEF TypeOK
  <1>4. AlarmsSent = AlarmsSent' + one
    BY <1>1, PlacesTail DEF TypeOK, AlarmsSent
  <1>5. HandlerHolds = 0 /\ HandlerHolds' = one
    BY <1>1, <1>2 DEF HandlerHolds, AlarmSignals
  <1>6. AlarmsSent' \in Nat
    BY <1>3, PlacesFinite DEF AlarmsSent, TypeOK
  <1> HIDE DEF one
  <1>7. AlarmsCounted'
    BY <1>1, <1>4, <1>5, <1>6, CountsKept, CountTypes DEF AlarmsCounted, one
  <1>8. QED
    BY <1>3, <1>7

LEMMA HandleSignalTypes ==
    ASSUME TypeOK, AlarmsCounted, HandleSignal
    PROVE  TypeOK' /\ AlarmsCounted'
  <1> DEFINE signal == handler.signal
  <1>1. /\ handler.pc = "handle" /\ Apply(signal)
        /\ handler' = [pc |-> "recv", signal |-> NoSignal]
        /\ UNCHANGED <<sentimentQ, agent, signalQ, eventQ, depositor, alarms>>
    BY DEF HandleSignal
  <1>2. signal \in Signal /\ handler' \in [pc: {"recv", "handle"}, signal: Signal]
    BY <1>1, SignalTypes DEF TypeOK
  <1>3. HandlerHolds' = 0 /\ HandlerHolds = IF IsAlarm(signal) THEN 1 ELSE 0
    BY <1>1 DEF HandlerHolds
  <1>4. CASE SetSpread(signal)
    <2>1. spreadMultiplier' \in Nat \ 0 .. 99 /\ UNCHANGED <<circuitBreaker, timers, lastAlarm>>
      <3>1. signal.factor \in Nat
        BY <1>2 DEF Signal
      <3>2. QED
        BY <1>4, <3>1 DEF SetSpread, AtLeastBase
    <2>2. TypeOK'
      BY <1>1, <1>2, <2>1 DEF TypeOK
    <2>3. AlarmsCounted'
      BY <1>1, <1>3, <2>1, CountsKept, CountTypes DEF AlarmsCounted
    <2>4. QED
      BY <2>2, <2>3
  <1>5. CASE Activate(signal)
    <2>1. /\ IsAlarm(signal) /\ circuitBreaker' = TRUE /\ UNCHANGED spreadMultiplier
          /\ lastAlarm' = [id |-> lastAlarm.id + 1, timed |-> signal.timed]
          /\ timers' = IF signal.timed THEN timers \cup {lastAlarm.id + 1} ELSE timers
      BY <1>5 DEF Activate, IsAlarm
    <2>2. lastAlarm.id + 1 \in 1 .. MaxAlarms
      BY <1>3, <2>1, CountTypes DEF AlarmsCounted
    <2>3. signal.timed \in BOOLEAN
      BY <1>2 DEF Signal
    <2>4. TypeOK'
      <3>1. lastAlarm' \in [id: 0 .. MaxAlarms, timed: BOOLEAN]
        <4>1. lastAlarm.id + 1 \in 0 .. MaxAlarms
          BY <2>2
        <4>2. QED
          BY <2>1, <2>3, <4>1
      <3>2. timers' \subseteq 1 .. MaxAlarms
        BY <2>1, <2>2 DEF TypeOK
      <3>3. circuitBreaker' \in BOOLEAN /\ spreadMultiplier' \in Nat \ 0 .. 99
        BY <2>1, Zenon DEF TypeOK
      <3>4. QED
        BY <1>1, <1>2, <3>1, <3>2, <3>3 DEF TypeOK
    <2>5. AlarmsCounted'
      BY <1>1, <1>3, <2>1, CountsKept, CountTypes DEF AlarmsCounted
    <2>6. QED
      BY <2>4, <2>5
  <1>6. CASE Deactivate(signal)
    <2>1. circuitBreaker' = FALSE /\ UNCHANGED <<spreadMultiplier, timers, lastAlarm>>
      BY <1>6 DEF Deactivate
    <2>2. TypeOK'
      BY <1>1, <1>2, <2>1 DEF TypeOK
    <2>3. AlarmsCounted'
      BY <1>1, <1>3, <2>1, CountsKept, CountTypes DEF AlarmsCounted
    <2>4. QED
      BY <2>2, <2>3
  <1>7. QED
    BY <1>1, <1>4, <1>5, <1>6 DEF Apply

LEMMA StepTypes ==
    ASSUME TypeOK, AlarmsCounted, [Next]_vars
    PROVE  TypeOK' /\ AlarmsCounted'
  <1>1. CASE Fetch \/ OnSentiment \/ EmitSignal \/ OperatorSend \/ Receive \/ HandleSignal
    BY <1>1, FetchTypes, OnSentimentTypes, EmitSignalTypes, OperatorSendTypes,
       ReceiveTypes, HandleSignalTypes
  <1>2. ASSUME TypeOK', UNCHANGED <<sentimentQ, agent, signalQ, handler, lastAlarm, alarms>>
        PROVE  AlarmsCounted'
    BY <1>2, CountsKept DEF AlarmsCounted
  <1>3. CASE OnEvent
    <2>1. eventQ' \in Seq(Depositors) /\ Len(eventQ') <= EventCap
      BY <1>3, CapacityAssumption DEF OnEvent, TypeOK
    <2>2. UNCHANGED <<sentimentQ, agent, signalQ, handler, depositor, poolVars, alarms>>
      BY <1>3 DEF OnEvent
    <2>3. TypeOK'
      BY <2>1, <2>2 DEF TypeOK, poolVars
    <2>4. QED
      BY <1>2, <2>2, <2>3 DEF poolVars
  <1>4. ASSUME NEW id \in timers, TimerFires(id) PROVE TypeOK' /\ AlarmsCounted'
    <2>1. TypeOK'
      BY <1>4 DEF TimerFires, TypeOK
    <2>2. QED
      BY <1>2, <1>4, <2>1 DEF TimerFires
  <1>5. ASSUME NEW d \in Depositors, StartDeposit(d) \/ UpdatePool(d)
        PROVE  TypeOK' /\ AlarmsCounted'
    <2>1. depositor' \in [Depositors -> {"idle", "pool", "emit"}]
      BY <1>5 DEF StartDeposit, UpdatePool, TypeOK
    <2>2. UNCHANGED <<sentimentQ, agent, signalQ, handler, eventQ, poolVars, alarms>>
      BY <1>5 DEF StartDeposit, UpdatePool
    <2>3. TypeOK'
      BY <2>1, <2>2 DEF TypeOK, poolVars
    <2>4. QED
      BY <1>2, <2>2, <2>3 DEF poolVars
  <1>6. ASSUME NEW d \in Depositors, SendEvent(d)
        PROVE  TypeOK' /\ AlarmsCounted'
    <2>1. depositor' \in [Depositors -> {"idle", "pool", "emit"}]
      BY <1>6 DEF SendEvent, TypeOK
    <2>2. eventQ' \in Seq(Depositors) /\ Len(eventQ') <= EventCap
      BY <1>6, CapacityAssumption DEF SendEvent, TypeOK
    <2>3. UNCHANGED <<sentimentQ, agent, signalQ, handler, poolVars, alarms>>
      BY <1>6 DEF SendEvent
    <2>4. TypeOK'
      BY <2>1, <2>2, <2>3 DEF TypeOK, poolVars
    <2>5. QED
      BY <1>2, <2>3, <2>4 DEF poolVars
  <1>7. CASE UNCHANGED vars
    <2>1. TypeOK'
      BY <1>7 DEF vars, TypeOK
    <2>2. QED
      BY <1>2, <1>7, <2>1 DEF vars
  <1>8. QED
    BY <1>1, <1>3, <1>4, <1>5, <1>6, <1>7 DEF Next

-----------------------------------------------------------------------------
(* Theorems.                                                               *)

\* For channels of any capacity: no channel exceeds it (channels.rs), no spread
\* multiplier is below 1.0 (signal_handler.rs), and no alarm is applied that was
\* not sent.
THEOREM VaultTypes == Spec => []TypeOK
  <1>1. QED
    BY InitTypes, StepTypes, PTL DEF Spec

\* For channels of any capacity: a breaker whose last alarm was timed is never
\* left on without its timer (signal_handler.rs, "If duration specified, schedule
\* deactivation"), however alarms, timers and Resume signals interleave.
THEOREM TimedHasTimer == Spec => []BreakerHasTimer
  <1>1. Init => BreakerHasTimer
    BY DEF Init, BreakerHasTimer
  <1>2. QED
    BY <1>1, StepBreaker, PTL DEF Spec

\* For channels of any capacity, if only the agent sets spreads: once its signals
\* are through, the pool quotes the spread of the score the agent acted on last
\* (sentinel.rs, signal_handler.rs); no signal is lost, overtaken or undone by
\* what operators, timers and depositors do meanwhile.
THEOREM SpreadArrives ==
    ASSUME AgentOnlySpreads
    PROVE  Spec => []SpreadFollowsAgent
  <1>1. Init => PathOK /\ SpreadInv
    BY InitPath
  <1>2. PathOK /\ SpreadInv /\ [Next]_vars => (PathOK /\ SpreadInv)'
    BY StepPath, StepSpread
  <1>3. PathOK /\ SpreadInv => SpreadFollowsAgent
    BY SpreadArrived
  <1>4. QED
    BY <1>1, <1>2, <1>3, PTL DEF Spec
=============================================================================
