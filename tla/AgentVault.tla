----------------------------- MODULE AgentVault -----------------------------
(***************************************************************************)
(* The agent and the vault as `citadel run` starts them: tasks that talk   *)
(* through bounded channels (crates/scp-agent/sentinel.rs, signals.rs,     *)
(* crates/scp-vault/signal_handler.rs, vault.rs and pool.rs, and           *)
(* crates/scp-core/channels.rs).                                           *)
(*                                                                         *)
(*   sentiment worker -> agent -> SignalHandler -> pool                    *)
(*                         ^                         |                     *)
(*                         +------ VaultEvent -------+ (large deposits)    *)
(*                                                                         *)
(* A send on a full channel suspends its task.  tokio is external: a       *)
(* channel is FIFO, its waiting senders get the free slots in turn, and    *)
(* select! picks at random among the branches that are ready.              *)
(* Spread multipliers are in percent.  The amounts of a deposit are those  *)
(* of module LiquidityPool; here a deposit is its breaker check and its    *)
(* event.  Signals that the handler only logs are left out.                *)
(***************************************************************************)
EXTENDS Naturals, Sequences

CONSTANTS
    Depositors,         \* tasks inside LiquidityVault::process_deposit
    SentimentCap,       \* capacity of the worker's channel, 32 in the code
    SignalCap,          \* capacity of the signal channel, 256 in the code
    EventCap,           \* capacity of the event channel, 256 in the code
    OperatorSignals,    \* signals sent by hand through a SignalEmitter
    MaxAlarms           \* bound: circuit breaker signals in a behaviour

ASSUME CapacityAssumption ==
    /\ SentimentCap \in Nat \ {0}
    /\ SignalCap \in Nat \ {0}
    /\ EventCap \in Nat \ {0}
    /\ MaxAlarms \in Nat

VARIABLES
    sentimentQ,         \* scores sent and not received
    agent,              \* [pc, signal, sentiment]: the agent's select loop
    signalQ,            \* signals sent and not received
    handler,            \* [pc, signal]: the SignalHandler
    eventQ,             \* LargeDeposit events sent and not received
    depositor,          \* depositor[d]: where the deposit of task d is
    circuitBreaker, spreadMultiplier,
    timers,             \* alarms whose auto-deactivation is still to come
    lastAlarm,          \* history: number of alarms applied, whether the last is timed
    alarms              \* history: circuit breaker signals made so far

vars == <<sentimentQ, agent, signalQ, handler, eventQ, depositor,
          circuitBreaker, spreadMultiplier, timers, lastAlarm, alarms>>
poolVars == <<circuitBreaker, spreadMultiplier, timers, lastAlarm>>

Score == {"neutral", "caution", "fear", "panic"}

\* is_high_risk() holds of a confident score below -0.8.
HighRisk(score) == score = "panic"

\* calculate_multiplier(score, 0.5): fear doubles the spread, any negative
\* score widens it; the clamp is never reached from the default base spread.
SpreadFactor(score) ==
    CASE score \in {"fear", "panic"} -> 200
      [] score = "caution"           -> 120
      [] OTHER                       -> 100

NoSignal == [kind |-> "none", factor |-> 100, timed |-> FALSE]
WidenSpread(factor) == [NoSignal EXCEPT !.kind = "WidenSpread", !.factor = factor]
CircuitBreaker(timed) == [NoSignal EXCEPT !.kind = "CircuitBreaker", !.timed = timed]
Resume == [NoSignal EXCEPT !.kind = "Resume"]

\* NarrowSpread carries its target over the base spread, as its handler uses it.
Signal == [kind: {"none", "WidenSpread", "NarrowSpread", "CircuitBreaker", "Resume"},
           factor: Nat, timed: BOOLEAN]

ASSUME OperatorAssumption == OperatorSignals \subseteq Signal

\* Type invariant: the channels of channels.rs never hold more than their
\* capacity, a spread multiplier is never below 1.0, and timers are known alarms.
TypeOK ==
    /\ sentimentQ \in Seq(Score) /\ Len(sentimentQ) <= SentimentCap
    /\ agent \in [pc: {"select", "emit"}, signal: Signal, sentiment: Score]
    /\ signalQ \in Seq(Signal) /\ Len(signalQ) <= SignalCap
    /\ handler \in [pc: {"recv", "handle"}, signal: Signal]
    /\ eventQ \in Seq(Depositors) /\ Len(eventQ) <= EventCap
    /\ depositor \in [Depositors -> {"idle", "pool", "emit"}]
    /\ circuitBreaker \in BOOLEAN
    /\ spreadMultiplier \in Nat \ 0 .. 99
    /\ timers \subseteq 1 .. MaxAlarms
    /\ lastAlarm \in [id: 0 .. MaxAlarms, timed: BOOLEAN]
    /\ alarms \in 0 .. MaxAlarms

Init ==
    /\ sentimentQ = <<>>
    /\ agent = [pc |-> "select", signal |-> NoSignal, sentiment |-> "neutral"]
    /\ signalQ = <<>>
    /\ handler = [pc |-> "recv", signal |-> NoSignal]
    /\ eventQ = <<>>
    /\ depositor = [d \in Depositors |-> "idle"]
    /\ circuitBreaker = FALSE
    /\ spreadMultiplier = 100
    /\ timers = {}
    /\ lastAlarm = [id |-> 0, timed |-> FALSE]
    /\ alarms = 0

-----------------------------------------------------------------------------
(* The sentiment worker and the agent's select loop.                       *)

\* The sleep ends, the provider answers (a failed fetch is only logged) and
\* the score is sent.  A worker that waits for a slot with a score in hand
\* is a channel with one slot more.
Fetch ==
    /\ Len(sentimentQ) < SentimentCap
    /\ \E score \in Score :
          /\ HighRisk(score) => alarms < MaxAlarms
          /\ sentimentQ' = Append(sentimentQ, score)
          /\ alarms' = IF HighRisk(score) THEN alarms + 1 ELSE alarms
    /\ UNCHANGED <<agent, signalQ, handler, eventQ, depositor, poolVars>>

\* The signal a score calls for: an alarm always of a set duration (3600 s).
SignalFor(score) ==
    IF HighRisk(score)
    THEN CircuitBreaker(TRUE)
    ELSE IF SpreadFactor(score) # 100 THEN WidenSpread(SpreadFactor(score)) ELSE NoSignal

OnSentiment ==
    /\ agent.pc = "select"
    /\ sentimentQ # <<>>
    /\ LET score == Head(sentimentQ)
           signal == SignalFor(score)
       IN  agent' = [pc |-> IF signal = NoSignal THEN "select" ELSE "emit",
                     signal |-> signal, sentiment |-> score]
    /\ sentimentQ' = Tail(sentimentQ)
    /\ UNCHANGED <<signalQ, handler, eventQ, depositor, poolVars, alarms>>

\* Variant: a biased select!, which looks at the scores first.
OnEventBiased ==
    /\ agent.pc = "select"
    /\ sentimentQ = <<>>
    /\ eventQ # <<>>
    /\ eventQ' = Tail(eventQ)
    /\ UNCHANGED <<sentimentQ, agent, signalQ, handler, depositor, poolVars, alarms>>

\* The agent only logs an event.
OnEvent ==
    /\ agent.pc = "select"
    /\ eventQ # <<>>
    /\ eventQ' = Tail(eventQ)
    /\ UNCHANGED <<sentimentQ, agent, signalQ, handler, depositor, poolVars, alarms>>

\* Variant: try_send, which drops the signal when the channel is full.
TryEmitSignal ==
    /\ agent.pc = "emit"
    /\ signalQ' = IF Len(signalQ) < SignalCap THEN Append(signalQ, agent.signal) ELSE signalQ
    /\ agent' = [agent EXCEPT !.pc = "select", !.signal = NoSignal]
    /\ UNCHANGED <<sentimentQ, handler, eventQ, depositor, poolVars, alarms>>

\* Variant: an unbounded channel.
EmitUnbounded ==
    /\ agent.pc = "emit"
    /\ signalQ' = Append(signalQ, agent.signal)
    /\ agent' = [agent EXCEPT !.pc = "select", !.signal = NoSignal]
    /\ UNCHANGED <<sentimentQ, handler, eventQ, depositor, poolVars, alarms>>

\* While the send waits for a slot the agent polls no other branch.
EmitSignal ==
    /\ agent.pc = "emit"
    /\ Len(signalQ) < SignalCap
    /\ signalQ' = Append(signalQ, agent.signal)
    /\ agent' = [agent EXCEPT !.pc = "select", !.signal = NoSignal]
    /\ UNCHANGED <<sentimentQ, handler, eventQ, depositor, poolVars, alarms>>

\* An operator's tool sends a signal of its own.
OperatorSend ==
    /\ Len(signalQ) < SignalCap
    /\ \E signal \in OperatorSignals :
          /\ signalQ' = Append(signalQ, signal)
          /\ \/ /\ signal.kind = "CircuitBreaker"
                /\ alarms < MaxAlarms
                /\ alarms' = alarms + 1
             \/ signal.kind # "CircuitBreaker" /\ UNCHANGED alarms
    /\ UNCHANGED <<sentimentQ, agent, handler, eventQ, depositor, poolVars>>

-----------------------------------------------------------------------------
(* The signal handler and its timers.                                      *)

Receive ==
    /\ handler.pc = "recv"
    /\ signalQ # <<>>
    /\ handler' = [pc |-> "handle", signal |-> Head(signalQ)]
    /\ signalQ' = Tail(signalQ)
    /\ UNCHANGED <<sentimentQ, agent, eventQ, depositor, poolVars, alarms>>

AtLeastBase(factor) == IF factor < 100 THEN 100 ELSE factor

SetSpread(signal) ==
    /\ signal.kind \in {"WidenSpread", "NarrowSpread"}
    /\ spreadMultiplier' = AtLeastBase(signal.factor)
    /\ UNCHANGED <<circuitBreaker, timers, lastAlarm>>

\* Variant: an alarm is only taken up while the breaker is off.
ActivateOnce(signal) ==
    /\ signal.kind = "CircuitBreaker"
    /\ circuitBreaker' = TRUE
    /\ lastAlarm' = [id |-> lastAlarm.id + 1, timed |-> signal.timed]
    /\ timers' = IF signal.timed /\ ~circuitBreaker THEN timers \cup {lastAlarm.id + 1} ELSE timers
    /\ UNCHANGED spreadMultiplier

\* Every timed alarm spawns a timer; none of them is ever cancelled.
Activate(signal) ==
    /\ signal.kind = "CircuitBreaker"
    /\ circuitBreaker' = TRUE
    /\ lastAlarm' = [id |-> lastAlarm.id + 1, timed |-> signal.timed]
    /\ timers' = IF signal.timed THEN timers \cup {lastAlarm.id + 1} ELSE timers
    /\ UNCHANGED spreadMultiplier

Deactivate(signal) ==
    /\ signal.kind = "Resume"
    /\ circuitBreaker' = FALSE
    /\ UNCHANGED <<spreadMultiplier, timers, lastAlarm>>

Apply(signal) == SetSpread(signal) \/ Activate(signal) \/ Deactivate(signal)

\* The handler sends nothing: emit_event has no caller.
HandleSignal ==
    /\ handler.pc = "handle"
    /\ Apply(handler.signal)
    /\ handler' = [pc |-> "recv", signal |-> NoSignal]
    /\ UNCHANGED <<sentimentQ, agent, signalQ, eventQ, depositor, alarms>>

\* Variant: the breaker goes off with the last timer that is pending.
LastTimerFires(id) ==
    /\ id \in timers
    /\ timers' = timers \ {id}
    /\ circuitBreaker' = (circuitBreaker /\ timers # {id})
    /\ UNCHANGED <<sentimentQ, agent, signalQ, handler, eventQ, depositor,
                   spreadMultiplier, lastAlarm, alarms>>

\* A timer knows nothing of what happened since it was started.
TimerFires(id) ==
    /\ id \in timers
    /\ timers' = timers \ {id}
    /\ circuitBreaker' = FALSE
    /\ UNCHANGED <<sentimentQ, agent, signalQ, handler, eventQ, depositor,
                   spreadMultiplier, lastAlarm, alarms>>

-----------------------------------------------------------------------------
(* Deposits.  (open_position is LockLiquidity of module LiquidityPool: it  *)
(* tests no breaker and sends nothing.)                                    *)

StartDeposit(d) ==
    /\ depositor[d] = "idle"
    /\ ~circuitBreaker
    /\ depositor' = [depositor EXCEPT ![d] = "pool"]
    /\ UNCHANGED <<sentimentQ, agent, signalQ, handler, eventQ, poolVars, alarms>>

\* The pool is updated; a deposit of at most 1 BTC has nothing to report.
UpdatePool(d) ==
    /\ depositor[d] = "pool"
    /\ \E next \in {"idle", "emit"} : depositor' = [depositor EXCEPT ![d] = next]
    /\ UNCHANGED <<sentimentQ, agent, signalQ, handler, eventQ, poolVars, alarms>>

SendEvent(d) ==
    /\ depositor[d] = "emit"
    /\ Len(eventQ) < EventCap
    /\ eventQ' = Append(eventQ, d)
    /\ depositor' = [depositor EXCEPT ![d] = "idle"]
    /\ UNCHANGED <<sentimentQ, agent, signalQ, handler, poolVars, alarms>>

-----------------------------------------------------------------------------
Next ==
    \/ Fetch
    \/ OnSentiment
    \/ OnEvent
    \/ EmitSignal
    \/ OperatorSend
    \/ Receive
    \/ HandleSignal
    \/ \E id \in timers : TimerFires(id)
    \/ \E d \in Depositors : StartDeposit(d) \/ UpdatePool(d) \/ SendEvent(d)

\* The runtime polls every task that can run; sleeps end.  Slots of a full
\* channel are handed to its waiting senders in turn, and select! does not
\* neglect a branch that is ready again and again: strong fairness.  Nobody
\* has to fetch a bad score, deposit or operate.
Fairness ==
    /\ WF_vars(Receive) /\ WF_vars(HandleSignal)
    /\ SF_vars(OnSentiment) /\ SF_vars(OnEvent) /\ SF_vars(EmitSignal)
    /\ \A id \in 1 .. MaxAlarms : WF_vars(TimerFires(id))
    /\ \A d \in Depositors : WF_vars(UpdatePool(d)) /\ SF_vars(SendEvent(d))

Spec == Init /\ [][Next]_vars /\ Fairness

-----------------------------------------------------------------------------
(* Correctness.                                                            *)

\* "Both run in separate Tokio tasks, never blocking each other"
\* (channels.rs): with both channels at their capacity a deposit waits for
\* the agent, the agent for the handler, and all of them get on in the end.
NeverBlocked ==
    /\ \A d \in Depositors : depositor[d] = "emit" ~> depositor[d] = "idle"
    /\ agent.pc = "emit" ~> agent.pc = "select"

\* A breaker whose last alarm was timed is never left on without the timer
\* that turns it off, however alarms, timers and Resume signals interleave.
BreakerHasTimer ==
    circuitBreaker /\ lastAlarm.timed => lastAlarm.id \in timers

\* So a timed pause ends, or another alarm takes over (signal_handler.rs,
\* "If duration specified, schedule deactivation").
PauseEnds ==
    (circuitBreaker /\ lastAlarm.timed) ~> ~(circuitBreaker /\ lastAlarm.timed)

\* Once its signals are through, the vault quotes the spread of the score
\* the agent acted on last, provided that score asked for one: no signal is
\* lost, overtaken or applied twice (as long as only the agent sets spreads).
SpreadFollowsAgent ==
    (agent.pc = "select" /\ signalQ = <<>> /\ handler.pc = "recv")
    => LET score == agent.sentiment IN
       ~HighRisk(score) /\ SpreadFactor(score) # 100
       => spreadMultiplier = SpreadFactor(score)

\* "None = until manually resumed" (channels.rs): a breaker raised without a
\* duration goes off only by a Resume signal.
UntimedUntilResumed ==
    [][(circuitBreaker /\ ~lastAlarm.timed /\ ~circuitBreaker')
       => handler.signal.kind = "Resume"]_vars

=============================================================================
