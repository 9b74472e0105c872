----------------------------- MODULE Economics ------------------------------
(***************************************************************************)
(* The CTDL token, the staking pool and the fee distributor                *)
(* (crates/scp-economics: token.rs, staking.rs, fees.rs).  The three share *)
(* one process; balances, positions, the reward accumulator and the fees   *)
(* have locks of their own, and an operation that uses several of them     *)
(* takes them one after the other.  Each critical section is a step; calls *)
(* of different tasks interleave in between.                               *)
(*                                                                         *)
(* Rewards are accounted per staked token, scaled by Precision:            *)
(* acc * amount - debt is what a position has earned since it was settled. *)
(* The lock-up period is left out: the penalty computed from it is only    *)
(* reported (unstake returns the full amount to the holder).               *)
(*                                                                         *)
(* Tokens are u64 and the code adds them unchecked: a sum that does not    *)
(* fit wraps, as in a release build (nothing in the workspace turns        *)
(* overflow checks on there; a debug build panics instead).  The cap of    *)
(* mint() is compared with such a sum.                                     *)
(***************************************************************************)
EXTENDS Naturals, FiniteSets, Functions

CONSTANTS
    Tasks,          \* tasks that hold the token, the pool and the distributor
    HolderOf,       \* HolderOf[t]: the token holder task t serves
    Mints,          \* amounts of tokens minted
    Amounts,        \* amounts of tokens moved, and of satoshis collected
    MinStake,       \* StakingConfig.min_stake
    MaxSupply,      \* CtdlToken.max_supply
    Precision,      \* REWARD_PRECISION, 10^12 in the code
    Word,           \* 2^128
    Word64,         \* 2^64
    MaxMinted,      \* bound: tokens minted in a behaviour
    MaxFees,        \* bound: satoshis collected in a behaviour, which fit a u64
    MaxOps          \* bound: requests begun while another is in progress

Holders == {HolderOf[t] : t \in Tasks}

ASSUME TasksAssumption == IsFiniteSet(Tasks)
ASSUME ParametersAssumption ==
    /\ Word \in Nat \ {0} /\ Word64 \in Nat \ {0}
    /\ Mints \subseteq 1 .. (Word64 - 1) /\ Amounts \subseteq 1 .. (Word64 - 1)
    /\ MinStake \in Nat
    /\ MaxSupply \in 0 .. (Word64 - 1)
    /\ Precision \in Nat \ {0}
    /\ MaxMinted \in Nat
    /\ MaxFees \in 0 .. (Word64 - 1)
    /\ MaxOps \in Nat

VARIABLES
    supply, available, staked,          \* CtdlToken
    minted,                             \* history: tokens that mint() accepted
    stakers, position,                  \* StakingPool.positions: keys and values
    acc,                                \* acc_reward_per_share
    rewarded,                           \* StakingPool.total_distributed
    pendingFees, collected, distributed,\* FeeDistributor
    call,                               \* the request each task is serving
    paid,                               \* history: satoshis returned by claim()
    overlaps,                           \* history: requests begun beside another
    stakeRaced                          \* history: a stake was added to the pool
                                        \* between the two halves of a distribute()

token == <<supply, available, staked, minted>>
pool == <<stakers, position, acc, rewarded>>
fees == <<pendingFees, collected, distributed>>
history == <<paid, overlaps, stakeRaced>>
vars == <<token, pool, fees, call, history>>

U64 == 0 .. (Word64 - 1)
Wrap(n) == n % Word64

Position == [amount: U64, debt: Nat, pending: U64]
NoPosition == [amount |-> 0, debt |-> 0, pending |-> 0]

\* seen: the accumulator, or the total staked, as the request read it.
Call == [pc: {"idle", "credit", "lock", "settleStake", "readAcc", "settleUnstake",
              "unlock", "readAccClaim", "settleClaim", "readTotal", "addReward",
              "countFees"},
         amount: Nat, seen: Nat]

IdleCall == [pc |-> "idle", amount |-> 0, seen |-> 0]

\* Type invariant: the supply keeps its cap and no balance, stake, fee or reward
\* counter of token.rs, staking.rs and fees.rs goes below zero.
TypeOK ==
    /\ supply \in 0 .. MaxSupply
    /\ available \in [Holders -> U64] /\ staked \in [Holders -> U64]
    /\ minted \in Nat
    /\ stakers \subseteq Holders
    /\ position \in [Holders -> Position]
    /\ acc \in Nat /\ rewarded \in Nat
    /\ pendingFees \in Nat /\ collected \in Nat /\ distributed \in Nat
    /\ call \in [Tasks -> Call]
    /\ paid \in [Holders -> Nat]
    /\ overlaps \in Nat /\ stakeRaced \in BOOLEAN

Init ==
    /\ supply = 0
    /\ available = [h \in Holders |-> 0] /\ staked = [h \in Holders |-> 0]
    /\ minted = 0
    /\ stakers = {}
    /\ position = [h \in Holders |-> NoPosition]
    /\ acc = 0 /\ rewarded = 0
    /\ pendingFees = 0 /\ collected = 0 /\ distributed = 0
    /\ call = [t \in Tasks |-> IdleCall]
    /\ paid = [h \in Holders |-> 0]
    /\ overlaps = 0 /\ stakeRaced = FALSE

TotalStaked == Wrap(SumFunction([h \in Holders |-> position[h].amount]))

\* (amount * acc - reward_debt) / REWARD_PRECISION in u128: the two products
\* are kept whole here, and only their difference taken modulo 2^128.
Earned(p, accSeen) == ((p.amount * accSeen + Word - p.debt) % Word) \div Precision

Settled(p, accSeen) == [p EXCEPT !.pending = Wrap(@ + Earned(p, accSeen))]

-----------------------------------------------------------------------------
Alone(t) == \A u \in Tasks \ {t} : call[u].pc = "idle"

Begin(t, pc, amount) ==
    /\ call[t].pc = "idle"
    /\ call' = [call EXCEPT ![t] = [IdleCall EXCEPT !.pc = pc, !.amount = amount]]
    /\ \/ Alone(t) /\ UNCHANGED overlaps
       \/ ~Alone(t) /\ overlaps < MaxOps /\ overlaps' = overlaps + 1
    /\ UNCHANGED <<paid, stakeRaced>>

At(t, pc) == call[t].pc = pc
Goto(t, pc) == call' = [call EXCEPT ![t].pc = pc]
See(t, pc, value) == call' = [call EXCEPT ![t].pc = pc, ![t].seen = value]
Return(t) == call' = [call EXCEPT ![t] = IdleCall]

-----------------------------------------------------------------------------
(* CtdlToken: mint in two critical sections, transfer in one.              *)

\* Variant: no supply cap.
MintUncapped(t, amount) ==
    /\ minted + amount <= MaxMinted
    /\ supply' = Wrap(supply + amount)
    /\ minted' = minted + amount
    /\ Begin(t, "credit", amount)
    /\ UNCHANGED <<available, staked, pool, fees>>

\* The cap is compared with a sum that may have wrapped.
MintSupply(t, amount) ==
    /\ Wrap(supply + amount) <= MaxSupply
    /\ minted + amount <= MaxMinted
    /\ supply' = Wrap(supply + amount)
    /\ minted' = minted + amount
    /\ Begin(t, "credit", amount)
    /\ UNCHANGED <<available, staked, pool, fees>>

MintCredit(t) ==
    /\ At(t, "credit")
    /\ available' = [available EXCEPT ![HolderOf[t]] = Wrap(@ + call[t].amount)]
    /\ Return(t)
    /\ UNCHANGED <<supply, minted, staked, pool, fees, history>>

\* Variant: both balances are read first, then both are written.
TransferFromCopies(t, to, amount) ==
    /\ At(t, "idle")
    /\ available[HolderOf[t]] >= amount
    /\ available' = [available EXCEPT ![HolderOf[t]] = available[HolderOf[t]] - amount,
                                     ![to] = Wrap(available[to] + amount)]
    /\ UNCHANGED <<supply, minted, staked, pool, fees, call, history>>

Transfer(t, to, amount) ==
    /\ At(t, "idle")
    /\ available[HolderOf[t]] >= amount
    /\ available' = [[available EXCEPT ![HolderOf[t]] = @ - amount]
                        EXCEPT ![to] = Wrap(@ + amount)]
    /\ UNCHANGED <<supply, minted, staked, pool, fees, call, history>>

-----------------------------------------------------------------------------
(* StakingPool::stake: the minimum, the token's balance, the position.     *)

Stake(t, amount) ==
    LET h == HolderOf[t]
    IN  /\ \/ amount >= MinStake
           \/ h \in stakers /\ Wrap(position[h].amount + amount) >= MinStake
        /\ Begin(t, "lock", amount)
        /\ UNCHANGED <<token, pool, fees>>

LockTokens(t) ==
    LET h == HolderOf[t] IN
    /\ At(t, "lock")
    /\ \/ /\ available[h] >= call[t].amount
          /\ available' = [available EXCEPT ![h] = @ - call[t].amount]
          /\ staked' = [staked EXCEPT ![h] = Wrap(@ + call[t].amount)]
          /\ Goto(t, "settleStake")
       \/ /\ available[h] < call[t].amount
          /\ Return(t)
          /\ UNCHANGED <<available, staked>>
    /\ UNCHANGED <<supply, minted, pool, fees, history>>

\* The position grows; what it earned with the old amount is settled first.
Grow(t, old, debt) ==
    LET h == HolderOf[t] IN
    /\ At(t, "settleStake")
    /\ stakers' = stakers \cup {h}
    /\ position' = [position EXCEPT ![h] =
           [old EXCEPT !.amount = Wrap(old.amount + call[t].amount), !.debt = debt]]
    /\ stakeRaced' = (stakeRaced \/ \E u \in Tasks : At(u, "addReward"))
    /\ Return(t)
    /\ UNCHANGED <<token, acc, rewarded, fees, paid, overlaps>>

\* Variant: the debt of the old amount is kept.
SettleStakeOldDebt(t) == Grow(t, position[HolderOf[t]], position[HolderOf[t]].debt)

\* positions is locked first and the accumulator read under that lock.
SettleStake(t) ==
    LET p == position[HolderOf[t]]
    IN  Grow(t, IF p.amount > 0 THEN Settled(p, acc) ELSE p,
                Wrap(p.amount + call[t].amount) * acc)

-----------------------------------------------------------------------------
(* StakingPool::unstake and claim read the accumulator before they lock    *)
(* the positions.                                                          *)

Unstake(t, amount) ==
    /\ Begin(t, "readAcc", amount)
    /\ UNCHANGED <<token, pool, fees>>

Claim(t) ==
    /\ Begin(t, "readAccClaim", 0)
    /\ UNCHANGED <<token, pool, fees>>

ReadAcc(t, from, to) ==
    /\ At(t, from)
    /\ See(t, to, acc)
    /\ UNCHANGED <<token, pool, fees, history>>

\* The position is cut to `amount`, or the request refused.
Cut(t, refused, amount, debt) ==
    LET h == HolderOf[t]
        old == Settled(position[h], call[t].seen)
        gone == amount = 0 /\ old.pending = 0
    IN  /\ At(t, "settleUnstake")
        /\ \/ refused /\ Return(t) /\ UNCHANGED <<stakers, position>>
           \/ /\ ~refused
              /\ stakers' = IF gone THEN stakers \ {h} ELSE stakers
              /\ position' = [position EXCEPT ![h] =
                     IF gone THEN NoPosition
                     ELSE [old EXCEPT !.amount = amount, !.debt = debt]]
              /\ Goto(t, "unlock")
        /\ UNCHANGED <<token, acc, rewarded, fees, history>>

\* Variant: a request for more than the position takes all of it.
SettleUnstakeAll(t) ==
    LET p == position[HolderOf[t]]
        amount == IF call[t].amount > p.amount THEN 0 ELSE p.amount - call[t].amount
    IN  Cut(t, HolderOf[t] \notin stakers, amount, amount * call[t].seen)

\* Variant: the debt is not reset to the new amount.
SettleUnstakeOldDebt(t) ==
    LET p == position[HolderOf[t]]
    IN  Cut(t, HolderOf[t] \notin stakers \/ call[t].amount > p.amount,
            p.amount - call[t].amount, p.debt)

SettleUnstake(t) ==
    LET p == position[HolderOf[t]]
        amount == p.amount - call[t].amount
    IN  Cut(t, HolderOf[t] \notin stakers \/ call[t].amount > p.amount,
            amount, amount * call[t].seen)

\* Variant: the early withdrawal penalty (1 token here) is withheld.
UnlockNet(t) ==
    LET h == HolderOf[t] IN
    /\ At(t, "unlock")
    /\ staked' = [staked EXCEPT ![h] = @ - (call[t].amount - 1)]
    /\ available' = [available EXCEPT ![h] = Wrap(@ + (call[t].amount - 1))]
    /\ Return(t)
    /\ UNCHANGED <<supply, minted, pool, fees, history>>

\* A refusal here would leave the position short: unstake undoes nothing.
UnlockTokens(t) ==
    LET h == HolderOf[t] IN
    /\ At(t, "unlock")
    /\ \/ /\ staked[h] >= call[t].amount
          /\ staked' = [staked EXCEPT ![h] = @ - call[t].amount]
          /\ available' = [available EXCEPT ![h] = Wrap(@ + call[t].amount)]
       \/ /\ staked[h] < call[t].amount
          /\ UNCHANGED <<staked, available>>
    /\ Return(t)
    /\ UNCHANGED <<supply, minted, pool, fees, history>>

\* "No rewards to claim" is returned after the debt has been moved up.
SettleClaim(t) ==
    LET h == HolderOf[t]
        old == Settled(position[h], call[t].seen)
    IN  /\ At(t, "settleClaim")
        /\ \/ h \notin stakers /\ UNCHANGED <<position, paid>>
           \/ /\ h \in stakers
              /\ position' = [position EXCEPT ![h] =
                     [amount |-> old.amount, debt |-> old.amount * call[t].seen,
                      pending |-> 0]]
              /\ paid' = [paid EXCEPT ![h] = @ + old.pending]
        /\ Return(t)
        /\ UNCHANGED <<token, stakers, acc, rewarded, fees, overlaps, stakeRaced>>

-----------------------------------------------------------------------------
(* FeeDistributor::collect_fee and distribute, with StakingPool::distribute*)

CollectFee(t, amount) ==
    /\ At(t, "idle")
    /\ collected + amount <= MaxFees
    /\ pendingFees' = pendingFees + amount
    /\ collected' = collected + amount
    /\ UNCHANGED <<token, pool, distributed, call, history>>

Distribute(t) ==
    /\ pendingFees > 0
    /\ Begin(t, "readTotal", pendingFees)
    /\ pendingFees' = 0
    /\ UNCHANGED <<token, pool, collected, distributed>>

\* With nobody staking, distribute returns Ok and the fees are gone.
ReadTotalStaked(t) ==
    /\ At(t, "readTotal")
    /\ See(t, IF TotalStaked = 0 THEN "countFees" ELSE "addReward", TotalStaked)
    /\ UNCHANGED <<token, pool, fees, history>>

AddReward(t) ==
    /\ At(t, "addReward")
    /\ acc' = acc + (call[t].amount * Precision) \div call[t].seen
    /\ rewarded' = rewarded + call[t].amount
    /\ Goto(t, "countFees")
    /\ UNCHANGED <<token, stakers, position, fees, history>>

CountFees(t) ==
    /\ At(t, "countFees")
    /\ distributed' = distributed + call[t].amount
    /\ Return(t)
    /\ UNCHANGED <<token, pool, pendingFees, collected, history>>

-----------------------------------------------------------------------------
Step(t) ==
    \/ \E amount \in Mints : MintSupply(t, amount)
    \/ \E amount \in Amounts :
          \/ \E to \in Holders : Transfer(t, to, amount)
          \/ Stake(t, amount)
          \/ Unstake(t, amount)
          \/ CollectFee(t, amount)
    \/ MintCredit(t)
    \/ LockTokens(t)
    \/ SettleStake(t)
    \/ ReadAcc(t, "readAcc", "settleUnstake")
    \/ SettleUnstake(t)
    \/ UnlockTokens(t)
    \/ Claim(t)
    \/ ReadAcc(t, "readAccClaim", "settleClaim")
    \/ SettleClaim(t)
    \/ Distribute(t)
    \/ ReadTotalStaked(t)
    \/ AddReward(t)
    \/ CountFees(t)

Next == \E t \in Tasks : Step(t)

Spec == Init /\ [][Next]_vars

-----------------------------------------------------------------------------
(* Correctness.                                                            *)

Quiet == \A t \in Tasks : At(t, "idle")

\* The tokens that mint() accepted fit a u64: no mint has passed the cap on a
\* sum that wrapped.
Exact == minted < Word64

\* Tokens are neither made nor lost: the supply that mint() capped is what
\* the holders have, free or staked, whatever else is going on, and no sum of
\* tokens wraps, as long as no mint has passed the cap on a wrapped sum.
TokensConserved ==
    Exact => supply = SumFunction(available) + SumFunction(staked)
                + SumFunction([t \in Tasks |-> IF At(t, "credit") THEN call[t].amount ELSE 0])

\* The stake is kept twice, by the token and by the pool, under two locks:
\* when no request is in progress the two agree for every holder.
StakeBacked == Exact /\ Quiet => \A h \in Holders : staked[h] = position[h].amount

\* unstake() has no way back once it has cut the position: the token never
\* refuses its half.
UnlockNeverRefused ==
    Exact => \A t \in Tasks : At(t, "unlock") => staked[HolderOf[t]] >= call[t].amount

\* amount * acc - reward_debt never goes below zero, even with an
\* accumulator that was read before the positions were locked.
DebtCovered ==
    \A t \in Tasks : At(t, "settleUnstake") \/ At(t, "settleClaim")
        => position[HolderOf[t]].debt <= position[HolderOf[t]].amount * call[t].seen

\* All that stakers were paid, were credited and have earned.
Owed == SumFunction(paid)
        + SumFunction([h \in Holders |-> position[h].pending + Earned(position[h], acc)])

\* "Real Yield: 100% of fees distributed to stakers" (lib.rs): stakers are
\* never owed more satoshis than were distributed to them.
RewardsCovered == Owed <= rewarded

\* ... which holds however requests interleave, provided no stake enters the
\* pool between the moment a distribution reads the total staked and the
\* moment it moves the accumulator (and the total staked cannot wrap).
CoveredUnlessRaced == ~stakeRaced /\ Exact => RewardsCovered

=============================================================================
