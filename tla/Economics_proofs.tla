-------------------------- MODULE Economics_proofs ---------------------------
(***************************************************************************)
(* Proofs about module Economics, for any number of tasks and holders, any *)
(* amounts, supplies and minimum stakes.                                   *)
(*                                                                         *)
(* Types (TInv): a distribution moves the accumulator only if it has read  *)
(* a stake, so it never divides by zero.                                   *)
(*                                                                         *)
(* Conservation (LInv).  A mint between the supply and its credit, and a   *)
(* stake or an unstake between the token and the pool, hold tokens that    *)
(* one account has let go and the other has not yet: counted with those,   *)
(* supply and balances agree, and what the token calls staked for a holder *)
(* is its position and what its requests hold (Backing).  Both as long as  *)
(* what was minted fits a u64 (Exact): every other sum of tokens is within *)
(* the supply then, and does not wrap (Room).                              *)
(*                                                                         *)
(* Rewards (DInv), with one client per holder.  No debt is above what its  *)
(* position earns up to the accumulator (DebtsBelow), nor above what it    *)
(* earns up to the value its request has read (SeenBelow).  Scaled by      *)
(* Precision and before rounding, what holders were paid, were credited    *)
(* and have earned stays within what was distributed (Covered), as long as *)
(* a distribution finds no more stake than it has read (StakeSeen), which  *)
(* also needs Exact: the total staked that it reads is a sum of u64.       *)
(***************************************************************************)
EXTENDS Economics, Arithmetic

LEMMA HoldersFinite == IsFiniteSet(Holders)
  <1> DEFINE serves == [t \in Tasks |-> HolderOf[t]]
  <1>1. serves \in Surjection(Tasks, Holders)
    BY DEF Surjection, Holders
  <1>2. QED
    BY <1>1, TasksAssumption, FS_Surjection

-----------------------------------------------------------------------------
(* What a step does to the requests: it moves one, and leaves the others.  *)

Pcs == {"idle", "credit", "lock", "settleStake", "readAcc", "settleUnstake", "unlock",
        "readAccClaim", "settleClaim", "readTotal", "addReward", "countFees"}

Moves(t, request) ==
    /\ call' \in [Tasks -> Call]
    /\ call'[t] = request
    /\ \A u \in Tasks \ {t} : call'[u] = call[u]

LEMMA BeginMoves ==
    ASSUME call \in [Tasks -> Call], NEW t \in Tasks, NEW pc \in Pcs, NEW amount \in Nat,
           Begin(t, pc, amount)
    PROVE  /\ Moves(t, [pc |-> pc, amount |-> amount, seen |-> 0])
           /\ call[t].pc = "idle"
           /\ UNCHANGED <<paid, stakeRaced>>
           /\ overlaps \in Nat => overlaps' \in Nat
  <1>1. IdleCall \in Call /\ IdleCall.seen = 0
    BY DEF IdleCall, Call
  <1>2. Moves(t, [pc |-> pc, amount |-> amount, seen |-> 0])
    BY <1>1 DEF Begin, Moves, Call, Pcs
  <1>3. overlaps \in Nat => overlaps' \in Nat
    BY DEF Begin
  <1>4. QED
    BY <1>2, <1>3 DEF Begin

LEMMA GotoMoves ==
    ASSUME call \in [Tasks -> Call], NEW t \in Tasks, NEW pc \in Pcs, Goto(t, pc)
    PROVE  Moves(t, [pc |-> pc, amount |-> call[t].amount, seen |-> call[t].seen])
  BY DEF Goto, Moves, Call, Pcs

LEMMA SeeMoves ==
    ASSUME call \in [Tasks -> Call], NEW t \in Tasks, NEW pc \in Pcs, NEW value \in Nat,
           See(t, pc, value)
    PROVE  Moves(t, [pc |-> pc, amount |-> call[t].amount, seen |-> value])
  BY DEF See, Moves, Call, Pcs

LEMMA ReturnMoves ==
    ASSUME call \in [Tasks -> Call], NEW t \in Tasks, Return(t)
    PROVE  Moves(t, IdleCall)
  BY DEF Return, Moves, Call, IdleCall

-----------------------------------------------------------------------------
(* Types.                                                                  *)

\* A distribution moves the accumulator only if it has read a stake.
ReadsStake == \A t \in Tasks : At(t, "addReward") => call[t].seen > 0

TInv == TypeOK /\ ReadsStake

LEMMA Words == 0 \in U64 /\ (\A n \in U64 : n \in Nat /\ n < Word64) /\ Word64 \in Nat
  BY ParametersAssumption DEF U64

LEMMA WrapType ==
    ASSUME NEW n \in Nat
    PROVE  Wrap(n) \in U64 /\ Wrap(n) \in Nat /\ Wrap(n) <= n /\ (n < Word64 => Wrap(n) = n)
  BY ParametersAssumption, ModAtMost DEF Wrap, U64

LEMMA TotalStakedNat ==
    ASSUME TypeOK
    PROVE  /\ [h \in Holders |-> position[h].amount] \in [Holders -> Nat]
           /\ SumFunction([h \in Holders |-> position[h].amount]) \in Nat
           /\ TotalStaked \in Nat
  <1>1. [h \in Holders |-> position[h].amount] \in [Holders -> Nat]
    BY Words DEF TypeOK, Position
  <1>2. SumFunction([h \in Holders |-> position[h].amount]) \in Nat
    BY <1>1, HoldersFinite, SumNat
  <1>3. QED
    BY <1>1, <1>2, WrapType DEF TotalStaked

LEMMA PositionNat ==
    ASSUME NEW p \in Position
    PROVE  /\ p.amount \in Nat /\ p.debt \in Nat /\ p.pending \in Nat
           /\ p.amount \in U64 /\ p.pending \in U64
  BY Words DEF Position

LEMMA EarnedNat ==
    ASSUME NEW p \in Position, NEW seen \in Nat
    PROVE  Earned(p, seen) \in Nat
  <1>1. p.amount \in Nat /\ p.debt \in Nat /\ Precision \in Nat /\ Precision # 0
        /\ Word \in Nat /\ Word > 0
    BY ParametersAssumption, PositionNat
  <1>2. p.amount * seen \in Nat
    BY <1>1
  <1>3. (p.amount * seen + Word - p.debt) % Word \in Nat
    BY <1>1, <1>2
  <1>4. QED
    BY <1>1, <1>3, DivNat DEF Earned

LEMMA SettledFields ==
    ASSUME NEW p \in Position, NEW seen \in Nat
    PROVE  /\ Settled(p, seen) \in Position
           /\ Settled(p, seen).amount = p.amount /\ Settled(p, seen).debt = p.debt
           /\ Settled(p, seen).pending = Wrap(p.pending + Earned(p, seen))
  <1>1. p.pending + Earned(p, seen) \in Nat
    BY EarnedNat, PositionNat
  <1>2. Wrap(p.pending + Earned(p, seen)) \in U64
    BY <1>1, WrapType
  <1>3. QED
    BY <1>2 DEF Settled, Position

LEMMA Recut ==
    ASSUME NEW p \in Position, NEW amount \in U64, NEW debt \in Nat
    PROVE  [p EXCEPT !.amount = amount, !.debt = debt]
             = [amount |-> amount, debt |-> debt, pending |-> p.pending]
  <1> DEFINE q == [p EXCEPT !.amount = amount, !.debt = debt]
  <1>1. q \in Position /\ q.amount = amount /\ q.debt = debt /\ q.pending = p.pending
    BY DEF Position
  <1>2. \A r \in Position : r = [amount |-> r.amount, debt |-> r.debt, pending |-> r.pending]
    BY DEF Position
  <1> HIDE DEF q
  <1>3. QED
    BY <1>1, <1>2 DEF q

\* ReadsStake only looks at requests one by one.
LEMMA ReadsStakeMoves ==
    ASSUME TInv, NEW t \in Tasks, NEW r \in Call, Moves(t, r), r.pc = "addReward" => r.seen > 0
    PROVE  ReadsStake'
  BY DEF TInv, ReadsStake, Moves, At

\* The pool after a stake, and after an unstake or a claim.
LEMMA GrowEffect ==
    ASSUME TypeOK, NEW t \in Tasks, SettleStake(t)
    PROVE  LET h == HolderOf[t]
               p == position[h]
               e == IF p.amount > 0 THEN Earned(p, acc) ELSE 0
           IN  /\ call[t].pc = "settleStake" /\ Moves(t, IdleCall)
               /\ stakers' = stakers \cup {h}
               /\ position' \in [Holders -> Position]
               /\ position'[h] = [amount |-> Wrap(p.amount + call[t].amount),
                                  debt |-> Wrap(p.amount + call[t].amount) * acc,
                                  pending |-> Wrap(p.pending + e)]
               /\ \A k \in Holders \ {h} : position'[k] = position[k]
               /\ stakeRaced' = (stakeRaced \/ \E u \in Tasks : At(u, "addReward"))
               /\ UNCHANGED <<token, acc, rewarded, fees, paid, overlaps>>
  <1> DEFINE h == HolderOf[t]
             p == position[h]
             old == IF p.amount > 0 THEN Settled(p, acc) ELSE p
             e == IF p.amount > 0 THEN Earned(p, acc) ELSE 0
             grown == Wrap(p.amount + call[t].amount)
             debt == grown * acc
             new == [amount |-> grown, debt |-> debt, pending |-> Wrap(p.pending + e)]
  <1>1. h \in Holders /\ p \in Position /\ acc \in Nat /\ call[t] \in Call
        /\ call \in [Tasks -> Call] /\ position \in [Holders -> Position]
    BY DEF TypeOK, Holders
  <1>2. call[t].amount \in Nat /\ p.amount \in Nat /\ p.pending \in Nat /\ p.pending \in U64
    BY <1>1, PositionNat DEF Call
  <1>3. Earned(p, acc) \in Nat /\ e \in Nat
    BY <1>1, EarnedNat
  <1>4. grown \in U64 /\ grown \in Nat /\ debt \in Nat
    <2>1. grown \in U64 /\ grown \in Nat
      BY <1>2, WrapType
    <2> HIDE DEF grown
    <2>2. QED
      BY <1>1, <2>1
  <1>5. old \in Position /\ old.amount = p.amount /\ old.pending = Wrap(p.pending + e)
    <2>1. CASE p.amount > 0
      BY <2>1, <1>1, SettledFields
    <2>2. CASE ~(p.amount > 0)
      <3>1. e = 0 /\ old = p /\ p.pending + e = p.pending /\ p.pending < Word64
        BY <2>2, <1>2, Words
      <3>2. QED
        BY <3>1, <1>1, <1>2, WrapType
    <2>3. QED
      BY <2>1, <2>2
  <1> HIDE DEF debt, e
  <1>6. [old EXCEPT !.amount = Wrap(old.amount + call[t].amount), !.debt = debt] = new
    <2> DEFINE m == Wrap(old.amount + call[t].amount)
    <2>1. m = grown
      BY <1>5
    <2>2. m \in U64
      BY <1>4, <2>1
    <2>3. new = [amount |-> m, debt |-> debt, pending |-> old.pending]
      BY <1>5, <2>1
    <2> HIDE DEF old, m, new
    <2>4. [old EXCEPT !.amount = m, !.debt = debt] = [amount |-> m, debt |-> debt, pending |-> old.pending]
      BY <1>4, <1>5, <2>2, Recut
    <2>5. QED
      BY <2>3, <2>4 DEF m
  <1>7. new \in Position
    <2>1. Wrap(p.pending + e) \in U64
      BY <1>2, <1>3, WrapType
    <2> HIDE DEF grown
    <2>2. QED
      BY <1>4, <2>1 DEF Position
  <1>8. /\ position' = [position EXCEPT ![h] = new] /\ Return(t)
        /\ call[t].pc = "settleStake" /\ stakers' = stakers \cup {h}
        /\ stakeRaced' = (stakeRaced \/ \E u \in Tasks : At(u, "addReward"))
        /\ UNCHANGED <<token, acc, rewarded, fees, paid, overlaps>>
    <2>1. Grow(t, old, debt)
      BY DEF SettleStake, debt
    <2>2. QED
      BY <2>1, <1>6 DEF Grow, At
  <1> HIDE DEF new
  <1>9. position' \in [Holders -> Position] /\ position'[h] = new
        /\ \A k \in Holders \ {h} : position'[k] = position[k]
    BY <1>1, <1>7, <1>8
  <1>10. Moves(t, IdleCall)
    BY <1>1, <1>8, ReturnMoves
  <1>11. QED
    BY <1>8, <1>9, <1>10 DEF new, e, debt, grown

LEMMA CutEffect ==
    ASSUME TypeOK, NEW t \in Tasks, SettleUnstake(t)
    PROVE  LET h == HolderOf[t]
               p == position[h]
               left == p.amount - call[t].amount
           IN  /\ call[t].pc = "settleUnstake" /\ stakers' \subseteq stakers
               /\ \/ Moves(t, IdleCall) /\ UNCHANGED position
                  \/ /\ Moves(t, [pc |-> "unlock", amount |-> call[t].amount,
                                  seen |-> call[t].seen])
                     /\ call[t].amount <= p.amount
                     /\ position' \in [Holders -> Position]
                     /\ position'[h] = [amount |-> left, debt |-> left * call[t].seen,
                                        pending |-> Wrap(p.pending + Earned(p, call[t].seen))]
                     /\ \A k \in Holders \ {h} : position'[k] = position[k]
               /\ UNCHANGED <<token, acc, rewarded, fees, history>>
  <1> DEFINE h == HolderOf[t]
             p == position[h]
             seen == call[t].seen
             left == p.amount - call[t].amount
             old == Settled(p, seen)
             credited == Wrap(p.pending + Earned(p, seen))
             new == [amount |-> left, debt |-> left * seen, pending |-> credited]
             refused == h \notin stakers \/ call[t].amount > p.amount
             gone == left = 0 /\ old.pending = 0
             kept == IF gone THEN NoPosition
                     ELSE [old EXCEPT !.amount = left, !.debt = left * seen]
  <1>1. h \in Holders /\ p \in Position /\ call[t] \in Call
        /\ call \in [Tasks -> Call] /\ position \in [Holders -> Position]
    BY DEF TypeOK, Holders
  <1>2. /\ call[t].amount \in Nat /\ seen \in Nat /\ p.amount \in Nat /\ p.pending \in Nat
        /\ p.amount < Word64 /\ Word64 \in Nat
    BY <1>1, PositionNat, Words DEF Call
  <1>3. credited \in U64
    BY <1>1, <1>2, EarnedNat, WrapType
  <1>4. old \in Position /\ old.pending = credited
    BY <1>1, <1>2, SettledFields
  <1> HIDE DEF credited
  <1>5. Cut(t, refused, left, left * seen)
    BY DEF SettleUnstake
  <1> HIDE DEF old
  <1>6. /\ call[t].pc = "settleUnstake"
        /\ \/ refused /\ Return(t) /\ UNCHANGED <<stakers, position>>
           \/ /\ ~refused
              /\ stakers' = IF gone THEN stakers \ {h} ELSE stakers
              /\ position' = [position EXCEPT ![h] = kept]
              /\ Goto(t, "unlock")
        /\ UNCHANGED <<token, acc, rewarded, fees, history>>
    BY <1>5 DEF Cut, At, old
  <1>7. CASE refused /\ Return(t) /\ UNCHANGED <<stakers, position>>
    BY <1>1, <1>6, <1>7, ReturnMoves
  <1>8. CASE /\ ~refused /\ Goto(t, "unlock")
             /\ stakers' = IF gone THEN stakers \ {h} ELSE stakers
             /\ position' = [position EXCEPT ![h] = kept]
    <2>1. left \in Nat /\ left \in U64 /\ call[t].amount <= p.amount
      BY <1>2, <1>8 DEF U64
    <2>2. left * seen \in Nat
      BY <2>1, <1>2
    <2>3. kept = new
      <3>1. CASE gone
        <4>1. left * seen = 0 /\ credited = 0 /\ left = 0
          BY <3>1, <1>2, <1>4
        <4>2. QED
          BY <3>1, <4>1 DEF NoPosition
      <3>2. CASE ~gone
        BY <3>2, <2>1, <2>2, <1>4, Recut
      <3>3. QED
        BY <3>1, <3>2
    <2>4. new \in Position
      BY <1>2, <1>3, <2>1, <2>2 DEF Position
    <2> HIDE DEF new, kept
    <2>5. /\ position' \in [Holders -> Position] /\ position'[h] = new
          /\ \A k \in Holders \ {h} : position'[k] = position[k]
      BY <1>1, <1>8, <2>3, <2>4
    <2>6. Moves(t, [pc |-> "unlock", amount |-> call[t].amount, seen |-> seen])
      BY <1>1, <1>8, GotoMoves DEF Pcs
    <2>7. stakers' \subseteq stakers
      BY <1>8
    <2>8. QED
      BY <1>6, <2>1, <2>5, <2>6, <2>7 DEF new, credited
  <1>9. QED
    BY <1>6, <1>7, <1>8

LEMMA ClaimEffect ==
    ASSUME TypeOK, NEW t \in Tasks, SettleClaim(t)
    PROVE  LET h == HolderOf[t]
               p == position[h]
               seen == call[t].seen
           IN  /\ call[t].pc = "settleClaim" /\ Moves(t, IdleCall)
               /\ \/ UNCHANGED <<position, paid>>
                  \/ /\ position' \in [Holders -> Position]
                     /\ position'[h] = [amount |-> p.amount, debt |-> p.amount * seen,
                                        pending |-> 0]
                     /\ \A k \in Holders \ {h} : position'[k] = position[k]
                     /\ paid' \in [Holders -> Nat]
                     /\ paid'[h] = paid[h] + Wrap(p.pending + Earned(p, seen))
                     /\ \A k \in Holders \ {h} : paid'[k] = paid[k]
               /\ UNCHANGED <<token, stakers, acc, rewarded, fees, overlaps, stakeRaced>>
  <1> DEFINE h == HolderOf[t]
             p == position[h]
             seen == call[t].seen
             old == Settled(p, seen)
             credited == Wrap(p.pending + Earned(p, seen))
             new == [amount |-> old.amount, debt |-> old.amount * seen, pending |-> 0]
  <1>1. h \in Holders /\ p \in Position /\ call[t] \in Call /\ paid \in [Holders -> Nat]
        /\ call \in [Tasks -> Call] /\ position \in [Holders -> Position]
    BY DEF TypeOK, Holders
  <1>2. seen \in Nat /\ p.amount \in Nat /\ p.amount \in U64 /\ p.pending \in Nat
    BY <1>1, PositionNat DEF Call
  <1>3. credited \in Nat
    BY <1>1, <1>2, EarnedNat, WrapType
  <1>4. old.amount = p.amount /\ old.pending = credited
    BY <1>1, <1>2, SettledFields
  <1> HIDE DEF old, credited
  <1>5. new \in Position
    <2>1. p.amount * seen \in Nat
      BY <1>2
    <2>2. QED
      BY <1>2, <1>4, <2>1, Words DEF Position
  <1> HIDE DEF new
  <1>6. /\ call[t].pc = "settleClaim" /\ Return(t)
        /\ \/ UNCHANGED <<position, paid>>
           \/ /\ position' = [position EXCEPT ![h] = new]
              /\ paid' = [paid EXCEPT ![h] = @ + old.pending]
        /\ UNCHANGED <<token, stakers, acc, rewarded, fees, overlaps, stakeRaced>>
    BY DEF SettleClaim, At, old, new
  <1>7. ASSUME position' = [position EXCEPT ![h] = new],
               paid' = [paid EXCEPT ![h] = @ + old.pending]
        PROVE  /\ position' \in [Holders -> Position]
               /\ position'[h] = [amount |-> p.amount, debt |-> p.amount * seen, pending |-> 0]
               /\ \A k \in Holders \ {h} : position'[k] = position[k]
               /\ paid' \in [Holders -> Nat]
               /\ paid'[h] = paid[h] + credited
               /\ \A k \in Holders \ {h} : paid'[k] = paid[k]
    <2>1. position' \in [Holders -> Position] /\ position'[h] = new
          /\ \A k \in Holders \ {h} : position'[k] = position[k]
      BY <1>1, <1>5, <1>7
    <2>2. new = [amount |-> p.amount, debt |-> p.amount * seen, pending |-> 0]
      BY <1>4 DEF new
    <2>3. old.pending \in Nat /\ paid[h] \in Nat
      BY <1>1, <1>2, <1>3, <1>4
    <2>4. paid[h] + old.pending = paid[h] + credited
      BY <1>4
    <2>5. /\ paid' \in [Holders -> Nat] /\ paid'[h] = paid[h] + old.pending
          /\ \A k \in Holders \ {h} : paid'[k] = paid[k]
      BY <1>1, <1>7, <2>3
    <2>6. QED
      BY <2>1, <2>2, <2>4, <2>5
  <1>8. QED
    BY <1>1, <1>6, <1>7, ReturnMoves DEF credited

LEMMA InitTInv == Init => TInv
  <1> SUFFICES ASSUME Init PROVE TInv
    OBVIOUS
  <1>1. supply \in 0 .. MaxSupply
    BY ParametersAssumption DEF Init
  <1>2. /\ position \in [Holders -> Position] /\ call \in [Tasks -> Call]
        /\ available \in [Holders -> U64] /\ staked \in [Holders -> U64]
    BY Words DEF Init, NoPosition, Position, IdleCall, Call
  <1>3. ReadsStake
    BY DEF Init, ReadsStake, At, IdleCall
  <1>4. QED
    BY <1>1, <1>2, <1>3 DEF Init, TInv, TypeOK

\* The requests keep their types: what each action writes, besides them.
LEMMA StepTInv ==
    ASSUME TInv, NEW t \in Tasks, Step(t)
    PROVE  TInv'
  <1> USE DEF TInv
  <1>a. /\ supply \in Nat /\ MaxSupply \in Nat /\ call \in [Tasks -> Call] /\ call[t] \in Call
        /\ acc \in Nat /\ pendingFees \in Nat /\ collected \in Nat /\ distributed \in Nat
        /\ overlaps \in Nat /\ HolderOf[t] \in Holders
        /\ call[t].amount \in Nat /\ call[t].seen \in Nat /\ minted \in Nat
    BY ParametersAssumption DEF TypeOK, Call, Holders
  <1>w. \A f \in [Holders -> U64] : \A k \in Holders : \A n \in Nat :
          /\ f[k] \in Nat /\ Wrap(f[k] + n) \in U64
          /\ f[k] >= n => f[k] - n \in U64
    BY Words, WrapType DEF U64
  <1>1. ASSUME NEW amount \in Mints, MintSupply(t, amount) PROVE TInv'
    <2>1. amount \in Nat
      BY ParametersAssumption
    <2>2. Moves(t, [pc |-> "credit", amount |-> amount, seen |-> 0]) /\ overlaps' \in Nat
          /\ UNCHANGED <<paid, stakeRaced>>
      BY <1>1, <1>a, <2>1, BeginMoves DEF MintSupply, Pcs
    <2>3. supply' \in 0 .. MaxSupply /\ minted' \in Nat
      BY <1>1, <1>a, <2>1, WrapType DEF MintSupply
    <2>4. ReadsStake'
      BY <2>1, <2>2, ReadsStakeMoves DEF Call
    <2>5. QED
      BY <1>1, <2>2, <2>3, <2>4 DEF MintSupply, TypeOK, pool, fees, Moves
  <1>2. ASSUME NEW amount \in Amounts, NEW to \in Holders, Transfer(t, to, amount) PROVE TInv'
    <2>1. amount \in Nat
      BY ParametersAssumption
    <2>2. available' \in [Holders -> U64]
      <3> DEFINE less == [available EXCEPT ![HolderOf[t]] = @ - amount]
      <3>1. less \in [Holders -> U64]
        BY <1>2, <1>a, <1>w, <2>1 DEF Transfer, TypeOK
      <3>2. available' = [less EXCEPT ![to] = Wrap(@ + amount)]
        BY <1>2 DEF Transfer
      <3> HIDE DEF less
      <3>3. QED
        BY <1>w, <3>1, <3>2, <2>1
    <2>3. QED
      BY <1>2, <2>2 DEF Transfer, TypeOK, pool, fees, history, ReadsStake, At
  <1>3. ASSUME NEW amount \in Amounts, Stake(t, amount) PROVE TInv'
    <2>1. amount \in Nat
      BY ParametersAssumption
    <2>2. Moves(t, [pc |-> "lock", amount |-> amount, seen |-> 0]) /\ overlaps' \in Nat
          /\ UNCHANGED <<paid, stakeRaced>>
      BY <1>3, <1>a, <2>1, BeginMoves DEF Stake, Pcs
    <2>3. ReadsStake'
      BY <2>1, <2>2, ReadsStakeMoves DEF Call
    <2>4. QED
      BY <1>3, <2>2, <2>3 DEF Stake, TypeOK, token, pool, fees, Moves
  <1>4. ASSUME NEW amount \in Amounts, Unstake(t, amount) PROVE TInv'
    <2>1. amount \in Nat
      BY ParametersAssumption
    <2>2. Moves(t, [pc |-> "readAcc", amount |-> amount, seen |-> 0]) /\ overlaps' \in Nat
          /\ UNCHANGED <<paid, stakeRaced>>
      BY <1>4, <1>a, <2>1, BeginMoves DEF Unstake, Pcs
    <2>3. ReadsStake'
      BY <2>1, <2>2, ReadsStakeMoves DEF Call
    <2>4. QED
      BY <1>4, <2>2, <2>3 DEF Unstake, TypeOK, token, pool, fees, Moves
  <1>5. ASSUME NEW amount \in Amounts, CollectFee(t, amount) PROVE TInv'
    <2>1. amount \in Nat
      BY ParametersAssumption
    <2>2. QED
      BY <1>5, <1>a, <2>1 DEF CollectFee, TypeOK, token, pool, history, ReadsStake, At
  <1>6. ASSUME MintCredit(t) PROVE TInv'
    <2>1. Moves(t, IdleCall)
      BY <1>6, <1>a, ReturnMoves DEF MintCredit
    <2>2. available' \in [Holders -> U64]
      BY <1>6, <1>a, <1>w DEF MintCredit, TypeOK
    <2>3. ReadsStake'
      BY <2>1, ReadsStakeMoves DEF Call, IdleCall
    <2>4. QED
      BY <1>6, <2>1, <2>2, <2>3 DEF MintCredit, TypeOK, pool, fees, history, Moves
  <1>7. ASSUME LockTokens(t) PROVE TInv'
    <2>1. \E r \in Call : Moves(t, r) /\ r.pc # "addReward"
      <3>1. CASE Goto(t, "settleStake")
        <4> DEFINE r == [pc |-> "settleStake", amount |-> call[t].amount, seen |-> call[t].seen]
        <4>1. r \in Call /\ r.pc # "addReward"
          BY <1>a DEF Call
        <4>2. Moves(t, r)
          BY <3>1, <1>a, GotoMoves DEF Pcs
        <4>3. QED
          BY <4>1, <4>2
      <3>2. CASE Return(t)
        BY <3>2, <1>a, ReturnMoves DEF IdleCall, Call
      <3>3. QED
        BY <1>7, <3>1, <3>2 DEF LockTokens
    <2>2. available' \in [Holders -> U64] /\ staked' \in [Holders -> U64]
      <3> DEFINE h == HolderOf[t]
                 a == call[t].amount
      <3>1. available \in [Holders -> U64] /\ staked \in [Holders -> U64]
        BY DEF TypeOK
      <3>2. CASE UNCHANGED <<available, staked>>
        BY <3>1, <3>2
      <3>3. CASE /\ available[h] >= a /\ available' = [available EXCEPT ![h] = @ - a]
                 /\ staked' = [staked EXCEPT ![h] = Wrap(@ + a)]
        <4>1. available[h] - a \in U64 /\ Wrap(staked[h] + a) \in U64
          BY <1>a, <1>w, <3>1, <3>3
        <4> HIDE DEF a, h
        <4>2. QED
          BY <3>1, <3>3, <4>1
      <3>4. QED
        BY <1>7, <3>2, <3>3 DEF LockTokens
    <2>3. ReadsStake'
      BY <2>1, ReadsStakeMoves
    <2>4. QED
      BY <1>7, <2>1, <2>2, <2>3 DEF LockTokens, TypeOK, pool, fees, history, Moves
  <1>8. ASSUME SettleStake(t) PROVE TInv'
    <2>1. /\ Moves(t, IdleCall) /\ stakers' = stakers \cup {HolderOf[t]}
          /\ position' \in [Holders -> Position]
          /\ stakeRaced' = (stakeRaced \/ \E u \in Tasks : At(u, "addReward"))
          /\ UNCHANGED <<token, acc, rewarded, fees, paid, overlaps>>
      BY <1>8, GrowEffect
    <2>2. ReadsStake'
      BY <2>1, ReadsStakeMoves DEF Call, IdleCall
    <2>3. stakeRaced' \in BOOLEAN
      BY <2>1
    <2>4. stakers' \subseteq Holders
      BY <2>1, <1>a DEF TypeOK
    <2>5. QED
      BY <2>1, <2>2, <2>3, <2>4 DEF TypeOK, token, fees, Moves
  <1>9. ASSUME ReadAcc(t, "readAcc", "settleUnstake") PROVE TInv'
    <2>1. Moves(t, [pc |-> "settleUnstake", amount |-> call[t].amount, seen |-> acc])
      BY <1>9, <1>a, SeeMoves DEF ReadAcc, Pcs
    <2>2. ReadsStake'
      BY <1>a, <2>1, ReadsStakeMoves DEF Call
    <2>3. QED
      BY <1>9, <2>1, <2>2 DEF ReadAcc, TypeOK, token, pool, fees, history, Moves
  <1>10. ASSUME SettleUnstake(t) PROVE TInv'
    <2>1. /\ \E r \in Call : Moves(t, r) /\ r.pc # "addReward"
          /\ position' \in [Holders -> Position] /\ stakers' \subseteq stakers
          /\ UNCHANGED <<token, acc, rewarded, fees, history>>
      <3>1. IdleCall \in Call /\ IdleCall.pc # "addReward"
        BY DEF IdleCall, Call
      <3>2. [pc |-> "unlock", amount |-> call[t].amount, seen |-> call[t].seen] \in Call
        BY <1>a DEF Call
      <3>3. QED
        <4> DEFINE r == [pc |-> "unlock", amount |-> call[t].amount, seen |-> call[t].seen]
        <4>1. r.pc # "addReward" /\ r \in Call
          BY <3>2
        <4>2. /\ \/ Moves(t, IdleCall) /\ UNCHANGED position
                 \/ Moves(t, r) /\ position' \in [Holders -> Position]
              /\ stakers' \subseteq stakers
              /\ UNCHANGED <<token, acc, rewarded, fees, history>>
          BY <1>10, CutEffect
        <4> HIDE DEF r
        <4>3. QED
          BY <3>1, <4>1, <4>2 DEF TypeOK
    <2>2. ReadsStake'
      BY <2>1, ReadsStakeMoves
    <2>3. QED
      BY <2>1, <2>2 DEF TypeOK, token, fees, history, Moves
  <1>11. ASSUME UnlockTokens(t) PROVE TInv'
    <2>1. Moves(t, IdleCall)
      BY <1>11, <1>a, ReturnMoves DEF UnlockTokens
    <2>2. available' \in [Holders -> U64] /\ staked' \in [Holders -> U64]
      <3> DEFINE h == HolderOf[t]
                 a == call[t].amount
      <3>1. available \in [Holders -> U64] /\ staked \in [Holders -> U64]
        BY DEF TypeOK
      <3>2. CASE UNCHANGED <<available, staked>>
        BY <3>1, <3>2
      <3>3. CASE /\ staked[h] >= a /\ staked' = [staked EXCEPT ![h] = @ - a]
                 /\ available' = [available EXCEPT ![h] = Wrap(@ + a)]
        <4>1. staked[h] - a \in U64 /\ Wrap(available[h] + a) \in U64
          BY <1>a, <1>w, <3>1, <3>3
        <4> HIDE DEF a, h
        <4>2. QED
          BY <3>1, <3>3, <4>1
      <3>4. QED
        BY <1>11, <3>2, <3>3 DEF UnlockTokens
    <2>3. ReadsStake'
      BY <2>1, ReadsStakeMoves DEF Call, IdleCall
    <2>4. QED
      BY <1>11, <2>1, <2>2, <2>3 DEF UnlockTokens, TypeOK, pool, fees, history, Moves
  <1>12. ASSUME Claim(t) PROVE TInv'
    <2>1. Moves(t, [pc |-> "readAccClaim", amount |-> 0, seen |-> 0]) /\ overlaps' \in Nat
          /\ UNCHANGED <<paid, stakeRaced>>
      BY <1>12, <1>a, BeginMoves DEF Claim, Pcs
    <2>2. ReadsStake'
      BY <2>1, ReadsStakeMoves DEF Call
    <2>3. QED
      BY <1>12, <2>1, <2>2 DEF Claim, TypeOK, token, pool, fees, Moves
  <1>13. ASSUME ReadAcc(t, "readAccClaim", "settleClaim") PROVE TInv'
    <2>1. Moves(t, [pc |-> "settleClaim", amount |-> call[t].amount, seen |-> acc])
      BY <1>13, <1>a, SeeMoves DEF ReadAcc, Pcs
    <2>2. ReadsStake'
      BY <1>a, <2>1, ReadsStakeMoves DEF Call
    <2>3. QED
      BY <1>13, <2>1, <2>2 DEF ReadAcc, TypeOK, token, pool, fees, history, Moves
  <1>14. ASSUME SettleClaim(t) PROVE TInv'
    <2>1. /\ Moves(t, IdleCall)
          /\ position' \in [Holders -> Position] /\ paid' \in [Holders -> Nat]
          /\ UNCHANGED <<token, stakers, acc, rewarded, fees, overlaps, stakeRaced>>
      BY <1>14, ClaimEffect DEF TypeOK
    <2>2. ReadsStake'
      BY <2>1, ReadsStakeMoves DEF Call, IdleCall
    <2>3. QED
      BY <2>1, <2>2 DEF TypeOK, token, fees, Moves
  <1>15. ASSUME Distribute(t) PROVE TInv'
    <2>1. Moves(t, [pc |-> "readTotal", amount |-> pendingFees, seen |-> 0])
          /\ overlaps' \in Nat /\ UNCHANGED <<paid, stakeRaced>>
      BY <1>15, <1>a, BeginMoves DEF Distribute, Pcs
    <2>2. ReadsStake'
      BY <2>1, <1>a, ReadsStakeMoves DEF Call
    <2>3. QED
      BY <1>15, <2>1, <2>2 DEF Distribute, TypeOK, token, pool, Moves
  <1>16. ASSUME ReadTotalStaked(t) PROVE TInv'
    <2> DEFINE to == IF TotalStaked = 0 THEN "countFees" ELSE "addReward"
               r == [pc |-> to, amount |-> call[t].amount, seen |-> TotalStaked]
    <2>1. TotalStaked \in Nat /\ to \in Pcs
      BY TotalStakedNat DEF Pcs
    <2>2. Moves(t, r)
      BY <1>16, <1>a, <2>1, SeeMoves DEF ReadTotalStaked
    <2>3. r \in Call /\ (r.pc = "addReward" => r.seen > 0)
      BY <1>a, <2>1 DEF Call, Pcs
    <2> HIDE DEF r
    <2>4. ReadsStake'
      BY <2>2, <2>3, ReadsStakeMoves
    <2>5. QED
      BY <1>16, <2>2, <2>4 DEF ReadTotalStaked, TypeOK, token, pool, fees, history, Moves
  <1>17. ASSUME AddReward(t) PROVE TInv'
    <2>1. Moves(t, [pc |-> "countFees", amount |-> call[t].amount, seen |-> call[t].seen])
      BY <1>17, <1>a, GotoMoves DEF AddReward, Pcs
    <2>2. call[t].amount * Precision \in Nat /\ call[t].seen # 0
      BY <1>17, <1>a, ParametersAssumption DEF AddReward, ReadsStake, At
    <2>3. (call[t].amount * Precision) \div call[t].seen \in Nat
      BY <1>a, <2>2, DivNat
    <2>4. acc' \in Nat /\ rewarded' \in Nat
      BY <1>17, <1>a, <2>3 DEF AddReward, TypeOK
    <2>5. ReadsStake'
      BY <1>a, <2>1, ReadsStakeMoves DEF Call
    <2>6. QED
      BY <1>17, <2>1, <2>4, <2>5 DEF AddReward, TypeOK, token, fees, history, Moves
  <1>18. ASSUME CountFees(t) PROVE TInv'
    <2>1. Moves(t, IdleCall)
      BY <1>18, <1>a, ReturnMoves DEF CountFees
    <2>2. ReadsStake'
      BY <2>1, ReadsStakeMoves DEF Call, IdleCall
    <2>3. QED
      BY <1>18, <1>a, <2>1, <2>2 DEF CountFees, TypeOK, token, pool, history, Moves
  <1>19. QED
    BY <1>1, <1>2, <1>3, <1>4, <1>5, <1>6, <1>7, <1>8, <1>9, <1>10, <1>11, <1>12, <1>13,
       <1>14, <1>15, <1>16, <1>17, <1>18 DEF Step

LEMMA StutterTInv == TInv /\ UNCHANGED vars => TInv'
  BY DEF TInv, TypeOK, ReadsStake, At, vars, token, pool, fees, history

\* Balances, positions, rewards, fees and requests keep the types of token.rs,
\* staking.rs and fees.rs, the supply its cap: with any number of tasks and
\* holders, however the three components' critical sections interleave.
THEOREM TypeInvariant == Spec => []TypeOK
  <1>1. TInv /\ [Next]_vars => TInv'
    BY StepTInv, StutterTInv DEF Next
  <1>2. TInv => TypeOK
    BY DEF TInv
  <1>3. QED
    BY InitTInv, <1>1, <1>2, PTL DEF Spec

-----------------------------------------------------------------------------
(* Conservation.  A request that has minted holds tokens that nobody has   *)
(* yet; one that has locked tokens, or has cut a position, holds what the  *)
(* token calls staked and the pool does not.                               *)

Credit(r) == IF r.pc = "credit" THEN r.amount ELSE 0
Locked(r) == IF r.pc \in {"settleStake", "unlock"} THEN r.amount ELSE 0

Minted(c) == [t \in Tasks |-> Credit(c[t])]
Unlocking(c, h) == [t \in Tasks |-> IF HolderOf[t] = h THEN Locked(c[t]) ELSE 0]

\* A holder's tokens that the token counts as staked are the holder's position
\* in the pool and what the holder's requests in progress move between the two.
Backing == \A h \in Holders : staked[h] = position[h].amount + SumFunction(Unlocking(call, h))

\* The supply is what the holders have and what a mint has yet to credit.
Balanced == supply = SumFunction(available) + SumFunction(staked) + SumFunction(Minted(call))

Accounts == supply = minted /\ Balanced /\ Backing

LInv == TInv /\ (Exact => Accounts)

LEMMA TokensConservedAlt == TokensConserved <=> (Exact => Balanced)
  BY DEF TokensConserved, Balanced, Minted, Credit, At

LEMMA HeldNat ==
    ASSUME NEW r \in Call
    PROVE  Credit(r) \in Nat /\ Locked(r) \in Nat
  BY DEF Credit, Locked, Call

LEMMA HeldSums ==
    ASSUME NEW c \in [Tasks -> Call]
    PROVE  /\ Minted(c) \in [Tasks -> Nat] /\ SumFunction(Minted(c)) \in Nat
           /\ \A h : Unlocking(c, h) \in [Tasks -> Nat] /\ SumFunction(Unlocking(c, h)) \in Nat
  <1>1. \A u \in Tasks : Credit(c[u]) \in Nat /\ Locked(c[u]) \in Nat
    BY HeldNat
  <1>2. Minted(c) \in [Tasks -> Nat] /\ \A h : Unlocking(c, h) \in [Tasks -> Nat]
    BY <1>1 DEF Minted, Unlocking
  <1>3. \A f \in [Tasks -> Nat] : SumFunction(f) \in Nat
    BY TasksAssumption, SumNat
  <1>4. QED
    BY <1>2, <1>3

\* One request moves: the sums over the requests follow it.
LEMMA HeldMoves ==
    ASSUME call \in [Tasks -> Call], NEW t \in Tasks, NEW r \in Call, Moves(t, r)
    PROVE  /\ SumFunction(Minted(call'))
                = SumFunction(Minted(call)) + Credit(r) - Credit(call[t])
           /\ \A h : SumFunction(Unlocking(call', h)) = SumFunction(Unlocking(call, h))
                   + (IF HolderOf[t] = h THEN Locked(r) - Locked(call[t]) ELSE 0)
  <1>1. call' \in [Tasks -> Call] /\ call'[t] = r /\ \A u \in Tasks \ {t} : call'[u] = call[u]
    BY DEF Moves
  <1>2. Locked(r) \in Nat /\ Locked(call[t]) \in Nat
    BY HeldNat
  <1>3. /\ Minted(call) \in [Tasks -> Int] /\ Minted(call') \in [Tasks -> Int]
        /\ \A h : Unlocking(call, h) \in [Tasks -> Int] /\ Unlocking(call', h) \in [Tasks -> Int]
        /\ \A h : SumFunction(Unlocking(call, h)) \in Nat
    <2>1. \A c \in [Tasks -> Call] :
            /\ Minted(c) \in [Tasks -> Nat]
            /\ \A h : Unlocking(c, h) \in [Tasks -> Nat] /\ SumFunction(Unlocking(c, h)) \in Nat
      BY HeldSums
    <2>2. \A f \in [Tasks -> Nat] : f \in [Tasks -> Int]
      OBVIOUS
    <2>3. QED
      BY <1>1, <2>1, <2>2
  <1>4. /\ Minted(call)[t] = Credit(call[t]) /\ Minted(call')[t] = Credit(r)
        /\ \A u \in Tasks \ {t} : Minted(call')[u] = Minted(call)[u]
    BY <1>1 DEF Minted
  <1>5. SumFunction(Minted(call'))
          = SumFunction(Minted(call)) + Minted(call')[t] - Minted(call)[t]
    BY <1>3, <1>4, TasksAssumption, SumChange
  <1>6. ASSUME NEW h
        PROVE  SumFunction(Unlocking(call', h)) = SumFunction(Unlocking(call, h))
                 + (IF HolderOf[t] = h THEN Locked(r) - Locked(call[t]) ELSE 0)
    <2> DEFINE f == Unlocking(call, h)
               g == Unlocking(call', h)
    <2>1. /\ f[t] = IF HolderOf[t] = h THEN Locked(call[t]) ELSE 0
          /\ g[t] = IF HolderOf[t] = h THEN Locked(r) ELSE 0
          /\ \A u \in Tasks \ {t} : g[u] = f[u]
      BY <1>1 DEF Unlocking
    <2>2. f \in [Tasks -> Int] /\ g \in [Tasks -> Int] /\ SumFunction(f) \in Nat
      BY <1>3
    <2> HIDE DEF f, g
    <2>3. SumFunction(g) = SumFunction(f) + g[t] - f[t]
      BY <2>1, <2>2, TasksAssumption, SumChange
    <2>4. SumFunction(g) = SumFunction(f)
                 + (IF HolderOf[t] = h THEN Locked(r) - Locked(call[t]) ELSE 0)
      BY <1>2, <2>1, <2>2, <2>3
    <2>5. QED
      BY <2>4 DEF f, g
  <1>7. QED
    BY <1>4, <1>5, <1>6

\* What a step must balance for each of the two invariants.
TokensBalance(t, r) ==
    supply' + SumFunction(available) + SumFunction(staked) + Credit(call[t])
      = supply + SumFunction(available') + SumFunction(staked') + Credit(r)

StakesBalance(t, r) ==
    LET h == HolderOf[t]
    IN  staked'[h] + position[h].amount + Locked(call[t])
          = staked[h] + position'[h].amount + Locked(r)

LEMMA TokensStep ==
    ASSUME TypeOK, TypeOK', Balanced, NEW t \in Tasks, NEW r \in Call, Moves(t, r),
           TokensBalance(t, r)
    PROVE  Balanced'
  <1> DEFINE a0 == SumFunction(available)
             a1 == SumFunction(available')
             k0 == SumFunction(staked)
             k1 == SumFunction(staked')
             m0 == SumFunction(Minted(call))
             m1 == SumFunction(Minted(call'))
             c0 == Credit(call[t])
             c1 == Credit(r)
             s0 == supply
             s1 == supply'
  <1>1. s0 = a0 + k0 + m0
    BY DEF Balanced
  <1>2. call \in [Tasks -> Call] /\ call[t] \in Call /\ s0 \in Nat /\ s1 \in Nat
    BY DEF TypeOK
  <1>3. m1 = m0 + c1 - c0
    BY <1>2, HeldMoves
  <1>4. a0 \in Nat /\ k0 \in Nat /\ a1 \in Nat /\ k1 \in Nat
    <2>1. \A f \in [Holders -> U64] : SumFunction(f) \in Nat
      BY Words, HoldersFinite, SumNat
    <2>2. QED
      BY <2>1 DEF TypeOK
  <1>5. m0 \in Nat /\ c0 \in Nat /\ c1 \in Nat
    BY <1>2, HeldSums, HeldNat
  <1>6. s1 + a0 + k0 + c0 = s0 + a1 + k1 + c1
    BY DEF TokensBalance
  <1> HIDE DEF a0, a1, k0, k1, m0, m1, c0, c1, s0, s1
  <1>7. s1 = a1 + k1 + m1
    BY <1>1, <1>2, <1>3, <1>4, <1>5, <1>6
  <1>8. QED
    BY <1>7 DEF Balanced, a1, k1, m1, s1

LEMMA BackingStep ==
    ASSUME TypeOK, TypeOK', Backing, NEW t \in Tasks, NEW r \in Call, Moves(t, r),
           \A h \in Holders \ {HolderOf[t]} :
               staked'[h] = staked[h] /\ position'[h].amount = position[h].amount,
           StakesBalance(t, r)
    PROVE  Backing'
  <1> SUFFICES ASSUME NEW h \in Holders
               PROVE  staked'[h] = position'[h].amount + SumFunction(Unlocking(call', h))
    BY DEF Backing
  <1> DEFINE before == SumFunction(Unlocking(call, h))
             after == SumFunction(Unlocking(call', h))
  <1>1. staked[h] = position[h].amount + before
    BY DEF Backing
  <1>2. after = before + (IF HolderOf[t] = h THEN Locked(r) - Locked(call[t]) ELSE 0)
    BY HeldMoves DEF TypeOK
  <1>3. before \in Nat /\ Locked(r) \in Nat /\ Locked(call[t]) \in Nat
    BY HeldSums, HeldNat DEF TypeOK
  <1> DEFINE s0 == staked[h]
             s1 == staked'[h]
             p0 == position[h].amount
             p1 == position'[h].amount
             k0 == Locked(call[t])
             k1 == Locked(r)
  <1>4. s0 \in Nat /\ s1 \in Nat /\ p0 \in Nat /\ p1 \in Nat
    BY Words DEF TypeOK, Position
  <1>5. CASE HolderOf[t] = h
    <2>1. after = before + (k1 - k0) /\ s1 + p0 + k0 = s0 + p1 + k1 /\ s0 = p0 + before
      BY <1>1, <1>2, <1>5 DEF StakesBalance
    <2> HIDE DEF before, after, s0, s1, p0, p1, k0, k1
    <2>2. s1 = p1 + after
      BY <1>3, <1>4, <2>1 DEF k0, k1
    <2>3. QED
      BY <2>2 DEF s1, p1, after
  <1>6. CASE HolderOf[t] # h
    <2>1. after = before + 0 /\ s1 = s0 /\ p1 = p0 /\ s0 = p0 + before
      BY <1>1, <1>2, <1>6
    <2> HIDE DEF before, after, s0, s1, p0, p1
    <2>2. s1 = p1 + after
      BY <1>3, <1>4, <2>1
    <2>3. QED
      BY <2>2 DEF s1, p1, after
  <1>7. QED
    BY <1>5, <1>6

\* A step that moves no tokens, at a point where its request holds none.
LEMMA Neutral ==
    ASSUME TypeOK, TypeOK', Balanced, Backing, NEW t \in Tasks, NEW r \in Call, Moves(t, r),
           r.pc \notin {"credit", "settleStake", "unlock"},
           call[t].pc \notin {"credit", "settleStake", "unlock"},
           UNCHANGED <<supply, available, staked>>,
           \A h \in Holders : position'[h].amount = position[h].amount
    PROVE  Balanced' /\ Backing'
  <1>1. Credit(r) = 0 /\ Credit(call[t]) = 0 /\ Locked(r) = 0 /\ Locked(call[t]) = 0
    BY DEF Credit, Locked
  <1>2. HolderOf[t] \in Holders
    BY DEF Holders
  <1>3. Balanced'
    BY <1>1, TokensStep DEF TokensBalance
  <1>4. Backing'
    BY <1>1, <1>2, BackingStep DEF StakesBalance
  <1>5. QED
    BY <1>3, <1>4

LEMMA HolderSum ==
    ASSUME NEW f \in [Holders -> Nat], NEW g \in [Holders -> Nat], NEW h \in Holders,
           \A k \in Holders \ {h} : g[k] = f[k]
    PROVE  /\ SumFunction(f) \in Nat /\ SumFunction(g) \in Nat
           /\ SumFunction(g) = SumFunction(f) + g[h] - f[h]
           /\ f[h] \in Nat /\ g[h] \in Nat
  <1>1. f \in [Holders -> Int] /\ g \in [Holders -> Int]
    OBVIOUS
  <1>2. QED
    BY <1>1, HoldersFinite, SumChange, SumNat

\* What a request is about to unlock is among what the token calls staked.
LEMMA UnlockCovered ==
    ASSUME TypeOK, Backing, NEW t \in Tasks, call[t].pc = "unlock"
    PROVE  staked[HolderOf[t]] >= call[t].amount
  <1> DEFINE h == HolderOf[t]
             held == SumFunction(Unlocking(call, h))
             s0 == staked[h]
             p0 == position[h].amount
             a == call[t].amount
  <1>1. h \in Holders /\ call[t] \in Call /\ call \in [Tasks -> Call]
    BY DEF Holders, TypeOK
  <1>2. s0 = p0 + held
    BY <1>1 DEF Backing
  <1>3. s0 \in Nat /\ p0 \in Nat /\ a \in Nat
    BY <1>1, Words DEF TypeOK, Position, Call
  <1>4. Unlocking(call, h)[t] = a /\ Unlocking(call, h) \in [Tasks -> Nat] /\ held \in Nat
    BY <1>1, HeldSums DEF Unlocking, Locked
  <1>5. a <= held
    BY <1>4, TasksAssumption, SumMember
  <1> HIDE DEF held, s0, p0, a
  <1>6. s0 >= a
    BY <1>2, <1>3, <1>4, <1>5
  <1>7. QED
    BY <1>6 DEF s0, a

\* What a holder has free and a holder has staked, and what a mint has yet to credit,
\* are within the supply, and so is a position with what is added to it: while the
\* tokens minted fit a u64, their sums do.
LEMMA Room ==
    ASSUME TypeOK, Exact, Accounts, NEW t \in Tasks, NEW h \in Holders, NEW k \in Holders
    PROVE  /\ available[h] + staked[k] + Credit(call[t]) < Word64
           /\ SumFunction(available) < Word64 /\ SumFunction(staked) < Word64
           /\ position[h].amount + Locked(call[t]) * (IF HolderOf[t] = h THEN 1 ELSE 0)
                <= staked[h]
  <1> DEFINE x == SumFunction(available)
             y == SumFunction(staked)
             z == SumFunction(Minted(call))
             l == Unlocking(call, h)
             u == SumFunction(l)
             a == available[h]
             b == staked[k]
             c == Credit(call[t])
             b0 == staked[h]
             p0 == position[h].amount
  <1>1. available \in [Holders -> Nat] /\ staked \in [Holders -> Nat]
        /\ call \in [Tasks -> Call] /\ call[t] \in Call /\ supply \in Nat /\ minted \in Nat
        /\ position[h] \in Position
    BY Words DEF TypeOK
  <1>2. Minted(call) \in [Tasks -> Nat] /\ z \in Nat /\ Minted(call)[t] = c
        /\ l \in [Tasks -> Nat] /\ u \in Nat
    BY <1>1, HeldSums DEF Minted
  <1>3. x \in Nat /\ y \in Nat /\ a <= x /\ b <= y
    BY <1>1, HoldersFinite, SumNat, SumMember
  <1>4. c <= z /\ l[t] <= u
    BY <1>2, TasksAssumption, SumMember
  <1>5. minted = x + y + z /\ minted < Word64 /\ b0 = p0 + u
    BY DEF Accounts, Balanced, Backing, Exact
  <1>6. a \in Nat /\ b \in Nat /\ c \in Nat /\ p0 \in Nat /\ Locked(call[t]) \in Nat /\ Word64 \in Nat
    BY <1>1, HeldNat, PositionNat, ParametersAssumption
  <1>7. Locked(call[t]) * (IF HolderOf[t] = h THEN 1 ELSE 0) = l[t]
    BY <1>6 DEF Unlocking
  <1>8. l[t] \in Nat
    BY <1>2
  <1>9. p0 + l[t] <= b0
    <2> HIDE DEF l, u, p0, b0
    <2>1. QED
      BY <1>2, <1>4, <1>5, <1>6, <1>8
  <1> HIDE DEF x, y, z, l, u, a, b, c
  <1>10. a + b + c < Word64 /\ x < Word64 /\ y < Word64
    BY <1>1, <1>2, <1>3, <1>4, <1>5, <1>6
  <1>11. QED
    BY <1>7, <1>9, <1>10 DEF x, y, a, b, c

\* Only a mint changes the supply, and the tokens minted are never fewer.
LEMMA MintedStep ==
    ASSUME TypeOK, NEW t \in Tasks, Step(t)
    PROVE  /\ \/ UNCHANGED <<supply, minted>>
              \/ \E amount \in Mints : /\ supply' = Wrap(supply + amount)
                                       /\ minted' = minted + amount
           /\ Exact' => Exact
  <1>1. \/ UNCHANGED <<supply, minted>>
        \/ \E amount \in Mints : supply' = Wrap(supply + amount) /\ minted' = minted + amount
    BY DEF Step, MintSupply, Transfer, Stake, Unstake, CollectFee, MintCredit, LockTokens,
           SettleStake, Grow, ReadAcc, SettleUnstake, Cut, UnlockTokens, Claim, SettleClaim,
           Distribute, ReadTotalStaked, AddReward, CountFees, token
  <1>2. minted \in Nat /\ \A amount \in Mints : amount \in Nat
    BY ParametersAssumption DEF TypeOK
  <1>3. Exact' => Exact
    BY <1>1, <1>2, ParametersAssumption DEF Exact
  <1>4. QED
    BY <1>1, <1>3

\* While the tokens minted fit a u64, the supply is what was minted.
LEMMA CountedStep ==
    ASSUME TypeOK, supply = minted, Exact', NEW t \in Tasks, Step(t)
    PROVE  supply' = minted'
  <1>1. CASE UNCHANGED <<supply, minted>>
    BY <1>1
  <1>2. ASSUME NEW amount \in Mints, supply' = Wrap(supply + amount), minted' = minted + amount
        PROVE  supply' = minted'
    <2>1. minted + amount \in Nat /\ minted + amount < Word64
      BY <1>2, ParametersAssumption DEF TypeOK, Exact
    <2>2. QED
      BY <1>2, <2>1, WrapType
  <1>3. QED
    BY <1>1, <1>2, MintedStep

LEMMA InitLInv == Init => LInv
  <1> SUFFICES ASSUME Init PROVE LInv
    OBVIOUS
  <1>1. TInv
    BY InitTInv
  <1>2. \A u \in Tasks : Credit(call[u]) = 0 /\ Locked(call[u]) = 0
    BY DEF Init, IdleCall, Credit, Locked
  <1>3. SumFunction(Minted(call)) = 0 /\ \A h : SumFunction(Unlocking(call, h)) = 0
    <2>1. \A f \in [Tasks -> Int] : (\A u \in Tasks : f[u] = 0) => SumFunction(f) = 0
      BY TasksAssumption, SumZero
    <2>2. Minted(call) \in [Tasks -> Int] /\ \A u \in Tasks : Minted(call)[u] = 0
      BY <1>2 DEF Minted
    <2>3. \A h : Unlocking(call, h) \in [Tasks -> Int] /\ \A u \in Tasks : Unlocking(call, h)[u] = 0
      BY <1>2 DEF Unlocking
    <2>4. QED
      BY <2>1, <2>2, <2>3
  <1>4. SumFunction(available) = 0 /\ SumFunction(staked) = 0
    <2>1. /\ available \in [Holders -> Int] /\ \A h \in Holders : available[h] = 0
          /\ staked \in [Holders -> Int] /\ \A h \in Holders : staked[h] = 0
      BY DEF Init
    <2>2. QED
      BY <2>1, HoldersFinite, SumZero
  <1>5. Balanced
    BY <1>3, <1>4 DEF Balanced, Init
  <1>6. Backing
    BY <1>3 DEF Init, Backing, NoPosition
  <1>7. QED
    BY <1>1, <1>5, <1>6 DEF LInv, Accounts, Init

LEMMA StepLInv ==
    ASSUME TInv, TInv', Exact, Accounts, Exact', NEW t \in Tasks, Step(t)
    PROVE  Balanced' /\ Backing'
  <1> DEFINE h == HolderOf[t]
             a == call[t].amount
             AtRest(r) == r \in Call /\ r.pc \notin {"credit", "settleStake", "unlock"}
  <1>a. /\ supply \in Nat /\ supply' \in Nat /\ call \in [Tasks -> Call] /\ call[t] \in Call
        /\ available \in [Holders -> Nat] /\ available' \in [Holders -> Nat]
        /\ staked \in [Holders -> Nat] /\ staked' \in [Holders -> Nat]
        /\ TypeOK /\ TypeOK' /\ Balanced /\ Backing
        /\ h \in Holders /\ a \in Nat /\ call[t].seen \in Nat /\ pendingFees \in Nat /\ acc \in Nat
    <2>1. \A f \in [Holders -> U64] : f \in [Holders -> Nat]
      BY Words
    <2>2. /\ available \in [Holders -> U64] /\ available' \in [Holders -> U64]
          /\ staked \in [Holders -> U64] /\ staked' \in [Holders -> U64]
          /\ supply \in Nat /\ supply' \in Nat
          /\ call \in [Tasks -> Call] /\ pendingFees \in Nat /\ acc \in Nat
      <3>1. MaxSupply \in Nat
        BY ParametersAssumption
      <3>2. QED
        BY <3>1 DEF TInv, TypeOK
    <2>3. call[t] \in Call /\ a \in Nat /\ call[t].seen \in Nat /\ h \in Holders
      BY <2>2 DEF Call, Holders
    <2>4. TypeOK /\ TypeOK' /\ Balanced /\ Backing
      BY DEF TInv, Accounts
    <2>5. QED
      BY <2>1, <2>2, <2>3, <2>4
  <1>b. ASSUME NEW r, AtRest(r), AtRest(call[t]), Moves(t, r),
               UNCHANGED <<supply, available, staked>>,
               \A k \in Holders : position'[k].amount = position[k].amount
        PROVE  Balanced' /\ Backing'
    BY <1>a, <1>b, Neutral
  <1>c. ASSUME NEW k \in Holders
        PROVE  position[k] \in Position /\ position[k].amount \in Nat
    BY <1>a, PositionNat DEF TypeOK
  <1>d. /\ available[h] + staked[h] + Credit(call[t]) < Word64
        /\ SumFunction(available) < Word64
        /\ position[h].amount + Locked(call[t]) <= staked[h] /\ staked[h] < Word64
    <2>1. Locked(call[t]) \in Nat /\ available[h] \in Nat /\ staked[h] \in Nat /\ Word64 \in Nat
          /\ Credit(call[t]) \in Nat
      BY <1>a, HeldNat, ParametersAssumption
    <2>2. /\ available[h] + staked[h] + Credit(call[t]) < Word64
          /\ SumFunction(available) < Word64
          /\ position[h].amount + Locked(call[t]) * 1 <= staked[h]
      BY <1>a, Room
    <2>3. QED
      BY <2>1, <2>2
  <1>e. Word64 \in Nat
    BY ParametersAssumption
  <1>1. ASSUME NEW amount \in Mints, MintSupply(t, amount)
        PROVE  Balanced' /\ Backing'
    <2> DEFINE r == [pc |-> "credit", amount |-> amount, seen |-> 0]
    <2>1. amount \in Nat /\ r \in Call
      BY ParametersAssumption DEF Call
    <2>2. Moves(t, r) /\ call[t].pc = "idle"
      BY <1>1, <1>a, <2>1, BeginMoves DEF MintSupply, Pcs
    <2>3. supply' = supply + amount /\ UNCHANGED <<available, staked, position>>
      <3>1. minted' = minted + amount /\ supply = minted /\ minted' < Word64
            /\ supply' = Wrap(supply + amount) /\ UNCHANGED <<available, staked, position>>
        BY <1>1 DEF MintSupply, pool, Accounts, Exact
      <3>2. QED
        BY <1>a, <2>1, <3>1, WrapType
    <2>4. Credit(r) = amount /\ Credit(call[t]) = 0 /\ Locked(r) = 0 /\ Locked(call[t]) = 0
      BY <2>2 DEF Credit, Locked
    <2> HIDE DEF r
    <2>5. TokensBalance(t, r)
      <3>1. SumFunction(available) \in Nat /\ SumFunction(staked) \in Nat
        BY <1>a, HoldersFinite, SumNat
      <3>2. \A x, y \in Nat : supply + amount + x + y + 0 = supply + x + y + amount
        BY <1>a, <2>1
      <3>3. QED
        BY <2>3, <2>4, <3>1, <3>2 DEF TokensBalance
    <2>6. StakesBalance(t, r)
      BY <2>3, <2>4 DEF StakesBalance
    <2>7. QED
      BY <1>a, <2>1, <2>2, <2>3, <2>5, <2>6, TokensStep, BackingStep
  <1>2. ASSUME NEW amount \in Amounts, NEW to \in Holders, Transfer(t, to, amount)
        PROVE  Balanced' /\ Backing'
    <2> DEFINE less == [available EXCEPT ![h] = @ - amount]
    <2>1. amount \in Nat /\ available[h] >= amount
      BY <1>2, ParametersAssumption DEF Transfer
    <2>2. available' = [less EXCEPT ![to] = Wrap(@ + amount)] /\ UNCHANGED <<supply, staked, position, call>>
      BY <1>2 DEF Transfer, pool
    <2>3. less \in [Holders -> Nat] /\ less[h] = available[h] - amount
          /\ \A k \in Holders \ {h} : less[k] = available[k]
      BY <1>a, <2>1
    <2> HIDE DEF less
    <2>4. available'[to] = less[to] + amount /\ \A k \in Holders \ {to} : available'[k] = less[k]
      <3> DEFINE x == SumFunction(available)
                 y == SumFunction(less)
                 l0 == available[h]
                 l1 == less[h]
                 m0 == less[to]
      <3>1. x \in Nat /\ y \in Nat /\ l0 \in Nat /\ m0 \in Nat /\ y = x + l1 - l0
            /\ l1 = l0 - amount /\ m0 <= y /\ x < Word64
        BY <1>a, <1>d, <2>3, HolderSum, HoldersFinite, SumMember
      <3>2. available'[to] = Wrap(m0 + amount) /\ \A k \in Holders \ {to} : available'[k] = less[k]
        BY <2>2, <2>3
      <3> HIDE DEF x, y, l0, l1, m0
      <3>3. m0 + amount < Word64 /\ m0 + amount \in Nat
        BY <1>e, <2>1, <3>1
      <3>4. Wrap(m0 + amount) = m0 + amount
        BY <3>3, WrapType
      <3>5. QED
        BY <3>2, <3>4 DEF m0
    <2>5. SumFunction(available') = SumFunction(available)
      <3> DEFINE x == SumFunction(available)
                 y == SumFunction(less)
                 z == SumFunction(available')
                 l0 == available[h]
                 l1 == less[h]
                 m0 == less[to]
                 m1 == available'[to]
      <3>1. x \in Nat /\ y \in Nat /\ z \in Nat /\ l0 \in Nat /\ l1 \in Nat /\ m0 \in Nat /\ m1 \in Nat
        BY <1>a, <2>3, HoldersFinite, SumNat
      <3>2. y = x + l1 - l0 /\ l1 = l0 - amount
        BY <1>a, <2>3, HolderSum
      <3>3. z = y + m1 - m0 /\ m1 = m0 + amount
        BY <1>a, <2>3, <2>4, HolderSum
      <3> HIDE DEF x, y, z, l0, l1, m0, m1
      <3>4. z = x
        BY <2>1, <3>1, <3>2, <3>3
      <3>5. QED
        BY <3>4 DEF z, x
    <2>6. Moves(t, call[t])
      BY <1>a, <2>2 DEF Moves
    <2>7. TokensBalance(t, call[t]) /\ StakesBalance(t, call[t])
      BY <2>2, <2>5 DEF TokensBalance, StakesBalance
    <2>8. QED
      BY <1>a, <2>2, <2>6, <2>7, TokensStep, BackingStep
  <1>3. ASSUME NEW amount \in Amounts, Stake(t, amount) PROVE Balanced' /\ Backing'
    <2> DEFINE r == [pc |-> "lock", amount |-> amount, seen |-> 0]
    <2>1. amount \in Nat /\ AtRest(r)
      BY ParametersAssumption DEF Call
    <2>2. Moves(t, r) /\ AtRest(call[t])
      BY <1>3, <1>a, <2>1, BeginMoves DEF Stake, Pcs
    <2>3. QED
      BY <1>3, <1>b, <2>1, <2>2 DEF Stake, token, pool
  <1>4. ASSUME NEW amount \in Amounts, Unstake(t, amount) PROVE Balanced' /\ Backing'
    <2> DEFINE r == [pc |-> "readAcc", amount |-> amount, seen |-> 0]
    <2>1. amount \in Nat /\ AtRest(r)
      BY ParametersAssumption DEF Call
    <2>2. Moves(t, r) /\ AtRest(call[t])
      BY <1>4, <1>a, <2>1, BeginMoves DEF Unstake, Pcs
    <2>3. QED
      BY <1>4, <1>b, <2>1, <2>2 DEF Unstake, token, pool
  <1>5. ASSUME NEW amount \in Amounts, CollectFee(t, amount)
        PROVE  Balanced' /\ Backing'
    <2>1. Moves(t, call[t]) /\ AtRest(call[t])
      BY <1>5, <1>a DEF CollectFee, Moves, At
    <2>2. QED
      BY <1>5, <1>b, <2>1 DEF CollectFee, token, pool
  <1>6. ASSUME MintCredit(t) PROVE Balanced' /\ Backing'
    <2>1. Moves(t, IdleCall) /\ IdleCall \in Call /\ call[t].pc = "credit"
      BY <1>6, <1>a, ReturnMoves DEF MintCredit, At, IdleCall, Call
    <2>2. Credit(IdleCall) = 0 /\ Credit(call[t]) = a /\ Locked(IdleCall) = 0 /\ Locked(call[t]) = 0
      BY <2>1 DEF Credit, Locked, IdleCall
    <2>3. /\ UNCHANGED <<supply, staked, position>>
          /\ available'[h] = available[h] + a /\ \A k \in Holders \ {h} : available'[k] = available[k]
      <3>1. available[h] + a \in Nat /\ available[h] + a < Word64
        BY <1>a, <1>d, <1>e, <2>2
      <3>2. Wrap(available[h] + a) = available[h] + a
        BY <3>1, WrapType
      <3>3. /\ UNCHANGED <<supply, staked, position>>
            /\ available'[h] = Wrap(available[h] + a)
            /\ \A k \in Holders \ {h} : available'[k] = available[k]
        BY <1>6, <1>a DEF MintCredit, pool
      <3>4. QED
        BY <3>2, <3>3
    <2>4. SumFunction(available') = SumFunction(available) + a /\ SumFunction(available) \in Nat
          /\ SumFunction(staked) \in Nat
      <3> DEFINE x == SumFunction(available)
                 y == SumFunction(available')
                 l0 == available[h]
                 l1 == available'[h]
      <3>1. x \in Nat /\ y \in Nat /\ y = x + l1 - l0 /\ l0 \in Nat /\ l1 \in Nat /\ l1 = l0 + a
        BY <1>a, <2>3, HolderSum
      <3> HIDE DEF x, y, l0, l1
      <3>2. y = x + a
        BY <1>a, <3>1
      <3>3. QED
        BY <1>a, <3>1, <3>2, HoldersFinite, SumNat DEF x, y
    <2>5. TokensBalance(t, IdleCall)
      <3>1. \A x, y \in Nat : supply + x + y + a = supply + (x + a) + y + 0
        BY <1>a
      <3>2. QED
        BY <2>2, <2>3, <2>4, <3>1 DEF TokensBalance
    <2>6. StakesBalance(t, IdleCall)
      BY <2>2, <2>3 DEF StakesBalance
    <2>7. QED
      BY <1>a, <2>1, <2>3, <2>5, <2>6, TokensStep, BackingStep
  <1>7. ASSUME LockTokens(t) PROVE Balanced' /\ Backing'
    <2>1. CASE /\ available[h] >= a /\ Goto(t, "settleStake")
               /\ available' = [available EXCEPT ![h] = @ - a]
               /\ staked' = [staked EXCEPT ![h] = Wrap(@ + a)]
      <3> DEFINE r == [pc |-> "settleStake", amount |-> a, seen |-> call[t].seen]
      <3>1. Moves(t, r) /\ r \in Call /\ call[t].pc = "lock"
        BY <1>7, <2>1, <1>a, GotoMoves DEF LockTokens, At, Pcs, Call
      <3>2. Credit(r) = 0 /\ Credit(call[t]) = 0 /\ Locked(r) = a /\ Locked(call[t]) = 0
        BY <3>1 DEF Credit, Locked
      <3> HIDE DEF r
      <3>3. /\ UNCHANGED <<supply, position>>
            /\ available'[h] = available[h] - a /\ staked'[h] = staked[h] + a
            /\ \A k \in Holders \ {h} : available'[k] = available[k] /\ staked'[k] = staked[k]
        <4>1. staked[h] + a \in Nat /\ staked[h] + a < Word64
          BY <1>a, <1>d, <1>e, <2>1, <3>2
        <4>2. Wrap(staked[h] + a) = staked[h] + a
          BY <4>1, WrapType
        <4>3. /\ UNCHANGED <<supply, position>>
              /\ available'[h] = available[h] - a /\ staked'[h] = Wrap(staked[h] + a)
              /\ \A k \in Holders \ {h} : available'[k] = available[k] /\ staked'[k] = staked[k]
          BY <1>7, <1>a, <2>1 DEF LockTokens, pool
        <4>4. QED
          BY <4>2, <4>3
      <3>4. SumFunction(available') = SumFunction(available) - a
            /\ SumFunction(staked') = SumFunction(staked) + a
            /\ SumFunction(available) \in Nat /\ SumFunction(staked) \in Nat
        <4> DEFINE x == SumFunction(available)
                   y == SumFunction(available')
                   l0 == available[h]
                   l1 == available'[h]
                   u == SumFunction(staked)
                   v == SumFunction(staked')
                   m0 == staked[h]
                   m1 == staked'[h]
        <4>1. x \in Nat /\ y \in Nat /\ y = x + l1 - l0 /\ l0 \in Nat /\ l1 \in Nat /\ l1 = l0 - a
          BY <1>a, <3>3, HolderSum
        <4>2. u \in Nat /\ v \in Nat /\ v = u + m1 - m0 /\ m0 \in Nat /\ m1 \in Nat /\ m1 = m0 + a
          BY <1>a, <3>3, HolderSum
        <4> HIDE DEF x, y, l0, l1, u, v, m0, m1
        <4>3. y = x - a /\ v = u + a
          BY <1>a, <4>1, <4>2
        <4>4. QED
          BY <4>1, <4>2, <4>3 DEF x, y, u, v
      <3>5. TokensBalance(t, r)
        <4>1. \A x, y \in Nat : supply + x + y + 0 = supply + (x - a) + (y + a) + 0
          BY <1>a
        <4>2. QED
          BY <3>2, <3>3, <3>4, <4>1 DEF TokensBalance
      <3>6. StakesBalance(t, r)
        <4>1. \A x, y \in Nat : (x + a) + y + 0 = x + y + a
          BY <1>a
        <4>2. staked[h] \in Nat /\ position[h].amount \in Nat
          BY <1>a, <1>c
        <4>3. QED
          BY <3>2, <3>3, <4>1, <4>2 DEF StakesBalance
      <3>7. QED
        BY <1>a, <3>1, <3>3, <3>5, <3>6, TokensStep, BackingStep
    <2>2. CASE Return(t) /\ UNCHANGED <<available, staked>>
      <3>1. Moves(t, IdleCall) /\ AtRest(IdleCall) /\ AtRest(call[t])
        BY <1>7, <2>2, <1>a, ReturnMoves DEF LockTokens, At, IdleCall, Call
      <3>2. QED
        BY <1>7, <2>2, <1>b, <3>1 DEF LockTokens, pool
    <2>3. QED
      BY <1>7, <2>1, <2>2 DEF LockTokens
  <1>8. ASSUME SettleStake(t) PROVE Balanced' /\ Backing'
    <2>1. /\ Moves(t, IdleCall) /\ IdleCall \in Call /\ call[t].pc = "settleStake"
          /\ UNCHANGED token
          /\ position'[h].amount = position[h].amount + a
          /\ \A k \in Holders \ {h} : position'[k] = position[k]
      <3> DEFINE p == position[h]
                 e == IF p.amount > 0 THEN Earned(p, acc) ELSE 0
                 n == Wrap(p.amount + a)
                 d == n * acc
                 q == Wrap(p.pending + e)
      <3>1. /\ Moves(t, IdleCall) /\ call[t].pc = "settleStake"
            /\ UNCHANGED token
            /\ position'[h] = [amount |-> n, debt |-> d, pending |-> q]
            /\ \A k \in Holders \ {h} : position'[k] = position[k]
        BY <1>8, <1>a, GrowEffect
      <3> HIDE DEF n, d, q
      <3>2. position'[h].amount = n
        BY <3>1
      <3>3. n = p.amount + a
        <4>1. Locked(call[t]) = a
          BY <3>1 DEF Locked
        <4>2. p.amount + a \in Nat /\ p.amount + a < Word64
          BY <1>a, <1>c, <1>d, <1>e, <4>1
        <4>3. QED
          BY <4>2, WrapType DEF n
      <3>4. QED
        BY <3>1, <3>2, <3>3 DEF IdleCall, Call
    <2>2. Credit(IdleCall) = 0 /\ Credit(call[t]) = 0 /\ Locked(IdleCall) = 0 /\ Locked(call[t]) = a
      BY <2>1 DEF Credit, Locked, IdleCall
    <2>3. TokensBalance(t, IdleCall)
      BY <2>1, <2>2 DEF TokensBalance, token
    <2>4. StakesBalance(t, IdleCall)
      <3>1. \A x, y \in Nat : x + y + a = x + (y + a) + 0
        BY <1>a
      <3>2. staked[h] \in Nat /\ position[h].amount \in Nat
        BY <1>a, <1>c
      <3>3. QED
        BY <2>1, <2>2, <3>1, <3>2 DEF StakesBalance, token
    <2>5. QED
      BY <1>a, <2>1, <2>3, <2>4, TokensStep, BackingStep DEF token
  <1>9. ASSUME NEW from, NEW to, ReadAcc(t, from, to), to \in {"settleUnstake", "settleClaim"},
               from \in {"readAcc", "readAccClaim"}
        PROVE  Balanced' /\ Backing'
    <2> DEFINE r == [pc |-> to, amount |-> a, seen |-> acc]
    <2>1. AtRest(r) /\ AtRest(call[t])
      BY <1>9, <1>a DEF ReadAcc, At, Call
    <2>2. Moves(t, r)
      BY <1>9, <1>a, SeeMoves DEF ReadAcc, Pcs
    <2>3. QED
      BY <1>9, <1>b, <2>1, <2>2 DEF ReadAcc, token, pool
  <1>10. ASSUME SettleUnstake(t) PROVE Balanced' /\ Backing'
    <2> DEFINE r == [pc |-> "unlock", amount |-> a, seen |-> call[t].seen]
    <2>1. /\ call[t].pc = "settleUnstake" /\ UNCHANGED token
          /\ \/ Moves(t, IdleCall) /\ UNCHANGED position
             \/ /\ Moves(t, r) /\ a <= position[h].amount
                /\ position'[h].amount = position[h].amount - a
                /\ \A k \in Holders \ {h} : position'[k] = position[k]
      <3> DEFINE p == position[h]
                 n == p.amount - a
                 d == n * call[t].seen
                 q == Wrap(p.pending + Earned(p, call[t].seen))
      <3>1. /\ call[t].pc = "settleUnstake" /\ UNCHANGED token
            /\ \/ Moves(t, IdleCall) /\ UNCHANGED position
               \/ /\ Moves(t, r) /\ a <= position[h].amount
                  /\ position'[h] = [amount |-> n, debt |-> d, pending |-> q]
                  /\ \A k \in Holders \ {h} : position'[k] = position[k]
        BY <1>10, <1>a, CutEffect
      <3> HIDE DEF r, d, q, n
      <3>2. position'[h] = [amount |-> n, debt |-> d, pending |-> q] => position'[h].amount = n
        OBVIOUS
      <3>3. QED
        BY <3>1, <3>2 DEF n
    <2>2. CASE Moves(t, IdleCall) /\ UNCHANGED position
      <3>1. AtRest(IdleCall) /\ AtRest(call[t])
        BY <2>1, <1>a DEF IdleCall, Call
      <3>2. QED
        BY <2>1, <2>2, <3>1, <1>b DEF token
    <2>3. CASE /\ Moves(t, r) /\ a <= position[h].amount
               /\ position'[h].amount = position[h].amount - a
               /\ \A k \in Holders \ {h} : position'[k] = position[k]
      <3>1. Credit(r) = 0 /\ Credit(call[t]) = 0 /\ Locked(r) = a /\ Locked(call[t]) = 0
            /\ r \in Call
        BY <1>a, <2>1 DEF Credit, Locked, Call
      <3> HIDE DEF r
      <3>2. TokensBalance(t, r)
        BY <2>1, <3>1 DEF TokensBalance, token
      <3>3. StakesBalance(t, r)
        <4>1. \A x, y \in Nat : x + y + 0 = x + (y - a) + a
          BY <1>a
        <4>2. staked[h] \in Nat /\ position[h].amount \in Nat
          BY <1>a, <1>c
        <4>3. QED
          BY <2>1, <2>3, <3>1, <4>1, <4>2 DEF StakesBalance, token
      <3>4. QED
        BY <1>a, <2>1, <2>3, <3>1, <3>2, <3>3, TokensStep, BackingStep DEF token
    <2>4. QED
      BY <2>1, <2>2, <2>3
  <1>11. ASSUME UnlockTokens(t) PROVE Balanced' /\ Backing'
    <2>1. Moves(t, IdleCall) /\ IdleCall \in Call /\ call[t].pc = "unlock"
      BY <1>11, <1>a, ReturnMoves DEF UnlockTokens, At, IdleCall, Call
    <2>2. Credit(IdleCall) = 0 /\ Credit(call[t]) = 0 /\ Locked(IdleCall) = 0 /\ Locked(call[t]) = a
      BY <2>1 DEF Credit, Locked, IdleCall
    <2>3. staked[h] >= a
      BY <1>a, <2>1, UnlockCovered
    <2>4. /\ UNCHANGED <<supply, position>>
          /\ available'[h] = available[h] + a /\ staked'[h] = staked[h] - a
          /\ \A k \in Holders \ {h} : available'[k] = available[k] /\ staked'[k] = staked[k]
      <3>1. ~(staked[h] < a)
        BY <1>a, <2>3
      <3>2. available[h] + a \in Nat /\ available[h] + a < Word64
        BY <1>a, <1>d, <1>e, <2>2, <2>3
      <3>3. Wrap(available[h] + a) = available[h] + a
        BY <3>2, WrapType
      <3>4. /\ UNCHANGED <<supply, position>>
            /\ available'[h] = Wrap(available[h] + a) /\ staked'[h] = staked[h] - a
            /\ \A k \in Holders \ {h} : available'[k] = available[k] /\ staked'[k] = staked[k]
        BY <1>11, <1>a, <3>1 DEF UnlockTokens, pool
      <3>5. QED
        BY <3>3, <3>4
    <2>5. SumFunction(available') = SumFunction(available) + a
          /\ SumFunction(staked') = SumFunction(staked) - a
          /\ SumFunction(available) \in Nat /\ SumFunction(staked) \in Nat
      <3> DEFINE x == SumFunction(available)
                 y == SumFunction(available')
                 l0 == available[h]
                 l1 == available'[h]
                 u == SumFunction(staked)
                 v == SumFunction(staked')
                 m0 == staked[h]
                 m1 == staked'[h]
      <3>1. x \in Nat /\ y \in Nat /\ y = x + l1 - l0 /\ l0 \in Nat /\ l1 \in Nat /\ l1 = l0 + a
        BY <1>a, <2>4, HolderSum
      <3>2. u \in Nat /\ v \in Nat /\ v = u + m1 - m0 /\ m0 \in Nat /\ m1 \in Nat /\ m1 = m0 - a
        BY <1>a, <2>4, HolderSum
      <3> HIDE DEF x, y, l0, l1, u, v, m0, m1
      <3>3. y = x + a /\ v = u - a
        BY <1>a, <3>1, <3>2
      <3>4. QED
        BY <3>1, <3>2, <3>3 DEF x, y, u, v
    <2>6. TokensBalance(t, IdleCall)
      <3>1. \A x, y \in Nat : supply + x + y + 0 = supply + (x + a) + (y - a) + 0
        BY <1>a
      <3>2. QED
        BY <2>2, <2>4, <2>5, <3>1 DEF TokensBalance
    <2>7. StakesBalance(t, IdleCall)
      <3>1. \A x, y \in Nat : (x - a) + y + a = x + y + 0
        BY <1>a
      <3>2. staked[h] \in Nat /\ position[h].amount \in Nat
        BY <1>a, <1>c
      <3>3. QED
        BY <2>2, <2>4, <3>1, <3>2 DEF StakesBalance
    <2>8. QED
      BY <1>a, <2>1, <2>4, <2>6, <2>7, TokensStep, BackingStep
  <1>12. ASSUME Claim(t) PROVE Balanced' /\ Backing'
    <2> DEFINE r == [pc |-> "readAccClaim", amount |-> 0, seen |-> 0]
    <2>1. AtRest(r)
      BY DEF Call
    <2>2. Moves(t, r) /\ AtRest(call[t])
      BY <1>12, <1>a, BeginMoves DEF Claim, Pcs
    <2>3. QED
      BY <1>12, <1>b, <2>1, <2>2 DEF Claim, token, pool
  <1>14. ASSUME SettleClaim(t) PROVE Balanced' /\ Backing'
    <2>1. Moves(t, IdleCall) /\ AtRest(IdleCall) /\ AtRest(call[t]) /\ UNCHANGED token
      BY <1>14, <1>a, ClaimEffect DEF IdleCall, Call
    <2>2. \A k \in Holders : position'[k].amount = position[k].amount
      <3> DEFINE n == position[h].amount
                 d == n * call[t].seen
      <3>1. \/ UNCHANGED position
            \/ /\ position'[h] = [amount |-> n, debt |-> d, pending |-> 0]
               /\ \A k \in Holders \ {h} : position'[k] = position[k]
        BY <1>14, <1>a, ClaimEffect
      <3> HIDE DEF n, d
      <3>2. position'[h] = [amount |-> n, debt |-> d, pending |-> 0] => position'[h].amount = n
        OBVIOUS
      <3>3. QED
        BY <3>1, <3>2 DEF n
    <2>3. QED
      BY <1>b, <2>1, <2>2 DEF token
  <1>15. ASSUME Distribute(t) PROVE Balanced' /\ Backing'
    <2> DEFINE r == [pc |-> "readTotal", amount |-> pendingFees, seen |-> 0]
    <2>1. AtRest(r)
      BY <1>a DEF Call
    <2>2. Moves(t, r) /\ AtRest(call[t])
      BY <1>15, <1>a, BeginMoves DEF Distribute, Pcs
    <2>3. QED
      BY <1>15, <1>b, <2>1, <2>2 DEF Distribute, token, pool
  <1>16. ASSUME ReadTotalStaked(t) PROVE Balanced' /\ Backing'
    <2> DEFINE to == IF TotalStaked = 0 THEN "countFees" ELSE "addReward"
               r == [pc |-> to, amount |-> a, seen |-> TotalStaked]
    <2>1. TotalStaked \in Nat /\ to \in Pcs
      BY <1>a, TotalStakedNat DEF Pcs
    <2>2. Moves(t, r)
      BY <1>16, <1>a, <2>1, SeeMoves DEF ReadTotalStaked
    <2>3. AtRest(r) /\ AtRest(call[t])
      BY <1>16, <1>a, <2>1 DEF ReadTotalStaked, At, Call
    <2> HIDE DEF r
    <2>4. QED
      BY <1>16, <1>b, <2>2, <2>3 DEF ReadTotalStaked, token, pool
  <1>17. ASSUME AddReward(t) PROVE Balanced' /\ Backing'
    <2> DEFINE r == [pc |-> "countFees", amount |-> a, seen |-> call[t].seen]
    <2>1. AtRest(r) /\ AtRest(call[t])
      BY <1>17, <1>a DEF AddReward, At, Call
    <2>2. Moves(t, r)
      BY <1>17, <1>a, GotoMoves DEF AddReward, Pcs
    <2>3. QED
      BY <1>17, <1>b, <2>1, <2>2 DEF AddReward, token
  <1>18. ASSUME CountFees(t) PROVE Balanced' /\ Backing'
    <2>1. Moves(t, IdleCall) /\ AtRest(IdleCall) /\ AtRest(call[t])
      BY <1>18, <1>a, ReturnMoves DEF CountFees, At, IdleCall, Call
    <2>2. QED
      BY <1>18, <1>b, <2>1 DEF CountFees, token, pool
  <1>19. QED
    BY <1>1, <1>2, <1>3, <1>4, <1>5, <1>6, <1>7, <1>8, <1>9, <1>10, <1>11, <1>12,
       <1>14, <1>15, <1>16, <1>17, <1>18 DEF Step

LEMMA NextLInv == LInv /\ [Next]_vars => LInv'
  <1> SUFFICES ASSUME LInv, [Next]_vars PROVE LInv'
    OBVIOUS
  <1>1. ASSUME NEW t \in Tasks, Step(t) PROVE LInv'
    <2>1. TInv /\ TypeOK /\ TInv'
      BY <1>1, StepTInv DEF LInv, TInv
    <2>2. ASSUME Exact' PROVE Accounts'
      <3>1. Exact /\ Accounts
        BY <1>1, <2>1, <2>2, MintedStep DEF LInv
      <3>2. supply' = minted'
        BY <1>1, <2>1, <2>2, <3>1, CountedStep DEF Accounts
      <3>3. Balanced' /\ Backing'
        BY <1>1, <2>1, <2>2, <3>1, StepLInv
      <3>4. QED
        BY <3>2, <3>3 DEF Accounts
    <2>3. QED
      BY <2>1, <2>2 DEF LInv
  <1>2. CASE UNCHANGED vars
    <2>1. TInv'
      BY <1>2, StutterTInv DEF LInv
    <2>2. Exact' => Exact
      BY <1>2 DEF Exact, vars, token
    <2>3. Accounts => Accounts'
      BY <1>2 DEF Accounts, Balanced, Backing, vars, token, pool
    <2>4. QED
      BY <2>1, <2>2, <2>3 DEF LInv
  <1>3. QED
    BY <1>1, <1>2 DEF Next

\* Tokens are neither made nor lost: what mint() has put into the supply is, at
\* every moment, what the holders have free, what they have staked and what a
\* mint in progress has yet to credit, for any number of holders, also when
\* several tasks act for one of them, as long as what was minted fits a u64: then
\* no other sum of tokens wraps either.
THEOREM TokensAreConserved == Spec => []TokensConserved
  <1>1. LInv => TokensConserved
    BY TokensConservedAlt DEF LInv, Accounts
  <1>2. QED
    BY InitLInv, NextLInv, <1>1, PTL DEF Spec

LEMMA LInvBacked == LInv => StakeBacked /\ UnlockNeverRefused
  <1> SUFFICES ASSUME LInv, Exact PROVE StakeBacked /\ UnlockNeverRefused
    BY DEF StakeBacked, UnlockNeverRefused
  <1>1. TypeOK /\ Backing /\ call \in [Tasks -> Call]
    BY DEF LInv, TInv, TypeOK, Accounts
  <1>2. UnlockNeverRefused
    BY <1>1, UnlockCovered DEF UnlockNeverRefused, At
  <1>3. ASSUME Quiet, NEW h \in Holders PROVE staked[h] = position[h].amount
    <2>1. \A u \in Tasks : Locked(call[u]) = 0
      BY <1>3 DEF Quiet, At, Locked
    <2>2. /\ Unlocking(call, h) \in [Tasks -> Int]
          /\ \A u \in Tasks : Unlocking(call, h)[u] = 0
      BY <2>1 DEF Unlocking
    <2>3. SumFunction(Unlocking(call, h)) = 0
      BY <2>2, TasksAssumption, SumZero
    <2>4. position[h].amount \in Nat /\ staked[h] = position[h].amount + 0
      BY <1>1, <2>3, PositionNat DEF Backing, TypeOK
    <2>5. QED
      BY <2>4
  <1>4. QED
    BY <1>2, <1>3 DEF StakeBacked

\* The two accounts of a holder's stake, the token's and the pool's, agree
\* whenever no request is in progress, as long as what was minted fits a u64.
THEOREM StakeIsBacked == Spec => []StakeBacked
  BY InitLInv, NextLInv, LInvBacked, PTL DEF Spec

\* unstake() cuts the position first and cannot restore it: the token never
\* refuses to unlock what was cut, whatever the other tasks of the holder do, as
\* long as what was minted fits a u64.
THEOREM UnlockIsNeverRefused == Spec => []UnlockNeverRefused
  BY InitLInv, NextLInv, LInvBacked, PTL DEF Spec

-----------------------------------------------------------------------------
(* Arithmetic of the rewards: products, and division that rounds down.     *)

\* A position of `a` tokens with debt d earned e up to s; l tokens of it are
\* left (or added, if nothing was rewarded since s): c is the accumulator now.
LEMMA CutValue ==
    ASSUME NEW a \in Nat, NEW l \in Nat, NEW s \in Nat, NEW c \in Nat, s <= c,
           l <= a \/ s = c, NEW d \in Nat, d <= a * s, NEW e \in Nat, e <= a * s - d
    PROVE  e + (l * c - l * s) <= a * c - d
  <1> DEFINE sa == a * s
             ac == a * c
             ls == l * s
             lc == l * c
             k == c - s
             m == l * k
             n == a * k
  <1>1. k \in Nat /\ k * l \in Nat /\ k * a \in Nat /\ k * l <= k * a
    <2>1. k \in Nat /\ k * l \in Nat /\ k * a \in Nat
      BY ProductNat
    <2>2. l <= a => k * l <= k * a
      BY <2>1, ProductMonotone
    <2>3. s = c => k = 0 /\ k * l = 0 /\ k * a = 0
      OBVIOUS
    <2>4. QED
      BY <2>1, <2>2, <2>3
  <1>2. m = k * l /\ n = k * a
    OBVIOUS
  <1>3. lc = ls + m /\ ac = sa + n
    OBVIOUS
  <1>4. sa \in Nat /\ ac \in Nat /\ ls \in Nat /\ lc \in Nat
    BY ProductNat
  <1>5. e <= sa - d /\ d <= sa /\ m <= n /\ m \in Nat /\ n \in Nat
    BY <1>1, <1>2
  <1> HIDE DEF sa, ac, ls, lc, m, n, k
  <1>6. e + (lc - ls) <= ac - d
    BY <1>3, <1>4, <1>5
  <1>7. QED
    BY <1>6 DEF sa, ac, ls, lc

\* A position is credited at most what it earned, whatever the rounding.
LEMMA EarnedBound ==
    ASSUME NEW p \in Position, NEW seen \in Nat, p.debt <= p.amount * seen
    PROVE  /\ Earned(p, seen) \in Nat /\ Precision * Earned(p, seen) \in Nat
           /\ Precision * Earned(p, seen) <= p.amount * seen - p.debt
  <1> DEFINE y == p.amount * seen
             x == y - p.debt
             m == (x + Word) % Word
  <1>1. y \in Nat /\ p.debt \in Nat
    BY PositionNat, ProductNat
  <1>2. x \in Nat
    BY <1>1
  <1>3. Word \in Nat /\ Word > 0 /\ Precision \in Nat /\ Precision > 0
    BY ParametersAssumption
  <1>4. y + Word - p.debt = x + Word
    BY <1>1, <1>3
  <1>5. Earned(p, seen) = m \div Precision
    BY <1>4 DEF Earned
  <1> HIDE DEF x
  <1>6. m \in Nat /\ m <= x
    BY <1>2, <1>3, ModBelow
  <1> HIDE DEF m
  <1>7. m \div Precision \in Nat /\ Precision * (m \div Precision) \in Nat
        /\ Precision * (m \div Precision) <= m
    BY <1>3, <1>6, DivBelow
  <1> DEFINE e == Precision * (m \div Precision)
  <1>8. e <= x
    <2> HIDE DEF e
    <2>1. e \in Nat /\ e <= m
      BY <1>7 DEF e
    <2>2. QED
      BY <2>1, <1>2, <1>6
  <1>9. QED
    BY <1>5, <1>7, <1>8 DEF x

-----------------------------------------------------------------------------
(* Rewards.  What a holder was paid, was credited and has earned, scaled   *)
(* by Precision and before rounding, is its Value.  A distribution raises  *)
(* the values by no more than what it distributes, as long as the stake it *)
(* read is no smaller than the one it finds; nothing else raises one.      *)

\* Each holder has one client, which sends one request at a time.
OneClientEach == \A t, u \in Tasks : HolderOf[t] = HolderOf[u] => t = u

Value(p, got, a) == Precision * (got + p.pending) + (p.amount * a - p.debt)
Values(pos, got, a) == [h \in Holders |-> Value(pos[h], got[h], a)]
Stakes(pos) == [h \in Holders |-> pos[h].amount]

DebtsBelow == \A h \in Holders : position[h].debt <= position[h].amount * acc

SeenBelow ==
    \A t \in Tasks : call[t].pc \in {"settleUnstake", "settleClaim"} =>
        /\ call[t].seen <= acc
        /\ position[HolderOf[t]].debt <= position[HolderOf[t]].amount * call[t].seen

StakeSeen ==
    \A t \in Tasks : call[t].pc = "addReward" => SumFunction(Stakes(position)) <= call[t].seen

Covered == SumFunction(Values(position, paid, acc)) <= Precision * rewarded

Unraced == ~stakeRaced /\ Exact

DInv == LInv /\ DebtsBelow /\ SeenBelow /\ (Unraced => StakeSeen /\ Covered)

LEMMA ValueNat ==
    ASSUME NEW p \in Position, NEW got \in Nat, NEW a \in Nat, p.debt <= p.amount * a
    PROVE  Value(p, got, a) \in Nat
  <1>1. p.amount \in Nat /\ p.debt \in Nat /\ p.pending \in Nat /\ Precision \in Nat
    BY ParametersAssumption, PositionNat
  <1>2. p.amount * a \in Nat /\ Precision * (got + p.pending) \in Nat
    BY <1>1, ProductNat
  <1>3. p.amount * a - p.debt \in Nat
    BY <1>1, <1>2
  <1>4. QED
    BY <1>2, <1>3 DEF Value

LEMMA ValuesNat ==
    ASSUME TypeOK, DebtsBelow
    PROVE  /\ Values(position, paid, acc) \in [Holders -> Nat]
           /\ SumFunction(Values(position, paid, acc)) \in Nat
  <1>1. \A h \in Holders : Value(position[h], paid[h], acc) \in Nat
    BY ValueNat DEF TypeOK, DebtsBelow
  <1>2. Values(position, paid, acc) \in [Holders -> Nat]
    BY <1>1 DEF Values
  <1>3. QED
    BY <1>2, HoldersFinite, SumNat

\* A settlement, of a position that changes hands with the pool or the holder,
\* does not raise the holder's value.
LEMMA ValueSettled ==
    ASSUME NEW p \in Position, NEW q \in Position, NEW got \in Nat, NEW gotThen \in Nat,
           NEW s \in Nat, NEW a \in Nat, s <= a, p.debt <= p.amount * s,
           q.amount <= p.amount \/ s = a, q.debt = q.amount * s,
           NEW e \in Nat, Precision * e <= p.amount * s - p.debt,
           gotThen + q.pending <= got + p.pending + e
    PROVE  Value(q, gotThen, a) <= Value(p, got, a)
  <1> DEFINE x == Precision * (got + p.pending)
             y == Precision * e
             z == Precision * (gotThen + q.pending)
             u == q.amount * a - q.amount * s
             v == p.amount * a - p.debt
  <1>1. /\ p.amount \in Nat /\ p.debt \in Nat /\ p.pending \in Nat /\ q.amount \in Nat
        /\ q.pending \in Nat /\ Precision \in Nat
    BY ParametersAssumption, PositionNat
  <1>2. y \in Nat
    BY <1>1, ProductNat
  <1>3. y + u <= v
    BY <1>1, <1>2, CutValue
  <1>4. z <= x + y /\ z \in Nat
    <2>1. Precision * ((got + p.pending) + e) = x + y
      BY <1>1
    <2>2. gotThen + q.pending \in Nat /\ (got + p.pending) + e \in Nat
          /\ gotThen + q.pending <= (got + p.pending) + e
      BY <1>1
    <2>3. QED
      BY <1>1, <2>1, <2>2, ProductMonotone
  <1>5. x \in Nat /\ u \in Int /\ v \in Int
    BY <1>1, ProductNat
  <1>6. Value(q, gotThen, a) = z + u
    BY DEF Value
  <1>7. Value(p, got, a) = x + v
    BY DEF Value
  <1> HIDE DEF x, y, z, u, v
  <1>8. z + u <= x + v
    BY <1>2, <1>3, <1>4, <1>5
  <1>9. QED
    BY <1>6, <1>7, <1>8

\* A step that touches neither positions nor rewards.
LEMMA Untouched ==
    ASSUME DInv, NEW t \in Tasks, NEW r \in Call, Moves(t, r),
           r.pc \notin {"settleUnstake", "settleClaim", "addReward"},
           UNCHANGED <<position, acc, rewarded, paid, stakeRaced>>, Exact' => Exact
    PROVE  DebtsBelow' /\ SeenBelow' /\ (Unraced' => StakeSeen' /\ Covered')
  <1>1. DebtsBelow'
    BY DEF DInv, DebtsBelow
  <1>2. SeenBelow'
    BY DEF DInv, SeenBelow, Moves
  <1>3. StakeSeen => StakeSeen'
    BY DEF StakeSeen, Stakes, Moves
  <1>4. Covered => Covered'
    BY DEF Covered
  <1>5. QED
    BY <1>1, <1>2, <1>3, <1>4 DEF DInv, Unraced

\* A step that settles the position of its task's holder.
LEMMA Settling ==
    ASSUME OneClientEach, DInv, TypeOK', NEW t \in Tasks, NEW r \in Call, Moves(t, r),
           r.pc \notin {"settleUnstake", "settleClaim", "addReward"},
           UNCHANGED <<acc, rewarded>>, Exact' => Exact,
           NEW h \in Holders, h = HolderOf[t],
           \A k \in Holders \ {h} : position'[k] = position[k] /\ paid'[k] = paid[k],
           NEW p, p = position[h], NEW q, q = position'[h],
           NEW s \in Nat, s <= acc, p.debt <= p.amount * s, q.debt = q.amount * s,
           NEW e \in Nat, Precision * e <= p.amount * s - p.debt,
           paid'[h] + q.pending <= paid[h] + p.pending + e,
           \/ q.amount <= p.amount /\ stakeRaced' = stakeRaced
           \/ s = acc /\ stakeRaced' = (stakeRaced \/ \E u \in Tasks : At(u, "addReward"))
    PROVE  DebtsBelow' /\ SeenBelow' /\ (Unraced' => StakeSeen' /\ Covered')
  <1>1. /\ p \in Position /\ q \in Position /\ acc \in Nat /\ p.amount \in Nat /\ q.amount \in Nat
        /\ paid \in [Holders -> Nat] /\ paid' \in [Holders -> Nat]
        /\ paid[h] \in Nat /\ paid'[h] \in Nat
        /\ position \in [Holders -> Position] /\ position' \in [Holders -> Position]
        /\ TypeOK /\ TypeOK' /\ DebtsBelow /\ SeenBelow
    <2>1. TypeOK /\ DebtsBelow /\ SeenBelow
      BY DEF DInv, LInv, TInv
    <2>2. /\ paid \in [Holders -> Nat] /\ paid' \in [Holders -> Nat] /\ acc \in Nat
          /\ position \in [Holders -> Position] /\ position' \in [Holders -> Position]
      BY <2>1 DEF TypeOK
    <2>3. p \in Position /\ q \in Position
      BY <2>2
    <2>4. QED
      BY <2>1, <2>2, <2>3, PositionNat
  <1>2. DebtsBelow'
    <2>1. q.amount * s <= q.amount * acc
      BY <1>1, ProductMonotone
    <2>2. q.debt <= q.amount * acc
      BY <2>1
    <2>3. ASSUME NEW k \in Holders PROVE position'[k].debt <= position'[k].amount * acc
      <3>1. CASE k = h
        BY <3>1, <2>2
      <3>2. CASE k # h
        <4>1. position'[k] = position[k]
          BY <3>2
        <4>2. QED
          BY <4>1, <1>1 DEF DebtsBelow
      <3>3. QED
        BY <3>1, <3>2
    <2>4. QED
      BY <2>3 DEF DebtsBelow
  <1>3. SeenBelow'
    <2> SUFFICES ASSUME NEW u \in Tasks, call'[u].pc \in {"settleUnstake", "settleClaim"}
                 PROVE  /\ call'[u].seen <= acc
                        /\ position'[HolderOf[u]].debt
                             <= position'[HolderOf[u]].amount * call'[u].seen
      BY DEF SeenBelow
    <2>1. u # t /\ call'[u] = call[u]
      BY DEF Moves
    <2>2. HolderOf[u] \in Holders \ {h}
      BY <2>1 DEF OneClientEach, Holders
    <2>3. position'[HolderOf[u]] = position[HolderOf[u]]
      BY <2>2
    <2>4. QED
      BY <1>1, <2>1, <2>3 DEF SeenBelow
  <1>4. ASSUME Unraced' PROVE StakeSeen'
    <2>1. CASE s = acc /\ stakeRaced' = (stakeRaced \/ \E u \in Tasks : At(u, "addReward"))
      <3>1. \A u \in Tasks : call'[u].pc # "addReward"
        BY <1>4, <2>1 DEF Unraced, At, Moves
      <3>2. QED
        BY <3>1 DEF StakeSeen
    <2>2. CASE q.amount <= p.amount /\ stakeRaced' = stakeRaced
      <3> DEFINE f == Stakes(position)
                 g == Stakes(position')
      <3>1. f \in [Holders -> Nat] /\ g \in [Holders -> Nat]
        BY <1>1, PositionNat DEF Stakes
      <3>2. \A k \in Holders : g[k] <= f[k]
        <4>1. ASSUME NEW k \in Holders PROVE g[k] <= f[k]
          <5>1. CASE k = h
            BY <5>1, <2>2 DEF Stakes
          <5>2. CASE k # h
            <6>1. position'[k] = position[k] /\ f[k] \in Nat
              BY <5>2, <3>1
            <6>2. g[k] = f[k]
              BY <6>1 DEF Stakes
            <6> HIDE DEF f, g
            <6>3. QED
              BY <6>1, <6>2
          <5>3. QED
            BY <5>1, <5>2
        <4>2. QED
          BY <4>1
      <3>3. /\ StakeSeen' <=> \A u \in Tasks : call'[u].pc = "addReward"
                                                 => SumFunction(g) <= call'[u].seen
            /\ StakeSeen <=> \A u \in Tasks : call[u].pc = "addReward"
                                                => SumFunction(f) <= call[u].seen
        BY DEF StakeSeen
      <3> HIDE DEF f, g
      <3>4. SumFunction(g) <= SumFunction(f) /\ SumFunction(g) \in Nat /\ SumFunction(f) \in Nat
        BY <3>1, <3>2, HoldersFinite, SumMonotone, SumNat
      <3>5. ASSUME NEW u \in Tasks, call'[u].pc = "addReward"
            PROVE  SumFunction(g) <= call'[u].seen
        <4>1. call'[u] = call[u] /\ call[u].pc = "addReward"
          BY <3>5 DEF Moves
        <4>2. StakeSeen
          BY <1>4, <2>2 DEF DInv, Unraced
        <4>3. SumFunction(f) <= call[u].seen /\ call[u].seen \in Nat
          BY <1>1, <3>3, <4>1, <4>2 DEF TypeOK, Call
        <4>4. SumFunction(g) <= call[u].seen
          BY <3>4, <4>3
        <4>5. QED
          BY <4>1, <4>4
      <3>6. QED
        BY <3>3, <3>5
    <2>3. QED
      BY <2>1, <2>2
  <1>5. ASSUME Unraced' PROVE Covered'
    <2> DEFINE f == Values(position, paid, acc)
               g == Values(position', paid', acc)
    <2>1. f \in [Holders -> Nat] /\ SumFunction(f) \in Nat
      BY <1>1, ValuesNat
    <2>2. g \in [Holders -> Nat] /\ SumFunction(g) \in Nat
      <3>1. \A k \in Holders : Value(position'[k], paid'[k], acc) \in Nat
        <4>1. \A k \in Holders : position'[k].debt <= position'[k].amount * acc
          BY <1>2 DEF DebtsBelow
        <4>2. QED
          BY <1>1, <4>1, ValueNat
      <3>2. g \in [Holders -> Nat]
        BY <3>1 DEF Values
      <3>3. QED
        BY <3>2, HoldersFinite, SumNat
    <2>3. \A k \in Holders : g[k] <= f[k]
      <3>1. Value(q, paid'[h], acc) <= Value(p, paid[h], acc)
        BY <1>1, ValueSettled
      <3>2. ASSUME NEW k \in Holders PROVE g[k] <= f[k]
        <4>1. CASE k = h
          BY <3>1, <4>1 DEF Values
        <4>2. CASE k # h
          <5>1. position'[k] = position[k] /\ paid'[k] = paid[k] /\ f[k] \in Nat
            BY <4>2, <2>1
          <5>2. g[k] = f[k]
            BY <5>1 DEF Values
          <5> HIDE DEF f, g
          <5>3. QED
            BY <5>1, <5>2
        <4>3. QED
          BY <4>1, <4>2
      <3>3. QED
        BY <3>2
    <2> DEFINE limit == Precision * rewarded
    <2>4. limit \in Nat /\ SumFunction(f) <= limit
      <3>1. Unraced
        <4>1. ~stakeRaced
          BY <1>5 DEF Unraced
        <4>2. Exact
          BY <1>5 DEF Unraced
        <4>3. QED
          BY <4>1, <4>2 DEF Unraced
      <3>2. limit \in Nat
        BY ParametersAssumption, ProductNat DEF DInv, LInv, TInv, TypeOK
      <3>3. QED
        BY <3>1, <3>2 DEF DInv, Covered
    <2>5. Covered' <=> SumFunction(g) <= limit
      BY DEF Covered
    <2> HIDE DEF f, g, limit
    <2>6. SumFunction(g) <= SumFunction(f)
      BY <2>1, <2>2, <2>3, HoldersFinite, SumMonotone
    <2>7. SumFunction(g) <= limit
      BY <2>1, <2>2, <2>4, <2>6
    <2>8. QED
      BY <2>5, <2>7
  <1>6. QED
    BY <1>2, <1>3, <1>4, <1>5

\* A request reads the accumulator: no debt of its holder is above it.
LEMMA Reading ==
    ASSUME DInv, NEW t \in Tasks, NEW r \in Call, Moves(t, r), r.seen = acc,
           r.pc \in {"settleUnstake", "settleClaim"},
           UNCHANGED <<position, acc, rewarded, paid, stakeRaced>>, Exact' => Exact
    PROVE  DebtsBelow' /\ SeenBelow' /\ (Unraced' => StakeSeen' /\ Covered')
  <1>1. DebtsBelow'
    BY DEF DInv, DebtsBelow
  <1>2. HolderOf[t] \in Holders /\ acc <= acc
    BY DEF Holders, DInv, LInv, TInv, TypeOK
  <1>3. SeenBelow'
    BY <1>2 DEF DInv, SeenBelow, DebtsBelow, Moves
  <1>4. StakeSeen => StakeSeen'
    BY DEF StakeSeen, Stakes, Moves
  <1>5. Covered => Covered'
    BY DEF Covered
  <1>6. QED
    BY <1>1, <1>3, <1>4, <1>5 DEF DInv, Unraced

\* A distribution moves the accumulator: what it adds to the values of all
\* holders together is no more than what it distributes.
LEMMA Rewarding ==
    ASSUME DInv, TypeOK', NEW t \in Tasks, AddReward(t), Exact' => Exact
    PROVE  DebtsBelow' /\ SeenBelow' /\ (Unraced' => StakeSeen' /\ Covered')
  <1> DEFINE a == call[t].amount
             seen == call[t].seen
             d == (a * Precision) \div seen
             r == [pc |-> "countFees", amount |-> a, seen |-> seen]
  <1>1. /\ TypeOK /\ DebtsBelow /\ SeenBelow /\ a \in Nat /\ seen \in Nat /\ seen > 0
        /\ acc \in Nat /\ rewarded \in Nat /\ Precision \in Nat
        /\ call \in [Tasks -> Call] /\ position \in [Holders -> Position]
        /\ paid \in [Holders -> Nat]
    BY ParametersAssumption DEF DInv, LInv, TInv, TypeOK, Call, ReadsStake, AddReward, At
  <1>2. a * Precision \in Nat /\ d \in Nat /\ seen * d \in Nat /\ seen * d <= a * Precision
    BY <1>1, ProductNat, DivBelow
  <1>3. /\ acc' = acc + d /\ rewarded' = rewarded + a
        /\ UNCHANGED <<position, paid, stakeRaced>> /\ call[t].pc = "addReward"
    BY DEF AddReward, history, At
  <1>4. Moves(t, r) /\ r.pc = "countFees"
    BY <1>1, GotoMoves DEF AddReward, Pcs
  <1> HIDE DEF d, r
  <1>5. acc <= acc'
    BY <1>1, <1>2, <1>3
  <1>6. DebtsBelow'
    <2>1. ASSUME NEW h \in Holders PROVE position'[h].debt <= position'[h].amount * acc'
      <3> DEFINE p == position[h]
                 x == p.amount * acc
                 y == p.amount * acc'
      <3>1. p.amount \in Nat /\ p.debt \in Nat /\ acc' \in Nat
        BY <1>1, PositionNat DEF TypeOK
      <3>2. p.debt <= x
        BY <1>1 DEF DebtsBelow
      <3>3. x \in Nat /\ y \in Nat /\ x <= y
        BY <1>1, <1>5, <3>1, ProductMonotone
      <3> HIDE DEF x, y
      <3>4. p.debt <= y
        BY <3>1, <3>2, <3>3
      <3>5. QED
        BY <1>3, <3>4 DEF y
    <2>2. QED
      BY <2>1 DEF DebtsBelow
  <1>7. SeenBelow'
    <2> SUFFICES ASSUME NEW u \in Tasks, call'[u].pc \in {"settleUnstake", "settleClaim"}
                 PROVE  /\ call'[u].seen <= acc'
                        /\ position'[HolderOf[u]].debt
                             <= position'[HolderOf[u]].amount * call'[u].seen
      BY DEF SeenBelow
    <2>1. call'[u] = call[u]
      BY <1>4 DEF Moves
    <2>2. call[u].seen <= acc /\ call[u].seen \in Nat
          /\ position[HolderOf[u]].debt <= position[HolderOf[u]].amount * call[u].seen
      BY <1>1, <2>1 DEF SeenBelow, Call
    <2> DEFINE x == call[u].seen
               acc1 == acc'
    <2>3. x <= acc1
      <3>1. acc <= acc1 /\ x <= acc /\ x \in Nat /\ acc1 \in Nat
        BY <1>5, <2>2 DEF TypeOK
      <3> HIDE DEF x, acc1
      <3>2. QED
        BY <1>1, <3>1
    <2>4. QED
      BY <1>3, <2>1, <2>2, <2>3
  <1>8. ASSUME Unraced' PROVE StakeSeen' /\ Covered'
    <2>1. StakeSeen /\ Covered
      BY <1>3, <1>8 DEF DInv, Unraced
    <2>2. StakeSeen'
      BY <1>3, <1>4, <2>1 DEF StakeSeen, Stakes, Moves
    <2> DEFINE f == Values(position, paid, acc)
               g == Stakes(position)
               k == Values(position, paid, acc + d)
    <2>3. f \in [Holders -> Nat] /\ SumFunction(f) \in Nat
      BY <1>1, ValuesNat
    <2>4. g \in [Holders -> Nat] /\ SumFunction(g) \in Nat
      <3>1. g \in [Holders -> Nat]
        BY <1>1, PositionNat DEF Stakes
      <3>2. QED
        BY <3>1, HoldersFinite, SumNat
    <2>5. \A h \in Holders : k[h] = f[h] + d * g[h]
      <3> SUFFICES ASSUME NEW h \in Holders PROVE k[h] = f[h] + d * g[h]
        OBVIOUS
      <3> DEFINE p == position[h]
                 n == p.amount
                 x == Precision * (paid[h] + p.pending)
      <3>1. n \in Nat /\ p.debt \in Nat /\ p.pending \in Nat /\ paid[h] \in Nat
        BY <1>1, PositionNat
      <3>2. x \in Nat /\ n * acc \in Nat /\ d * n \in Nat
        BY <1>1, <1>2, <3>1, ProductNat
      <3>3. n * (acc + d) = n * acc + d * n
        BY <1>1, <1>2, <3>1
      <3>4. f[h] = x + (n * acc - p.debt) /\ k[h] = x + (n * (acc + d) - p.debt) /\ g[h] = n
        BY DEF Values, Value, Stakes
      <3> DEFINE y == n * acc
                 z == d * n
                 debt == p.debt
      <3>5. k[h] = x + ((y + z) - debt) /\ f[h] = x + (y - debt) /\ d * g[h] = z
        BY <3>3, <3>4
      <3>6. x \in Nat /\ y \in Nat /\ z \in Nat /\ debt \in Nat
        BY <3>1, <3>2
      <3> HIDE DEF x, y, z, debt, f, k, g
      <3>7. x + ((y + z) - debt) = (x + (y - debt)) + z
        BY <3>6
      <3>8. QED
        BY <3>5, <3>7
    <2>6. k \in [Holders -> Int] /\ f \in [Holders -> Int] /\ g \in [Holders -> Int]
      <3>1. f \in [Holders -> Int] /\ g \in [Holders -> Int]
        BY <2>3, <2>4
      <3>2. \A h \in Holders : k[h] \in Int
        <4> HIDE DEF k, f, g
        <4>1. \A h \in Holders : f[h] + d * g[h] \in Int
          BY <1>2, <3>1
        <4>2. QED
          BY <2>5, <4>1
      <3>3. QED
        BY <3>1, <3>2 DEF Values
    <2>8. SumFunction(g) <= seen
      BY <1>3, <2>1 DEF StakeSeen
    <2>9. /\ Covered <=> SumFunction(f) <= Precision * rewarded
          /\ Covered' <=> SumFunction(k) <= Precision * (rewarded + a)
      BY <1>3 DEF Covered
    <2> HIDE DEF f, g, k
    <2>10. SumFunction(k) = SumFunction(f) + d * SumFunction(g)
      BY <1>2, <2>5, <2>6, HoldersFinite, SumLinear
    <2>11. d * SumFunction(g) \in Nat /\ d * SumFunction(g) <= d * seen
      BY <1>1, <1>2, <2>4, <2>8, ProductMonotone
    <2>12. d * seen = seen * d /\ Precision * (rewarded + a) = Precision * rewarded + a * Precision
      BY <1>1, <1>2
    <2>13. Precision * rewarded \in Nat
      BY <1>1, ProductNat
    <2> DEFINE u == SumFunction(k)
               v == SumFunction(f)
               w == d * SumFunction(g)
               x == seen * d
               y == a * Precision
               z == Precision * rewarded
    <2>14. u = v + w /\ v <= z /\ w <= x /\ x <= y
      BY <1>2, <2>1, <2>9, <2>10, <2>11, <2>12
    <2>15. v \in Nat /\ w \in Nat /\ x \in Nat /\ y \in Nat /\ z \in Nat
      BY <1>2, <2>3, <2>11, <2>13
    <2> HIDE DEF u, v, w, x, y, z
    <2>16. u <= z + y
      BY <2>14, <2>15
    <2>17. QED
      BY <2>2, <2>9, <2>12, <2>16 DEF u, y, z
  <1>9. QED
    BY <1>6, <1>7, <1>8

\* The stakes of all holders are within what the token calls staked: while what
\* was minted fits a u64, a distribution reads their sum.
LEMMA WholeStake ==
    ASSUME TypeOK, Exact, Accounts, NEW t \in Tasks
    PROVE  TotalStaked = SumFunction(Stakes(position))
  <1> DEFINE g == Stakes(position)
  <1>1. TotalStaked = Wrap(SumFunction(g))
    BY DEF TotalStaked, Stakes
  <1>2. g \in [Holders -> Nat] /\ staked \in [Holders -> Nat]
    BY PositionNat, Words DEF TypeOK, Stakes
  <1>3. HolderOf[t] \in Holders
    BY DEF Holders
  <1>4. SumFunction(staked) < Word64
    BY <1>3, Room
  <1>5. ASSUME NEW h \in Holders PROVE g[h] <= staked[h]
    <2> DEFINE x == position[h].amount
               y == SumFunction(Unlocking(call, h))
    <2>1. staked[h] = x + y /\ g[h] = x
      BY DEF Accounts, Backing, Stakes
    <2>2. Unlocking(call, h) \in [Tasks -> Nat] /\ y \in Nat
      BY HeldSums DEF TypeOK
    <2>3. x \in Nat
      BY PositionNat DEF TypeOK
    <2> HIDE DEF x, y, g
    <2>4. QED
      BY <2>1, <2>2, <2>3
  <1> HIDE DEF g
  <1>6. \A f \in [Holders -> Nat] : f \in [Holders -> Int] /\ SumFunction(f) \in Nat
    BY HoldersFinite, SumNat
  <1>7. SumFunction(g) <= SumFunction(staked)
    BY <1>2, <1>5, <1>6, HoldersFinite, SumMonotone
  <1>8. SumFunction(g) < Word64 /\ SumFunction(g) \in Nat
    BY <1>2, <1>4, <1>6, <1>7, ParametersAssumption
  <1>9. QED
    BY <1>1, <1>8, WrapType DEF g

LEMMA InitDInv == Init => DInv
  <1> SUFFICES ASSUME Init PROVE DInv
    OBVIOUS
  <1>1. LInv
    BY InitLInv
  <1>2. \A h \in Holders : position[h].debt = 0 /\ position[h].amount = 0
                           /\ position[h].pending = 0 /\ paid[h] = 0
    BY DEF Init, NoPosition
  <1>3. DebtsBelow
    BY <1>2 DEF DebtsBelow, Init
  <1>4. SeenBelow /\ StakeSeen
    BY DEF SeenBelow, StakeSeen, Init, IdleCall
  <1>5. Covered
    <2> DEFINE f == Values(position, paid, acc)
    <2>1. Precision \in Nat /\ Precision * 0 = 0
      BY ParametersAssumption
    <2>2. \A h \in Holders : Value(position[h], paid[h], acc) = 0
      BY <1>2, <2>1 DEF Value, Init
    <2>3. f \in [Holders -> Int] /\ \A h \in Holders : f[h] = 0
      BY <2>2 DEF Values
    <2> HIDE DEF f
    <2>4. SumFunction(f) = 0
      BY <2>3, HoldersFinite, SumZero
    <2>5. QED
      BY <2>1, <2>4 DEF f, Covered, Init
  <1>6. QED
    BY <1>1, <1>3, <1>4, <1>5 DEF DInv

LEMMA StepDInv ==
    ASSUME OneClientEach, DInv, TypeOK', NEW t \in Tasks, Step(t)
    PROVE  DebtsBelow' /\ SeenBelow' /\ (Unraced' => StakeSeen' /\ Covered')
  <1> DEFINE h == HolderOf[t]
             a == call[t].amount
             seen == call[t].seen
             Goal == DebtsBelow' /\ SeenBelow' /\ (Unraced' => StakeSeen' /\ Covered')
             Plain(r) == r \in Call /\ r.pc \notin {"settleUnstake", "settleClaim", "addReward"}
  <1>a. /\ TypeOK /\ TypeOK' /\ DInv /\ call \in [Tasks -> Call] /\ call[t] \in Call /\ h \in Holders
        /\ a \in Nat /\ seen \in Nat /\ acc \in Nat /\ pendingFees \in Nat
        /\ position[h] \in Position /\ position[h].amount \in Nat
        /\ position[h].debt \in Nat /\ position[h].pending \in Nat
        /\ paid \in [Holders -> Nat] /\ paid[h] \in Nat /\ (Exact' => Exact)
    <2>1. TypeOK /\ h \in Holders
      BY DEF DInv, LInv, TInv, Holders
    <2>2. /\ call \in [Tasks -> Call] /\ position \in [Holders -> Position] /\ acc \in Nat
          /\ pendingFees \in Nat /\ paid \in [Holders -> Nat]
      BY <2>1 DEF TypeOK
    <2>3. call[t] \in Call /\ a \in Nat /\ seen \in Nat
      BY <2>2 DEF Call
    <2>4. Exact' => Exact
      BY <2>1, MintedStep
    <2>5. position[h] \in Position /\ paid[h] \in Nat
      BY <2>1, <2>2
    <2> DEFINE p == position[h]
    <2>6. p.amount \in Nat /\ p.debt \in Nat /\ p.pending \in Nat
      BY <2>5, PositionNat
    <2>7. QED
      BY <2>1, <2>2, <2>3, <2>4, <2>5, <2>6
  <1>b. ASSUME NEW r, Plain(r), Moves(t, r),
               UNCHANGED <<position, acc, rewarded, paid, stakeRaced>>
        PROVE  Goal
    BY <1>b, <1>a, Untouched
  <1>c. Plain(IdleCall) /\ \A amount \in Nat :
          \A pc \in {"credit", "lock", "settleStake", "readAcc", "readAccClaim", "readTotal"} :
            Plain([pc |-> pc, amount |-> amount, seen |-> 0])
    BY DEF IdleCall, Call
  <1> HIDE DEF Goal
  <1>1. ASSUME NEW amount \in Amounts \cup Mints, NEW pc \in {"credit", "lock", "readAcc"},
               Begin(t, pc, amount), UNCHANGED <<position, acc, rewarded>>
        PROVE  Goal
    <2> DEFINE r == [pc |-> pc, amount |-> amount, seen |-> 0]
    <2>1. amount \in Nat /\ Plain(r)
      <3>1. amount \in Nat
        BY ParametersAssumption
      <3>2. QED
        BY <1>c, <3>1
    <2>2. Moves(t, r) /\ UNCHANGED <<paid, stakeRaced>>
      BY <1>1, <1>a, <2>1, BeginMoves DEF Pcs
    <2> HIDE DEF r
    <2>3. QED
      BY <1>1, <1>b, <2>1, <2>2
  <1>2. ASSUME UNCHANGED <<call, position, acc, rewarded, paid, stakeRaced>>, call[t].pc = "idle"
        PROVE  Goal
    <2>1. Moves(t, call[t]) /\ Plain(call[t])
      BY <1>2, <1>a DEF Moves
    <2>2. QED
      BY <1>2, <1>b, <2>1
  <1>3. ASSUME Return(t), UNCHANGED <<position, acc, rewarded, paid, stakeRaced>> PROVE Goal
    <2>1. Moves(t, IdleCall)
      BY <1>3, <1>a, ReturnMoves
    <2>2. QED
      BY <1>3, <1>b, <1>c, <2>1
  <1>4. ASSUME LockTokens(t) PROVE Goal
    <2>1. UNCHANGED <<position, acc, rewarded, paid, stakeRaced>>
      BY <1>4 DEF LockTokens, pool, history
    <2>2. CASE Goto(t, "settleStake")
      <3> DEFINE r == [pc |-> "settleStake", amount |-> a, seen |-> seen]
      <3>1. Moves(t, r) /\ Plain(r)
        BY <2>2, <1>a, GotoMoves DEF Pcs, Call
      <3>2. QED
        BY <2>1, <3>1, <1>b
    <2>3. QED
      BY <1>4, <1>3, <2>1, <2>2 DEF LockTokens
  <1>5. ASSUME SettleStake(t) PROVE Goal
    <2> DEFINE p == position[h]
               n == Wrap(p.amount + a)
               e == IF p.amount > 0 THEN Earned(p, acc) ELSE 0
               d == n * acc
               m == Wrap(p.pending + e)
               q == position'[h]
    <2>1. /\ Moves(t, IdleCall) /\ q = [amount |-> n, debt |-> d, pending |-> m]
          /\ \A k \in Holders \ {h} : position'[k] = position[k]
          /\ stakeRaced' = (stakeRaced \/ \E u \in Tasks : At(u, "addReward"))
          /\ UNCHANGED <<acc, rewarded, paid>>
      BY <1>5, <1>a, GrowEffect
    <2>2. p.debt <= p.amount * acc
      BY <1>a DEF DInv, DebtsBelow
    <2>3. e \in Nat /\ Precision * e <= p.amount * acc - p.debt
      <3>1. CASE p.amount > 0
        BY <3>1, <1>a, <2>2, EarnedBound
      <3>2. CASE ~(p.amount > 0)
        <4>1. e = 0 /\ Precision * e = 0
          BY <3>2, ParametersAssumption
        <4>2. p.amount * acc \in Nat /\ p.amount * acc - p.debt \in Nat
          BY <1>a, <2>2, ProductNat
        <4>3. QED
          BY <4>1, <4>2
      <3>3. QED
        BY <3>1, <3>2
    <2> HIDE DEF n, d, m, e
    <2>4. q.amount = n /\ q.debt = d /\ q.pending = m
      BY <2>1
    <2>5. q.debt = q.amount * acc
      BY <2>4 DEF d
    <2>6. paid'[h] + q.pending <= paid[h] + p.pending + e
      <3>1. m <= p.pending + e /\ m \in Nat
        BY <1>a, <2>3, WrapType DEF m
      <3>2. QED
        BY <1>a, <2>1, <2>3, <2>4, <3>1
    <2>7. \A k \in Holders \ {h} : position'[k] = position[k] /\ paid'[k] = paid[k]
      BY <2>1
    <2>8. Moves(t, IdleCall) /\ IdleCall \in Call /\ acc <= acc /\ UNCHANGED <<acc, rewarded>>
          /\ IdleCall.pc \notin {"settleUnstake", "settleClaim", "addReward"}
      BY <1>a, <1>c, <2>1
    <2> HIDE DEF q
    <2>9. QED
      BY <1>a, <2>1, <2>2, <2>3, <2>5, <2>6, <2>7, <2>8, Settling DEF q, Goal
  <1>6. ASSUME NEW from, NEW to \in {"settleUnstake", "settleClaim"}, ReadAcc(t, from, to)
        PROVE  Goal
    <2> DEFINE r == [pc |-> to, amount |-> a, seen |-> acc]
    <2>1. Moves(t, r) /\ r \in Call /\ r.seen = acc /\ r.pc \in {"settleUnstake", "settleClaim"}
      BY <1>6, <1>a, SeeMoves DEF ReadAcc, Pcs, Call
    <2>2. UNCHANGED <<position, acc, rewarded, paid, stakeRaced>>
      BY <1>6 DEF ReadAcc, pool, history
    <2> HIDE DEF r
    <2>3. QED
      BY <1>a, <2>1, <2>2, Reading DEF Goal
  <1>7. ASSUME SettleUnstake(t) PROVE Goal
    <2> DEFINE r == [pc |-> "unlock", amount |-> a, seen |-> seen]
               p == position[h]
               n == p.amount - a
               e == Earned(p, seen)
               d == n * seen
               m == Wrap(p.pending + e)
               q == position'[h]
    <2>1. /\ call[t].pc = "settleUnstake" /\ UNCHANGED <<acc, rewarded, history>>
          /\ \/ Moves(t, IdleCall) /\ UNCHANGED position
             \/ /\ Moves(t, r) /\ a <= p.amount
                /\ q = [amount |-> n, debt |-> d, pending |-> m]
                /\ \A k \in Holders \ {h} : position'[k] = position[k]
      BY <1>7, <1>a, CutEffect
    <2>2. UNCHANGED <<acc, rewarded, paid, stakeRaced>>
      BY <2>1 DEF history
    <2>3. CASE Moves(t, IdleCall) /\ UNCHANGED position
      BY <2>2, <2>3, <1>b, <1>c
    <2>4. CASE /\ Moves(t, r) /\ a <= p.amount
               /\ q = [amount |-> n, debt |-> d, pending |-> m]
               /\ \A k \in Holders \ {h} : position'[k] = position[k]
      <3>1. seen <= acc /\ p.debt <= p.amount * seen
        BY <1>a, <2>1 DEF DInv, SeenBelow
      <3>2. e \in Nat /\ Precision * e <= p.amount * seen - p.debt
        BY <1>a, <3>1, EarnedBound
      <3>3. r \in Call /\ r.pc \notin {"settleUnstake", "settleClaim", "addReward"}
        BY <1>a DEF Call
      <3>4. n <= p.amount
        BY <1>a
      <3> HIDE DEF n, d, m, e, r
      <3>5. q.amount = n /\ q.debt = d /\ q.pending = m
        BY <2>4
      <3>6. q.debt = q.amount * seen /\ q.amount <= p.amount
        BY <3>4, <3>5 DEF d
      <3>7. paid'[h] + q.pending <= paid[h] + p.pending + e
        <4>1. m <= p.pending + e /\ m \in Nat
          BY <1>a, <3>2, WrapType DEF m
        <4>2. QED
          BY <1>a, <2>2, <3>2, <3>5, <4>1
      <3>8. \A k \in Holders \ {h} : position'[k] = position[k] /\ paid'[k] = paid[k]
        BY <2>2, <2>4
      <3> HIDE DEF q
      <3>9. QED
        BY <1>a, <2>2, <2>4, <3>1, <3>2, <3>3, <3>6, <3>7, <3>8, Settling DEF q, Goal
    <2>5. QED
      BY <2>1, <2>3, <2>4
  <1>8. ASSUME SettleClaim(t) PROVE Goal
    <2> DEFINE p == position[h]
               n == p.amount
               e == Earned(p, seen)
               d == n * seen
               m == Wrap(p.pending + e)
               q == position'[h]
    <2>1. /\ call[t].pc = "settleClaim" /\ Moves(t, IdleCall)
          /\ UNCHANGED <<acc, rewarded, stakeRaced>>
          /\ \/ UNCHANGED <<position, paid>>
             \/ /\ q = [amount |-> n, debt |-> d, pending |-> 0]
                /\ paid'[h] = paid[h] + m
                /\ \A k \in Holders \ {h} : position'[k] = position[k]
                /\ \A k \in Holders \ {h} : paid'[k] = paid[k]
      BY <1>8, <1>a, ClaimEffect
    <2>2. CASE UNCHANGED <<position, paid>>
      BY <2>1, <2>2, <1>b, <1>c
    <2>3. CASE /\ q = [amount |-> n, debt |-> d, pending |-> 0]
               /\ paid'[h] = paid[h] + m
               /\ \A k \in Holders \ {h} : position'[k] = position[k]
               /\ \A k \in Holders \ {h} : paid'[k] = paid[k]
      <3>1. seen <= acc /\ p.debt <= p.amount * seen
        BY <1>a, <2>1 DEF DInv, SeenBelow
      <3>2. e \in Nat /\ Precision * e <= p.amount * seen - p.debt
        BY <1>a, <3>1, EarnedBound
      <3> HIDE DEF d, e, m
      <3>3. q.amount = p.amount /\ q.debt = q.amount * seen /\ q.pending = 0
        BY <2>3 DEF d
      <3>4. paid'[h] + q.pending <= paid[h] + p.pending + e
        <4>1. m <= p.pending + e /\ m \in Nat
          BY <1>a, <3>2, WrapType DEF m
        <4>2. QED
          BY <1>a, <2>3, <3>2, <3>3, <4>1
      <3>5. q.amount <= p.amount /\ IdleCall \in Call
            /\ IdleCall.pc \notin {"settleUnstake", "settleClaim", "addReward"}
        BY <1>a, <1>c, <3>3
      <3>6. \A k \in Holders \ {h} : position'[k] = position[k] /\ paid'[k] = paid[k]
        BY <2>3
      <3> HIDE DEF q
      <3>7. QED
        BY <1>a, <2>1, <3>1, <3>2, <3>3, <3>4, <3>5, <3>6, Settling DEF q, Goal
    <2>4. QED
      BY <2>1, <2>2, <2>3
  <1>9. ASSUME ReadTotalStaked(t) PROVE Goal
    <2> DEFINE to == IF TotalStaked = 0 THEN "countFees" ELSE "addReward"
               r == [pc |-> to, amount |-> a, seen |-> TotalStaked]
    <2>1. TotalStaked \in Nat /\ to \in Pcs
      BY <1>a, TotalStakedNat DEF Pcs
    <2>2. Moves(t, r) /\ r.seen = TotalStaked /\ r.pc \notin {"settleUnstake", "settleClaim"}
      BY <1>9, <1>a, <2>1, SeeMoves DEF ReadTotalStaked
    <2>3. UNCHANGED <<position, acc, rewarded, paid, stakeRaced>>
      BY <1>9 DEF ReadTotalStaked, pool, history
    <2> HIDE DEF r
    <2>4. DebtsBelow' /\ SeenBelow' /\ (Covered => Covered')
      BY <1>a, <2>2, <2>3 DEF DInv, DebtsBelow, SeenBelow, Covered, Moves
    <2>5. Stakes(position)' = Stakes(position)
      BY <2>3 DEF Stakes
    <2>6. ASSUME Exact PROVE TotalStaked = SumFunction(Stakes(position))
      BY <1>a, <2>6, WholeStake DEF DInv, LInv
    <2>7. ASSUME Exact, StakeSeen PROVE StakeSeen'
      <3> DEFINE total == SumFunction(Stakes(position))
      <3>1. SumFunction(Stakes(position)') = total /\ total \in Nat /\ r.seen = total
        BY <2>1, <2>2, <2>5, <2>6, <2>7
      <3>2. \A u \in Tasks : call[u].pc = "addReward" => total <= call[u].seen
        BY <2>7 DEF StakeSeen
      <3>3. ASSUME NEW u \in Tasks, call'[u].pc = "addReward" PROVE total <= call'[u].seen
        <4> HIDE DEF total
        <4>1. QED
          BY <2>2, <3>1, <3>2, <3>3 DEF Moves
      <3>4. QED
        BY <3>1, <3>3 DEF StakeSeen
    <2>8. QED
      BY <1>a, <2>3, <2>4, <2>7 DEF DInv, Unraced, Goal
  <1>10. ASSUME CountFees(t) PROVE Goal
    BY <1>10, <1>3 DEF CountFees, pool, history
  <1>11. ASSUME Distribute(t) PROVE Goal
    <2> DEFINE r == [pc |-> "readTotal", amount |-> pendingFees, seen |-> 0]
    <2>1. Moves(t, r) /\ UNCHANGED <<paid, stakeRaced>>
      BY <1>11, <1>a, BeginMoves DEF Distribute, Pcs
    <2>2. Plain(r)
      BY <1>a, <1>c
    <2> HIDE DEF r
    <2>3. QED
      BY <1>11, <1>b, <2>1, <2>2 DEF Distribute, pool
  <1>12. ASSUME Claim(t) PROVE Goal
    <2> DEFINE r == [pc |-> "readAccClaim", amount |-> 0, seen |-> 0]
    <2>1. Moves(t, r) /\ UNCHANGED <<paid, stakeRaced>>
      BY <1>12, <1>a, BeginMoves DEF Claim, Pcs
    <2>2. Plain(r)
      BY <1>c
    <2> HIDE DEF r
    <2>3. QED
      BY <1>12, <1>b, <2>1, <2>2 DEF Claim, pool
  <1>13. ASSUME MintCredit(t) \/ UnlockTokens(t) PROVE Goal
    BY <1>13, <1>3 DEF MintCredit, UnlockTokens, pool, history
  <1>14. ASSUME AddReward(t) PROVE Goal
    BY <1>14, <1>a, Rewarding DEF Goal
  <1>15. ASSUME NEW amount \in Amounts \cup Mints,
                MintSupply(t, amount) \/ Stake(t, amount) \/ Unstake(t, amount)
         PROVE  Goal
    BY <1>1, <1>15 DEF MintSupply, Stake, Unstake, pool
  <1>16. ASSUME NEW amount \in Amounts,
                CollectFee(t, amount) \/ \E to \in Holders : Transfer(t, to, amount)
         PROVE  Goal
    BY <1>2, <1>16 DEF CollectFee, Transfer, pool, history, At
  <1>17. Goal
    BY <1>4, <1>5, <1>6, <1>7, <1>8, <1>9, <1>10, <1>11, <1>12, <1>13, <1>14, <1>15, <1>16
       DEF Step
  <1>18. QED
    BY <1>17 DEF Goal

LEMMA NextDInv == OneClientEach /\ DInv /\ [Next]_vars => DInv'
  <1> SUFFICES ASSUME OneClientEach, DInv, [Next]_vars PROVE DInv'
    OBVIOUS
  <1>1. ASSUME NEW t \in Tasks, Step(t) PROVE DInv'
    <2>1. LInv' /\ TypeOK'
      BY <1>1, NextLInv DEF DInv, LInv, TInv, Next
    <2>2. QED
      BY <1>1, <2>1, StepDInv DEF DInv
  <1>2. CASE UNCHANGED vars
    <2>1. LInv'
      BY <1>2, NextLInv DEF DInv
    <2>2. QED
      BY <1>2, <2>1 DEF DInv, Unraced, Exact, DebtsBelow, SeenBelow, StakeSeen, Covered,
                        vars, token, pool, history
  <1>3. QED
    BY <1>1, <1>2 DEF Next

\* The subtraction amount * acc - reward_debt in unstake() and claim() does not go
\* below zero although the accumulator was read before the positions were locked,
\* for any number of holders, as long as no holder has two requests in progress.
THEOREM DebtIsCovered == OneClientEach => (Spec => []DebtCovered)
  <1> SUFFICES ASSUME OneClientEach PROVE Spec => []DebtCovered
    OBVIOUS
  <1>1. DInv /\ [Next]_vars => DInv'
    BY NextDInv
  <1>2. DInv => DebtCovered
    BY DEF DInv, SeenBelow, DebtCovered, At
  <1>3. QED
    BY InitDInv, <1>1, <1>2, PTL DEF Spec

\* What rounding credits to the holders stays below their values.
LEMMA OwedBelowValues ==
    ASSUME TypeOK, DebtsBelow
    PROVE  Owed \in Nat /\ Precision * Owed <= SumFunction(Values(position, paid, acc))
  <1> DEFINE due == [h \in Holders |-> position[h].pending + Earned(position[h], acc)]
             all == [h \in Holders |-> paid[h] + due[h]]
             scaled == [h \in Holders |-> Precision * all[h]]
             zero == [h \in Holders |-> 0]
             f == Values(position, paid, acc)
  <1>1. ASSUME NEW h \in Holders
        PROVE  /\ due[h] \in Nat /\ all[h] \in Nat /\ scaled[h] \in Nat
               /\ scaled[h] <= f[h]
    <2> DEFINE p == position[h]
               e == Earned(p, acc)
               x == Precision * (paid[h] + p.pending)
               y == Precision * e
               z == p.amount * acc - p.debt
    <2>1. p \in Position /\ p.pending \in Nat /\ p.amount \in Nat /\ p.debt \in Nat
          /\ paid[h] \in Nat /\ acc \in Nat /\ Precision \in Nat /\ p.debt <= p.amount * acc
      BY ParametersAssumption, PositionNat DEF TypeOK, DebtsBelow
    <2>2. e \in Nat /\ y \in Nat /\ y <= z
      BY <2>1, EarnedBound
    <2>3. due[h] \in Nat /\ all[h] \in Nat /\ all[h] = (paid[h] + p.pending) + e
      BY <2>1, <2>2
    <2>4. scaled[h] = x + y /\ x \in Nat
      <3>1. Precision * ((paid[h] + p.pending) + e) = x + y
        BY <2>1, <2>2
      <3>2. QED
        BY <2>1, <2>3, <3>1, ProductNat
    <2>5. f[h] = x + z /\ z \in Int
      BY <2>1, ProductNat DEF Values, Value
    <2> HIDE DEF x, y, z, due, all, scaled, f
    <2>6. x + y <= x + z /\ x + y \in Nat
      BY <2>2, <2>4, <2>5
    <2>7. QED
      BY <2>3, <2>4, <2>5, <2>6
  <1>2. /\ paid \in [Holders -> Nat] /\ due \in [Holders -> Nat] /\ all \in [Holders -> Nat]
        /\ scaled \in [Holders -> Nat] /\ zero \in [Holders -> Nat]
    BY <1>1 DEF TypeOK
  <1>3. f \in [Holders -> Nat]
    BY ValuesNat
  <1>4. /\ \A h \in Holders : all[h] = paid[h] + 1 * due[h]
        /\ \A h \in Holders : scaled[h] = zero[h] + Precision * all[h]
        /\ \A h \in Holders : zero[h] = 0
    <2>1. \A h \in Holders : due[h] \in Nat /\ all[h] = paid[h] + due[h] /\ zero[h] = 0
                             /\ scaled[h] = Precision * all[h] /\ scaled[h] \in Nat
      BY <1>1
    <2> HIDE DEF due, all, scaled, zero
    <2>2. QED
      BY <2>1
  <1>5. \A h \in Holders : scaled[h] <= f[h]
    BY <1>1
  <1>6. Owed = SumFunction(paid) + SumFunction(due)
    BY DEF Owed
  <1> HIDE DEF due, all, scaled, zero, f
  <1>7. \A g \in [Holders -> Nat] : g \in [Holders -> Int]
    OBVIOUS
  <1>8. SumFunction(paid) \in Nat /\ SumFunction(due) \in Nat /\ SumFunction(all) \in Nat
    BY <1>2, HoldersFinite, SumNat
  <1>9. SumFunction(all) = SumFunction(paid) + 1 * SumFunction(due)
    BY SMTT(20), <1>2, <1>4, <1>7, HoldersFinite, SumLinear
  <1>10. SumFunction(zero) = 0
    BY <1>2, <1>4, <1>7, HoldersFinite, SumZero
  <1>11. Precision \in Int
    BY ParametersAssumption
  <1>12. SumFunction(scaled) = SumFunction(zero) + Precision * SumFunction(all)
    <2>1. zero \in [Holders -> Int] /\ all \in [Holders -> Int] /\ scaled \in [Holders -> Int]
      BY <1>2, <1>7
    <2>2. \A h \in Holders : scaled[h] = zero[h] + Precision * all[h]
      BY <1>4
    <2>3. QED
      BY <1>11, <2>1, <2>2, HoldersFinite, SumLinear
  <1>13. SumFunction(scaled) <= SumFunction(f)
    BY <1>2, <1>3, <1>5, <1>7, HoldersFinite, SumMonotone
  <1>14. Owed = SumFunction(all) /\ Owed \in Nat
    BY <1>6, <1>8, <1>9
  <1>15. Precision * SumFunction(all) \in Nat
    BY <1>8, ParametersAssumption, ProductNat
  <1>16. SumFunction(scaled) = Precision * Owed
    BY <1>10, <1>12, <1>14, <1>15
  <1>17. QED
    BY <1>13, <1>14, <1>16 DEF f

LEMMA DInvCovered == DInv => CoveredUnlessRaced
  <1> SUFFICES ASSUME DInv, Unraced PROVE Owed <= rewarded
    BY DEF CoveredUnlessRaced, RewardsCovered, Unraced
  <1> DEFINE x == SumFunction(Values(position, paid, acc))
  <1>1. Owed \in Nat /\ Precision * Owed <= x /\ x \in Nat
    BY OwedBelowValues, ValuesNat DEF DInv, LInv, TInv
  <1>2. x <= Precision * rewarded /\ rewarded \in Nat
    BY DEF DInv, Covered, LInv, TInv, TypeOK
  <1>3. Precision \in Nat /\ Precision > 0
    BY ParametersAssumption
  <1> HIDE DEF x
  <1>4. ASSUME rewarded < Owed PROVE FALSE
    <2>1. rewarded + 1 \in Nat /\ rewarded + 1 <= Owed
      BY <1>1, <1>2, <1>4
    <2>2. Precision * (rewarded + 1) <= Precision * Owed /\ Precision * Owed \in Nat
      BY <1>1, <1>3, <2>1, ProductMonotone
    <2>3. Precision * (rewarded + 1) = Precision * rewarded + Precision
          /\ Precision * rewarded \in Nat
      BY <1>2, <1>3, ProductNat
    <2> DEFINE u == Precision * rewarded
               v == Precision * Owed
    <2>4. u + Precision <= v /\ v <= x /\ x <= u /\ u \in Nat /\ v \in Nat
      BY <1>1, <1>2, <2>2, <2>3
    <2> HIDE DEF u, v
    <2>5. QED
      BY <1>1, <1>3, <2>4
  <1>5. QED
    BY <1>1, <1>2, <1>4

\* Stakers are never owed more satoshis than were distributed to them, for any
\* number of holders, any amounts and any precision of the accumulator, as long as
\* what was minted fits a u64 and no stake enters the pool between the two halves
\* of a distribution (and no holder has two requests in progress).
THEOREM RewardsAreCovered == OneClientEach => (Spec => []CoveredUnlessRaced)
  <1> SUFFICES ASSUME OneClientEach PROVE Spec => []CoveredUnlessRaced
    OBVIOUS
  <1>1. DInv /\ [Next]_vars => DInv'
    BY NextDInv
  <1>2. QED
    BY InitDInv, <1>1, DInvCovered, PTL DEF Spec

=============================================================================
