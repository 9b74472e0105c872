------------------------ MODULE LiquidityPool_proofs -------------------------
(***************************************************************************)
(* Proofs about module LiquidityPool, for any number of tasks and owners,  *)
(* any amounts, any initial price and any width of a word.                 *)
(*                                                                         *)
(* Shares (CInv), with one client per owner, however requests interleave.  *)
(* A request between total_shares and its owner's entry has shares in      *)
(* flight; with those counted, the total and the sum of the entries agree  *)
(* up to a multiple of Word (Ledger).  Nobody else takes an owner's shares *)
(* once its withdrawal has looked at them (OwnEnough).                     *)
(*                                                                         *)
(* Value (SInv), as long as no requests have overlapped.  Nothing wraps    *)
(* then, and what the request in progress has checked and computed is      *)
(* still true (GoodFor): each step keeps T >= price * S, for the initial   *)
(* price and for the price it has quoted.                                  *)
(***************************************************************************)
EXTENDS LiquidityPool, Arithmetic

LEMMA OwnersFinite == IsFiniteSet(Owners)
  <1> DEFINE serves == [t \in Tasks |-> OwnerOf[t]]
  <1>1. serves \in Surjection(Tasks, Owners)
    BY DEF Surjection, Owners
  <1>2. QED
    BY <1>1, TasksAssumption, FS_Surjection

LEMMA Parameters ==
    /\ Word \in Nat /\ Word > 0
    /\ InitialPrice \in Nat /\ InitialPrice > 0 /\ InitialPrice < Word
  BY AmountsAssumption

\* A u64 is a natural below Word, and what is reduced modulo Word is one.
LEMMA U64Nat == \A x : x \in U64 <=> x \in Nat /\ x < Word
  BY Parameters DEF U64

LEMMA WrapU64 ==
    ASSUME NEW x \in Int
    PROVE  Wrap(x) \in U64 /\ \E k \in Int : Wrap(x) = x + k * Word
  BY Parameters, ModCongruent, U64Nat DEF Wrap

LEMMA WrapExact ==
    ASSUME NEW x \in U64
    PROVE  Wrap(x) = x
  <1>1. x = x + 0 * Word /\ x \in Nat /\ x < Word /\ x \in Int
    BY Parameters, U64Nat
  <1>2. QED
    BY <1>1, Parameters, ModUnique DEF Wrap

LEMMA WrapSubU64 ==
    ASSUME NEW x \in U64, NEW y \in U64
    PROVE  /\ WrapSub(x, y) \in U64
           /\ \E k \in Int : WrapSub(x, y) = x - y + k * Word
           /\ y <= x => WrapSub(x, y) = x - y
  <1>1. x \in Nat /\ y \in Nat /\ x < Word /\ y < Word /\ Word \in Nat /\ Word > 0
    BY Parameters, U64Nat
  <1>2. x + Word - y \in Int /\ WrapSub(x, y) = (x + Word - y) % Word
    BY <1>1 DEF WrapSub
  <1>3. WrapSub(x, y) \in Nat /\ WrapSub(x, y) < Word
    BY <1>1, <1>2, ModCongruent
  <1>4. PICK j \in Int : WrapSub(x, y) = (x + Word - y) + j * Word
    BY <1>1, <1>2, ModCongruent
  <1>5. (x + Word - y) + j * Word = x - y + (j + 1) * Word /\ j + 1 \in Int
    BY <1>1
  <1>6. ASSUME y <= x PROVE WrapSub(x, y) = x - y
    <2>1. x - y \in Nat /\ x - y < Word
      BY <1>1, <1>6
    <2>2. WrapSub(x, y) = (x - y) + (j + 1) * Word
      BY <1>4, <1>5
    <2>3. QED
      BY <1>1, <1>3, <1>5, <2>1, <2>2, SameRest
  <1>7. QED
    BY <1>3, <1>4, <1>5, <1>6, U64Nat

-----------------------------------------------------------------------------
(* What a step does to the requests: it moves one, and leaves the others.  *)

Moves(t, r) ==
    /\ r \in Call
    /\ call' \in [Tasks -> Call]
    /\ call'[t] = r
    /\ \A u \in Tasks \ {t} : call'[u] = call[u]

Solo(t) == \A u \in Tasks \ {t} : call[u].pc = "idle"

Pcs == {"idle", "quoteIn", "addLiquidity", "addShares", "credit",
        "quoteOut", "readTotalOut", "checkOut", "subLiquidity",
        "subShares", "debit", "readTotalLock", "checkLock", "addUtilized"}

LEMMA IdleRequest ==
    /\ IdleCall \in Call /\ IdleCall.pc = "idle"
    /\ IdleCall.amount = 0 /\ IdleCall.n = 0 /\ IdleCall.price = 0 /\ IdleCall.seen = 0
  BY Parameters DEF IdleCall, Call, U64

LEMMA BeginMoves ==
    ASSUME TypeOK, NEW t \in Tasks, NEW r \in Call, Begin(t, r)
    PROVE  /\ Moves(t, r) /\ call[t].pc = "idle" /\ overlaps' \in Nat
           /\ overlaps' = 0 => overlaps = 0 /\ Solo(t)
  BY DEF Begin, Alone, Solo, Moves, TypeOK

LEMMA GotoMoves ==
    ASSUME TypeOK, NEW t \in Tasks, NEW pc \in Pcs, Goto(t, pc)
    PROVE  \E r \in Call :
             /\ Moves(t, r) /\ r.pc = pc
             /\ r.amount = call[t].amount /\ r.n = call[t].n
             /\ r.price = call[t].price /\ r.seen = call[t].seen
  <1>1. call' \in [Tasks -> Call] /\ call'[t].pc = pc
        /\ call'[t].amount = call[t].amount /\ call'[t].n = call[t].n
        /\ call'[t].price = call[t].price /\ call'[t].seen = call[t].seen
        /\ \A u \in Tasks \ {t} : call'[u] = call[u]
    BY DEF Goto, TypeOK, Call, Pcs
  <1>2. call'[t] \in Call
    BY <1>1
  <1>3. QED
    BY <1>1, <1>2 DEF Moves

LEMMA NoteMoves ==
    ASSUME TypeOK, NEW t \in Tasks, NEW r \in Call, Note(t, r)
    PROVE  Moves(t, r)
  BY DEF Note, Moves, TypeOK

LEMMA ReturnMoves ==
    ASSUME TypeOK, NEW t \in Tasks, Return(t)
    PROVE  Moves(t, IdleCall)
  BY IdleRequest DEF Return, Moves, TypeOK

-----------------------------------------------------------------------------
(* What each operation does, in terms of the fields of the request.        *)

Held == <<totalLiquidity, totalShares, utilized, holders, shares>>

\* The price: the initial one, or a quotient.
LEMMA PriceU64 ==
    ASSUME TypeOK
    PROVE  /\ SharePrice \in U64
           /\ totalShares # 0 => SharePrice = totalLiquidity \div totalShares
           /\ totalShares = 0 => SharePrice = InitialPrice
  <1>1. CASE totalShares = 0
    BY <1>1, Parameters, U64Nat DEF SharePrice
  <1>2. CASE totalShares # 0
    <2>1. /\ totalLiquidity \in Nat /\ totalLiquidity < Word
          /\ totalShares \in Nat /\ totalShares > 0
      BY <1>2, U64Nat DEF TypeOK
    <2> DEFINE q == totalLiquidity \div totalShares
    <2>2. q \in Nat /\ totalShares * q \in Nat /\ totalShares * q <= totalLiquidity
      BY <2>1, DivBelow
    <2>3. 1 * q <= totalShares * q
      BY <2>1, <2>2
    <2>4. q \in Nat /\ q < Word
      BY <2>1, <2>2, <2>3, Parameters
    <2>5. SharePrice = q
      BY <1>2 DEF SharePrice
    <2>6. q \in U64
      BY <2>4, U64Nat
    <2>7. QED
      BY <1>2, <2>5, <2>6
  <1>3. QED
    BY <1>1, <1>2

\* A request arrives, when it overlaps no other or is counted.
Arrives(t, r) ==
    /\ Moves(t, r) /\ call[t].pc = "idle"
    /\ overlaps' = 0 => overlaps = 0 /\ Solo(t)
    /\ UNCHANGED Held

LEMMA DepositEffect ==
    ASSUME TypeOK, NEW t \in Tasks, NEW amount \in Deposits, Deposit(t, amount)
    PROVE  TypeOK' /\ \E r \in Call : Arrives(t, r) /\ r.pc = "quoteIn"
  <1> DEFINE r == [IdleCall EXCEPT !.pc = "quoteIn", !.amount = amount]
  <1>1. amount \in U64 /\ r.pc = "quoteIn"
    BY AmountsAssumption DEF IdleCall, U64
  <1>2. r \in Call
    BY <1>1, IdleRequest DEF Call
  <1>3. Begin(t, r) /\ UNCHANGED <<Held, circuitBreaker>>
    BY DEF Deposit, Held
  <1> HIDE DEF r
  <1>4. Moves(t, r) /\ call[t].pc = "idle" /\ overlaps' \in Nat
        /\ (overlaps' = 0 => overlaps = 0 /\ Solo(t))
    BY <1>2, <1>3, BeginMoves
  <1>5. Arrives(t, r)
    BY <1>3, <1>4 DEF Arrives
  <1>6. TypeOK'
    BY <1>3, <1>4 DEF TypeOK, Held, Moves, U64
  <1>7. QED
    BY <1>1, <1>2, <1>5, <1>6

LEMMA WithdrawEffect ==
    ASSUME TypeOK, NEW t \in Tasks, NEW n \in Burns, Withdraw(t, n)
    PROVE  TypeOK' /\ \E r \in Call :
             Arrives(t, r) /\ r.pc = "quoteOut" /\ r.n <= shares[OwnerOf[t]]
  <1> DEFINE r == [IdleCall EXCEPT !.pc = "quoteOut", !.n = n]
  <1>1. n \in U64 /\ r.pc = "quoteOut" /\ r.n = n
    BY AmountsAssumption DEF IdleCall, U64
  <1>2. r \in Call
    BY <1>1, IdleRequest DEF Call
  <1>3. Begin(t, r) /\ UNCHANGED <<Held, circuitBreaker>> /\ n <= shares[OwnerOf[t]]
    BY DEF Withdraw, Held
  <1> HIDE DEF r
  <1>4. Moves(t, r) /\ call[t].pc = "idle" /\ overlaps' \in Nat
        /\ (overlaps' = 0 => overlaps = 0 /\ Solo(t))
    BY <1>2, <1>3, BeginMoves
  <1>5. Arrives(t, r)
    BY <1>3, <1>4 DEF Arrives
  <1>6. TypeOK'
    BY <1>3, <1>4 DEF TypeOK, Held, Moves, U64
  <1>7. QED
    BY <1>1, <1>2, <1>3, <1>5, <1>6

LEMMA LockEffect ==
    ASSUME TypeOK, NEW t \in Tasks, NEW amount \in Locks, LockLiquidity(t, amount)
    PROVE  TypeOK' /\ \E r \in Call : Arrives(t, r) /\ r.pc = "readTotalLock"
  <1> DEFINE r == [IdleCall EXCEPT !.pc = "readTotalLock", !.amount = amount]
  <1>1. amount \in U64 /\ r.pc = "readTotalLock"
    BY AmountsAssumption DEF IdleCall, U64
  <1>2. r \in Call
    BY <1>1, IdleRequest DEF Call
  <1>3. Begin(t, r) /\ UNCHANGED <<Held, circuitBreaker>>
    BY DEF LockLiquidity, Held
  <1> HIDE DEF r
  <1>4. Moves(t, r) /\ call[t].pc = "idle" /\ overlaps' \in Nat
        /\ (overlaps' = 0 => overlaps = 0 /\ Solo(t))
    BY <1>2, <1>3, BeginMoves
  <1>5. Arrives(t, r)
    BY <1>3, <1>4 DEF Arrives
  <1>6. TypeOK'
    BY <1>3, <1>4 DEF TypeOK, Held, Moves, U64
  <1>7. QED
    BY <1>1, <1>2, <1>5, <1>6

\* A request that was in progress goes on, or ends.
Continues(t, pc, r) ==
    /\ Moves(t, r) /\ call[t].pc = pc
    /\ UNCHANGED overlaps

\* The data a request keeps when it only moves on.
Keeps(r, q) == r.amount = q.amount /\ r.n = q.n /\ r.price = q.price /\ r.seen = q.seen

LEMMA QuoteDepositEffect ==
    ASSUME TypeOK, NEW t \in Tasks, QuoteDeposit(t)
    PROVE  /\ TypeOK' /\ UNCHANGED Held
           /\ \E r \in Call :
                /\ Continues(t, "quoteIn", r)
                /\ \/ r.pc = "idle"
                   \/ /\ r.pc = "addLiquidity"
                      /\ SharePrice > 0 /\ r.price = SharePrice
                      /\ r.amount = call[t].amount
                      /\ r.n = call[t].amount \div SharePrice
  <1> DEFINE p == SharePrice
             q == call[t]
             r == [q EXCEPT !.pc = "addLiquidity", !.price = p, !.n = q.amount \div p]
  <1>1. /\ q \in Call /\ q.pc = "quoteIn" /\ UNCHANGED <<Held, circuitBreaker, overlaps>>
        /\ (p > 0 /\ Note(t, r)) \/ Return(t)
    BY DEF QuoteDeposit, At, TypeOK, Held
  <1>2. p \in U64
    BY PriceU64
  <1>3. CASE p > 0 /\ Note(t, r)
    <2> HIDE DEF p
    <2>1. q.amount \in Nat /\ q.amount < Word /\ p \in Nat /\ p > 0
      BY <1>1, <1>2, <1>3, U64Nat DEF Call
    <2> DEFINE n == q.amount \div p
    <2>2. n \in Nat /\ p * n \in Nat /\ p * n <= q.amount
      BY <2>1, DivBelow
    <2>3. 1 * n <= p * n
      BY <2>1, <2>2
    <2>4. n \in Nat /\ n < Word
      BY <2>1, <2>2, <2>3, Parameters
    <2>5. n \in U64
      BY <2>4, U64Nat
    <2>6. r \in Call /\ r.pc = "addLiquidity" /\ r.price = p /\ r.amount = q.amount
          /\ r.n = n
      <3> HIDE DEF n, q
      <3>1. [q EXCEPT !.pc = "addLiquidity", !.price = p, !.n = n] \in Call
        BY <1>1, <1>2, <2>5 DEF Call
      <3>2. QED
        BY <1>1, <3>1 DEF Call, n, q
    <2> HIDE DEF r, n
    <2>7. Moves(t, r)
      BY <1>3, <2>6, NoteMoves
    <2>8. Continues(t, "quoteIn", r)
      BY <1>1, <2>7 DEF Continues
    <2>9. TypeOK'
      BY <1>1, <2>7 DEF TypeOK, Held, Moves, U64
    <2>10. QED
      BY <1>1, <1>3, <2>6, <2>8, <2>9 DEF p, n
  <1>4. CASE Return(t)
    <2>1. Moves(t, IdleCall) /\ IdleCall \in Call /\ IdleCall.pc = "idle"
      BY <1>4, ReturnMoves, IdleRequest
    <2>2. Continues(t, "quoteIn", IdleCall)
      BY <1>1, <2>1 DEF Continues
    <2>3. TypeOK'
      BY <1>1, <2>1 DEF TypeOK, Held, Moves, U64
    <2>4. QED
      BY <1>1, <2>1, <2>2, <2>3
  <1>5. QED
    BY <1>1, <1>3, <1>4

LEMMA AddLiquidityEffect ==
    ASSUME TypeOK, NEW t \in Tasks, AddLiquidity(t)
    PROVE  /\ TypeOK' /\ UNCHANGED <<totalShares, utilized, holders, shares>>
           /\ \E r \in Call :
                /\ Continues(t, "addLiquidity", r)
                /\ \/ r.pc = "idle" /\ UNCHANGED totalLiquidity
                   \/ /\ r.pc = "addShares" /\ Keeps(r, call[t])
                      /\ totalLiquidity' = totalLiquidity + call[t].amount
  <1>1. /\ call[t] \in Call /\ call[t].pc = "addLiquidity"
        /\ UNCHANGED <<totalShares, utilized, circuitBreaker, holders, shares, overlaps>>
        /\ \/ /\ totalLiquidity + call[t].amount < Word
              /\ totalLiquidity' = totalLiquidity + call[t].amount
              /\ Goto(t, "addShares")
           \/ Return(t) /\ UNCHANGED totalLiquidity
    BY DEF AddLiquidity, At, TypeOK
  <1>2. CASE /\ totalLiquidity + call[t].amount < Word
             /\ totalLiquidity' = totalLiquidity + call[t].amount
             /\ Goto(t, "addShares")
    <2>1. PICK r \in Call :
             /\ Moves(t, r) /\ r.pc = "addShares"
             /\ r.amount = call[t].amount /\ r.n = call[t].n
             /\ r.price = call[t].price /\ r.seen = call[t].seen
      BY <1>2, GotoMoves DEF Pcs
    <2>2. totalLiquidity' \in U64
      BY <1>1, <1>2, U64Nat DEF TypeOK, Call
    <2>3. TypeOK'
      BY <1>1, <2>1, <2>2 DEF TypeOK, Moves, U64
    <2>4. QED
      BY <1>1, <1>2, <2>1, <2>3 DEF Continues, Keeps
  <1>3. CASE Return(t) /\ UNCHANGED totalLiquidity
    <2>1. Moves(t, IdleCall) /\ IdleCall \in Call /\ IdleCall.pc = "idle"
      BY <1>3, ReturnMoves, IdleRequest
    <2>2. TypeOK'
      BY <1>1, <1>3, <2>1 DEF TypeOK, Moves, U64
    <2>3. QED
      BY <1>1, <1>3, <2>1, <2>2 DEF Continues
  <1>4. QED
    BY <1>1, <1>2, <1>3

LEMMA AddSharesEffect ==
    ASSUME TypeOK, NEW t \in Tasks, AddShares(t)
    PROVE  /\ TypeOK' /\ UNCHANGED <<totalLiquidity, utilized, holders, shares>>
           /\ totalShares' = Wrap(totalShares + call[t].n)
           /\ \E r \in Call : /\ Continues(t, "addShares", r)
                              /\ r.pc = "credit" /\ Keeps(r, call[t])
  <1>1. /\ call[t] \in Call /\ call[t].pc = "addShares"
        /\ UNCHANGED <<totalLiquidity, utilized, circuitBreaker, holders, shares, overlaps>>
        /\ totalShares' = Wrap(totalShares + call[t].n)
        /\ Goto(t, "credit")
    BY DEF AddShares, At, TypeOK
  <1>2. PICK r \in Call :
           /\ Moves(t, r) /\ r.pc = "credit"
           /\ r.amount = call[t].amount /\ r.n = call[t].n
           /\ r.price = call[t].price /\ r.seen = call[t].seen
    BY <1>1, GotoMoves DEF Pcs
  <1>3. totalShares + call[t].n \in Int
    BY <1>1, U64Nat DEF TypeOK, Call
  <1>4. totalShares' \in U64
    BY <1>1, <1>3, WrapU64
  <1>5. TypeOK'
    BY <1>1, <1>2, <1>4 DEF TypeOK, Moves, U64
  <1>6. QED
    BY <1>1, <1>2, <1>5 DEF Continues, Keeps

LEMMA CreditOwnerEffect ==
    ASSUME TypeOK, NEW t \in Tasks, CreditOwner(t)
    PROVE  /\ TypeOK' /\ UNCHANGED <<totalLiquidity, totalShares, utilized>>
           /\ OwnerOf[t] \in Owners
           /\ shares' = [shares EXCEPT ![OwnerOf[t]] = Wrap(shares[OwnerOf[t]] + call[t].n)]
           /\ holders' = holders \cup {OwnerOf[t]}
           /\ \E r \in Call : Continues(t, "credit", r) /\ r.pc = "idle"
  <1> DEFINE o == OwnerOf[t]
  <1>1. /\ call[t] \in Call /\ call[t].pc = "credit" /\ o \in Owners
        /\ UNCHANGED <<totalLiquidity, totalShares, utilized, circuitBreaker, overlaps>>
        /\ shares' = [shares EXCEPT ![o] = Wrap(shares[o] + call[t].n)]
        /\ holders' = holders \cup {o}
        /\ Return(t)
    BY DEF CreditOwner, At, TypeOK, Owners
  <1>2. Moves(t, IdleCall) /\ IdleCall \in Call /\ IdleCall.pc = "idle"
    BY <1>1, ReturnMoves, IdleRequest
  <1> HIDE DEF o
  <1>3. shares[o] + call[t].n \in Int
    BY <1>1, U64Nat DEF TypeOK, Call
  <1>4. Wrap(shares[o] + call[t].n) \in U64
    BY <1>3, WrapU64
  <1>5. shares' \in [Owners -> U64] /\ holders' \subseteq Owners
    BY <1>1, <1>4 DEF TypeOK
  <1>6. TypeOK'
    BY <1>1, <1>2, <1>5 DEF TypeOK, Moves, U64
  <1>7. QED
    BY <1>1, <1>2, <1>6 DEF Continues, o

LEMMA QuoteWithdrawalEffect ==
    ASSUME TypeOK, NEW t \in Tasks, QuoteWithdrawal(t)
    PROVE  /\ TypeOK' /\ UNCHANGED Held
           /\ \E r \in Call :
                /\ Continues(t, "quoteOut", r)
                /\ r.pc = "readTotalOut" /\ r.n = call[t].n /\ r.price = SharePrice
                /\ r.amount = Wrap(call[t].n * SharePrice)
  <1> DEFINE p == SharePrice
             q == call[t]
             a == Wrap(q.n * p)
             r == [q EXCEPT !.pc = "readTotalOut", !.price = p, !.amount = a]
  <1>1. /\ q \in Call /\ q.pc = "quoteOut" /\ UNCHANGED <<Held, circuitBreaker, overlaps>>
        /\ Note(t, r)
    BY DEF QuoteWithdrawal, At, TypeOK, Held
  <1>2. p \in U64
    BY PriceU64
  <1>3. q.n * p \in Int
    <2>1. q.n \in Nat /\ p \in Nat
      BY <1>1, <1>2, U64Nat DEF Call
    <2>2. QED
      BY <2>1, ProductNat
  <1>4. a \in U64
    BY <1>3, WrapU64
  <1>5. r \in Call /\ r.pc = "readTotalOut" /\ r.n = q.n /\ r.price = p /\ r.amount = a
    <2> HIDE DEF a, p, q
    <2>1. QED
      BY <1>1, <1>2, <1>4 DEF Call
  <1> HIDE DEF r
  <1>6. Moves(t, r)
    BY <1>1, <1>5, NoteMoves
  <1>7. TypeOK'
    BY <1>1, <1>6 DEF TypeOK, Held, Moves, U64
  <1>8. QED
    BY <1>1, <1>5, <1>6, <1>7 DEF Continues

LEMMA ReadTotalEffect ==
    ASSUME TypeOK, NEW t \in Tasks, NEW from, NEW to \in Pcs, ReadTotal(t, from, to)
    PROVE  /\ TypeOK' /\ UNCHANGED Held
           /\ \E r \in Call :
                /\ Continues(t, from, r)
                /\ r.pc = to /\ r.n = call[t].n /\ r.price = call[t].price
                /\ r.amount = call[t].amount /\ r.seen = totalLiquidity
  <1> DEFINE q == call[t]
             r == [q EXCEPT !.pc = to, !.seen = totalLiquidity]
  <1>1. /\ q \in Call /\ q.pc = from /\ UNCHANGED <<Held, circuitBreaker, overlaps>>
        /\ Note(t, r) /\ totalLiquidity \in U64
    BY DEF ReadTotal, At, TypeOK, Held
  <1>2. r \in Call /\ r.pc = to /\ r.n = q.n /\ r.price = q.price
        /\ r.amount = q.amount /\ r.seen = totalLiquidity
    <2> HIDE DEF q
    <2>1. QED
      BY <1>1 DEF Call, Pcs
  <1> HIDE DEF r
  <1>3. Moves(t, r)
    BY <1>1, <1>2, NoteMoves
  <1>4. TypeOK'
    BY <1>1, <1>3 DEF TypeOK, Held, Moves, U64
  <1>5. QED
    BY <1>1, <1>2, <1>3, <1>4 DEF Continues

LEMMA CheckAvailableEffect ==
    ASSUME TypeOK, NEW t \in Tasks, NEW from, NEW to \in Pcs, CheckAvailable(t, from, to)
    PROVE  /\ TypeOK' /\ UNCHANGED Held
           /\ \E r \in Call :
                /\ Continues(t, from, r)
                /\ \/ r.pc = "idle"
                   \/ /\ r.pc = to /\ Keeps(r, call[t])
                      /\ call[t].amount <= SaturatingSub(call[t].seen, utilized)
  <1>1. /\ call[t].pc = from /\ UNCHANGED <<Held, circuitBreaker, overlaps>>
        /\ \/ call[t].amount <= SaturatingSub(call[t].seen, utilized) /\ Goto(t, to)
           \/ Return(t)
    BY DEF CheckAvailable, At, Held
  <1>2. CASE call[t].amount <= SaturatingSub(call[t].seen, utilized) /\ Goto(t, to)
    <2>1. PICK r \in Call :
             /\ Moves(t, r) /\ r.pc = to
             /\ r.amount = call[t].amount /\ r.n = call[t].n
             /\ r.price = call[t].price /\ r.seen = call[t].seen
      BY <1>2, GotoMoves
    <2>2. TypeOK'
      BY <1>1, <2>1 DEF TypeOK, Held, Moves, U64
    <2>3. QED
      BY <1>1, <1>2, <2>1, <2>2 DEF Continues, Keeps
  <1>3. CASE Return(t)
    <2>1. Moves(t, IdleCall) /\ IdleCall \in Call /\ IdleCall.pc = "idle"
      BY <1>3, ReturnMoves, IdleRequest
    <2>2. TypeOK'
      BY <1>1, <2>1 DEF TypeOK, Held, Moves, U64
    <2>3. QED
      BY <1>1, <2>1, <2>2 DEF Continues
  <1>4. QED
    BY <1>1, <1>2, <1>3

LEMMA SubLiquidityEffect ==
    ASSUME TypeOK, NEW t \in Tasks, SubLiquidity(t)
    PROVE  /\ TypeOK' /\ UNCHANGED <<totalShares, utilized, holders, shares>>
           /\ \E r \in Call :
                /\ Continues(t, "subLiquidity", r)
                /\ \/ r.pc = "idle" /\ UNCHANGED totalLiquidity
                   \/ /\ r.pc = "subShares" /\ Keeps(r, call[t])
                      /\ totalLiquidity' = totalLiquidity - call[t].amount
  <1>1. /\ call[t] \in Call /\ call[t].pc = "subLiquidity"
        /\ UNCHANGED <<totalShares, utilized, circuitBreaker, holders, shares, overlaps>>
        /\ \/ /\ call[t].amount <= totalLiquidity
              /\ totalLiquidity' = totalLiquidity - call[t].amount
              /\ Goto(t, "subShares")
           \/ Return(t) /\ UNCHANGED totalLiquidity
    BY DEF SubLiquidity, At, TypeOK
  <1>2. CASE /\ call[t].amount <= totalLiquidity
             /\ totalLiquidity' = totalLiquidity - call[t].amount
             /\ Goto(t, "subShares")
    <2>1. PICK r \in Call :
             /\ Moves(t, r) /\ r.pc = "subShares"
             /\ r.amount = call[t].amount /\ r.n = call[t].n
             /\ r.price = call[t].price /\ r.seen = call[t].seen
      BY <1>2, GotoMoves DEF Pcs
    <2>2. totalLiquidity' \in U64
      BY <1>1, <1>2, Parameters, U64Nat DEF TypeOK, Call
    <2>3. TypeOK'
      BY <1>1, <2>1, <2>2 DEF TypeOK, Moves, U64
    <2>4. QED
      BY <1>1, <1>2, <2>1, <2>3 DEF Continues, Keeps
  <1>3. CASE Return(t) /\ UNCHANGED totalLiquidity
    <2>1. Moves(t, IdleCall) /\ IdleCall \in Call /\ IdleCall.pc = "idle"
      BY <1>3, ReturnMoves, IdleRequest
    <2>2. TypeOK'
      BY <1>1, <1>3, <2>1 DEF TypeOK, Moves, U64
    <2>3. QED
      BY <1>1, <1>3, <2>1, <2>2 DEF Continues
  <1>4. QED
    BY <1>1, <1>2, <1>3

LEMMA SubSharesEffect ==
    ASSUME TypeOK, NEW t \in Tasks, SubShares(t)
    PROVE  /\ TypeOK' /\ UNCHANGED <<totalLiquidity, utilized, holders, shares>>
           /\ totalShares' = WrapSub(totalShares, call[t].n)
           /\ \E r \in Call : /\ Continues(t, "subShares", r)
                              /\ r.pc = "debit" /\ Keeps(r, call[t])
  <1>1. /\ call[t] \in Call /\ call[t].pc = "subShares"
        /\ UNCHANGED <<totalLiquidity, utilized, circuitBreaker, holders, shares, overlaps>>
        /\ totalShares' = WrapSub(totalShares, call[t].n)
        /\ Goto(t, "debit")
    BY DEF SubShares, At, TypeOK
  <1>2. PICK r \in Call :
           /\ Moves(t, r) /\ r.pc = "debit"
           /\ r.amount = call[t].amount /\ r.n = call[t].n
           /\ r.price = call[t].price /\ r.seen = call[t].seen
    BY <1>1, GotoMoves DEF Pcs
  <1>3. totalShares \in U64 /\ call[t].n \in U64
    BY <1>1 DEF TypeOK, Call
  <1>4. totalShares' \in U64
    BY <1>1, <1>3, WrapSubU64
  <1>5. TypeOK'
    BY <1>1, <1>2, <1>4 DEF TypeOK, Moves, U64
  <1>6. QED
    BY <1>1, <1>2, <1>5 DEF Continues, Keeps

LEMMA DebitOwnerEffect ==
    ASSUME TypeOK, NEW t \in Tasks, DebitOwner(t)
    PROVE  LET o == OwnerOf[t]
               left == WrapSub(shares[o], call[t].n)
           IN  /\ TypeOK' /\ UNCHANGED <<totalLiquidity, totalShares, utilized>>
               /\ o \in Owners
               /\ \/ /\ o \in holders
                     /\ shares' = [shares EXCEPT ![o] = left]
                     /\ holders' = IF left = 0 THEN holders \ {o} ELSE holders
                  \/ o \notin holders /\ UNCHANGED <<shares, holders>>
               /\ \E r \in Call : Continues(t, "debit", r) /\ r.pc = "idle"
  <1> DEFINE o == OwnerOf[t]
             left == WrapSub(shares[o], call[t].n)
  <1>1. /\ call[t] \in Call /\ call[t].pc = "debit" /\ o \in Owners
        /\ UNCHANGED <<totalLiquidity, totalShares, utilized, circuitBreaker, overlaps>>
        /\ \/ /\ o \in holders
              /\ shares' = [shares EXCEPT ![o] = left]
              /\ holders' = IF left = 0 THEN holders \ {o} ELSE holders
           \/ o \notin holders /\ UNCHANGED <<shares, holders>>
        /\ Return(t)
    BY DEF DebitOwner, At, TypeOK, Owners
  <1>2. Moves(t, IdleCall) /\ IdleCall \in Call /\ IdleCall.pc = "idle"
    BY <1>1, ReturnMoves, IdleRequest
  <1>3. left \in U64
    <2>1. shares[o] \in U64 /\ call[t].n \in U64
      BY <1>1 DEF TypeOK, Call
    <2>2. QED
      BY <2>1, WrapSubU64
  <1> HIDE DEF left, o
  <1>4. shares' \in [Owners -> U64] /\ holders' \subseteq Owners
    BY <1>1, <1>3 DEF TypeOK
  <1>5. TypeOK'
    BY <1>1, <1>2, <1>4 DEF TypeOK, Moves, U64
  <1>6. QED
    BY <1>1, <1>2, <1>5 DEF Continues, o, left

LEMMA AddUtilizedEffect ==
    ASSUME TypeOK, NEW t \in Tasks, AddUtilized(t)
    PROVE  /\ TypeOK' /\ UNCHANGED <<totalLiquidity, totalShares, holders, shares>>
           /\ utilized' \in {utilized, utilized + call[t].amount}
           /\ \E r \in Call : Continues(t, "addUtilized", r) /\ r.pc = "idle"
  <1>1. /\ call[t] \in Call /\ call[t].pc = "addUtilized"
        /\ UNCHANGED <<totalLiquidity, totalShares, circuitBreaker, holders, shares, overlaps>>
        /\ utilized' = IF utilized + call[t].amount < Word
                       THEN utilized + call[t].amount ELSE utilized
        /\ Return(t)
    BY DEF AddUtilized, At, TypeOK
  <1>2. Moves(t, IdleCall) /\ IdleCall \in Call /\ IdleCall.pc = "idle"
    BY <1>1, ReturnMoves, IdleRequest
  <1>3. utilized' \in U64
    BY <1>1, U64Nat DEF TypeOK, Call
  <1>4. TypeOK'
    BY <1>1, <1>2, <1>3 DEF TypeOK, Moves, U64
  <1>5. QED
    BY <1>1, <1>2, <1>4 DEF Continues

LEMMA ReleaseEffect ==
    ASSUME TypeOK, NEW t \in Tasks, NEW amount \in Locks, ReleaseLiquidity(t, amount)
    PROVE  /\ TypeOK'
           /\ UNCHANGED <<totalLiquidity, totalShares, holders, shares, call, overlaps>>
           /\ utilized' <= utilized
  <1>1. amount \in Nat /\ utilized \in Nat /\ utilized < Word
    BY AmountsAssumption, U64Nat DEF TypeOK, U64
  <1>2. /\ UNCHANGED <<totalLiquidity, totalShares, circuitBreaker, holders, shares,
                       call, overlaps>>
        /\ utilized' = IF amount <= utilized THEN utilized - amount ELSE 0
    BY DEF ReleaseLiquidity, At, SaturatingSub
  <1>3. utilized' \in Nat /\ utilized' < Word /\ utilized' <= utilized
    <2> DEFINE u == utilized'
    <2>1. u = IF amount <= utilized THEN utilized - amount ELSE 0
      BY <1>2
    <2> HIDE DEF u
    <2>2. u \in Nat /\ u < Word /\ u <= utilized
      BY <1>1, <2>1, Parameters
    <2>3. QED
      BY <2>2 DEF u
  <1>4. utilized' \in U64
    BY <1>3, U64Nat
  <1>5. TypeOK'
    BY <1>2, <1>4 DEF TypeOK, U64
  <1>6. QED
    BY <1>2, <1>3, <1>5

LEMMA BreakerEffect ==
    ASSUME TypeOK, NEW active \in BOOLEAN, SetCircuitBreaker(active)
    PROVE  TypeOK' /\ UNCHANGED <<Held, call, overlaps>>
  BY DEF SetCircuitBreaker, TypeOK, Held, U64

-----------------------------------------------------------------------------
LEMMA InitType == Init => TypeOK
  <1>1. 0 \in U64
    BY Parameters, U64Nat
  <1>2. Init => circuitBreaker \in BOOLEAN
    BY Zenon DEF Init
  <1>5. Init => overlaps \in Nat /\ holders \subseteq Owners
    BY DEF Init
  <1>3. Init => shares \in [Owners -> U64] /\ call \in [Tasks -> Call]
    BY <1>1, IdleRequest DEF Init
  <1>4. Init => totalLiquidity \in U64 /\ totalShares \in U64 /\ utilized \in U64
    BY <1>1 DEF Init
  <1>6. QED
    BY <1>2, <1>3, <1>4, <1>5 DEF TypeOK

LEMMA StepType ==
    ASSUME TypeOK, [Next]_vars
    PROVE  TypeOK'
  <1>1. ASSUME NEW t \in Tasks, Step(t) PROVE TypeOK'
    <2>1. ASSUME NEW amount \in Deposits, Deposit(t, amount) PROVE TypeOK'
      BY <2>1, DepositEffect
    <2>2. ASSUME NEW amount \in Locks, LockLiquidity(t, amount) PROVE TypeOK'
      BY <2>2, LockEffect
    <2>3. ASSUME NEW amount \in Locks, ReleaseLiquidity(t, amount) PROVE TypeOK'
      BY <2>3, ReleaseEffect
    <2>4. ASSUME NEW n \in Burns, Withdraw(t, n) PROVE TypeOK'
      BY <2>4, WithdrawEffect
    <2>5. ASSUME QuoteDeposit(t) \/ AddLiquidity(t) \/ AddShares(t) \/ CreditOwner(t)
          PROVE  TypeOK'
      BY <2>5, QuoteDepositEffect, AddLiquidityEffect, AddSharesEffect, CreditOwnerEffect
    <2>6. ASSUME QuoteWithdrawal(t) \/ SubLiquidity(t) \/ SubShares(t) \/ DebitOwner(t)
          PROVE  TypeOK'
      BY <2>6, QuoteWithdrawalEffect, SubLiquidityEffect, SubSharesEffect, DebitOwnerEffect
    <2>7. ASSUME ReadTotal(t, "readTotalOut", "checkOut")
                 \/ ReadTotal(t, "readTotalLock", "checkLock")
          PROVE  TypeOK'
      BY <2>7, ReadTotalEffect DEF Pcs
    <2>8. ASSUME CheckAvailable(t, "checkOut", "subLiquidity")
                 \/ CheckAvailable(t, "checkLock", "addUtilized")
          PROVE  TypeOK'
      BY <2>8, CheckAvailableEffect DEF Pcs
    <2>9. ASSUME AddUtilized(t) PROVE TypeOK'
      BY <2>9, AddUtilizedEffect
    <2>10. QED
      BY <1>1, <2>1, <2>2, <2>3, <2>4, <2>5, <2>6, <2>7, <2>8, <2>9 DEF Step
  <1>2. ASSUME NEW active \in BOOLEAN, SetCircuitBreaker(active) PROVE TypeOK'
    BY <1>2, BreakerEffect
  <1>3. CASE UNCHANGED vars
    BY <1>3 DEF vars, TypeOK, U64
  <1>4. QED
    BY <1>1, <1>2, <1>3 DEF Next

\* The totals and the shares fit the u64 fields of pool.rs, whatever requests
\* interleave: checked where the code checks, and reduced where it wraps.
THEOREM TypeInvariant == Spec => []TypeOK
  <1>1. QED
    BY InitType, StepType, PTL DEF Spec

-----------------------------------------------------------------------------
(* The shares.  Between its update of total_shares and its update of the   *)
(* owner's entry, a request has shares in flight; with those counted, the  *)
(* total and the sum over the owners agree up to a multiple of Word, at    *)
(* every step of any interleaving.                                         *)

\* Each provider has one client, which sends one request at a time.
OneClientEach == \A t, u \in Tasks : OwnerOf[t] = OwnerOf[u] => t = u

InFlight(r) == IF r.pc = "credit" THEN r.n ELSE IF r.pc = "debit" THEN 0 - r.n ELSE 0

Flights(c) == [t \in Tasks |-> InFlight(c[t])]

Withdrawing == {"quoteOut", "readTotalOut", "checkOut", "subLiquidity", "subShares", "debit"}

\* An owner with no entry has no shares.
Keys == \A o \in Owners : o \notin holders => shares[o] = 0

\* The first check of withdraw is not overtaken: the owner still has the shares.
OwnEnough(t) == call[t].pc \in Withdrawing => call[t].n <= shares[OwnerOf[t]]

Ledger == \E k \in Int :
    totalShares = SumFunction(shares) + SumFunction(Flights(call)) + k * Word

CInv == Keys /\ (\A t \in Tasks : OwnEnough(t)) /\ Ledger

LEMMA InFlightInt == \A r \in Call : InFlight(r) \in Int
  BY U64Nat DEF InFlight, Call

LEMMA Sums ==
    ASSUME TypeOK
    PROVE  /\ SumFunction(shares) \in Nat /\ SumFunction(Flights(call)) \in Int
           /\ \A o \in Owners : shares[o] \in Nat /\ shares[o] <= SumFunction(shares)
  <1>1. shares \in [Owners -> Nat]
    BY U64Nat DEF TypeOK
  <1>2. Flights(call) \in [Tasks -> Int]
    BY InFlightInt DEF Flights, TypeOK
  <1>3. QED
    BY <1>1, <1>2, OwnersFinite, TasksAssumption, SumNat, SumType, SumMember

LEMMA FlightMoves ==
    ASSUME TypeOK, NEW t \in Tasks, NEW r \in Call, Moves(t, r)
    PROVE  /\ SumFunction(Flights(call')) \in Int
           /\ InFlight(r) \in Int /\ InFlight(call[t]) \in Int
           /\ SumFunction(Flights(call'))
                = SumFunction(Flights(call)) + InFlight(r) - InFlight(call[t])
  <1> DEFINE f == Flights(call)
             g == Flights(call')
  <1>1. f \in [Tasks -> Int] /\ g \in [Tasks -> Int]
    BY InFlightInt DEF Flights, TypeOK, Moves
  <1>2. \A u \in Tasks \ {t} : g[u] = f[u]
    BY DEF Flights, Moves
  <1>3. g[t] = InFlight(r) /\ f[t] = InFlight(call[t])
    BY DEF Flights, Moves
  <1> HIDE DEF f, g
  <1>4. SumFunction(g) = SumFunction(f) + g[t] - f[t]
    BY <1>1, <1>2, TasksAssumption, SumChange
  <1>5. SumFunction(g) \in Int /\ g[t] \in Int /\ f[t] \in Int
    BY <1>1, TasksAssumption, SumType
  <1>6. QED
    BY <1>3, <1>4, <1>5 DEF f, g

\* One owner's shares change.
LEMMA SharesMove ==
    ASSUME TypeOK, TypeOK', NEW o \in Owners, NEW n \in U64, shares' = [shares EXCEPT ![o] = n]
    PROVE  /\ SumFunction(shares)' = SumFunction(shares) + n - shares[o]
           /\ n \in Nat /\ shares[o] \in Nat
           /\ shares'[o] = n /\ \A p \in Owners \ {o} : shares'[p] = shares[p]
  <1> DEFINE f == shares
             g == shares'
  <1>1. f \in [Owners -> Int] /\ g \in [Owners -> Int] /\ n \in Nat /\ f[o] \in Nat
    BY U64Nat DEF TypeOK
  <1>2. g[o] = n /\ \A p \in Owners \ {o} : g[p] = f[p]
    BY DEF TypeOK
  <1> HIDE DEF f, g
  <1>3. SumFunction(g) = SumFunction(f) + g[o] - f[o]
    BY <1>1, <1>2, OwnersFinite, SumChange
  <1>4. QED
    BY <1>1, <1>2, <1>3 DEF f, g

\* The books stay balanced when what leaves the flight reaches a place, and back.
LEMMA LedgerMoves ==
    ASSUME TypeOK, TypeOK', Ledger, NEW t \in Tasks, NEW r \in Call, Moves(t, r),
           NEW j \in Int,
           totalShares' = totalShares + SumFunction(shares)' - SumFunction(shares)
                          + InFlight(r) - InFlight(call[t]) + j * Word
    PROVE  Ledger'
  <1> DEFINE S == totalShares
             T == totalShares'
             A == SumFunction(shares)
             B == SumFunction(shares)'
             F == SumFunction(Flights(call))
             G == SumFunction(Flights(call'))
             x == InFlight(r)
             y == InFlight(call[t])
  <1>1. PICK k \in Int : S = A + F + k * Word
    BY DEF Ledger
  <1>2. A \in Int /\ F \in Int /\ G \in Int /\ x \in Int /\ y \in Int /\ G = F + x - y
    BY FlightMoves, Sums
  <1>3. B \in Int
    <2>1. (SumFunction(shares) \in Nat)'
      BY TypeOK', Sums, PTL
    <2>2. QED
      BY <2>1
  <1>4. S \in Int /\ T \in Int /\ Word \in Int
    BY U64Nat, Parameters DEF TypeOK
  <1>5. T = S + B - A + x - y + j * Word
    OBVIOUS
  <1> HIDE DEF S, T, A, B, F, G, x, y
  <1> DEFINE kw == k * Word
             jw == j * Word
  <1>6. kw \in Int /\ jw \in Int /\ (k + j) * Word = kw + jw /\ k + j \in Int
    BY <1>4
  <1>7. S = A + F + kw /\ T = S + B - A + x - y + jw
    BY <1>1, <1>5
  <1> HIDE DEF kw, jw
  <1>8. T = B + G + (kw + jw)
    BY <1>2, <1>3, <1>4, <1>6, <1>7
  <1>9. T = B + G + (k + j) * Word
    BY <1>6, <1>8
  <1>10. QED
    BY <1>6, <1>9 DEF Ledger, T, B, G

\* A step that leaves the owners' entries alone.
LEMMA EntriesKept ==
    ASSUME TypeOK, TypeOK', CInv, NEW t \in Tasks, NEW r \in Call, Moves(t, r),
           UNCHANGED <<holders, shares>>,
           r.pc \in Withdrawing => r.n <= shares[OwnerOf[t]],
           NEW j \in Int,
           totalShares' = totalShares + InFlight(r) - InFlight(call[t]) + j * Word
    PROVE  CInv'
  <1>1. Keys' /\ \A u \in Tasks : OwnEnough(u)'
    BY DEF CInv, Keys, OwnEnough, Moves
  <1>2. totalShares \in Int /\ InFlight(r) \in Int /\ InFlight(call[t]) \in Int
        /\ SumFunction(shares) \in Int /\ j * Word \in Int
    BY U64Nat, FlightMoves, Sums, Parameters DEF TypeOK
  <1>3. SumFunction(shares)' = SumFunction(shares)
    OBVIOUS
  <1>4. totalShares' = totalShares + SumFunction(shares)' - SumFunction(shares)
                       + InFlight(r) - InFlight(call[t]) + j * Word
    BY <1>2, <1>3
  <1>5. Ledger'
    BY <1>4, LedgerMoves DEF CInv
  <1>6. QED
    BY <1>1, <1>5 DEF CInv

\* A step that leaves the total and the owners' entries alone.
LEMMA SharesKept ==
    ASSUME TypeOK, TypeOK', CInv, NEW t \in Tasks, NEW r \in Call, Moves(t, r),
           UNCHANGED <<totalShares, holders, shares>>,
           r.pc \in Withdrawing => r.n <= shares[OwnerOf[t]],
           InFlight(r) = 0, InFlight(call[t]) = 0
    PROVE  CInv'
  <1>1. totalShares \in Int /\ 0 * Word = 0
    BY U64Nat, Parameters DEF TypeOK
  <1>2. totalShares' = totalShares + InFlight(r) - InFlight(call[t]) + 0 * Word
    BY <1>1
  <1>3. QED
    BY <1>2, EntriesKept

\* The request of t ends with an update of the entry of its owner.
LEMMA EntryMoves ==
    ASSUME OneClientEach, TypeOK, TypeOK', CInv,
           NEW t \in Tasks, NEW r \in Call, Moves(t, r), r.pc = "idle",
           OwnerOf[t] \in Owners,
           NEW n \in U64, shares' = [shares EXCEPT ![OwnerOf[t]] = n],
           \A o \in Owners \ {OwnerOf[t]} : o \in holders' <=> o \in holders,
           OwnerOf[t] \notin holders' => n = 0,
           UNCHANGED totalShares,
           NEW j \in Int,
           n = shares[OwnerOf[t]] + InFlight(call[t]) + j * Word
    PROVE  CInv'
  <1> DEFINE o == OwnerOf[t]
  <1>1. /\ SumFunction(shares)' = SumFunction(shares) + n - shares[o]
        /\ n \in Nat /\ shares[o] \in Nat
        /\ shares'[o] = n /\ \A p \in Owners \ {o} : shares'[p] = shares[p]
    BY SharesMove
  <1>2. Keys'
    BY <1>1 DEF CInv, Keys
  <1>3. ASSUME NEW u \in Tasks PROVE OwnEnough(u)'
    <2>1. CASE u = t
      BY <2>1 DEF OwnEnough, Withdrawing, Moves
    <2>2. CASE u # t
      <3>1. OwnerOf[u] \in Owners \ {o}
        BY <2>2 DEF OneClientEach, Owners
      <3>2. shares'[OwnerOf[u]] = shares[OwnerOf[u]] /\ call'[u] = call[u]
        BY <1>1, <2>2, <3>1 DEF Moves
      <3>3. QED
        BY <3>2 DEF CInv, OwnEnough
    <2>3. QED
      BY <2>1, <2>2
  <1>4. InFlight(r) = 0
    BY DEF InFlight
  <1> DEFINE S == totalShares
             A == SumFunction(shares)
             B == SumFunction(shares)'
             y == InFlight(call[t])
             w == shares[o]
             jw == j * Word
             iw == (0 - j) * Word
  <1>5. S \in Int /\ A \in Int /\ y \in Int /\ jw \in Int /\ iw = 0 - jw /\ 0 - j \in Int
    BY U64Nat, FlightMoves, Sums, Parameters DEF TypeOK
  <1>6. B = A + n - w /\ n = w + y + jw /\ n \in Nat /\ w \in Nat
    BY <1>1
  <1> HIDE DEF S, A, B, y, w, jw, iw
  <1>7. S = S + B - A + 0 - y + iw
    BY <1>5, <1>6
  <1>8. totalShares' = totalShares + SumFunction(shares)' - SumFunction(shares)
                       + InFlight(r) - InFlight(call[t]) + (0 - j) * Word
    BY <1>4, <1>7 DEF S, A, B, y, iw
  <1>9. Ledger'
    BY <1>5, <1>8, LedgerMoves DEF CInv
  <1>10. QED
    BY <1>2, <1>3, <1>9 DEF CInv

LEMMA InitC == Init => CInv
  <1>1. ASSUME Init PROVE CInv
    <2>1. shares = [o \in Owners |-> 0] /\ call = [t \in Tasks |-> IdleCall] /\ totalShares = 0
      BY <1>1 DEF Init
    <2>2. SumFunction(shares) = 0
      <3>1. shares \in [Owners -> Int] /\ \A o \in Owners : shares[o] = 0
        BY <2>1
      <3>2. QED
        BY <3>1, OwnersFinite, SumZero
    <2>3. SumFunction(Flights(call)) = 0
      <3>1. Flights(call) \in [Tasks -> Int] /\ \A t \in Tasks : Flights(call)[t] = 0
        BY <2>1, IdleRequest DEF Flights, InFlight
      <3>2. QED
        BY <3>1, TasksAssumption, SumZero
    <2>4. 0 = 0 + 0 + 0 * Word /\ 0 \in Int
      BY Parameters
    <2>5. Ledger
      BY <2>1, <2>2, <2>3, <2>4 DEF Ledger
    <2>6. Keys /\ \A t \in Tasks : OwnEnough(t)
      BY <2>1, IdleRequest DEF Keys, OwnEnough, Withdrawing
    <2>7. QED
      BY <2>5, <2>6 DEF CInv
  <1>2. QED
    BY <1>1

LEMMA StepC ==
    ASSUME OneClientEach, TypeOK, TypeOK', CInv, [Next]_vars
    PROVE  CInv'
  <1>1. ASSUME NEW t \in Tasks, Step(t) PROVE CInv'
    <2>1. ASSUME NEW amount \in Deposits, Deposit(t, amount) PROVE CInv'
      <3>1. PICK r \in Call : Arrives(t, r) /\ r.pc = "quoteIn"
        BY <2>1, DepositEffect
      <3>2. QED
        BY <3>1, SharesKept DEF Arrives, Held, InFlight, Withdrawing
    <2>2. ASSUME NEW amount \in Locks, LockLiquidity(t, amount) PROVE CInv'
      <3>1. PICK r \in Call : Arrives(t, r) /\ r.pc = "readTotalLock"
        BY <2>2, LockEffect
      <3>2. QED
        BY <3>1, SharesKept DEF Arrives, Held, InFlight, Withdrawing
    <2>3. ASSUME NEW amount \in Locks, ReleaseLiquidity(t, amount) PROVE CInv'
      BY <2>3, ReleaseEffect DEF CInv, Keys, OwnEnough, Ledger
    <2>4. ASSUME NEW n \in Burns, Withdraw(t, n) PROVE CInv'
      <3>1. PICK r \in Call :
               Arrives(t, r) /\ r.pc = "quoteOut" /\ r.n <= shares[OwnerOf[t]]
        BY <2>4, WithdrawEffect
      <3>2. QED
        BY <3>1, SharesKept DEF Arrives, Held, InFlight
    <2>5. ASSUME QuoteDeposit(t) PROVE CInv'
      <3>1. UNCHANGED Held
        BY <2>5, QuoteDepositEffect
      <3>2. PICK r \in Call : Continues(t, "quoteIn", r) /\ r.pc \in {"idle", "addLiquidity"}
        BY <2>5, QuoteDepositEffect
      <3>3. QED
        BY <3>1, <3>2, SharesKept DEF Continues, Held, InFlight, Withdrawing
    <2>6. ASSUME AddLiquidity(t) PROVE CInv'
      <3>1. UNCHANGED <<totalShares, holders, shares>>
        BY <2>6, AddLiquidityEffect
      <3>2. PICK r \in Call : Continues(t, "addLiquidity", r) /\ r.pc \in {"idle", "addShares"}
        BY <2>6, AddLiquidityEffect
      <3>3. QED
        BY <3>1, <3>2, SharesKept DEF Continues, InFlight, Withdrawing
    <2>7. ASSUME AddShares(t) PROVE CInv'
      <3>1. /\ UNCHANGED <<holders, shares>>
            /\ totalShares' = Wrap(totalShares + call[t].n)
        BY <2>7, AddSharesEffect
      <3>2. PICK r \in Call :
               Continues(t, "addShares", r) /\ r.pc = "credit" /\ r.n = call[t].n
        BY <2>7, AddSharesEffect DEF Keeps
      <3>3. totalShares \in Int /\ r.n \in Int
        BY U64Nat DEF TypeOK, Call
      <3>4. PICK j \in Int : totalShares' = (totalShares + r.n) + j * Word
        BY <3>1, <3>2, <3>3, WrapU64
      <3>5. InFlight(r) = r.n /\ InFlight(call[t]) = 0
        BY <3>2 DEF Continues, InFlight
      <3>6. totalShares' = totalShares + InFlight(r) - InFlight(call[t]) + j * Word
        <4> DEFINE jw == j * Word
        <4>1. jw \in Int
          BY Parameters
        <4> HIDE DEF jw
        <4>2. (totalShares + r.n) + jw = totalShares + r.n - 0 + jw
          BY <3>3, <4>1
        <4>3. QED
          BY <3>4, <3>5, <4>2 DEF jw
      <3>7. QED
        BY <3>1, <3>2, <3>6, EntriesKept DEF Continues, Withdrawing
    <2>8. ASSUME CreditOwner(t) PROVE CInv'
      <3> DEFINE o == OwnerOf[t]
                 n == Wrap(shares[o] + call[t].n)
      <3>1. /\ UNCHANGED totalShares /\ o \in Owners
            /\ shares' = [shares EXCEPT ![o] = n]
            /\ holders' = holders \cup {o}
        BY <2>8, CreditOwnerEffect
      <3>2. PICK r \in Call : Continues(t, "credit", r) /\ r.pc = "idle"
        BY <2>8, CreditOwnerEffect
      <3>3. shares[o] \in Int /\ call[t].n \in Int
        BY <3>1, U64Nat DEF TypeOK, Call
      <3>4. n \in U64 /\ \E j \in Int : n = (shares[o] + call[t].n) + j * Word
        BY <3>3, WrapU64
      <3>5. InFlight(call[t]) = call[t].n
        BY <3>2 DEF Continues, InFlight
      <3> HIDE DEF n
      <3>6. QED
        BY <3>1, <3>2, <3>4, <3>5, EntryMoves DEF Continues
    <2>9. ASSUME QuoteWithdrawal(t) PROVE CInv'
      <3>1. UNCHANGED Held
        BY <2>9, QuoteWithdrawalEffect
      <3>2. PICK r \in Call :
               Continues(t, "quoteOut", r) /\ r.pc = "readTotalOut" /\ r.n = call[t].n
        BY <2>9, QuoteWithdrawalEffect
      <3>3. r.n <= shares[OwnerOf[t]]
        BY <3>2 DEF CInv, OwnEnough, Withdrawing, Continues
      <3>4. QED
        BY <3>1, <3>2, <3>3, SharesKept DEF Continues, Held, InFlight
    <2>10. ASSUME ReadTotal(t, "readTotalOut", "checkOut") PROVE CInv'
      <3>1. UNCHANGED Held
        BY <2>10, ReadTotalEffect DEF Pcs
      <3>2. PICK r \in Call :
               Continues(t, "readTotalOut", r) /\ r.pc = "checkOut" /\ r.n = call[t].n
        BY <2>10, ReadTotalEffect DEF Pcs
      <3>3. r.n <= shares[OwnerOf[t]]
        BY <3>2 DEF CInv, OwnEnough, Withdrawing, Continues
      <3>4. QED
        BY <3>1, <3>2, <3>3, SharesKept DEF Continues, Held, InFlight
    <2>11. ASSUME CheckAvailable(t, "checkOut", "subLiquidity") PROVE CInv'
      <3>1. UNCHANGED Held
        BY <2>11, CheckAvailableEffect DEF Pcs
      <3>2. PICK r \in Call :
               /\ Continues(t, "checkOut", r)
               /\ r.pc = "idle" \/ (r.pc = "subLiquidity" /\ r.n = call[t].n)
        BY <2>11, CheckAvailableEffect DEF Pcs, Keeps
      <3>3. r.pc \in Withdrawing => r.n <= shares[OwnerOf[t]]
        BY <3>2 DEF CInv, OwnEnough, Withdrawing, Continues
      <3>4. QED
        BY <3>1, <3>2, <3>3, SharesKept DEF Continues, Held, InFlight
    <2>12. ASSUME SubLiquidity(t) PROVE CInv'
      <3>1. UNCHANGED <<totalShares, holders, shares>>
        BY <2>12, SubLiquidityEffect
      <3>2. PICK r \in Call :
               /\ Continues(t, "subLiquidity", r)
               /\ r.pc = "idle" \/ (r.pc = "subShares" /\ r.n = call[t].n)
        BY <2>12, SubLiquidityEffect DEF Keeps
      <3>3. r.pc \in Withdrawing => r.n <= shares[OwnerOf[t]]
        BY <3>2 DEF CInv, OwnEnough, Withdrawing, Continues
      <3>4. QED
        BY <3>1, <3>2, <3>3, SharesKept DEF Continues, InFlight
    <2>13. ASSUME SubShares(t) PROVE CInv'
      <3>1. /\ UNCHANGED <<holders, shares>>
            /\ totalShares' = WrapSub(totalShares, call[t].n)
        BY <2>13, SubSharesEffect
      <3>2. PICK r \in Call :
               Continues(t, "subShares", r) /\ r.pc = "debit" /\ r.n = call[t].n
        BY <2>13, SubSharesEffect DEF Keeps
      <3>3. totalShares \in U64 /\ r.n \in U64
        BY U64Nat DEF TypeOK, Call
      <3>4. PICK j \in Int : totalShares' = totalShares - r.n + j * Word
        BY <3>1, <3>2, <3>3, WrapSubU64
      <3>5. InFlight(r) = 0 - r.n /\ InFlight(call[t]) = 0
        BY <3>2 DEF Continues, InFlight
      <3>6. totalShares' = totalShares + InFlight(r) - InFlight(call[t]) + j * Word
        <4> DEFINE jw == j * Word
                   S == totalShares
                   n == r.n
        <4>1. jw \in Int /\ S \in Int /\ n \in Int
          BY <3>3, U64Nat, Parameters
        <4> HIDE DEF jw, S, n
        <4>2. S - n + jw = S + (0 - n) - 0 + jw
          BY <4>1
        <4>3. QED
          BY <3>4, <3>5, <4>2 DEF jw, S, n
      <3>7. r.n <= shares[OwnerOf[t]]
        BY <3>2 DEF CInv, OwnEnough, Withdrawing, Continues
      <3>8. QED
        BY <3>1, <3>2, <3>6, <3>7, EntriesKept DEF Continues
    <2>14. ASSUME DebitOwner(t) PROVE CInv'
      <3> DEFINE o == OwnerOf[t]
                 left == WrapSub(shares[o], call[t].n)
      <3>1. /\ UNCHANGED totalShares /\ o \in Owners
            /\ \/ /\ o \in holders
                  /\ shares' = [shares EXCEPT ![o] = left]
                  /\ holders' = IF left = 0 THEN holders \ {o} ELSE holders
               \/ o \notin holders /\ UNCHANGED <<shares, holders>>
        BY <2>14, DebitOwnerEffect
      <3>2. PICK r \in Call : Continues(t, "debit", r) /\ r.pc = "idle"
        BY <2>14, DebitOwnerEffect
      <3>3. shares[o] \in U64 /\ call[t].n \in U64 /\ call[t].n \in Nat /\ shares[o] \in Nat
        BY <3>1, U64Nat DEF TypeOK, Call
      <3>4. left \in U64 /\ \E j \in Int : left = shares[o] - call[t].n + j * Word
        BY <3>3, WrapSubU64
      <3>5. InFlight(call[t]) = 0 - call[t].n
        BY <3>2 DEF Continues, InFlight
      <3> HIDE DEF left
      <3>6. CASE o \in holders
        <4>1. PICK j \in Int : left = shares[o] - call[t].n + j * Word
          BY <3>4
        <4>2. j * Word \in Int
          BY Parameters
        <4>3. left = shares[o] + InFlight(call[t]) + j * Word
          BY <3>3, <3>5, <4>1, <4>2
        <4>4. QED
          BY <3>1, <3>2, <3>4, <3>6, <4>3, EntryMoves DEF Continues
      <3>7. CASE o \notin holders
        <4>1. call[t].n <= 0
          BY <3>1, <3>2, <3>7 DEF CInv, Keys, OwnEnough, Withdrawing, Continues
        <4>2. InFlight(call[t]) = 0 /\ InFlight(r) = 0
          BY <3>2, <3>3, <3>5, <4>1 DEF InFlight
        <4>3. QED
          BY <3>1, <3>2, <3>7, <4>2, SharesKept DEF Continues, Withdrawing
      <3>8. QED
        BY <3>6, <3>7
    <2>15. ASSUME ReadTotal(t, "readTotalLock", "checkLock") PROVE CInv'
      <3>1. UNCHANGED Held
        BY <2>15, ReadTotalEffect DEF Pcs
      <3>2. PICK r \in Call : Continues(t, "readTotalLock", r) /\ r.pc = "checkLock"
        BY <2>15, ReadTotalEffect DEF Pcs
      <3>3. QED
        BY <3>1, <3>2, SharesKept DEF Continues, Held, InFlight, Withdrawing
    <2>16. ASSUME CheckAvailable(t, "checkLock", "addUtilized") PROVE CInv'
      <3>1. UNCHANGED Held
        BY <2>16, CheckAvailableEffect DEF Pcs
      <3>2. PICK r \in Call : Continues(t, "checkLock", r) /\ r.pc \in {"idle", "addUtilized"}
        BY <2>16, CheckAvailableEffect DEF Pcs
      <3>3. QED
        BY <3>1, <3>2, SharesKept DEF Continues, Held, InFlight, Withdrawing
    <2>17. ASSUME AddUtilized(t) PROVE CInv'
      <3>1. UNCHANGED <<totalShares, holders, shares>>
        BY <2>17, AddUtilizedEffect
      <3>2. PICK r \in Call : Continues(t, "addUtilized", r) /\ r.pc = "idle"
        BY <2>17, AddUtilizedEffect
      <3>3. QED
        BY <3>1, <3>2, SharesKept DEF Continues, InFlight, Withdrawing
    <2>18. QED
      BY <1>1, <2>1, <2>2, <2>3, <2>4, <2>5, <2>6, <2>7, <2>8, <2>9, <2>10, <2>11,
         <2>12, <2>13, <2>14, <2>15, <2>16, <2>17 DEF Step
  <1>2. ASSUME NEW active \in BOOLEAN, SetCircuitBreaker(active) PROVE CInv'
    BY <1>2, BreakerEffect DEF Held, CInv, Keys, OwnEnough, Ledger
  <1>3. CASE UNCHANGED vars
    BY <1>3 DEF vars, CInv, Keys, OwnEnough, Ledger
  <1>4. QED
    BY <1>1, <1>2, <1>3 DEF Next

LEMMA BalancedAtRest ==
    ASSUME TypeOK, CInv
    PROVE  SharesConserved
  <1>1. SUFFICES ASSUME Quiet PROVE totalShares = Wrap(SumFunction(shares))
    BY DEF SharesConserved
  <1>2. SumFunction(Flights(call)) = 0
    <2>1. Flights(call) \in [Tasks -> Int] /\ \A t \in Tasks : Flights(call)[t] = 0
      BY <1>1 DEF Quiet, Flights, InFlight
    <2>2. QED
      BY <2>1, TasksAssumption, SumZero
  <1>3. PICK k \in Int : totalShares = SumFunction(shares) + 0 + k * Word
    BY <1>2 DEF CInv, Ledger
  <1>4. totalShares \in Nat /\ totalShares < Word /\ SumFunction(shares) \in Int
    BY U64Nat, Sums DEF TypeOK
  <1>5. totalShares = SumFunction(shares) + k * Word
    <2> DEFINE kw == k * Word
    <2>1. kw \in Int
      BY Parameters
    <2> HIDE DEF kw
    <2>2. totalShares = SumFunction(shares) + kw
      BY <1>3, <1>4, <2>1 DEF kw
    <2>3. QED
      BY <2>2 DEF kw
  <1>6. QED
    BY <1>4, <1>5, Parameters, ModUnique DEF Wrap

\* Whatever requests of the providers interleave, when none is in progress
\* the total number of shares is (as a u64) what the providers hold, although
\* the two are kept under two locks and updated at two times: provided that
\* each provider has one client (otherwise two withdrawals may both pass the
\* check against the owner's shares, as the run pool_shared shows).
THEOREM SharesAreConserved == OneClientEach => (Spec => []SharesConserved)
  <1> SUFFICES ASSUME OneClientEach PROVE Spec => []SharesConserved
    OBVIOUS
  <1>1. Init => TypeOK /\ CInv
    BY InitType, InitC
  <1>2. TypeOK /\ CInv /\ [Next]_vars => (TypeOK /\ CInv)'
    BY StepType, StepC
  <1>3. TypeOK /\ CInv => SharesConserved
    BY BalancedAtRest
  <1>4. QED
    BY <1>1, <1>2, <1>3, PTL DEF Spec

-----------------------------------------------------------------------------
(* While requests do not overlap.  No share was in flight when the request *)
(* in progress began, so nothing wraps; what it has checked and computed   *)
(* so far stays true until it ends.                                        *)

\* A price has been quoted.
Priced == {"addLiquidity", "addShares", "credit", "readTotalOut", "checkOut",
           "subLiquidity", "subShares", "debit"}

\* What request r may rely on: own are the shares of its owner, T, S and U the
\* liquidity, the shares and what is locked, sum what the owners hold.
GoodFor(r, own, T, S, U, sum) ==
    /\ S = sum + InFlight(r)
    /\ r.pc \in Withdrawing => r.n <= own
    /\ r.pc \in Priced => InitialPrice <= r.price
    /\ r.pc # "subShares" => InitialPrice * S <= T
    /\ r.pc \in Priced \ {"addShares", "subShares"} => r.price * S <= T
    /\ r.pc = "addLiquidity" => r.price * r.n <= r.amount
    /\ r.pc = "addShares" => r.price * (S + r.n) <= T
    /\ r.pc = "subShares" => r.price * (S - r.n) <= T
    /\ r.pc \in {"readTotalOut", "checkOut", "subLiquidity"} => r.amount = r.n * r.price
    /\ r.pc \in {"checkOut", "checkLock"} => r.seen = T
    /\ r.pc \in {"subLiquidity", "addUtilized"} => r.amount + U <= T

Good(t) ==
    GoodFor(call[t], shares[OwnerOf[t]], totalLiquidity, totalShares, utilized,
            SumFunction(shares))

\* At most one request is in progress, and it finds what it relies on.
Serial ==
    /\ Keys
    /\ utilized <= totalLiquidity
    /\ \A t \in Tasks : call[t].pc # "idle" => Solo(t) /\ Good(t)
    /\ Quiet => InitialPrice * totalShares <= totalLiquidity
                /\ totalShares = SumFunction(shares)

SInv == overlaps = 0 => Serial

\* The request in progress takes a step.
LEMMA SerialMoves ==
    ASSUME NEW t \in Tasks, NEW r \in Call, Moves(t, r), Solo(t), Keys',
           utilized' <= totalLiquidity',
           GoodFor(r, shares'[OwnerOf[t]], totalLiquidity', totalShares', utilized',
                   SumFunction(shares)'),
           totalShares' \in Nat, SumFunction(shares)' \in Nat
    PROVE  Serial'
  <1>1. \A u \in Tasks : u # t => call'[u].pc = "idle"
    BY DEF Moves, Solo
  <1>2. ASSUME NEW u \in Tasks, call'[u].pc # "idle" PROVE Solo(u)' /\ Good(u)'
    <2>1. u = t
      BY <1>1, <1>2
    <2>2. Solo(u)'
      BY <1>1, <2>1 DEF Solo
    <2>3. Good(u)'
      BY <2>1 DEF Good, Moves
    <2>4. QED
      BY <2>2, <2>3
  <1>3. Quiet' => InitialPrice * totalShares' <= totalLiquidity'
                  /\ totalShares' = SumFunction(shares)'
    <2>1. Quiet' => r.pc = "idle"
      BY DEF Quiet, Moves
    <2>2. r.pc = "idle" => InitialPrice * totalShares' <= totalLiquidity'
                           /\ totalShares' = SumFunction(shares)' + 0
      BY DEF GoodFor, InFlight
    <2>3. QED
      BY <2>1, <2>2
  <1>4. QED
    BY <1>2, <1>3 DEF Serial

\* The numbers of a state, and of its only request.
LEMMA Numbers ==
    ASSUME TypeOK
    PROVE  /\ totalLiquidity \in Nat /\ totalLiquidity < Word
           /\ totalShares \in Nat /\ totalShares < Word
           /\ utilized \in Nat /\ SumFunction(shares) \in Nat
           /\ \A t \in Tasks :
                /\ call[t].n \in Nat /\ call[t].n < Word
                /\ call[t].amount \in Nat /\ call[t].price \in Nat /\ call[t].seen \in Nat
                /\ OwnerOf[t] \in Owners /\ shares[OwnerOf[t]] \in Nat
                /\ shares[OwnerOf[t]] < Word
                /\ shares[OwnerOf[t]] <= SumFunction(shares)
  BY U64Nat, Sums DEF TypeOK, Call, Owners

\* The price covers every share, and is not below the initial price.
LEMMA PriceCovers ==
    ASSUME TypeOK, InitialPrice * totalShares <= totalLiquidity
    PROVE  /\ SharePrice \in Nat /\ InitialPrice <= SharePrice
           /\ SharePrice * totalShares <= totalLiquidity
  <1> DEFINE T == totalLiquidity
             S == totalShares
             p == SharePrice
  <1>1. T \in Nat /\ S \in Nat /\ p \in Nat
        /\ (S # 0 => p = T \div S) /\ (S = 0 => p = InitialPrice)
    BY Numbers, PriceU64, U64Nat
  <1>2. InitialPrice * S <= T
    OBVIOUS
  <1> HIDE DEF T, S, p
  <1>3. CASE S = 0
    BY <1>1, <1>2, <1>3, Parameters DEF T, S, p
  <1>4. CASE S # 0
    <2>1. InitialPrice <= T \div S
      BY <1>1, <1>2, <1>4, Parameters, DivAtLeast
    <2>2. T \div S \in Nat /\ S * (T \div S) <= T
      BY <1>1, <1>4, DivBelow
    <2>3. InitialPrice <= p /\ S * p <= T
      BY <1>1, <1>4, <2>1, <2>2
    <2>4. S * p = p * S
      BY <1>1
    <2>5. InitialPrice <= p /\ p * S <= T
      BY <2>3, <2>4
    <2>6. QED
      BY <1>1, <2>5 DEF T, S, p
  <1>5. QED
    BY <1>3, <1>4

\* A price that covers every share is not above what the next quote gives.
LEMMA PriceKeeps ==
    ASSUME TypeOK, NEW p \in Nat, p * totalShares <= totalLiquidity
    PROVE  totalShares = 0 \/ SharePrice >= p
  <1>1. totalLiquidity \in Nat /\ totalShares \in Nat
    BY Numbers
  <1>2. CASE totalShares # 0
    <2>1. p <= totalLiquidity \div totalShares
      BY <1>1, <1>2, DivAtLeast
    <2>2. SharePrice = totalLiquidity \div totalShares /\ SharePrice \in Nat
      BY <1>2, PriceU64, U64Nat
    <2>3. QED
      BY <2>1, <2>2
  <1>3. QED
    BY <1>2

LEMMA KeysKept ==
    ASSUME Keys, UNCHANGED <<holders, shares>>
    PROVE  Keys'
  BY DEF Keys

\* A request arrives while none is in progress.
LEMMA SerialArrives ==
    ASSUME TypeOK, TypeOK', Serial, NEW t \in Tasks, NEW r \in Call, Arrives(t, r), Solo(t),
           r.pc \in {"quoteIn", "quoteOut", "readTotalLock"},
           r.pc = "quoteOut" => r.n <= shares[OwnerOf[t]]
    PROVE  Serial'
  <1>1. Quiet /\ Moves(t, r) /\ UNCHANGED Held
    BY DEF Arrives, Solo, Quiet
  <1>2. InitialPrice * totalShares <= totalLiquidity /\ totalShares = SumFunction(shares)
        /\ utilized <= totalLiquidity /\ Keys
    BY <1>1 DEF Serial
  <1>3. Keys'
    BY <1>1, <1>2, KeysKept DEF Held
  <1>4. InFlight(r) = 0 /\ totalShares \in Nat /\ SumFunction(shares) \in Nat
    BY Numbers DEF InFlight
  <1>5. GoodFor(r, shares[OwnerOf[t]], totalLiquidity, totalShares, utilized,
                SumFunction(shares))
    BY <1>2, <1>4 DEF GoodFor, Withdrawing, Priced
  <1>6. QED
    BY <1>1, <1>2, <1>3, <1>4, <1>5, SerialMoves DEF Held

\* The request in progress reads, checks or gives up, and changes nothing else.
LEMMA SerialReads ==
    ASSUME TypeOK, TypeOK', Serial, NEW t \in Tasks, NEW r \in Call, Moves(t, r),
           call[t].pc # "idle", UNCHANGED Held,
           GoodFor(r, shares[OwnerOf[t]], totalLiquidity, totalShares, utilized,
                   SumFunction(shares))
    PROVE  Serial'
  <1>1. Solo(t) /\ Keys /\ utilized <= totalLiquidity
    BY DEF Serial
  <1>2. Keys' /\ totalShares \in Nat /\ SumFunction(shares) \in Nat
    BY <1>1, KeysKept, Numbers DEF Held
  <1>3. QED
    BY <1>1, <1>2, SerialMoves DEF Held

\* A request may give up at any time but when shares are in flight.
LEMMA SerialGivesUp ==
    ASSUME TypeOK, TypeOK', Serial, NEW t \in Tasks, NEW r \in Call, Moves(t, r),
           call[t].pc \notin {"idle", "subShares", "credit", "debit"}, r.pc = "idle",
           UNCHANGED Held
    PROVE  Serial'
  <1>1. Good(t)
    BY DEF Serial
  <1>2. GoodFor(r, shares[OwnerOf[t]], totalLiquidity, totalShares, utilized,
                SumFunction(shares))
    BY <1>1 DEF Good, GoodFor, InFlight, Withdrawing, Priced
  <1>3. QED
    BY <1>2, SerialReads

LEMMA SerialQuoteDeposit ==
    ASSUME TypeOK, TypeOK', Serial, NEW t \in Tasks, QuoteDeposit(t)
    PROVE  Serial'
  <1>1. UNCHANGED Held
    BY QuoteDepositEffect
  <1>2. PICK r \in Call :
           /\ Continues(t, "quoteIn", r)
           /\ \/ r.pc = "idle"
              \/ /\ r.pc = "addLiquidity"
                 /\ SharePrice > 0 /\ r.price = SharePrice
                 /\ r.amount = call[t].amount
                 /\ r.n = call[t].amount \div SharePrice
    BY QuoteDepositEffect
  <1>3. Moves(t, r) /\ call[t].pc = "quoteIn" /\ Good(t)
    BY <1>2 DEF Continues, Serial
  <1>4. CASE r.pc = "idle"
    BY <1>1, <1>3, <1>4, SerialGivesUp
  <1>5. CASE r.pc # "idle"
    <2>1. /\ totalShares = SumFunction(shares) + 0
          /\ InitialPrice * totalShares <= totalLiquidity
      BY <1>3 DEF Good, GoodFor, InFlight
    <2>2. /\ SharePrice \in Nat /\ SharePrice > 0 /\ InitialPrice <= SharePrice
          /\ SharePrice * totalShares <= totalLiquidity
      BY <1>2, <1>5, <2>1, PriceCovers
    <2>3. SharePrice * (call[t].amount \div SharePrice) <= call[t].amount
      BY <2>2, Numbers, DivBelow
    <2>4. r.pc = "addLiquidity" /\ InFlight(r) = 0
      BY <1>2, <1>5 DEF InFlight
    <2>5. GoodFor(r, shares[OwnerOf[t]], totalLiquidity, totalShares, utilized,
                  SumFunction(shares))
      BY <1>2, <2>1, <2>2, <2>3, <2>4 DEF GoodFor, Withdrawing, Priced
    <2>6. QED
      BY <1>1, <1>3, <2>5, SerialReads
  <1>6. QED
    BY <1>4, <1>5

LEMMA SerialAddLiquidity ==
    ASSUME TypeOK, TypeOK', Serial, NEW t \in Tasks, AddLiquidity(t)
    PROVE  Serial'
  <1>1. UNCHANGED <<totalShares, utilized, holders, shares>>
    BY AddLiquidityEffect
  <1>2. PICK r \in Call :
           /\ Continues(t, "addLiquidity", r)
           /\ \/ r.pc = "idle" /\ UNCHANGED totalLiquidity
              \/ /\ r.pc = "addShares" /\ Keeps(r, call[t])
                 /\ totalLiquidity' = totalLiquidity + call[t].amount
    BY AddLiquidityEffect
  <1>3. Moves(t, r) /\ call[t].pc = "addLiquidity" /\ Good(t) /\ Solo(t) /\ Keys
        /\ utilized <= totalLiquidity
    BY <1>2 DEF Continues, Serial
  <1>4. CASE r.pc = "idle"
    BY <1>1, <1>2, <1>3, <1>4, SerialGivesUp DEF Held
  <1>5. CASE r.pc # "idle"
    <2> DEFINE T == totalLiquidity
               S == totalShares
               U == utilized
               a == r.amount
               n == r.n
               p == r.price
               sum == SumFunction(shares)
               X == totalLiquidity'
    <2>1. r.pc = "addShares" /\ InFlight(r) = 0
          /\ X = T + a /\ n = call[t].n /\ a = call[t].amount /\ p = call[t].price
      BY <1>2, <1>5 DEF Keeps, InFlight
    <2>2. S = sum + 0 /\ InitialPrice <= p /\ InitialPrice * S <= T /\ p * S <= T /\ p * n <= a
      BY <1>3, <2>1 DEF Good, GoodFor, InFlight, Priced
    <2>3. T \in Nat /\ S \in Nat /\ U \in Nat /\ a \in Nat /\ n \in Nat /\ p \in Nat
          /\ sum \in Nat /\ U <= T
      BY <1>3, <2>1, Numbers
    <2> HIDE DEF T, S, U, a, n, p, sum, X
    <2>4. p * (S + n) = p * S + p * n /\ p * S \in Nat /\ p * n \in Nat
      BY <2>3
    <2>5. p * (S + n) <= X /\ InitialPrice * S <= X /\ U <= X
      <3> DEFINE pS == p * S
                 pn == p * n
                 iS == InitialPrice * S
      <3>1. iS \in Nat /\ pS \in Nat /\ pn \in Nat
        BY <2>3, Parameters
      <3>2. p * (S + n) = pS + pn /\ pS <= T /\ pn <= a /\ iS <= T
        BY <2>2, <2>4
      <3> HIDE DEF pS, pn, iS
      <3>3. QED
        BY <2>1, <2>3, <3>1, <3>2 DEF iS
    <2>6. GoodFor(r, shares[OwnerOf[t]], X, S, U, sum)
      BY <2>1, <2>2, <2>5 DEF GoodFor, Withdrawing, Priced, n, p
    <2>7. Keys' /\ U <= X
      BY <1>1, <1>3, <2>5, KeysKept
    <2>8. QED
      BY <1>1, <1>3, <2>3, <2>6, <2>7, SerialMoves DEF X, S, U, sum
  <1>6. QED
    BY <1>4, <1>5

LEMMA SerialAddShares ==
    ASSUME TypeOK, TypeOK', Serial, NEW t \in Tasks, AddShares(t)
    PROVE  Serial'
  <1> DEFINE T == totalLiquidity
             S == totalShares
             U == utilized
             n == call[t].n
             p == call[t].price
             sum == SumFunction(shares)
             X == totalShares'
  <1>1. UNCHANGED <<totalLiquidity, utilized, holders, shares>> /\ X = Wrap(S + n)
    BY AddSharesEffect
  <1>2. PICK r \in Call : Continues(t, "addShares", r) /\ r.pc = "credit" /\ Keeps(r, call[t])
    BY AddSharesEffect
  <1>3. Moves(t, r) /\ call[t].pc = "addShares" /\ Good(t) /\ Solo(t) /\ Keys
        /\ U <= T
    BY <1>2 DEF Continues, Serial
  <1>4. S = sum + 0 /\ InitialPrice <= p /\ p * (S + n) <= T
    BY <1>3 DEF Good, GoodFor, InFlight, Priced
  <1>5. T \in Nat /\ S \in Nat /\ n \in Nat /\ p \in Nat /\ sum \in Nat /\ T < Word
    BY Numbers
  <1>6. InFlight(r) = n /\ r.n = n /\ r.price = p
    BY <1>2 DEF InFlight, Keeps
  <1> HIDE DEF T, S, U, n, p, sum, X
  <1>7. InitialPrice * (S + n) <= p * (S + n) /\ 1 * (S + n) <= p * (S + n)
    BY <1>4, <1>5, Parameters
  <1>8. S + n \in Nat /\ S + n < Word
    <2> DEFINE q == p * (S + n)
    <2>1. q \in Nat
      BY <1>5
    <2> HIDE DEF q
    <2>2. S + n <= q /\ q <= T
      BY <1>4, <1>5, <1>7 DEF q
    <2>3. QED
      BY <1>5, <2>1, <2>2, Parameters
  <1>9. X = S + n
    BY <1>1, <1>8, U64Nat, WrapExact
  <1>10. p * X <= T /\ InitialPrice * X <= T /\ X = sum + n /\ X \in Nat
    <2>1. X \in Nat /\ X = sum + n
      BY <1>4, <1>5, <1>9
    <2>2. p * X <= T /\ InitialPrice * X <= p * X
      BY <1>4, <1>7, <1>9
    <2>3. p * X \in Nat /\ InitialPrice * X \in Nat
      BY <1>5, <2>1, Parameters
    <2>4. QED
      BY <1>5, <2>1, <2>2, <2>3
  <1>11. GoodFor(r, shares[OwnerOf[t]], T, X, U, sum)
    BY <1>2, <1>4, <1>6, <1>10 DEF GoodFor, Withdrawing, Priced
  <1>12. Keys'
    BY <1>1, <1>3, KeysKept
  <1>13. QED
    BY <1>1, <1>3, <1>5, <1>10, <1>11, <1>12, SerialMoves DEF T, X, U, sum

LEMMA SerialCreditOwner ==
    ASSUME TypeOK, TypeOK', Serial, NEW t \in Tasks, CreditOwner(t)
    PROVE  Serial' /\ (totalShares' = 0 \/ SharePrice' >= call[t].price)
  <1> DEFINE o == OwnerOf[t]
             T == totalLiquidity
             S == totalShares
             own == shares[o]
             n == call[t].n
             p == call[t].price
             sum == SumFunction(shares)
             new == SumFunction(shares)'
             left == Wrap(own + n)
  <1>1. /\ UNCHANGED <<totalLiquidity, totalShares, utilized>> /\ o \in Owners
        /\ shares' = [shares EXCEPT ![o] = left]
        /\ holders' = holders \cup {o}
    BY CreditOwnerEffect
  <1>2. PICK r \in Call : Continues(t, "credit", r) /\ r.pc = "idle"
    BY CreditOwnerEffect
  <1>3. Moves(t, r) /\ call[t].pc = "credit" /\ Good(t) /\ Solo(t) /\ Keys
        /\ utilized <= totalLiquidity
    BY <1>2 DEF Continues, Serial
  <1>4. S = sum + n /\ InitialPrice * S <= T /\ p * S <= T
    BY <1>3 DEF Good, GoodFor, InFlight, Priced
  <1>5. /\ T \in Nat /\ S \in Nat /\ S < Word /\ n \in Nat /\ p \in Nat
        /\ own \in Nat /\ own <= sum /\ sum \in Nat
    BY Numbers
  <1>6. left = own + n /\ left \in U64
    <2> HIDE DEF own, n, S, sum
    <2>1. own + n \in Nat /\ own + n < Word
      BY <1>4, <1>5, Parameters
    <2>2. own + n \in U64
      BY <2>1, U64Nat
    <2>3. QED
      BY <2>2, WrapExact
  <1> HIDE DEF left
  <1>7. /\ new = sum + left - own
        /\ shares'[o] = left /\ \A q \in Owners \ {o} : shares'[q] = shares[q]
    BY <1>1, <1>6, SharesMove
  <1>8. Keys'
    BY <1>1, <1>3, <1>7 DEF Keys
  <1>9. S = new + 0 /\ new \in Nat
    <2> HIDE DEF S, sum, new, own, n
    <2>1. QED
      BY <1>4, <1>5, <1>6, <1>7
  <1>10. InFlight(r) = 0
    BY <1>2 DEF InFlight
  <1>11. GoodFor(r, shares'[o], T, S, utilized, new)
    BY <1>2, <1>4, <1>9, <1>10 DEF GoodFor, Withdrawing, Priced
  <1>12. Serial'
    BY <1>1, <1>3, <1>5, <1>8, <1>9, <1>11, SerialMoves
  <1>13. (totalShares = 0 \/ SharePrice >= call[t].price)
    BY <1>4, <1>5, PriceKeeps
  <1>14. SharePrice' = SharePrice
    BY <1>1 DEF SharePrice
  <1>15. QED
    BY <1>1, <1>12, <1>13, <1>14

LEMMA SerialQuoteWithdrawal ==
    ASSUME TypeOK, TypeOK', Serial, NEW t \in Tasks, QuoteWithdrawal(t)
    PROVE  Serial'
  <1> DEFINE T == totalLiquidity
             S == totalShares
             own == shares[OwnerOf[t]]
             n == call[t].n
             p == SharePrice
             sum == SumFunction(shares)
  <1>1. UNCHANGED Held
    BY QuoteWithdrawalEffect
  <1>2. PICK r \in Call :
           /\ Continues(t, "quoteOut", r)
           /\ r.pc = "readTotalOut" /\ r.n = n /\ r.price = p
           /\ r.amount = Wrap(n * p)
    BY QuoteWithdrawalEffect
  <1>3. Moves(t, r) /\ call[t].pc = "quoteOut" /\ Good(t)
    BY <1>2 DEF Continues, Serial
  <1>4. S = sum + 0 /\ InitialPrice * S <= T /\ n <= own
    BY <1>3 DEF Good, GoodFor, InFlight, Withdrawing
  <1>5. /\ T \in Nat /\ T < Word /\ S \in Nat /\ n \in Nat
        /\ own \in Nat /\ own <= sum /\ sum \in Nat
    BY Numbers
  <1>6. p \in Nat /\ InitialPrice <= p /\ p * S <= T
    BY <1>4, PriceCovers
  <1> HIDE DEF T, S, own, n, p, sum
  <1>7. n * p \in Nat /\ n * p < Word
    <2>1. n <= S
      BY <1>4, <1>5
    <2>2. p * n \in Nat /\ p * n <= p * S
      BY <1>5, <1>6, <2>1, ProductMonotone
    <2>3. n * p = p * n
      BY <1>5, <1>6
    <2> DEFINE pn == p * n
               pS == p * S
    <2>4. pn \in Nat /\ pn <= pS /\ pS <= T /\ pS \in Nat
      BY <1>5, <1>6, <2>2
    <2> HIDE DEF pn, pS
    <2>5. pn < Word
      BY <1>5, <2>4, Parameters
    <2>6. QED
      BY <2>2, <2>3, <2>5 DEF pn
  <1>8. r.amount = n * p
    BY <1>2, <1>7, U64Nat, WrapExact
  <1>9. InFlight(r) = 0
    BY <1>2 DEF InFlight
  <1>10. GoodFor(r, own, T, S, utilized, sum)
    BY <1>2, <1>4, <1>6, <1>8, <1>9 DEF GoodFor, Withdrawing, Priced
  <1>11. QED
    BY <1>1, <1>3, <1>10, SerialReads DEF T, S, own, sum

LEMMA SerialReadTotal ==
    ASSUME TypeOK, TypeOK', Serial, NEW t \in Tasks,
           NEW from \in {"readTotalOut", "readTotalLock"},
           NEW to \in {"checkOut", "checkLock"},
           from = "readTotalOut" <=> to = "checkOut",
           ReadTotal(t, from, to)
    PROVE  Serial'
  <1>1. to \in Pcs
    BY DEF Pcs
  <1>2. UNCHANGED Held
    BY <1>1, ReadTotalEffect
  <1>3. PICK r \in Call :
           /\ Continues(t, from, r)
           /\ r.pc = to /\ r.n = call[t].n /\ r.price = call[t].price
           /\ r.amount = call[t].amount /\ r.seen = totalLiquidity
    BY <1>1, ReadTotalEffect
  <1>4. Moves(t, r) /\ call[t].pc = from /\ Good(t)
    BY <1>3 DEF Continues, Serial
  <1>5. InFlight(r) = 0 /\ InFlight(call[t]) = 0
    BY <1>3, <1>4 DEF InFlight
  <1>6. GoodFor(r, shares[OwnerOf[t]], totalLiquidity, totalShares, utilized,
                SumFunction(shares))
    BY <1>3, <1>4, <1>5 DEF Good, GoodFor, Withdrawing, Priced
  <1>7. QED
    BY <1>2, <1>4, <1>6, SerialReads

LEMMA SerialCheckAvailable ==
    ASSUME TypeOK, TypeOK', Serial, NEW t \in Tasks,
           NEW from \in {"checkOut", "checkLock"},
           NEW to \in {"subLiquidity", "addUtilized"},
           from = "checkOut" <=> to = "subLiquidity",
           CheckAvailable(t, from, to)
    PROVE  Serial'
  <1>1. to \in Pcs
    BY DEF Pcs
  <1>2. UNCHANGED Held
    BY <1>1, CheckAvailableEffect
  <1>3. PICK r \in Call :
           /\ Continues(t, from, r)
           /\ \/ r.pc = "idle"
              \/ /\ r.pc = to /\ Keeps(r, call[t])
                 /\ call[t].amount <= SaturatingSub(call[t].seen, utilized)
    BY <1>1, CheckAvailableEffect
  <1>4. Moves(t, r) /\ call[t].pc = from /\ Good(t) /\ utilized <= totalLiquidity
    BY <1>3 DEF Continues, Serial
  <1>5. CASE r.pc = "idle"
    BY <1>2, <1>4, <1>5, SerialGivesUp
  <1>6. CASE r.pc # "idle"
    <2>1. InFlight(r) = 0 /\ InFlight(call[t]) = 0
      BY <1>3, <1>4, <1>6 DEF InFlight
    <2>2. call[t].seen = totalLiquidity
      BY <1>4 DEF Good, GoodFor
    <2>3. call[t].amount + utilized <= totalLiquidity
      BY <1>3, <1>4, <1>6, <2>2, Numbers DEF SaturatingSub
    <2>4. GoodFor(r, shares[OwnerOf[t]], totalLiquidity, totalShares, utilized,
                  SumFunction(shares))
      BY <1>3, <1>4, <1>6, <2>1, <2>3 DEF Keeps, Good, GoodFor, Withdrawing, Priced
    <2>5. QED
      BY <1>2, <1>4, <2>4, SerialReads
  <1>7. QED
    BY <1>5, <1>6

LEMMA SerialSubLiquidity ==
    ASSUME TypeOK, TypeOK', Serial, NEW t \in Tasks, SubLiquidity(t)
    PROVE  Serial'
  <1>1. UNCHANGED <<totalShares, utilized, holders, shares>>
    BY SubLiquidityEffect
  <1>2. PICK r \in Call :
           /\ Continues(t, "subLiquidity", r)
           /\ \/ r.pc = "idle" /\ UNCHANGED totalLiquidity
              \/ /\ r.pc = "subShares" /\ Keeps(r, call[t])
                 /\ totalLiquidity' = totalLiquidity - call[t].amount
    BY SubLiquidityEffect
  <1>3. Moves(t, r) /\ call[t].pc = "subLiquidity" /\ Good(t) /\ Solo(t) /\ Keys
    BY <1>2 DEF Continues, Serial
  <1>4. CASE r.pc = "idle"
    BY <1>1, <1>2, <1>3, <1>4, SerialGivesUp DEF Held
  <1>5. CASE r.pc # "idle"
    <2> DEFINE T == totalLiquidity
               S == totalShares
               U == utilized
               own == shares[OwnerOf[t]]
               a == call[t].amount
               n == call[t].n
               p == call[t].price
               sum == SumFunction(shares)
               X == totalLiquidity'
    <2>1. r.pc = "subShares" /\ InFlight(r) = 0 /\ X = T - a /\ r.n = n /\ r.price = p
      BY <1>2, <1>5 DEF Keeps, InFlight
    <2>2. /\ S = sum + 0 /\ InitialPrice <= p /\ p * S <= T
          /\ a = n * p /\ a + U <= T /\ n <= own
      BY <1>3 DEF Good, GoodFor, InFlight, Priced, Withdrawing
    <2>3. T \in Nat /\ S \in Nat /\ U \in Nat /\ a \in Nat /\ n \in Nat /\ p \in Nat
          /\ sum \in Nat
      BY Numbers
    <2> HIDE DEF T, S, U, a, n, p, sum, X, own
    <2>4. p * (S - n) = p * S - n * p /\ p * S \in Int /\ n * p \in Int
      BY <2>3
    <2>5. p * (S - n) <= X /\ U <= X
      <3> DEFINE pS == p * S
                 pn == n * p
      <3>1. pS \in Int /\ p * (S - n) = pS - pn /\ pS <= T /\ a = pn /\ pn \in Int
        BY <2>2, <2>4
      <3> HIDE DEF pS, pn
      <3>2. QED
        BY <2>1, <2>2, <2>3, <3>1
    <2>6. GoodFor(r, own, X, S, U, sum)
      BY <2>1, <2>2, <2>5 DEF GoodFor, Withdrawing, Priced
    <2>7. Keys' /\ U <= X
      BY <1>1, <1>3, <2>5, KeysKept
    <2>8. QED
      BY <1>1, <1>3, <2>3, <2>6, <2>7, SerialMoves DEF X, S, U, sum, own
  <1>6. QED
    BY <1>4, <1>5

LEMMA SerialSubShares ==
    ASSUME TypeOK, TypeOK', Serial, NEW t \in Tasks, SubShares(t)
    PROVE  Serial'
  <1> DEFINE T == totalLiquidity
             S == totalShares
             U == utilized
             own == shares[OwnerOf[t]]
             n == call[t].n
             p == call[t].price
             sum == SumFunction(shares)
             X == totalShares'
  <1>1. UNCHANGED <<totalLiquidity, utilized, holders, shares>> /\ X = WrapSub(S, n)
    BY SubSharesEffect
  <1>2. PICK r \in Call : Continues(t, "subShares", r) /\ r.pc = "debit" /\ Keeps(r, call[t])
    BY SubSharesEffect
  <1>3. Moves(t, r) /\ call[t].pc = "subShares" /\ Good(t) /\ Solo(t) /\ Keys
        /\ U <= T
    BY <1>2 DEF Continues, Serial
  <1>4. S = sum + 0 /\ InitialPrice <= p /\ p * (S - n) <= T /\ n <= own
    BY <1>3 DEF Good, GoodFor, InFlight, Priced, Withdrawing
  <1>5. /\ T \in Nat /\ S \in Nat /\ n \in Nat /\ p \in Nat /\ sum \in Nat
        /\ S < Word /\ n < Word /\ own \in Nat /\ own <= sum
    BY Numbers
  <1>6. InFlight(r) = 0 - n /\ r.n = n /\ r.price = p
    BY <1>2 DEF InFlight, Keeps
  <1> HIDE DEF T, S, U, n, p, sum, X, own
  <1>7. X = S - n
    <2>1. S \in U64 /\ n \in U64 /\ n <= S
      BY <1>4, <1>5, U64Nat
    <2>2. QED
      BY <1>1, <2>1, WrapSubU64
  <1>8. X \in Nat /\ X = sum + (0 - n)
    BY <1>4, <1>5, <1>7
  <1>9. p * X <= T /\ InitialPrice * X <= T
    <2>1. p * X <= T
      BY <1>4, <1>7
    <2>2. InitialPrice * X <= p * X /\ p * X \in Nat /\ InitialPrice * X \in Nat
      <3>1. X * InitialPrice \in Nat /\ X * p \in Nat /\ X * InitialPrice <= X * p
        BY <1>4, <1>5, <1>8, Parameters, ProductMonotone
      <3>2. X * InitialPrice = InitialPrice * X /\ X * p = p * X
        BY <1>5, <1>8, Parameters
      <3>3. QED
        BY <3>1, <3>2
    <2>3. QED
      BY <1>5, <2>1, <2>2
  <1>10. GoodFor(r, own, T, X, U, sum)
    BY <1>2, <1>4, <1>6, <1>8, <1>9 DEF GoodFor, Withdrawing, Priced
  <1>11. Keys'
    BY <1>1, <1>3, KeysKept
  <1>12. QED
    BY <1>1, <1>3, <1>5, <1>8, <1>10, <1>11, SerialMoves DEF T, X, U, sum, own

LEMMA SerialDebitOwner ==
    ASSUME TypeOK, TypeOK', Serial, NEW t \in Tasks, DebitOwner(t)
    PROVE  Serial' /\ (totalShares' = 0 \/ SharePrice' >= call[t].price)
  <1> DEFINE o == OwnerOf[t]
             T == totalLiquidity
             S == totalShares
             own == shares[o]
             n == call[t].n
             p == call[t].price
             sum == SumFunction(shares)
             new == SumFunction(shares)'
             left == WrapSub(own, n)
  <1>1. /\ UNCHANGED <<totalLiquidity, totalShares, utilized>> /\ o \in Owners
        /\ \/ /\ o \in holders
              /\ shares' = [shares EXCEPT ![o] = left]
              /\ holders' = IF left = 0 THEN holders \ {o} ELSE holders
           \/ o \notin holders /\ UNCHANGED <<shares, holders>>
    BY DebitOwnerEffect
  <1>2. PICK r \in Call : Continues(t, "debit", r) /\ r.pc = "idle"
    BY DebitOwnerEffect
  <1>3. Moves(t, r) /\ call[t].pc = "debit" /\ Good(t) /\ Solo(t) /\ Keys
        /\ utilized <= totalLiquidity
    BY <1>2 DEF Continues, Serial
  <1>4. S = sum + (0 - n) /\ InitialPrice * S <= T /\ p * S <= T /\ n <= own
    BY <1>3 DEF Good, GoodFor, InFlight, Priced, Withdrawing
  <1>5. /\ T \in Nat /\ S \in Nat /\ S < Word /\ n \in Nat /\ p \in Nat /\ n < Word
        /\ own \in Nat /\ own <= sum /\ sum \in Nat /\ own < Word
    BY Numbers
  <1>6. Keys' /\ S = new + 0 /\ new \in Nat
    <2>1. CASE o \in holders
      <3>1. left = own - n /\ left \in U64
        <4> HIDE DEF own, n
        <4>1. own \in U64 /\ n \in U64
          BY <1>5, U64Nat
        <4>2. QED
          BY <1>4, <4>1, WrapSubU64
      <3> HIDE DEF left
      <3>2. /\ new = sum + left - own
            /\ shares'[o] = left /\ \A q \in Owners \ {o} : shares'[q] = shares[q]
        BY <1>1, <2>1, <3>1, SharesMove
      <3>3. holders' = IF left = 0 THEN holders \ {o} ELSE holders
        BY <1>1, <2>1
      <3>4. Keys'
        BY <1>3, <2>1, <3>2, <3>3 DEF Keys
      <3>5. S = new + 0 /\ new \in Nat
        <4> HIDE DEF S, sum, new, own, n
        <4>1. QED
          BY <1>4, <1>5, <3>1, <3>2
      <3>6. QED
        BY <3>4, <3>5
    <2>2. CASE o \notin holders
      <3>1. UNCHANGED <<shares, holders>> /\ own = 0
        BY <1>1, <1>3, <2>2 DEF Keys
      <3>2. new = sum
        BY <3>1
      <3>3. Keys'
        BY <1>3, <3>1, KeysKept
      <3>4. S = new + 0 /\ new \in Nat
        <4>1. own = 0
          BY <3>1
        <4> HIDE DEF S, sum, new, own, n
        <4>2. QED
          BY <1>4, <1>5, <3>2, <4>1
      <3>5. QED
        BY <3>3, <3>4
    <2>3. QED
      BY <2>1, <2>2
  <1>7. InFlight(r) = 0
    BY <1>2 DEF InFlight
  <1>8. GoodFor(r, shares'[o], T, S, utilized, new)
    BY <1>2, <1>4, <1>6, <1>7 DEF GoodFor, Withdrawing, Priced
  <1>9. Serial'
    BY <1>1, <1>3, <1>5, <1>6, <1>8, SerialMoves
  <1>10. (totalShares = 0 \/ SharePrice >= call[t].price)
    BY <1>4, <1>5, PriceKeeps
  <1>11. SharePrice' = SharePrice
    BY <1>1 DEF SharePrice
  <1>12. QED
    BY <1>1, <1>9, <1>10, <1>11

LEMMA SerialAddUtilized ==
    ASSUME TypeOK, TypeOK', Serial, NEW t \in Tasks, AddUtilized(t)
    PROVE  Serial'
  <1>1. /\ UNCHANGED <<totalLiquidity, totalShares, holders, shares>>
        /\ utilized' \in {utilized, utilized + call[t].amount}
    BY AddUtilizedEffect
  <1>2. PICK r \in Call : Continues(t, "addUtilized", r) /\ r.pc = "idle"
    BY AddUtilizedEffect
  <1>3. Moves(t, r) /\ call[t].pc = "addUtilized" /\ Good(t) /\ Solo(t) /\ Keys
        /\ utilized <= totalLiquidity
    BY <1>2 DEF Continues, Serial
  <1>4. call[t].amount + utilized <= totalLiquidity
    BY <1>3 DEF Good, GoodFor
  <1>5. utilized' <= totalLiquidity
    BY <1>1, <1>3, <1>4, Numbers
  <1>6. InFlight(r) = 0 /\ InFlight(call[t]) = 0
    BY <1>2, <1>3 DEF InFlight
  <1>7. GoodFor(r, shares[OwnerOf[t]], totalLiquidity, totalShares, utilized',
                SumFunction(shares))
    BY <1>2, <1>3, <1>6 DEF Good, GoodFor, Withdrawing, Priced
  <1>8. Keys'
    BY <1>1, <1>3, KeysKept
  <1>9. QED
    BY <1>1, <1>3, <1>5, <1>7, <1>8, Numbers, SerialMoves

\* A release only lowers what is locked, whoever is busy.
LEMMA SerialRelease ==
    ASSUME TypeOK, TypeOK', Serial, NEW t \in Tasks, NEW amount \in Locks,
           ReleaseLiquidity(t, amount)
    PROVE  Serial'
  <1>1. /\ UNCHANGED <<totalLiquidity, totalShares, holders, shares, call>>
        /\ utilized' <= utilized
    BY ReleaseEffect
  <1>2. utilized \in Nat /\ utilized' \in Nat /\ totalLiquidity \in Nat
    BY Numbers, U64Nat DEF TypeOK
  <1>3. utilized' <= totalLiquidity
    BY <1>1, <1>2 DEF Serial
  <1>4. ASSUME NEW u \in Tasks, Good(u) PROVE Good(u)'
    <2>1. call[u].amount \in Nat
      BY Numbers
    <2>2. call[u].amount + utilized <= totalLiquidity
            => call[u].amount + utilized' <= totalLiquidity
      BY <1>1, <1>2, <2>1
    <2>3. QED
      BY <1>1, <1>4, <2>2 DEF Good, GoodFor
  <1>5. \A u \in Tasks : Solo(u) => Solo(u)'
    BY <1>1 DEF Solo
  <1>6. Keys' /\ (Quiet' => Quiet)
    BY <1>1 DEF Serial, Keys, Quiet
  <1>7. QED
    BY <1>1, <1>3, <1>4, <1>5, <1>6 DEF Serial

LEMMA InitS == Init => SInv
  <1>1. ASSUME Init PROVE Serial
    <2>1. CInv
      BY <1>1, InitC
    <2>2. shares = [o \in Owners |-> 0] /\ call = [t \in Tasks |-> IdleCall]
          /\ totalShares = 0 /\ totalLiquidity = 0 /\ utilized = 0
      BY <1>1 DEF Init
    <2>3. SumFunction(shares) = 0
      <3>1. shares \in [Owners -> Int] /\ \A o \in Owners : shares[o] = 0
        BY <2>2
      <3>2. QED
        BY <3>1, OwnersFinite, SumZero
    <2>4. \A t \in Tasks : call[t].pc = "idle"
      BY <2>2, IdleRequest
    <2>5. InitialPrice * 0 <= 0
      BY Parameters
    <2>6. QED
      BY <2>1, <2>2, <2>3, <2>4, <2>5 DEF Serial, CInv
  <1>2. QED
    BY <1>1 DEF SInv

LEMMA StepS ==
    ASSUME TypeOK, TypeOK', SInv, [Next]_vars
    PROVE  SInv'
  <1>1. SUFFICES ASSUME overlaps' = 0 PROVE Serial'
    BY DEF SInv
  <1>2. ASSUME NEW t \in Tasks, Step(t) PROVE Serial'
    <2>1. ASSUME NEW amount \in Deposits, Deposit(t, amount) PROVE Serial'
      <3>1. PICK r \in Call : Arrives(t, r) /\ r.pc = "quoteIn"
        BY <2>1, DepositEffect
      <3>2. Serial /\ Solo(t)
        BY <1>1, <3>1 DEF Arrives, SInv
      <3>3. QED
        BY <3>1, <3>2, SerialArrives
    <2>2. ASSUME NEW amount \in Locks, LockLiquidity(t, amount) PROVE Serial'
      <3>1. PICK r \in Call : Arrives(t, r) /\ r.pc = "readTotalLock"
        BY <2>2, LockEffect
      <3>2. Serial /\ Solo(t)
        BY <1>1, <3>1 DEF Arrives, SInv
      <3>3. QED
        BY <3>1, <3>2, SerialArrives
    <2>3. ASSUME NEW amount \in Locks, ReleaseLiquidity(t, amount) PROVE Serial'
      <3>1. Serial
        BY <1>1, <2>3, ReleaseEffect DEF SInv
      <3>2. QED
        BY <2>3, <3>1, SerialRelease
    <2>4. ASSUME NEW n \in Burns, Withdraw(t, n) PROVE Serial'
      <3>1. PICK r \in Call :
               Arrives(t, r) /\ r.pc = "quoteOut" /\ r.n <= shares[OwnerOf[t]]
        BY <2>4, WithdrawEffect
      <3>2. Serial /\ Solo(t)
        BY <1>1, <3>1 DEF Arrives, SInv
      <3>3. QED
        BY <3>1, <3>2, SerialArrives
    <2>5. ASSUME UNCHANGED overlaps PROVE Serial
      BY <1>1, <2>5 DEF SInv
    <2>6. ASSUME QuoteDeposit(t) \/ AddLiquidity(t) \/ AddShares(t) \/ CreditOwner(t)
          PROVE  Serial'
      <3>1. UNCHANGED overlaps
        BY <2>6 DEF QuoteDeposit, AddLiquidity, AddShares, CreditOwner, At
      <3>2. QED
        BY <2>5, <2>6, <3>1, SerialQuoteDeposit, SerialAddLiquidity, SerialAddShares,
           SerialCreditOwner
    <2>7. ASSUME QuoteWithdrawal(t) \/ SubLiquidity(t) \/ SubShares(t) \/ DebitOwner(t)
          PROVE  Serial'
      <3>1. UNCHANGED overlaps
        BY <2>7 DEF QuoteWithdrawal, SubLiquidity, SubShares, DebitOwner, At
      <3>2. QED
        BY <2>5, <2>7, <3>1, SerialQuoteWithdrawal, SerialSubLiquidity, SerialSubShares,
           SerialDebitOwner
    <2>8. ASSUME ReadTotal(t, "readTotalOut", "checkOut")
                 \/ ReadTotal(t, "readTotalLock", "checkLock")
          PROVE  Serial'
      <3>1. UNCHANGED overlaps
        BY <2>8 DEF ReadTotal, At
      <3>2. QED
        BY <2>5, <2>8, <3>1, SerialReadTotal
    <2>9. ASSUME CheckAvailable(t, "checkOut", "subLiquidity")
                 \/ CheckAvailable(t, "checkLock", "addUtilized")
          PROVE  Serial'
      <3>1. UNCHANGED overlaps
        BY <2>9 DEF CheckAvailable, At
      <3>2. QED
        BY <2>5, <2>9, <3>1, SerialCheckAvailable
    <2>10. ASSUME AddUtilized(t) PROVE Serial'
      <3>1. UNCHANGED overlaps
        BY <2>10 DEF AddUtilized, At
      <3>2. QED
        BY <2>5, <2>10, <3>1, SerialAddUtilized
    <2>11. QED
      BY <1>2, <2>1, <2>2, <2>3, <2>4, <2>6, <2>7, <2>8, <2>9, <2>10 DEF Step
  <1>3. ASSUME UNCHANGED <<Held, call, overlaps>> PROVE Serial'
    <2>1. Serial
      BY <1>1, <1>3 DEF SInv
    <2>2. QED
      BY <1>3, <2>1 DEF Held, Serial, Keys, Quiet, Solo, Good
  <1>4. ASSUME NEW active \in BOOLEAN, SetCircuitBreaker(active) PROVE Serial'
    BY <1>3, <1>4, BreakerEffect
  <1>5. CASE UNCHANGED vars
    BY <1>3, <1>5 DEF vars, Held
  <1>6. QED
    BY <1>2, <1>4, <1>5 DEF Next

\* As long as requests do not overlap, what is locked in contracts is there: the
\* check of available_liquidity() is still true when the withdrawal or the
\* lock that made it takes its effect, whatever is released meanwhile.
THEOREM LockedIsThere == Spec => []Solvent
  <1>1. Init => TypeOK /\ SInv
    BY InitType, InitS
  <1>2. TypeOK /\ SInv /\ [Next]_vars => (TypeOK /\ SInv)'
    BY StepType, StepS
  <1>3. SInv => Solvent
    BY DEF SInv, Serial, Solvent
  <1>4. QED
    BY <1>1, <1>2, <1>3, PTL DEF Spec

\* As long as requests do not overlap, the pool covers every share at the initial
\* price, so share_price() is never 0 and no deposit divides by zero: every
\* rounding of a deposit and of a withdrawal is in favour of the pool.
THEOREM SharesAreBacked == Spec => []Backed
  <1>1. Init => TypeOK /\ SInv
    BY InitType, InitS
  <1>2. TypeOK /\ SInv /\ [Next]_vars => (TypeOK /\ SInv)'
    BY StepType, StepS
  <1>3. TypeOK /\ SInv => Backed
    <2>1. SUFFICES ASSUME TypeOK, SInv, Quiet, overlaps = 0
                   PROVE  totalLiquidity >= InitialPrice * totalShares
      BY DEF Backed
    <2>2. InitialPrice * totalShares <= totalLiquidity
      BY <2>1 DEF SInv, Serial
    <2>3. QED
      BY <2>2
  <1>4. QED
    BY <1>1, <1>2, <1>3, PTL DEF Spec

\* A step of u moves the request of u only, and a request about to be credited or
\* debited has no other step.
LEMMA OnlyOneMoves ==
    ASSUME TypeOK, NEW u \in Tasks, Step(u)
    PROVE  /\ \A v \in Tasks : v # u => call'[v] = call[v]
           /\ call[u].pc \in {"credit", "debit"} => CreditOwner(u) \/ DebitOwner(u)
  <1>1. \A v \in Tasks : v # u => call'[v] = call[v]
    <2>1. \A r : Note(u, r) => \A v \in Tasks : v # u => call'[v] = call[v]
      BY DEF Note, TypeOK
    <2>2. \A pc : Goto(u, pc) => \A v \in Tasks : v # u => call'[v] = call[v]
      BY DEF Goto, TypeOK
    <2>3. Return(u) => \A v \in Tasks : v # u => call'[v] = call[v]
      BY DEF Return, TypeOK
    <2>4. \A r : Begin(u, r) => \A v \in Tasks : v # u => call'[v] = call[v]
      BY DEF Begin, TypeOK
    <2>5. \A amount : Deposit(u, amount) \/ LockLiquidity(u, amount)
                      \/ ReleaseLiquidity(u, amount) \/ Withdraw(u, amount)
                        => \A v \in Tasks : v # u => call'[v] = call[v]
      BY <2>4 DEF Deposit, LockLiquidity, ReleaseLiquidity, Withdraw
    <2>6. QuoteDeposit(u) \/ AddLiquidity(u) \/ AddShares(u) \/ CreditOwner(u)
          \/ QuoteWithdrawal(u) \/ SubLiquidity(u) \/ SubShares(u) \/ DebitOwner(u)
          \/ AddUtilized(u)
            => \A v \in Tasks : v # u => call'[v] = call[v]
      BY <2>1, <2>2, <2>3 DEF QuoteDeposit, AddLiquidity, AddShares, CreditOwner,
         QuoteWithdrawal, SubLiquidity, SubShares, DebitOwner, AddUtilized
    <2>7. \A from, to : ReadTotal(u, from, to) \/ CheckAvailable(u, from, to)
                          => \A v \in Tasks : v # u => call'[v] = call[v]
      BY <2>1, <2>2, <2>3 DEF ReadTotal, CheckAvailable
    <2>8. QED
      BY <2>5, <2>6, <2>7 DEF Step
  <1>2. call[u].pc \in {"credit", "debit"} => CreditOwner(u) \/ DebitOwner(u)
    BY DEF Step, At, Begin, Deposit, LockLiquidity, ReleaseLiquidity, Withdraw,
       QuoteDeposit, AddLiquidity, AddShares, QuoteWithdrawal, SubLiquidity, SubShares,
       AddUtilized, ReadTotal, CheckAvailable
  <1>3. QED
    BY <1>1, <1>2

\* As long as requests do not overlap, no deposit or withdrawal lowers the price
\* of the shares of the others: when it ends, a share is worth at least what it
\* was served at, unless there is no share left.
THEOREM NobodyIsDiluted == Spec => NoDilution
  <1> DEFINE Ends(t) == call[t].pc \in {"credit", "debit"} /\ call'[t].pc = "idle" /\ overlaps = 0
             Undiluted == \A t \in Tasks :
                 Ends(t) => totalShares' = 0 \/ SharePrice' >= call[t].price
  <1>1. Init => TypeOK /\ SInv
    BY InitType, InitS
  <1>2. TypeOK /\ SInv /\ [Next]_vars => (TypeOK /\ SInv)'
    BY StepType, StepS
  <1>3. TypeOK /\ SInv /\ [Next]_vars => [Undiluted]_vars
    <2>1. SUFFICES ASSUME TypeOK, TypeOK', SInv, Next PROVE Undiluted
      BY StepType
    <2>2. SUFFICES ASSUME NEW t \in Tasks, Ends(t)
                   PROVE  totalShares' = 0 \/ SharePrice' >= call[t].price
      OBVIOUS
    <2>3. Serial
      BY <2>1, <2>2 DEF SInv
    <2>4. CASE CreditOwner(t)
      BY <2>1, <2>3, <2>4, SerialCreditOwner
    <2>5. CASE DebitOwner(t)
      BY <2>1, <2>3, <2>5, SerialDebitOwner
    <2>6. ASSUME NEW u \in Tasks, Step(u) PROVE CreditOwner(t) \/ DebitOwner(t)
      <3>1. u = t
        BY <2>1, <2>2, <2>6, OnlyOneMoves
      <3>2. QED
        BY <2>1, <2>2, <2>6, <3>1, OnlyOneMoves
    <2>7. ASSUME NEW active \in BOOLEAN, SetCircuitBreaker(active) PROVE FALSE
      BY <2>2, <2>7 DEF SetCircuitBreaker
    <2>8. QED
      BY <2>1, <2>4, <2>5, <2>6, <2>7 DEF Next
  <1>4. QED
    BY <1>1, <1>2, <1>3, PTL DEF Spec, NoDilution

=============================================================================
