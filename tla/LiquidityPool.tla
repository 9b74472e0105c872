--------------------------- MODULE LiquidityPool ----------------------------
(***************************************************************************)
(* The shared liquidity pool (crates/scp-vault/pool.rs).  Each of its      *)
(* fields is behind an RwLock of its own, and deposit, withdraw and        *)
(* lock_liquidity take and drop these locks one after the other: every     *)
(* critical section is a step here and the calls of different tasks        *)
(* interleave between them.  share_price() alone holds two locks at once,  *)
(* so it reads a consistent pair.                                          *)
(*                                                                         *)
(* Amounts are u64: sums and products wrap at Word, as the release build   *)
(* does, except where the code uses checked_add or checked_sub.            *)
(* Spread, metrics and timestamps are left out: nothing here reads them.   *)
(***************************************************************************)
EXTENDS Integers, FiniteSets, Functions

CONSTANTS
    Tasks,          \* tasks that hold an Arc of the pool
    OwnerOf,        \* OwnerOf[t]: the liquidity provider task t serves
    Deposits,       \* amounts deposits are requested for, in satoshis
    Locks,          \* amounts contracts lock and release
    Burns,          \* numbers of shares whose withdrawal is requested
    MinDeposit,     \* PoolConfig.min_deposit
    InitialPrice,   \* the price of a share while there is none
    Word,           \* 2^64
    MaxOverlaps     \* bound: requests begun while another is in progress

Owners == {OwnerOf[t] : t \in Tasks}

ASSUME TasksAssumption == IsFiniteSet(Tasks)
ASSUME AmountsAssumption ==
    /\ Word \in Nat \ {0}
    /\ Deposits \subseteq 0 .. Word - 1
    /\ Locks \subseteq 0 .. Word - 1
    /\ Burns \subseteq 0 .. Word - 1
    /\ MinDeposit \in Nat
    /\ InitialPrice \in 1 .. Word - 1

VARIABLES
    totalLiquidity, totalShares, utilized, circuitBreaker,
    holders,        \* the keys of the map `shares`
    shares,         \* shares[o], 0 where o is no key
    call,           \* the request each task is serving
    overlaps        \* history: requests begun while another was in progress

vars == <<totalLiquidity, totalShares, utilized, circuitBreaker, holders, shares,
          call, overlaps>>

U64 == 0 .. Word - 1

\* amount: satoshis in or out; n: shares in or out; price: as quoted;
\* seen: total_liquidity as available_liquidity() read it.
Call == [pc: {"idle", "quoteIn", "addLiquidity", "addShares", "credit",
              "quoteOut", "readTotalOut", "checkOut", "subLiquidity",
              "subShares", "debit", "readTotalLock", "checkLock", "addUtilized"},
         amount: U64, n: U64, price: U64, seen: U64]

IdleCall == [pc |-> "idle", amount |-> 0, n |-> 0, price |-> 0, seen |-> 0]

\* Type invariant: the totals and the shares of pool.rs fit their u64 fields.
TypeOK ==
    /\ totalLiquidity \in U64 /\ totalShares \in U64 /\ utilized \in U64
    /\ circuitBreaker \in BOOLEAN
    /\ holders \subseteq Owners
    /\ shares \in [Owners -> U64]
    /\ call \in [Tasks -> Call]
    /\ overlaps \in Nat

Init ==
    /\ totalLiquidity = 0 /\ totalShares = 0 /\ utilized = 0
    /\ circuitBreaker = FALSE
    /\ holders = {}
    /\ shares = [o \in Owners |-> 0]
    /\ call = [t \in Tasks |-> IdleCall]
    /\ overlaps = 0

Wrap(n) == n % Word
WrapSub(m, n) == (m + Word - n) % Word
SaturatingSub(m, n) == IF n <= m THEN m - n ELSE 0

SharePrice ==
    IF totalShares = 0 THEN InitialPrice ELSE totalLiquidity \div totalShares

-----------------------------------------------------------------------------
Alone(t) == \A u \in Tasks \ {t} : call[u].pc = "idle"

\* A request arrives; its checks before the first lock have passed.
Begin(t, request) ==
    /\ call[t].pc = "idle"
    /\ call' = [call EXCEPT ![t] = request]
    /\ \/ Alone(t) /\ UNCHANGED overlaps
       \/ ~Alone(t) /\ overlaps < MaxOverlaps /\ overlaps' = overlaps + 1

At(t, pc) == call[t].pc = pc /\ UNCHANGED overlaps

\* The task goes on with its request at pc, having noted what it read.
Goto(t, pc) == call' = [call EXCEPT ![t].pc = pc]
Note(t, request) == call' = [call EXCEPT ![t] = request]
Return(t) == call' = [call EXCEPT ![t] = IdleCall]

-----------------------------------------------------------------------------
(* deposit(depositor, amount)                                              *)

Deposit(t, amount) ==
    /\ ~circuitBreaker
    /\ amount >= MinDeposit
    /\ Begin(t, [IdleCall EXCEPT !.pc = "quoteIn", !.amount = amount])
    /\ UNCHANGED <<totalLiquidity, totalShares, utilized, circuitBreaker, holders, shares>>

\* Variant: the shares of a deposit are rounded up.
QuoteDepositUp(t) ==
    /\ At(t, "quoteIn")
    /\ LET req == call[t] IN
       \/ /\ SharePrice > 0
          /\ Note(t, [req EXCEPT !.pc = "addLiquidity", !.price = SharePrice,
                        !.n = (req.amount + SharePrice - 1) \div SharePrice])
       \/ SharePrice = 0 /\ Return(t)
    /\ UNCHANGED <<totalLiquidity, totalShares, utilized, circuitBreaker, holders, shares>>

\* amount / share_price: a price of 0 is a division by zero, and the task
\* unwinds with no lock held.
QuoteDeposit(t) ==
    /\ At(t, "quoteIn")
    /\ LET req == call[t] IN
       \/ /\ SharePrice > 0
          /\ Note(t, [req EXCEPT !.pc = "addLiquidity", !.price = SharePrice,
                        !.n = req.amount \div SharePrice])
       \/ SharePrice = 0 /\ Return(t)
    /\ UNCHANGED <<totalLiquidity, totalShares, utilized, circuitBreaker, holders, shares>>

\* Variant: a saturating sum, and the deposit goes on.
AddLiquiditySaturating(t) ==
    /\ At(t, "addLiquidity")
    /\ LET sum == totalLiquidity + call[t].amount IN
           totalLiquidity' = IF sum < Word THEN sum ELSE Word - 1
    /\ Goto(t, "addShares")
    /\ UNCHANGED <<totalShares, utilized, circuitBreaker, holders, shares>>

\* checked_add: on overflow deposit returns Err before it has minted a share.
AddLiquidity(t) ==
    /\ At(t, "addLiquidity")
    /\ LET sum == totalLiquidity + call[t].amount IN
       \/ /\ sum < Word
          /\ totalLiquidity' = sum
          /\ Goto(t, "addShares")
       \/ /\ sum >= Word
          /\ Return(t)
          /\ UNCHANGED totalLiquidity
    /\ UNCHANGED <<totalShares, utilized, circuitBreaker, holders, shares>>

AddShares(t) ==
    /\ At(t, "addShares")
    /\ totalShares' = Wrap(totalShares + call[t].n)
    /\ Goto(t, "credit")
    /\ UNCHANGED <<totalLiquidity, utilized, circuitBreaker, holders, shares>>

\* The LargeDeposit event that may follow belongs to module AgentVault.
CreditOwner(t) ==
    /\ At(t, "credit")
    /\ shares' = [shares EXCEPT ![OwnerOf[t]] = Wrap(@ + call[t].n)]
    /\ holders' = holders \cup {OwnerOf[t]}
    /\ Return(t)
    /\ UNCHANGED <<totalLiquidity, totalShares, utilized, circuitBreaker>>

-----------------------------------------------------------------------------
(* withdraw(owner, shares_to_burn)                                         *)

Withdraw(t, n) ==
    /\ n <= shares[OwnerOf[t]]
    /\ Begin(t, [IdleCall EXCEPT !.pc = "quoteOut", !.n = n])
    /\ UNCHANGED <<totalLiquidity, totalShares, utilized, circuitBreaker, holders, shares>>

QuoteWithdrawal(t) ==
    /\ At(t, "quoteOut")
    /\ Note(t, [call[t] EXCEPT !.pc = "readTotalOut", !.price = SharePrice,
                               !.amount = Wrap(call[t].n * SharePrice)])
    /\ UNCHANGED <<totalLiquidity, totalShares, utilized, circuitBreaker, holders, shares>>

\* Variant: a withdrawal is held against all liquidity, locked or not.
CheckTotalOnly(t, from, to) ==
    /\ At(t, from)
    /\ \/ call[t].amount <= call[t].seen /\ Goto(t, to)
       \/ call[t].amount > call[t].seen /\ Return(t)
    /\ UNCHANGED <<totalLiquidity, totalShares, utilized, circuitBreaker, holders, shares>>

\* available_liquidity(): two reads, in withdraw and in lock_liquidity.
ReadTotal(t, from, to) ==
    /\ At(t, from)
    /\ Note(t, [call[t] EXCEPT !.pc = to, !.seen = totalLiquidity])
    /\ UNCHANGED <<totalLiquidity, totalShares, utilized, circuitBreaker, holders, shares>>

CheckAvailable(t, from, to) ==
    /\ At(t, from)
    /\ LET available == SaturatingSub(call[t].seen, utilized) IN
       \/ call[t].amount <= available /\ Goto(t, to)
       \/ call[t].amount > available /\ Return(t)
    /\ UNCHANGED <<totalLiquidity, totalShares, utilized, circuitBreaker, holders, shares>>

\* Variant: the check against the available liquidity is taken to be enough.
SubLiquidityUnchecked(t) ==
    /\ At(t, "subLiquidity")
    /\ totalLiquidity' = totalLiquidity - call[t].amount
    /\ Goto(t, "subShares")
    /\ UNCHANGED <<totalShares, utilized, circuitBreaker, holders, shares>>

\* checked_sub: available_liquidity() may have been overtaken by another task.
SubLiquidity(t) ==
    /\ At(t, "subLiquidity")
    /\ \/ /\ call[t].amount <= totalLiquidity
          /\ totalLiquidity' = totalLiquidity - call[t].amount
          /\ Goto(t, "subShares")
       \/ /\ call[t].amount > totalLiquidity
          /\ Return(t)
          /\ UNCHANGED totalLiquidity
    /\ UNCHANGED <<totalShares, utilized, circuitBreaker, holders, shares>>

SubShares(t) ==
    /\ At(t, "subShares")
    /\ totalShares' = WrapSub(totalShares, call[t].n)
    /\ Goto(t, "debit")
    /\ UNCHANGED <<totalLiquidity, utilized, circuitBreaker, holders, shares>>

\* Variant: the entry of the owner goes whatever is left on it.
DebitAll(t) ==
    /\ At(t, "debit")
    /\ shares' = [shares EXCEPT ![OwnerOf[t]] = 0]
    /\ holders' = holders \ {OwnerOf[t]}
    /\ Return(t)
    /\ UNCHANGED <<totalLiquidity, totalShares, utilized, circuitBreaker>>

\* An owner without an entry is passed over; an entry at 0 is removed.
DebitOwner(t) ==
    LET o == OwnerOf[t]
        left == WrapSub(shares[o], call[t].n)
    IN  /\ At(t, "debit")
        /\ \/ /\ o \in holders
              /\ shares' = [shares EXCEPT ![o] = left]
              /\ holders' = IF left = 0 THEN holders \ {o} ELSE holders
           \/ /\ o \notin holders
              /\ UNCHANGED <<shares, holders>>
        /\ Return(t)
        /\ UNCHANGED <<totalLiquidity, totalShares, utilized, circuitBreaker>>

-----------------------------------------------------------------------------
(* lock_liquidity(amount), release_liquidity(amount), the circuit breaker  *)

LockLiquidity(t, amount) ==
    /\ Begin(t, [IdleCall EXCEPT !.pc = "readTotalLock", !.amount = amount])
    /\ UNCHANGED <<totalLiquidity, totalShares, utilized, circuitBreaker, holders, shares>>

AddUtilized(t) ==
    /\ At(t, "addUtilized")
    /\ utilized' = IF utilized + call[t].amount < Word
                   THEN utilized + call[t].amount ELSE utilized
    /\ Return(t)
    /\ UNCHANGED <<totalLiquidity, totalShares, circuitBreaker, holders, shares>>

\* One critical section; releasing more than is locked leaves nothing locked.
ReleaseLiquidity(t, amount) ==
    /\ At(t, "idle")
    /\ utilized' = SaturatingSub(utilized, amount)
    /\ UNCHANGED <<totalLiquidity, totalShares, circuitBreaker, holders, shares, call>>

SetCircuitBreaker(active) ==
    /\ circuitBreaker # active
    /\ circuitBreaker' = active
    /\ UNCHANGED <<totalLiquidity, totalShares, utilized, holders, shares, call, overlaps>>

-----------------------------------------------------------------------------
Step(t) ==
    \/ \E amount \in Deposits : Deposit(t, amount)
    \/ \E amount \in Locks : LockLiquidity(t, amount) \/ ReleaseLiquidity(t, amount)
    \/ \E n \in Burns : Withdraw(t, n)
    \/ QuoteDeposit(t)
    \/ AddLiquidity(t)
    \/ AddShares(t)
    \/ CreditOwner(t)
    \/ QuoteWithdrawal(t)
    \/ ReadTotal(t, "readTotalOut", "checkOut")
    \/ CheckAvailable(t, "checkOut", "subLiquidity")
    \/ SubLiquidity(t)
    \/ SubShares(t)
    \/ DebitOwner(t)
    \/ ReadTotal(t, "readTotalLock", "checkLock")
    \/ CheckAvailable(t, "checkLock", "addUtilized")
    \/ AddUtilized(t)

Next ==
    \/ \E t \in Tasks : Step(t)
    \/ \E active \in BOOLEAN : SetCircuitBreaker(active)

Spec == Init /\ [][Next]_vars

-----------------------------------------------------------------------------
(* Correctness.                                                            *)

Quiet == \A t \in Tasks : call[t].pc = "idle"

\* "Total shares outstanding" (pool.rs): when no request is in progress, the
\* total is exactly (as a u64) what the providers hold.  It is kept in two
\* places under two locks, and updated at two different times.
SharesConserved ==
    Quiet => totalShares = Wrap(SumFunction(shares))

\* As long as requests do not overlap, rounding never works against the
\* pool: what it holds covers every share at the initial price.  Hence
\* share_price() is never 0, and no deposit divides by zero.
Backed ==
    Quiet /\ overlaps = 0 => totalLiquidity >= InitialPrice * totalShares

\* As long as requests do not overlap, no deposit or withdrawal lowers the
\* price of the shares of the others: at its end a share is worth at least
\* the price it was served at (or there is no share left).
NoDilution ==
    [][\A t \in Tasks :
           (call[t].pc \in {"credit", "debit"} /\ call'[t].pc = "idle" /\ overlaps = 0)
           => totalShares' = 0 \/ SharePrice' >= call[t].price]_vars

\* As long as requests do not overlap, what is locked in contracts is there:
\* no withdrawal and no further lock takes it (available_liquidity).
Solvent == overlaps = 0 => utilized <= totalLiquidity

=============================================================================
