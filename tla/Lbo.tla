-------------------------------- MODULE Lbo ---------------------------------
(***************************************************************************)
(* The liquidity bootstrapping offering (crates/scp-economics/src/lbo.rs). *)
(* A contributor submits proofs of liquidity and later claims tokens for   *)
(* the proofs not yet claimed.  Contributions, the total raised and the    *)
(* total distributed have locks of their own; submit_proof() and claim()   *)
(* take them one after the other, and each critical section is a step.     *)
(* token.mint() is one step here: Economics has its two sections.          *)
(*                                                                         *)
(* Satoshis and tokens are u64: a sum that does not fit wraps, as in a     *)
(* release build, and the bounds are compared with such sums.              *)
(***************************************************************************)
EXTENDS Naturals, Sequences, SequencesExt

CONSTANTS
    LboTasks,           \* tasks that share the offering
    ContributorOf,      \* ContributorOf[t]: whom task t serves
    ProofAmounts,       \* satoshis of one proof
    MinContribution, MaxContribution,   \* LboConfig, per participant
    RateNum, RateDen,   \* LboConfig.tokens_per_sat as a fraction
    TotalAllocation,    \* LboConfig.total_allocation
    LboMaxSupply,       \* CtdlToken.max_supply
    LboWord,            \* 2^64
    MaxProofs           \* bound: proofs of one contributor

Contributors == {ContributorOf[t] : t \in LboTasks}

ASSUME LboAssumption ==
    /\ IsFiniteSet(LboTasks)
    /\ LboWord \in Nat \ {0}
    /\ ProofAmounts \subseteq 1 .. (LboWord - 1)
    /\ MinContribution \in 0 .. (LboWord - 1) /\ MaxContribution \in 0 .. (LboWord - 1)
    /\ RateNum \in Nat /\ RateDen \in Nat \ {0}
    /\ TotalAllocation \in 0 .. (LboWord - 1) /\ LboMaxSupply \in 0 .. (LboWord - 1)
    /\ MaxProofs \in Nat

VARIABLES
    phase,                  \* now() against start_time and end_time
    contributions,          \* the proofs of each contributor
    totalRaised,
    tokensDistributed,
    lboSupply, lboBalance,  \* the token: total_supply, balances
    lboCall,                \* the request each task is serving
    paidProofs,             \* history: the proofs some claim minted for
    paidTwice,              \* history: contributors a proof was minted for twice
    claimsMet,              \* history: contributors two of whose claims overlapped
    submitsMet,             \* history: the same for two submissions
    countsMet,              \* history: a claim passed the allocation check while
                            \* another had passed it and was not counted yet
    submitsWrapped,         \* history: contributors with a proof that was admitted
                            \* on a total that wrapped
    claimsWrapped           \* history: a claim passed the allocation check on a sum
                            \* that wrapped

lboHistory == <<paidProofs, paidTwice, claimsMet, submitsMet, countsMet, submitsWrapped,
                claimsWrapped>>
lboVars == <<phase, contributions, totalRaised, tokensDistributed, lboSupply,
             lboBalance, lboCall, lboHistory>>

LboU64 == 0 .. (LboWord - 1)
LboWrap(n) == n % LboWord

LiquidityProof == [amount: ProofAmounts, claimed: BOOLEAN]

\* marks: the indices a claim is to mark; amount: satoshis of a submission,
\* tokens of a claim.
LboRequest == [pc: {"idle", "push", "raise", "allocation", "mint", "mark", "count"},
               amount: LboU64, claimed: BOOLEAN, marks: SUBSET Nat]

NoRequest == [pc |-> "idle", amount |-> 0, claimed |-> FALSE, marks |-> {}]

\* Type invariant of the offering: the supply keeps its cap.
LboTypeOK ==
    /\ phase \in {"before", "active", "after"}
    /\ contributions \in [Contributors -> Seq(LiquidityProof)]
    /\ totalRaised \in LboU64 /\ tokensDistributed \in LboU64
    /\ lboSupply \in 0 .. LboMaxSupply
    /\ lboBalance \in [Contributors -> LboU64]
    /\ lboCall \in [LboTasks -> LboRequest]
    /\ paidProofs \in [Contributors -> SUBSET Nat]
    /\ paidTwice \subseteq Contributors
    /\ claimsMet \subseteq Contributors /\ submitsMet \subseteq Contributors
    /\ countsMet \in BOOLEAN
    /\ submitsWrapped \subseteq Contributors /\ claimsWrapped \in BOOLEAN

LboInit ==
    /\ phase = "before"
    /\ contributions = [c \in Contributors |-> <<>>]
    /\ totalRaised = 0 /\ tokensDistributed = 0
    /\ lboSupply = 0 /\ lboBalance = [c \in Contributors |-> 0]
    /\ lboCall = [t \in LboTasks |-> NoRequest]
    /\ paidProofs = [c \in Contributors |-> {}]
    /\ paidTwice = {} /\ claimsMet = {} /\ submitsMet = {}
    /\ countsMet = FALSE
    /\ submitsWrapped = {} /\ claimsWrapped = FALSE

LboAt(t, pc) == lboCall[t].pc = pc
LboGoto(t, pc) == lboCall' = [lboCall EXCEPT ![t].pc = pc]
LboReturn(t) == lboCall' = [lboCall EXCEPT ![t] = NoRequest]

\* Another task is inside the given steps of a request; for the same contributor.
Another(t, steps) == \E u \in LboTasks \ {t} : lboCall[u].pc \in steps
Sibling(t, steps) ==
    \E u \in LboTasks \ {t} :
        ContributorOf[u] = ContributorOf[t] /\ lboCall[u].pc \in steps

SatsOf(proofs, indices) == SumFunction([i \in indices |-> proofs[i].amount])

\* What a contributor has proved, and that as participant_total() sums it.
Contributed(c) == SatsOf(contributions[c], DOMAIN contributions[c])
ParticipantTotal(c) == LboWrap(Contributed(c))

Unclaimed(c) == {i \in DOMAIN contributions[c] : ~contributions[c][i].claimed}

\* (sats as f64 * tokens_per_sat) as u64: the cast saturates.  Rounding is that of
\* whole numbers.
TokensFor(sats) ==
    LET tokens == (sats * RateNum) \div RateDen
    IN  IF tokens < LboWord THEN tokens ELSE LboWord - 1

-----------------------------------------------------------------------------
(* The clock passes start_time and end_time.                               *)
LboClock ==
    /\ \/ phase = "before" /\ phase' = "active"
       \/ phase = "active" /\ phase' = "after"
    /\ UNCHANGED <<contributions, totalRaised, tokensDistributed, lboSupply,
                   lboBalance, lboCall, lboHistory>>

-----------------------------------------------------------------------------
(* submit_proof: is_active() and the bounds, push, total raised.  The      *)
(* claimed flag is the caller's.                                           *)

BeginSubmit(t, amount, claimed) ==
    /\ LboAt(t, "idle")
    /\ phase = "active"
    /\ Len(contributions[ContributorOf[t]]) < MaxProofs
    /\ lboCall' = [lboCall EXCEPT ![t] = [NoRequest EXCEPT !.pc = "push",
                                            !.amount = amount, !.claimed = claimed]]
    /\ submitsMet' = submitsMet \cup
                       {c \in {ContributorOf[t]} : Sibling(t, {"push"})}
    /\ submitsWrapped' = submitsWrapped \cup
                           {c \in {ContributorOf[t]} : ParticipantTotal(c) + amount >= LboWord}
    /\ UNCHANGED <<phase, contributions, totalRaised, tokensDistributed, lboSupply,
                   lboBalance, paidProofs, paidTwice, claimsMet, countsMet, claimsWrapped>>

\* Variant: the maximum is tested on the new proof alone.
SubmitCheckProofOnly(t, amount, claimed) ==
    /\ LboWrap(ParticipantTotal(ContributorOf[t]) + amount) >= MinContribution
    /\ amount <= MaxContribution
    /\ BeginSubmit(t, amount, claimed)

SubmitProof(t, amount, claimed) ==
    /\ LboWrap(ParticipantTotal(ContributorOf[t]) + amount)
         \in MinContribution .. MaxContribution
    /\ BeginSubmit(t, amount, claimed)

SubmitPush(t) ==
    /\ LboAt(t, "push")
    /\ contributions' = [contributions EXCEPT ![ContributorOf[t]] =
                          Append(@, [amount |-> lboCall[t].amount,
                                     claimed |-> lboCall[t].claimed])]
    /\ LboGoto(t, "raise")
    /\ UNCHANGED <<phase, totalRaised, tokensDistributed, lboSupply, lboBalance,
                   lboHistory>>

SubmitRaise(t) ==
    /\ LboAt(t, "raise")
    /\ totalRaised' = LboWrap(totalRaised + lboCall[t].amount)
    /\ LboReturn(t)
    /\ UNCHANGED <<phase, contributions, tokensDistributed, lboSupply, lboBalance,
                   lboHistory>>

-----------------------------------------------------------------------------
(* claim: read the unclaimed proofs, test the allocation, mint, mark, count. *)
(* A request that is refused returns; nothing it did has to be undone.     *)

Claim(t) ==
    LET c == ContributorOf[t] IN
    /\ LboAt(t, "idle")
    /\ Unclaimed(c) # {}
    /\ lboCall' = [lboCall EXCEPT ![t] =
                    [NoRequest EXCEPT !.pc = "allocation", !.marks = Unclaimed(c),
                       !.amount = TokensFor(LboWrap(SatsOf(contributions[c], Unclaimed(c))))]]
    /\ claimsMet' = claimsMet \cup
                      {d \in {c} : Sibling(t, {"allocation", "mint", "mark"})}
    /\ UNCHANGED <<phase, contributions, totalRaised, tokensDistributed, lboSupply,
                   lboBalance, paidProofs, paidTwice, submitsMet, countsMet,
                   submitsWrapped, claimsWrapped>>

CheckAllocation(t, exhausted) ==
    /\ LboAt(t, "allocation")
    /\ IF exhausted
       THEN LboReturn(t) /\ UNCHANGED <<countsMet, claimsWrapped>>
       ELSE /\ LboGoto(t, "mint")
            /\ countsMet' = (countsMet \/ Another(t, {"mint", "mark", "count"}))
            /\ claimsWrapped' =
                 (claimsWrapped \/ tokensDistributed + lboCall[t].amount >= LboWord)
    /\ UNCHANGED <<phase, contributions, totalRaised, tokensDistributed, lboSupply,
                   lboBalance, paidProofs, paidTwice, claimsMet, submitsMet, submitsWrapped>>

\* Variant: the tokens of this claim are not added before the comparison.
ClaimAllocationLate(t) == CheckAllocation(t, tokensDistributed > TotalAllocation)

ClaimAllocation(t) ==
    CheckAllocation(t, LboWrap(tokensDistributed + lboCall[t].amount) > TotalAllocation)

\* Variant: the supply is compared before the mint only.
SupplyExceeded(t) == lboSupply > LboMaxSupply

\* token.mint() refuses to exceed its supply: nothing is marked then.
MintRefused(t) == LboWrap(lboSupply + lboCall[t].amount) > LboMaxSupply

ClaimMint(t) ==
    LET c == ContributorOf[t] IN
    /\ LboAt(t, "mint")
    /\ IF MintRefused(t)
       THEN /\ LboReturn(t)
            /\ UNCHANGED <<lboSupply, lboBalance, paidProofs, paidTwice>>
       ELSE /\ lboSupply' = LboWrap(lboSupply + lboCall[t].amount)
            /\ lboBalance' = [lboBalance EXCEPT ![c] = LboWrap(@ + lboCall[t].amount)]
            /\ paidProofs' = [paidProofs EXCEPT ![c] = @ \cup lboCall[t].marks]
            /\ paidTwice' = paidTwice \cup
                              {d \in {c} : paidProofs[c] \cap lboCall[t].marks # {}}
            /\ LboGoto(t, "mark")
    /\ UNCHANGED <<phase, contributions, totalRaised, tokensDistributed, claimsMet,
                   submitsMet, countsMet, submitsWrapped, claimsWrapped>>

MarkClaimed(t, indices) ==
    /\ LboAt(t, "mark")
    /\ contributions' = [contributions EXCEPT ![ContributorOf[t]] =
                          [i \in DOMAIN @ |->
                             IF i \in indices THEN [@[i] EXCEPT !.claimed = TRUE] ELSE @[i]]]
    /\ LboGoto(t, "count")
    /\ UNCHANGED <<phase, totalRaised, tokensDistributed, lboSupply, lboBalance,
                   lboHistory>>

\* Variant: positions in the list of unclaimed proofs, taken for indices.
ClaimMarkByPosition(t) == MarkClaimed(t, 1 .. Cardinality(lboCall[t].marks))

ClaimMark(t) == MarkClaimed(t, lboCall[t].marks)

ClaimCount(t) ==
    /\ LboAt(t, "count")
    /\ tokensDistributed' = LboWrap(tokensDistributed + lboCall[t].amount)
    /\ LboReturn(t)
    /\ UNCHANGED <<phase, contributions, totalRaised, lboSupply, lboBalance, lboHistory>>

-----------------------------------------------------------------------------
LboNext ==
    \/ LboClock
    \/ \E t \in LboTasks :
         \/ \E amount \in ProofAmounts, claimed \in BOOLEAN : SubmitProof(t, amount, claimed)
         \/ SubmitPush(t) \/ SubmitRaise(t)
         \/ Claim(t) \/ ClaimAllocation(t) \/ ClaimMint(t) \/ ClaimMark(t) \/ ClaimCount(t)

LboSpec == LboInit /\ [][LboNext]_lboVars

-----------------------------------------------------------------------------
(* Properties.                                                             *)

\* No proof is minted for twice (lbo.rs:140-193), unless two claims of its
\* contributor overlapped between reading the proofs and marking them.
ProofsMintedOnce == paidTwice \subseteq claimsMet

\* All that claim() mints for the contributors stays within the allocation
\* (lbo.rs:169-199), unless a claim passed the check while another had passed it and
\* was not yet counted, or passed it on a sum that wrapped.
AllocationKept ==
    ~countsMet /\ ~claimsWrapped => SumFunction(lboBalance) <= TotalAllocation

\* A contributor's proofs stay within the maximum (lbo.rs:100-123), unless two
\* submissions of that contributor overlapped, or one was admitted on a total that
\* wrapped.
ContributionCapped ==
    \A c \in Contributors \ (submitsMet \cup submitsWrapped) :
        Contributed(c) <= MaxContribution
=============================================================================
