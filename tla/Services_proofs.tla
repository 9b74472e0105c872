--------------------------- MODULE Services_proofs --------------------------
(***************************************************************************)
(* Proofs about the services of MCServices that are not keystores, each in *)
(* its section, and about all of them together.                            *)
(*                                                                         *)
(* Lbo: for any number of tasks and contributors, any amounts and limits,  *)
(* no proof is minted for twice, the allocation is kept and a contributor  *)
(* stays within the maximum, outside of the overlaps and the wrapped sums  *)
(* the properties name.  A proof that was paid is marked, or is about to   *)
(* be by the one task of its contributor that is past the mint             *)
(* (PaidMarked); so what a claim reads as unclaimed has not been paid      *)
(* (MarksUnpaid).  While no two claims overlapped there and no sum of      *)
(* theirs wrapped (Kept), the supply exceeds the count of distributed      *)
(* tokens by what the one task between mint and count holds, and is the    *)
(* sum of the balances (SupplyCounted).  A contributor's proofs stay       *)
(* within the maximum together with the one submission that is past the    *)
(* check (CapInv).                                                         *)
(*                                                                         *)
(* WalletSession: for any timeout, checking period and polling period, an  *)
(* idle wallet is closed in time, and one whose window keeps asking is not *)
(* closed.  An open keystore has been idle for no longer than the timeout  *)
(* and the time since the last check (IdleBound); a main view that has     *)
(* asked has been idle for no longer than since it asked (PollBound).      *)
(*                                                                         *)
(* EconomicsFiles: the types, that the next process finds on disk what the *)
(* last command reported as done left in memory, and that a command cut    *)
(* short between its saves gives nothing away.  While no two processes     *)
(* were alive at once, none was cut short and no failing save was passed   *)
(* over (Good), at most one process is alive, and it knows the disk        *)
(* (Knows): the files it has already saved, or does not save, say what its *)
(* memory says; the others are complete, except the one it has truncated.  *)
(* That a command of the CLI changes no part it does not save is the       *)
(* content of CommandRuns.  Crashes allowed (Calm), what is on disk is     *)
(* compared with the memory being saved, file by file in the order of the  *)
(* saves (Saves).                                                          *)
(*                                                                         *)
(* PayoutCurve: for any outcomes, amounts and collateral and any number of *)
(* points, what a valid curve pays.  The fold that looks for the nearest   *)
(* point has a table as its value; that the table exists, and that its     *)
(* entry is a nearest point, are inductions on the set of points           *)
(* (NearestTableExists, ClosestIsNearest).  A line rises from no pay to    *)
(* all of its own total, and pays within one unit of itself (LinearPays,   *)
(* LinearRises).  With both amounts of a binary curve within the           *)
(* collateral, the sum that validate tests has not wrapped (BinarySum).    *)
(*                                                                         *)
(* OracleQuorum: the types only; what a quorum of the code stands for is a *)
(* violation run.                                                          *)
(*                                                                         *)
(* Together: one service runs and the others keep their initial state, so  *)
(* a behaviour of MCServices is one of each service (EachServiceRuns), and *)
(* every theorem of these two modules holds of it.                         *)
(***************************************************************************)
EXTENDS MCServices, Keystores_proofs, Arithmetic, SequenceTheorems

-----------------------------------------------------------------------------
(* Lbo.                                                                    *)

Claiming(t) == lboCall[t].pc \in {"allocation", "mint", "mark"}
Counting(t) == lboCall[t].pc \in {"mint", "mark", "count"}

\* A submission on its way holds the amount of a proof.
PushAmounts == \A t \in LboTasks : LboAt(t, "push") => lboCall[t].amount \in ProofAmounts

OneClaim(c) ==
    \A t, u \in LboTasks :
        ContributorOf[t] = c /\ ContributorOf[u] = c /\ Claiming(t) /\ Claiming(u) => t = u

MarksUnpaid(c) ==
    \A t \in LboTasks :
        ContributorOf[t] = c /\ Claiming(t) =>
            /\ lboCall[t].marks \subseteq DOMAIN contributions[c]
            /\ ~LboAt(t, "mark") => lboCall[t].marks \cap paidProofs[c] = {}

PaidMarked(c) ==
    \A i \in paidProofs[c] :
        /\ i \in DOMAIN contributions[c]
        /\ \/ contributions[c][i].claimed
           \/ \E t \in LboTasks :
                ContributorOf[t] = c /\ LboAt(t, "mark") /\ i \in lboCall[t].marks

MintInv ==
    /\ ProofsMintedOnce
    /\ \A c \in Contributors \ claimsMet : OneClaim(c) /\ MarksUnpaid(c) /\ PaidMarked(c)

OneCount == \A t, u \in LboTasks : Counting(t) /\ Counting(u) => t = u

\* No claim overlapped another between check and count, none passed on a wrapped sum.
Kept == ~countsMet /\ ~claimsWrapped

SupplyCounted ==
    /\ \A t \in LboTasks :
         /\ LboAt(t, "mint") => /\ lboSupply = tokensDistributed
                                /\ lboSupply + lboCall[t].amount <= TotalAllocation
         /\ lboCall[t].pc \in {"mark", "count"} =>
              lboSupply = tokensDistributed + lboCall[t].amount
    /\ (\A t \in LboTasks : ~Counting(t)) => lboSupply = tokensDistributed
    /\ lboSupply <= TotalAllocation
    /\ SumFunction(lboBalance) = lboSupply

CountInv == Kept => OneCount /\ SupplyCounted

LboTyped == LboTypeOK /\ PushAmounts

-----------------------------------------------------------------------------
(* Types.                                                                  *)

LEMMA LboWraps ==
    ASSUME NEW n \in Nat
    PROVE  LboWrap(n) \in LboU64 /\ LboWrap(n) \in Nat /\ (n < LboWord => LboWrap(n) = n)
  BY LboAssumption, ModAtMost DEF LboWrap, LboU64

LEMMA LboWords == \A n \in LboU64 : n \in Nat /\ n < LboWord
  BY LboAssumption DEF LboU64

\* The cast yields a u64: sums of proofs are natural numbers.
LEMMA TokensTyped ==
    ASSUME NEW sats \in Nat
    PROVE  TokensFor(sats) \in LboU64
  <1> DEFINE tokens == (sats * RateNum) \div RateDen
  <1>1. RateNum \in Nat /\ RateDen \in Nat /\ RateDen > 0 /\ LboWord \in Nat /\ LboWord > 0
    BY LboAssumption
  <1>2. sats * RateNum \in Nat
    BY <1>1, ProductNat
  <1>3. tokens \in Nat
    BY <1>1, <1>2, DivNat
  <1>4. TokensFor(sats) = IF tokens < LboWord THEN tokens ELSE LboWord - 1
    BY DEF TokensFor
  <1> HIDE DEF tokens
  <1>5. QED
    BY <1>1, <1>3, <1>4 DEF LboU64

LEMMA ContributorsFinite == IsFiniteSet(Contributors)
  <1> DEFINE serves == [t \in LboTasks |-> ContributorOf[t]]
  <1>1. serves \in Surjection(LboTasks, Contributors)
    BY DEF Surjection, Contributors
  <1>2. QED
    BY <1>1, LboAssumption, FS_Surjection

LEMMA ProofAmount ==
    ASSUME NEW proof \in LiquidityProof
    PROVE  proof.amount \in Int /\ proof.amount \in Nat /\ proof.amount \in LboU64
  <1>1. proof.amount \in ProofAmounts
    BY DEF LiquidityProof
  <1>2. proof.amount \in 1 .. (LboWord - 1) /\ LboWord \in Nat
    BY <1>1, LboAssumption
  <1>3. QED
    BY <1>2 DEF LboU64

\* What some proofs of a list amount to.
LEMMA SatsNat ==
    ASSUME NEW proofs \in Seq(LiquidityProof), NEW D \in SUBSET DOMAIN proofs
    PROVE  SatsOf(proofs, D) \in Nat
  <1> DEFINE f == [i \in D |-> proofs[i].amount]
  <1>1. \A i \in D : proofs[i] \in LiquidityProof
    BY ElementOfSeq
  <1>2. f \in [D -> Nat]
    BY <1>1, ProofAmount
  <1>3. IsFiniteSet(D)
    <2>1. Len(proofs) \in Nat /\ DOMAIN proofs = 1 .. Len(proofs)
      BY LenProperties
    <2>2. IsFiniteSet(DOMAIN proofs)
      BY <2>1, FS_Interval
    <2>3. QED
      BY <2>2, FS_Subset
  <1> HIDE DEF f
  <1>4. SumFunction(f) \in Nat
    BY <1>2, <1>3, SumNat
  <1>5. QED
    BY <1>4 DEF SatsOf, f

\* A request that returns, or goes to a step other than the push, keeps its type.
LEMMA RequestsTyped ==
    ASSUME LboTyped, NEW t \in LboTasks
    PROVE  /\ LboReturn(t) => lboCall' \in [LboTasks -> LboRequest] /\ PushAmounts'
           /\ \A pc \in {"raise", "mint", "mark", "count"} :
                LboGoto(t, pc) => lboCall' \in [LboTasks -> LboRequest] /\ PushAmounts'
  <1> USE DEF LboTyped, LboTypeOK, PushAmounts, LboAt
  <1>1. NoRequest \in LboRequest
    BY LboAssumption DEF NoRequest, LboRequest, LboU64
  <1>2. ASSUME LboReturn(t)
        PROVE  lboCall' \in [LboTasks -> LboRequest] /\ PushAmounts'
    <2>1. lboCall' \in [LboTasks -> LboRequest]
      BY <1>1, <1>2 DEF LboReturn
    <2>2. PushAmounts'
      BY <1>2 DEF LboReturn, NoRequest
    <2>3. QED
      BY <2>1, <2>2
  <1>3. ASSUME NEW pc \in {"raise", "mint", "mark", "count"}, LboGoto(t, pc)
        PROVE  lboCall' \in [LboTasks -> LboRequest] /\ PushAmounts'
    <2>1. [lboCall[t] EXCEPT !.pc = pc] \in LboRequest
      BY DEF LboRequest
    <2>2. lboCall' \in [LboTasks -> LboRequest]
      BY <1>3, <2>1 DEF LboGoto
    <2>3. PushAmounts'
      BY <1>3 DEF LboGoto, LboRequest
    <2>4. QED
      BY <2>2, <2>3
  <1>4. QED
    BY <1>2, <1>3

LEMMA InitTyped == LboInit => LboTyped
  <1> SUFFICES ASSUME LboInit PROVE LboTyped
    OBVIOUS
  <1>1. contributions \in [Contributors -> Seq(LiquidityProof)]
    BY DEF LboInit
  <1>2. lboCall \in [LboTasks -> LboRequest]
    <2>1. 0 \in LboU64
      BY LboAssumption DEF LboU64
    <2>2. QED
      BY <2>1 DEF LboInit, LboRequest, NoRequest
  <1>3. paidProofs \in [Contributors -> SUBSET Nat] /\ lboBalance \in [Contributors -> LboU64]
    BY LboAssumption DEF LboInit, LboU64
  <1>4. lboSupply \in 0 .. LboMaxSupply /\ totalRaised \in LboU64 /\ tokensDistributed \in LboU64
    BY LboAssumption DEF LboInit, LboU64
  <1>5. LboTypeOK
    BY <1>1, <1>2, <1>3, <1>4 DEF LboInit, LboTypeOK
  <1>6. PushAmounts
    BY DEF LboInit, PushAmounts, LboAt, NoRequest
  <1>7. QED
    BY <1>5, <1>6 DEF LboTyped

LEMMA StepTyped ==
    ASSUME LboTyped, [LboNext]_lboVars
    PROVE  LboTyped'
  <1> USE LboAssumption
  <1> USE DEF LboTyped, LboTypeOK, PushAmounts, LboAt
  <1>1. CASE LboClock
    BY <1>1 DEF LboClock, lboHistory
  <1>2. ASSUME NEW t \in LboTasks, NEW amount \in ProofAmounts, NEW claimed \in BOOLEAN,
               SubmitProof(t, amount, claimed)
        PROVE  LboTyped'
    <2>1. lboCall' \in [LboTasks -> LboRequest]
      <3>1. amount \in LboU64
        BY DEF LboU64
      <3>2. QED
        BY <1>2, <3>1 DEF SubmitProof, BeginSubmit, NoRequest, LboRequest
    <2>2. submitsMet' \subseteq Contributors /\ submitsWrapped' \subseteq Contributors
      BY <1>2 DEF SubmitProof, BeginSubmit, Contributors
    <2>3. PushAmounts'
      BY <1>2 DEF SubmitProof, BeginSubmit, NoRequest
    <2>4. QED
      BY <1>2, <2>1, <2>2, <2>3 DEF SubmitProof, BeginSubmit
  <1>3. ASSUME NEW t \in LboTasks, SubmitPush(t)
        PROVE  LboTyped'
    <2> DEFINE c == ContributorOf[t]
               proof == [amount |-> lboCall[t].amount, claimed |-> lboCall[t].claimed]
    <2>1. c \in Contributors
      BY DEF Contributors
    <2>2. proof \in LiquidityProof
      BY <1>3 DEF SubmitPush, LboRequest, LiquidityProof
    <2>3. Append(contributions[c], proof) \in Seq(LiquidityProof)
      BY <2>1, <2>2
    <2>4. contributions' \in [Contributors -> Seq(LiquidityProof)]
      BY <1>3, <2>1, <2>3 DEF SubmitPush
    <2>5. lboCall' \in [LboTasks -> LboRequest] /\ PushAmounts'
      BY <1>3, RequestsTyped DEF SubmitPush
    <2>6. QED
      BY <1>3, <2>4, <2>5 DEF SubmitPush, lboHistory
  <1>4. ASSUME NEW t \in LboTasks, SubmitRaise(t)
        PROVE  LboTyped'
    <2>1. lboCall' \in [LboTasks -> LboRequest] /\ PushAmounts'
      BY <1>4, RequestsTyped DEF SubmitRaise
    <2>2. totalRaised' \in LboU64
      <3>1. lboCall[t].amount \in LboU64
        BY DEF LboRequest
      <3>2. totalRaised + lboCall[t].amount \in Nat
        BY <3>1, LboWords
      <3>3. QED
        BY <1>4, <3>2, LboWraps DEF SubmitRaise
    <2>3. QED
      BY <1>4, <2>1, <2>2 DEF SubmitRaise, lboHistory
  <1>5. ASSUME NEW t \in LboTasks, Claim(t)
        PROVE  LboTyped'
    <2> DEFINE c == ContributorOf[t]
               tokens == TokensFor(LboWrap(SatsOf(contributions[c], Unclaimed(c))))
    <2>1. c \in Contributors
      BY DEF Contributors
    <2>2. contributions[c] \in Seq(LiquidityProof)
      BY <2>1
    <2>3. DOMAIN contributions[c] \subseteq Nat
      BY <2>2
    <2>4. Unclaimed(c) \subseteq Nat
      BY <2>3 DEF Unclaimed
    <2>5. tokens \in LboU64
      <3>1. SatsOf(contributions[c], Unclaimed(c)) \in Nat
        BY <2>2, SatsNat DEF Unclaimed
      <3>2. QED
        BY <3>1, LboWraps, TokensTyped
    <2>6. lboCall' = [lboCall EXCEPT ![t] = [NoRequest EXCEPT !.pc = "allocation",
                                  !.marks = Unclaimed(c), !.amount = tokens]]
      BY <1>5 DEF Claim
    <2> HIDE DEF tokens
    <2>7. ASSUME NEW n \in LboU64, NEW m \in SUBSET Nat
          PROVE  /\ [NoRequest EXCEPT !.pc = "allocation", !.marks = m, !.amount = n]
                      \in LboRequest
                 /\ [NoRequest EXCEPT !.pc = "allocation", !.marks = m, !.amount = n].pc
                      = "allocation"
      BY DEF LboRequest, NoRequest
    <2>8. lboCall' \in [LboTasks -> LboRequest] /\ PushAmounts'
      BY <2>4, <2>5, <2>6, <2>7
    <2>9. claimsMet' \subseteq Contributors
      BY <1>5, <2>1 DEF Claim
    <2>10. QED
      BY <1>5, <2>8, <2>9 DEF Claim
  <1>6. ASSUME NEW t \in LboTasks, ClaimAllocation(t)
        PROVE  LboTyped'
    <2>1. lboCall' \in [LboTasks -> LboRequest] /\ PushAmounts'
      BY <1>6, RequestsTyped DEF ClaimAllocation, CheckAllocation
    <2>2. countsMet' \in BOOLEAN /\ claimsWrapped' \in BOOLEAN
      BY <1>6 DEF ClaimAllocation, CheckAllocation
    <2>3. QED
      BY <1>6, <2>1, <2>2 DEF ClaimAllocation, CheckAllocation
  <1>7. ASSUME NEW t \in LboTasks, ClaimMint(t)
        PROVE  LboTyped'
    <2>1. lboCall' \in [LboTasks -> LboRequest] /\ PushAmounts'
      BY <1>7, RequestsTyped DEF ClaimMint
    <2>2. ContributorOf[t] \in Contributors
      BY DEF Contributors
    <2>3. lboCall[t].amount \in Nat /\ lboCall[t].marks \subseteq Nat
      BY LboWords DEF LboRequest
    <2>4. lboSupply' \in 0 .. LboMaxSupply
      <3> DEFINE n == LboWrap(lboSupply + lboCall[t].amount)
      <3>1. n \in Nat
        <4>1. lboSupply + lboCall[t].amount \in Nat
          BY <2>3
        <4>2. QED
          BY <4>1, LboWraps
      <3>2. \/ UNCHANGED lboSupply
            \/ lboSupply' = n /\ ~(n > LboMaxSupply)
        BY <1>7 DEF ClaimMint, MintRefused
      <3> HIDE DEF n
      <3>3. QED
        BY <3>1, <3>2
    <2>5. lboBalance' \in [Contributors -> LboU64] /\ paidProofs' \in [Contributors -> SUBSET Nat]
      <3>1. CASE MintRefused(t)
        BY <1>7, <3>1 DEF ClaimMint
      <3>2. CASE ~MintRefused(t)
        <4> DEFINE n == LboWrap(lboBalance[ContributorOf[t]] + lboCall[t].amount)
        <4>1. lboBalance' = [lboBalance EXCEPT ![ContributorOf[t]] = n]
              /\ paidProofs' = [paidProofs EXCEPT ![ContributorOf[t]] = @ \cup lboCall[t].marks]
          BY <1>7, <3>2 DEF ClaimMint
        <4>2. paidProofs[ContributorOf[t]] \cup lboCall[t].marks \in SUBSET Nat
          BY <2>2, <2>3
        <4>3. n \in LboU64
          <5>1. lboBalance[ContributorOf[t]] \in Nat
            BY <2>2, LboWords
          <5>2. lboBalance[ContributorOf[t]] + lboCall[t].amount \in Nat
            BY <5>1, <2>3
          <5>3. QED
            BY <5>2, LboWraps
        <4> HIDE DEF n
        <4>4. QED
          BY <4>1, <4>2, <4>3
      <3>3. QED
        BY <3>1, <3>2
    <2>6. paidTwice' \subseteq Contributors
      BY <1>7, <2>2 DEF ClaimMint
    <2>7. QED
      BY <1>7, <2>1, <2>4, <2>5, <2>6 DEF ClaimMint
  <1>8. ASSUME NEW t \in LboTasks, ClaimMark(t)
        PROVE  LboTyped'
    <2> DEFINE c == ContributorOf[t]
               marked == [i \in DOMAIN contributions[c] |->
                            IF i \in lboCall[t].marks
                            THEN [contributions[c][i] EXCEPT !.claimed = TRUE]
                            ELSE contributions[c][i]]
    <2>1. c \in Contributors /\ contributions[c] \in Seq(LiquidityProof)
      BY DEF Contributors
    <2>2. ASSUME NEW i \in DOMAIN contributions[c]
          PROVE  marked[i] \in LiquidityProof
      <3>1. contributions[c][i] \in LiquidityProof
        BY <2>1
      <3>2. [contributions[c][i] EXCEPT !.claimed = TRUE] \in LiquidityProof
        BY <3>1 DEF LiquidityProof
      <3>3. QED
        BY <3>1, <3>2
    <2>3. PICK n \in Nat : DOMAIN contributions[c] = 1 .. n
      BY <2>1
    <2>4. DOMAIN marked = 1 .. n
      BY <2>3
    <2>5. marked = [i \in 1 .. n |-> marked[i]]
      BY <2>3
    <2>6. contributions' = [contributions EXCEPT ![c] = marked]
      BY <1>8 DEF ClaimMark, MarkClaimed
    <2> HIDE DEF marked
    <2>7. marked \in [1 .. n -> LiquidityProof]
      BY <2>2, <2>3, <2>5
    <2>8. marked \in Seq(LiquidityProof)
      BY <2>7, SeqDef
    <2>9. contributions' \in [Contributors -> Seq(LiquidityProof)]
      BY <2>1, <2>8, <2>6
    <2>10. lboCall' \in [LboTasks -> LboRequest] /\ PushAmounts'
      BY <1>8, RequestsTyped DEF ClaimMark, MarkClaimed
    <2>11. QED
      BY <1>8, <2>9, <2>10 DEF ClaimMark, MarkClaimed, lboHistory
  <1>9. ASSUME NEW t \in LboTasks, ClaimCount(t)
        PROVE  LboTyped'
    <2>1. lboCall' \in [LboTasks -> LboRequest] /\ PushAmounts'
      BY <1>9, RequestsTyped DEF ClaimCount
    <2>2. tokensDistributed' \in LboU64
      <3>1. lboCall[t].amount \in LboU64
        BY DEF LboRequest
      <3>2. tokensDistributed + lboCall[t].amount \in Nat
        BY <3>1, LboWords
      <3>3. QED
        BY <1>9, <3>2, LboWraps DEF ClaimCount
    <2>3. QED
      BY <1>9, <2>1, <2>2 DEF ClaimCount, lboHistory
  <1>10. CASE UNCHANGED lboVars
    BY <1>10 DEF lboVars, lboHistory
  <1>11. QED
    BY <1>1, <1>2, <1>3, <1>4, <1>5, <1>6, <1>7, <1>8, <1>9, <1>10 DEF LboNext

\* The types hold and the supply keeps its cap in every behaviour of the offering
\* (lbo.rs:92-208, token.mint()).
THEOREM LboTypes == LboSpec => []LboTypeOK
  <1>1. LboInit => LboTyped
    BY InitTyped
  <1>2. LboTyped /\ [LboNext]_lboVars => LboTyped'
    BY StepTyped
  <1>3. LboTyped => LboTypeOK
    BY DEF LboTyped
  <1>4. QED
    BY <1>1, <1>2, <1>3, PTL DEF LboSpec

-----------------------------------------------------------------------------
(* No proof is minted for twice.                                           *)

LEMMA InitMint == LboInit => MintInv
  BY DEF LboInit, MintInv, ProofsMintedOnce, OneClaim, MarksUnpaid, PaidMarked,
         Claiming, LboAt, NoRequest, Contributors

\* Steps that leave the proofs, the claims and what they paid alone.
LEMMA MintUntouched ==
    ASSUME LboTyped, MintInv,
           UNCHANGED <<contributions, paidProofs, paidTwice, claimsMet>>,
           \A u \in LboTasks : Claiming(u)' => Claiming(u) /\ lboCall'[u] = lboCall[u],
           \A u \in LboTasks : LboAt(u, "mark") => lboCall'[u] = lboCall[u]
    PROVE  MintInv'
  BY DEF MintInv, ProofsMintedOnce, OneClaim, MarksUnpaid, PaidMarked, Claiming, LboAt,
         Contributors

\* A step of a claim of contributor c disturbs what is said of c only.
LEMMA StepMint ==
    ASSUME LboTyped, MintInv, [LboNext]_lboVars
    PROVE  MintInv'
  <1> USE DEF LboAt
  <1>1. CASE LboClock
    BY <1>1, MintUntouched DEF LboClock, lboHistory, Claiming
  <1>2. ASSUME NEW t \in LboTasks, NEW amount \in ProofAmounts, NEW claimed \in BOOLEAN,
               SubmitProof(t, amount, claimed)
        PROVE  MintInv'
    <2>1. \A u \in LboTasks : Claiming(u)' => Claiming(u) /\ lboCall'[u] = lboCall[u]
      BY <1>2 DEF SubmitProof, BeginSubmit, Claiming, NoRequest, LboTyped, LboTypeOK
    <2>2. \A u \in LboTasks : LboAt(u, "mark") => lboCall'[u] = lboCall[u]
      BY <1>2 DEF SubmitProof, BeginSubmit, LboTyped, LboTypeOK
    <2>3. QED
      BY <1>2, <2>1, <2>2, MintUntouched DEF SubmitProof, BeginSubmit
  <1>3. ASSUME NEW t \in LboTasks, SubmitPush(t)
        PROVE  MintInv'
    <2> DEFINE d == ContributorOf[t]
               proof == [amount |-> lboCall[t].amount, claimed |-> lboCall[t].claimed]
    <2>1. d \in Contributors /\ contributions[d] \in Seq(LiquidityProof)
      BY DEF Contributors, LboTyped, LboTypeOK
    <2>2. contributions' = [contributions EXCEPT ![d] = Append(@, proof)]
      BY <1>3 DEF SubmitPush
    <2>3. /\ DOMAIN contributions[d] \subseteq DOMAIN Append(contributions[d], proof)
          /\ \A i \in DOMAIN contributions[d] :
               Append(contributions[d], proof)[i] = contributions[d][i]
      BY <2>1
    <2>4. \A c \in Contributors :
            /\ DOMAIN contributions[c] \subseteq DOMAIN contributions'[c]
            /\ \A i \in DOMAIN contributions[c] : contributions'[c][i] = contributions[c][i]
      BY <2>1, <2>2, <2>3 DEF LboTyped, LboTypeOK
    <2>5. \A u \in LboTasks :
            /\ Claiming(u)' <=> Claiming(u)
            /\ Claiming(u) => lboCall'[u] = lboCall[u]
      BY <1>3 DEF SubmitPush, LboGoto, Claiming, LboTyped, LboTypeOK
    <2>6. UNCHANGED <<paidProofs, paidTwice, claimsMet>>
      BY <1>3 DEF SubmitPush, lboHistory
    <2>7. ProofsMintedOnce'
      BY <2>6 DEF MintInv, ProofsMintedOnce
    <2>8. ASSUME NEW c \in Contributors \ claimsMet
          PROVE  (OneClaim(c) /\ MarksUnpaid(c) /\ PaidMarked(c))'
      <3>1. OneClaim(c) /\ MarksUnpaid(c) /\ PaidMarked(c)
        BY <2>8 DEF MintInv
      <3>2. OneClaim(c)'
        BY <2>5, <3>1 DEF OneClaim
      <3>3. MarksUnpaid(c)'
        BY <2>4, <2>5, <2>6, <3>1 DEF MarksUnpaid, Claiming
      <3>4. PaidMarked(c)'
        BY <2>4, <2>5, <2>6, <3>1 DEF PaidMarked, Claiming
      <3>5. QED
        BY <3>2, <3>3, <3>4
    <2>9. QED
      BY <2>6, <2>7, <2>8 DEF MintInv, Contributors
  <1>4. ASSUME NEW t \in LboTasks, SubmitRaise(t)
        PROVE  MintInv'
    <2>1. \A u \in LboTasks : Claiming(u)' => Claiming(u) /\ lboCall'[u] = lboCall[u]
      BY <1>4 DEF SubmitRaise, LboReturn, Claiming, NoRequest, LboTyped, LboTypeOK
    <2>2. \A u \in LboTasks : LboAt(u, "mark") => lboCall'[u] = lboCall[u]
      BY <1>4 DEF SubmitRaise, LboReturn, LboTyped, LboTypeOK
    <2>3. QED
      BY <1>4, <2>1, <2>2, MintUntouched DEF SubmitRaise, lboHistory
  <1>5. ASSUME NEW t \in LboTasks, Claim(t)
        PROVE  MintInv'
    <2> DEFINE d == ContributorOf[t]
    <2>1. d \in Contributors
      BY DEF Contributors
    <2>2. /\ lboCall'[t].pc = "allocation" /\ lboCall'[t].marks = Unclaimed(d)
          /\ \A u \in LboTasks \ {t} : lboCall'[u] = lboCall[u]
      BY <1>5 DEF Claim, NoRequest, LboTyped, LboTypeOK
    <2>3. UNCHANGED <<contributions, paidProofs, paidTwice>>
      BY <1>5 DEF Claim
    <2>4. claimsMet \subseteq claimsMet'
      BY <1>5 DEF Claim
    <2>5. ProofsMintedOnce'
      BY <2>3, <2>4 DEF MintInv, ProofsMintedOnce
    <2>6. ASSUME NEW c \in Contributors \ claimsMet'
          PROVE  (OneClaim(c) /\ MarksUnpaid(c) /\ PaidMarked(c))'
      <3>1. OneClaim(c) /\ MarksUnpaid(c) /\ PaidMarked(c)
        BY <2>4, <2>6 DEF MintInv
      <3>2. c = d => \A u \in LboTasks \ {t} : ContributorOf[u] = c => ~Claiming(u)
        BY <1>5, <2>6 DEF Claim, Sibling, Claiming
      <3>3. OneClaim(c)'
        BY <2>2, <3>1, <3>2 DEF OneClaim, Claiming
      <3>4. c = d => Unclaimed(d) \cap paidProofs[c] = {}
        BY <1>5, <3>1, <3>2 DEF PaidMarked, Unclaimed, Claiming, Claim
      <3>5. MarksUnpaid(c)'
        BY <2>2, <2>3, <3>1, <3>4 DEF MarksUnpaid, Claiming, Unclaimed
      <3>6. PaidMarked(c)'
        BY <1>5, <2>2, <2>3, <3>1 DEF PaidMarked, Claim
      <3>7. QED
        BY <3>3, <3>5, <3>6
    <2>7. QED
      BY <2>5, <2>6 DEF MintInv, Contributors
  <1>6. ASSUME NEW t \in LboTasks, ClaimAllocation(t)
        PROVE  MintInv'
    <2>1. /\ lboCall'[t].pc \in {"idle", "mint"}
          /\ lboCall'[t].pc = "mint" => lboCall'[t].marks = lboCall[t].marks
          /\ \A u \in LboTasks \ {t} : lboCall'[u] = lboCall[u]
      BY <1>6 DEF ClaimAllocation, CheckAllocation, LboReturn, LboGoto, NoRequest, LboTyped, LboTypeOK, LboRequest
    <2>2. UNCHANGED <<contributions, paidProofs, paidTwice, claimsMet>>
      BY <1>6 DEF ClaimAllocation, CheckAllocation
    <2>3. Claiming(t) /\ lboCall[t].pc = "allocation"
      BY <1>6 DEF ClaimAllocation, CheckAllocation, Claiming
    <2>4. ASSUME NEW c \in Contributors \ claimsMet
          PROVE  (OneClaim(c) /\ MarksUnpaid(c) /\ PaidMarked(c))'
      <3>1. OneClaim(c) /\ MarksUnpaid(c) /\ PaidMarked(c)
        BY <2>4 DEF MintInv
      <3>2. OneClaim(c)'
        BY <2>1, <2>3, <3>1 DEF OneClaim, Claiming
      <3>3. MarksUnpaid(c)'
        BY <2>1, <2>2, <2>3, <3>1 DEF MarksUnpaid, Claiming
      <3>4. PaidMarked(c)'
        BY <2>1, <2>2, <2>3, <3>1 DEF PaidMarked
      <3>5. QED
        BY <3>2, <3>3, <3>4
    <2>5. QED
      BY <2>2, <2>4 DEF MintInv, ProofsMintedOnce, Contributors
  <1>7. ASSUME NEW t \in LboTasks, ClaimMint(t)
        PROVE  MintInv'
    <2> DEFINE d == ContributorOf[t]
    <2>1. d \in Contributors /\ lboCall[t].pc = "mint" /\ Claiming(t)
      BY <1>7 DEF Contributors, ClaimMint, Claiming
    <2>2. UNCHANGED <<contributions, claimsMet>>
      BY <1>7 DEF ClaimMint
    <2>3. CASE MintRefused(t)
      <3>1. UNCHANGED <<paidProofs, paidTwice>> /\ LboReturn(t)
        BY <1>7, <2>3 DEF ClaimMint
      <3>2. \A u \in LboTasks : Claiming(u)' => Claiming(u) /\ lboCall'[u] = lboCall[u]
        BY <3>1 DEF LboReturn, Claiming, NoRequest, LboTyped, LboTypeOK
      <3>3. \A u \in LboTasks : LboAt(u, "mark") => lboCall'[u] = lboCall[u]
        BY <2>1, <3>1 DEF LboReturn, LboTyped, LboTypeOK
      <3>4. QED
        BY <2>2, <3>1, <3>2, <3>3, MintUntouched
    <2>4. CASE ~MintRefused(t)
      <3>1. /\ lboCall'[t].pc = "mark" /\ lboCall'[t].marks = lboCall[t].marks
            /\ \A u \in LboTasks \ {t} : lboCall'[u] = lboCall[u]
        BY <1>7, <2>4 DEF ClaimMint, LboGoto, LboTyped, LboTypeOK, LboRequest
      <3>2. /\ paidProofs'[d] = paidProofs[d] \cup lboCall[t].marks
            /\ \A c \in Contributors \ {d} : paidProofs'[c] = paidProofs[c]
        BY <1>7, <2>1, <2>4 DEF ClaimMint, LboTyped, LboTypeOK
      <3>3. paidTwice' = paidTwice \cup {e \in {d} : paidProofs[d] \cap lboCall[t].marks # {}}
        BY <1>7, <2>4 DEF ClaimMint
      <3>4. d \notin claimsMet => paidProofs[d] \cap lboCall[t].marks = {}
        BY <2>1 DEF MintInv, MarksUnpaid
      <3>5. ProofsMintedOnce'
        BY <2>2, <3>3, <3>4 DEF MintInv, ProofsMintedOnce
      <3>6. ASSUME NEW c \in Contributors \ claimsMet
            PROVE  (OneClaim(c) /\ MarksUnpaid(c) /\ PaidMarked(c))'
        <4>1. OneClaim(c) /\ MarksUnpaid(c) /\ PaidMarked(c)
          BY <3>6 DEF MintInv
        <4>2. OneClaim(c)'
          BY <2>1, <3>1, <4>1 DEF OneClaim, Claiming
        <4>3. MarksUnpaid(c)'
          BY <2>1, <2>2, <3>1, <3>2, <4>1, <4>2 DEF MarksUnpaid, OneClaim, Claiming
        <4>4. lboCall[t].pc # "mark" /\ (c = d => lboCall[t].marks \subseteq DOMAIN contributions[c])
          BY <2>1, <4>1 DEF MarksUnpaid
        <4>5. PaidMarked(c)'
          BY <2>2, <3>1, <3>2, <4>1, <4>4 DEF PaidMarked
        <4>6. QED
          BY <4>2, <4>3, <4>5
      <3>7. QED
        BY <2>2, <3>5, <3>6 DEF MintInv, Contributors
    <2>5. QED
      BY <2>3, <2>4
  <1>8. ASSUME NEW t \in LboTasks, ClaimMark(t)
        PROVE  MintInv'
    <2> DEFINE d == ContributorOf[t]
    <2>1. d \in Contributors /\ lboCall[t].pc = "mark" /\ Claiming(t)
      BY <1>8 DEF Contributors, ClaimMark, MarkClaimed, Claiming
    <2>2. UNCHANGED <<claimsMet, paidProofs, paidTwice>>
      BY <1>8 DEF ClaimMark, MarkClaimed, lboHistory
    <2>3. /\ lboCall'[t].pc = "count"
          /\ \A u \in LboTasks \ {t} : lboCall'[u] = lboCall[u]
      BY <1>8 DEF ClaimMark, MarkClaimed, LboGoto, LboTyped, LboTypeOK, LboRequest
    <2>4. contributions' = [contributions EXCEPT ![d] =
             [i \in DOMAIN @ |-> IF i \in lboCall[t].marks
                                 THEN [@[i] EXCEPT !.claimed = TRUE] ELSE @[i]]]
      BY <1>8 DEF ClaimMark, MarkClaimed
    <2>5. /\ DOMAIN contributions'[d] = DOMAIN contributions[d]
          /\ \A i \in DOMAIN contributions[d] :
               contributions'[d][i] = IF i \in lboCall[t].marks
                                      THEN [contributions[d][i] EXCEPT !.claimed = TRUE]
                                      ELSE contributions[d][i]
          /\ \A c \in Contributors \ {d} : contributions'[c] = contributions[c]
      BY <2>1, <2>4 DEF LboTyped, LboTypeOK
    <2>6. ASSUME NEW i \in DOMAIN contributions[d]
          PROVE  /\ i \in lboCall[t].marks => contributions'[d][i].claimed
                 /\ i \notin lboCall[t].marks => contributions'[d][i] = contributions[d][i]
      <3>1. contributions[d][i] \in LiquidityProof
        BY <2>1 DEF LboTyped, LboTypeOK
      <3>2. [contributions[d][i] EXCEPT !.claimed = TRUE].claimed
        BY <3>1 DEF LiquidityProof
      <3>3. QED
        BY <2>5, <3>2
    <2>7. ProofsMintedOnce'
      BY <2>2 DEF MintInv, ProofsMintedOnce
    <2>8. ASSUME NEW c \in Contributors \ claimsMet
          PROVE  (OneClaim(c) /\ MarksUnpaid(c) /\ PaidMarked(c))'
      <3>1. OneClaim(c) /\ MarksUnpaid(c) /\ PaidMarked(c)
        BY <2>8 DEF MintInv
      <3>2. OneClaim(c)'
        BY <2>1, <2>3, <3>1 DEF OneClaim, Claiming
      <3>3. DOMAIN contributions'[c] = DOMAIN contributions[c]
        BY <2>5
      <3>4. MarksUnpaid(c)'
        BY <2>1, <2>2, <2>3, <3>1, <3>3 DEF MarksUnpaid, Claiming
      <3>5. PaidMarked(c)'
        <4>1. CASE c = d
          <5>1. ASSUME NEW i \in paidProofs[c]
                PROVE  i \in DOMAIN contributions[c] /\ contributions'[c][i].claimed
            <6>1. i \in DOMAIN contributions[c]
              BY <3>1, <5>1 DEF PaidMarked
            <6>2. i \in lboCall[t].marks \/ contributions[c][i].claimed
              BY <2>1, <3>1, <4>1, <5>1 DEF PaidMarked, OneClaim, Claiming
            <6>3. QED
              BY <2>6, <4>1, <6>1, <6>2
          <5>2. QED
            BY <2>2, <3>3, <5>1 DEF PaidMarked
        <4>2. CASE c # d
          BY <2>2, <2>3, <2>5, <3>1, <4>2 DEF PaidMarked
        <4>3. QED
          BY <4>1, <4>2
      <3>6. QED
        BY <3>2, <3>4, <3>5
    <2>9. QED
      BY <2>2, <2>7, <2>8 DEF MintInv, Contributors
  <1>9. ASSUME NEW t \in LboTasks, ClaimCount(t)
        PROVE  MintInv'
    <2>1. \A u \in LboTasks : Claiming(u)' => Claiming(u) /\ lboCall'[u] = lboCall[u]
      BY <1>9 DEF ClaimCount, LboReturn, Claiming, NoRequest, LboTyped, LboTypeOK
    <2>2. \A u \in LboTasks : LboAt(u, "mark") => lboCall'[u] = lboCall[u]
      BY <1>9 DEF ClaimCount, LboReturn, LboTyped, LboTypeOK
    <2>3. QED
      BY <1>9, <2>1, <2>2, MintUntouched DEF ClaimCount, lboHistory
  <1>10. CASE UNCHANGED lboVars
    BY <1>10, MintUntouched DEF lboVars, lboHistory, Claiming
  <1>11. QED
    BY <1>1, <1>2, <1>3, <1>4, <1>5, <1>6, <1>7, <1>8, <1>9, <1>10 DEF LboNext

\* No proof is minted for twice, for any number of clients and any amounts, unless
\* two claims of its contributor overlapped (lbo.rs:140-193).
THEOREM MintedOnce == LboSpec => []ProofsMintedOnce
  <1>1. LboInit => LboTyped /\ MintInv
    BY InitTyped, InitMint
  <1>2. LboTyped /\ MintInv /\ [LboNext]_lboVars => (LboTyped /\ MintInv)'
    BY StepTyped, StepMint
  <1>3. MintInv => ProofsMintedOnce
    BY DEF MintInv
  <1>4. QED
    BY <1>1, <1>2, <1>3, PTL DEF LboSpec

-----------------------------------------------------------------------------
(* The allocation.                                                         *)

LEMMA InitCount == LboInit => CountInv
  <1> SUFFICES ASSUME LboInit PROVE OneCount /\ SupplyCounted
    BY DEF CountInv
  <1>1. lboBalance \in [Contributors -> Int] /\ \A c \in Contributors : lboBalance[c] = 0
    BY DEF LboInit
  <1>2. SumFunction(lboBalance) = 0
    BY <1>1, ContributorsFinite, SumZero
  <1>3. QED
    BY <1>2, LboAssumption DEF LboInit, OneCount, SupplyCounted, Counting, LboAt, NoRequest

\* A credit to a contributor changes the sum of the balances.
LEMMA BalanceSet ==
    ASSUME NEW f \in [Contributors -> Nat], NEW g \in [Contributors -> Nat],
           NEW d \in Contributors, \A c \in Contributors \ {d} : g[c] = f[c]
    PROVE  SumFunction(g) = SumFunction(f) + g[d] - f[d]
  <1>1. f \in [Contributors -> Int] /\ g \in [Contributors -> Int]
    OBVIOUS
  <1>2. QED
    BY <1>1, ContributorsFinite, SumChange

\* ... by what is credited, while the balances together fit a u64.
LEMMA Credited ==
    ASSUME LboTyped, NEW d \in Contributors, NEW a \in Nat, SumFunction(lboBalance) + a < LboWord,
           lboBalance' = [lboBalance EXCEPT ![d] = LboWrap(lboBalance[d] + a)]
    PROVE  SumFunction(lboBalance') = SumFunction(lboBalance) + a
  <1> DEFINE b == lboBalance[d]
             n == LboWrap(b + a)
             x == SumFunction(lboBalance)
             y == SumFunction(lboBalance')
  <1>1. lboBalance \in [Contributors -> LboU64]
    BY DEF LboTyped, LboTypeOK
  <1>2. lboBalance \in [Contributors -> Nat] /\ b \in Nat
    BY <1>1, LboWords
  <1>3. x \in Nat /\ b <= x
    BY <1>2, ContributorsFinite, SumNat, SumMember
  <1>4. b + a \in Nat /\ b + a < LboWord
    BY <1>2, <1>3, LboAssumption
  <1>5. n = b + a /\ n \in Nat
    BY <1>4, LboWraps
  <1> HIDE DEF n
  <1>6. /\ lboBalance' \in [Contributors -> Nat] /\ lboBalance'[d] = n
        /\ \A c \in Contributors \ {d} : lboBalance'[c] = lboBalance[c]
    <2>1. lboBalance' = [lboBalance EXCEPT ![d] = n]
      BY DEF n
    <2>2. QED
      BY <1>2, <1>5, <2>1
  <1>7. y = x + n - b
    BY <1>2, <1>6, BalanceSet
  <1> HIDE DEF x, y, b
  <1>8. y = x + a
    BY <1>2, <1>3, <1>5, <1>7
  <1>9. QED
    BY <1>8 DEF x, y

\* Steps that no claim past the allocation check takes part in.
LEMMA CountUntouched ==
    ASSUME CountInv, NEW t \in LboTasks, ~Counting(t), ~Counting(t)',
           UNCHANGED <<tokensDistributed, lboSupply, lboBalance, countsMet, claimsWrapped>>,
           \A u \in LboTasks \ {t} : lboCall'[u] = lboCall[u]
    PROVE  CountInv'
  BY DEF CountInv, Kept, OneCount, SupplyCounted, Counting, LboAt

LEMMA StepCount ==
    ASSUME LboTyped, CountInv, [LboNext]_lboVars
    PROVE  CountInv'
  <1> USE DEF LboAt
  <1>1. CASE LboClock
    BY <1>1 DEF LboClock, lboHistory, CountInv, Kept, OneCount, SupplyCounted, Counting
  <1>2. ASSUME NEW t \in LboTasks, NEW amount \in ProofAmounts, NEW claimed \in BOOLEAN,
               SubmitProof(t, amount, claimed)
        PROVE  CountInv'
    <2>1. ~Counting(t) /\ ~Counting(t)'
      BY <1>2 DEF SubmitProof, BeginSubmit, Counting, NoRequest, LboTyped, LboTypeOK
    <2>2. \A u \in LboTasks \ {t} : lboCall'[u] = lboCall[u]
      BY <1>2 DEF SubmitProof, BeginSubmit, LboTyped, LboTypeOK
    <2>3. QED
      BY <1>2, <2>1, <2>2, CountUntouched DEF SubmitProof, BeginSubmit
  <1>3. ASSUME NEW t \in LboTasks, SubmitPush(t) \/ SubmitRaise(t)
        PROVE  CountInv'
    <2>1. ~Counting(t) /\ ~Counting(t)' /\ \A u \in LboTasks \ {t} : lboCall'[u] = lboCall[u]
      BY <1>3 DEF SubmitPush, SubmitRaise, LboGoto, LboReturn, Counting, NoRequest, LboTyped,
                  LboTypeOK, LboRequest
    <2>2. QED
      BY <1>3, <2>1, CountUntouched DEF SubmitPush, SubmitRaise, lboHistory
  <1>4. ASSUME NEW t \in LboTasks, Claim(t)
        PROVE  CountInv'
    <2>1. ~Counting(t) /\ ~Counting(t)'
      BY <1>4 DEF Claim, Counting, NoRequest, LboTyped, LboTypeOK
    <2>2. \A u \in LboTasks \ {t} : lboCall'[u] = lboCall[u]
      BY <1>4 DEF Claim, LboTyped, LboTypeOK
    <2>3. QED
      BY <1>4, <2>1, <2>2, CountUntouched DEF Claim
  <1>5. ASSUME NEW t \in LboTasks, ClaimAllocation(t)
        PROVE  CountInv'
    <2> DEFINE n == LboWrap(tokensDistributed + lboCall[t].amount)
    <2>1. lboCall[t].pc = "allocation" /\ UNCHANGED <<tokensDistributed, lboSupply, lboBalance>>
      BY <1>5 DEF ClaimAllocation, CheckAllocation
    <2>2. CASE n > TotalAllocation
      <3>1. LboReturn(t) /\ UNCHANGED <<countsMet, claimsWrapped>>
        BY <1>5, <2>2 DEF ClaimAllocation, CheckAllocation
      <3>2. ~Counting(t) /\ ~Counting(t)' /\ \A u \in LboTasks \ {t} : lboCall'[u] = lboCall[u]
        BY <2>1, <3>1 DEF LboReturn, Counting, NoRequest, LboTyped, LboTypeOK
      <3>3. QED
        BY <2>1, <3>1, <3>2, CountUntouched
    <2>3. CASE ~(n > TotalAllocation)
      <3>1. LboGoto(t, "mint")
        BY <1>5, <2>3 DEF ClaimAllocation, CheckAllocation
      <3>2. /\ lboCall'[t].pc = "mint" /\ lboCall'[t].amount = lboCall[t].amount
            /\ \A u \in LboTasks \ {t} : lboCall'[u] = lboCall[u]
        BY <3>1 DEF LboGoto, LboTyped, LboTypeOK, LboRequest
      <3>3. /\ countsMet' = (countsMet \/ Another(t, {"mint", "mark", "count"}))
            /\ claimsWrapped' =
                 (claimsWrapped \/ tokensDistributed + lboCall[t].amount >= LboWord)
        BY <1>5, <2>3 DEF ClaimAllocation, CheckAllocation
      <3>4. SUFFICES ASSUME Kept' PROVE (OneCount /\ SupplyCounted)'
        BY DEF CountInv
      <3>5. OneCount /\ SupplyCounted
        BY <3>3, <3>4 DEF CountInv, Kept
      <3>6. \A u \in LboTasks : ~Counting(u)
        BY <2>1, <3>3, <3>4 DEF Another, Counting, Kept
      <3>7. OneCount'
        BY <3>2, <3>6 DEF OneCount, Counting
      <3>8. lboSupply = tokensDistributed
        BY <3>5, <3>6 DEF SupplyCounted
      <3>9. tokensDistributed + lboCall[t].amount <= TotalAllocation
        <4>1. tokensDistributed \in LboU64 /\ lboCall[t].amount \in LboU64
          BY DEF LboTyped, LboTypeOK, LboRequest
        <4>2. tokensDistributed + lboCall[t].amount \in Nat
          BY <4>1, LboWords
        <4>3. ~(tokensDistributed + lboCall[t].amount >= LboWord)
          BY <3>3, <3>4 DEF Kept
        <4>4. n = tokensDistributed + lboCall[t].amount
          BY <4>2, <4>3, LboWraps, LboAssumption
        <4>5. QED
          BY <2>3, <4>2, <4>4, LboAssumption
      <3>10. SupplyCounted'
        BY <2>1, <3>2, <3>5, <3>6, <3>8, <3>9 DEF SupplyCounted, Counting
      <3>11. QED
        BY <3>7, <3>10
    <2>4. QED
      BY <2>2, <2>3
  <1>6. ASSUME NEW t \in LboTasks, ClaimMint(t)
        PROVE  CountInv'
    <2>1. lboCall[t].pc = "mint" /\ Counting(t)
          /\ UNCHANGED <<tokensDistributed, countsMet, claimsWrapped>>
      BY <1>6 DEF ClaimMint, Counting
    <2>2. SUFFICES ASSUME Kept PROVE (OneCount /\ SupplyCounted)'
      BY <2>1 DEF CountInv, Kept
    <2>3. OneCount /\ SupplyCounted
      BY <2>2 DEF CountInv
    <2>4. \A u \in LboTasks \ {t} : ~Counting(u)
      BY <2>1, <2>3 DEF OneCount
    <2>5. lboSupply = tokensDistributed /\ lboSupply + lboCall[t].amount <= TotalAllocation
      BY <2>1, <2>3 DEF SupplyCounted
    <2>6. CASE MintRefused(t)
      <3>1. UNCHANGED <<lboSupply, lboBalance>> /\ LboReturn(t)
        BY <1>6, <2>6 DEF ClaimMint
      <3>2. ~Counting(t)' /\ \A u \in LboTasks \ {t} : lboCall'[u] = lboCall[u]
        BY <3>1 DEF LboReturn, Counting, NoRequest, LboTyped, LboTypeOK
      <3>3. \A u \in LboTasks : ~Counting(u)'
        BY <2>4, <3>2 DEF Counting
      <3>4. QED
        BY <2>1, <2>3, <2>5, <3>1, <3>3 DEF OneCount, SupplyCounted, Counting
    <2>7. CASE ~MintRefused(t)
      <3> DEFINE a == lboCall[t].amount
                 d == ContributorOf[t]
      <3>a. a \in Nat /\ lboSupply \in Nat /\ d \in Contributors
        <4>1. a \in LboU64 /\ lboSupply \in 0 .. LboMaxSupply /\ d \in Contributors
          BY DEF LboTyped, LboTypeOK, LboRequest, Contributors
        <4>2. QED
          BY <4>1, LboWords, LboAssumption
      <3>b. lboSupply + a \in Nat /\ lboSupply + a < LboWord
            /\ SumFunction(lboBalance) + a < LboWord
        BY <2>3, <2>5, <3>a, LboAssumption DEF SupplyCounted
      <3>1. lboSupply' = lboSupply + a /\ LboGoto(t, "mark")
            /\ lboBalance' = [lboBalance EXCEPT ![d] = LboWrap(lboBalance[d] + a)]
        BY <1>6, <2>7, <3>b, LboWraps DEF ClaimMint
      <3>c. SumFunction(lboBalance') = lboSupply'
        BY <2>3, <3>a, <3>b, <3>1, Credited DEF SupplyCounted
      <3>2. /\ lboCall'[t].pc = "mark" /\ lboCall'[t].amount = lboCall[t].amount
            /\ \A u \in LboTasks \ {t} : lboCall'[u] = lboCall[u]
        BY <3>1 DEF LboGoto, LboTyped, LboTypeOK, LboRequest
      <3>3. OneCount'
        BY <2>4, <3>2 DEF OneCount, Counting
      <3>4. SupplyCounted'
        BY <2>1, <2>4, <2>5, <3>1, <3>2, <3>c DEF SupplyCounted, Counting
      <3>5. QED
        BY <3>3, <3>4
    <2>8. QED
      BY <2>6, <2>7
  <1>7. ASSUME NEW t \in LboTasks, ClaimMark(t)
        PROVE  CountInv'
    <2>1. /\ lboCall[t].pc = "mark" /\ lboCall'[t].pc = "count"
          /\ lboCall'[t].amount = lboCall[t].amount
          /\ \A u \in LboTasks \ {t} : lboCall'[u] = lboCall[u]
      BY <1>7 DEF ClaimMark, MarkClaimed, LboGoto, LboTyped, LboTypeOK, LboRequest
    <2>2. UNCHANGED <<tokensDistributed, lboSupply, lboBalance, countsMet, claimsWrapped>>
      BY <1>7 DEF ClaimMark, MarkClaimed, lboHistory
    <2>3. \A u \in LboTasks : Counting(u)' <=> Counting(u)
      BY <2>1 DEF Counting
    <2>4. QED
      BY <2>1, <2>2, <2>3 DEF CountInv, Kept, OneCount, SupplyCounted
  <1>8. ASSUME NEW t \in LboTasks, ClaimCount(t)
        PROVE  CountInv'
    <2>1. /\ lboCall[t].pc = "count" /\ Counting(t)
          /\ UNCHANGED <<lboSupply, lboBalance, countsMet, claimsWrapped>>
          /\ tokensDistributed' = LboWrap(tokensDistributed + lboCall[t].amount)
      BY <1>8 DEF ClaimCount, Counting, lboHistory
    <2>2. ~Counting(t)' /\ \A u \in LboTasks \ {t} : lboCall'[u] = lboCall[u]
      BY <1>8 DEF ClaimCount, LboReturn, Counting, NoRequest, LboTyped, LboTypeOK
    <2>3. SUFFICES ASSUME Kept PROVE (OneCount /\ SupplyCounted)'
      BY <2>1 DEF CountInv, Kept
    <2>4. OneCount /\ SupplyCounted
      BY <2>3 DEF CountInv
    <2>5. \A u \in LboTasks : ~Counting(u)'
      BY <2>1, <2>2, <2>4 DEF OneCount, Counting
    <2>6. tokensDistributed' = lboSupply
      <3>1. lboSupply = tokensDistributed + lboCall[t].amount /\ lboSupply <= TotalAllocation
        BY <2>1, <2>4 DEF SupplyCounted
      <3>2. lboSupply \in Nat /\ lboSupply < LboWord
        BY <3>1, LboAssumption DEF LboTyped, LboTypeOK
      <3>3. QED
        BY <2>1, <3>1, <3>2, LboWraps
    <2>7. QED
      BY <2>1, <2>4, <2>5, <2>6 DEF OneCount, SupplyCounted, Counting
  <1>9. CASE UNCHANGED lboVars
    BY <1>9 DEF lboVars, lboHistory, CountInv, Kept, OneCount, SupplyCounted, Counting
  <1>10. QED
    BY <1>1, <1>2, <1>3, <1>4, <1>5, <1>6, <1>7, <1>8, <1>9 DEF LboNext

\* All that claim() mints for the contributors stays within the allocation, for any
\* number of clients, any amounts and any rate, unless a claim passed the check while
\* another had passed it and was not yet counted, or passed it on a sum that wrapped
\* (lbo.rs:169-199).  While neither happened, neither the sum that mint() tests nor
\* a balance wraps.
THEOREM WithinAllocation == LboSpec => []AllocationKept
  <1>1. LboInit => LboTyped /\ CountInv
    BY InitTyped, InitCount
  <1>2. LboTyped /\ CountInv /\ [LboNext]_lboVars => (LboTyped /\ CountInv)'
    BY StepTyped, StepCount
  <1>3. CountInv => AllocationKept
    BY DEF CountInv, Kept, SupplyCounted, AllocationKept
  <1>4. QED
    BY <1>1, <1>2, <1>3, PTL DEF LboSpec

-----------------------------------------------------------------------------
(* The maximum of a contributor: what the one submission on its way adds   *)
(* was counted when it was admitted.  What participant_total() sums is     *)
(* what was contributed, as long as that is within the maximum.            *)

CapInv ==
    \A c \in Contributors \ (submitsMet \cup submitsWrapped) :
        /\ Contributed(c) <= MaxContribution
        /\ \A t, u \in LboTasks :
             /\ ContributorOf[t] = c /\ ContributorOf[u] = c
             /\ LboAt(t, "push") /\ LboAt(u, "push")
             => t = u
        /\ \A t \in LboTasks :
             ContributorOf[t] = c /\ LboAt(t, "push") =>
               Contributed(c) + lboCall[t].amount <= MaxContribution

LEMMA SatsExtend ==
    ASSUME NEW D, IsFiniteSet(D), NEW e, e \notin D, NEW E, E = D \cup {e},
           NEW proofs \in [E -> LiquidityProof]
    PROVE  SatsOf(proofs, E) = SatsOf(proofs, D) + proofs[e].amount
  <1> DEFINE f == [i \in D |-> proofs[i].amount]
             g == [i \in E |-> proofs[i].amount]
  <1>1. \A i \in E : proofs[i].amount \in Int
    BY ProofAmount
  <1>2. /\ f \in [D -> Int] /\ g \in [E -> Int]
        /\ \A i \in D : g[i] = f[i]
        /\ g[e] = proofs[e].amount
    BY <1>1
  <1>3. SatsOf(proofs, E) = SumFunction(g) /\ SatsOf(proofs, D) = SumFunction(f)
    BY DEF SatsOf
  <1> HIDE DEF f, g
  <1>4. SumFunction(g) = SumFunction(f) + g[e]
    BY <1>2, SumExtend
  <1>5. QED
    BY <1>2, <1>3, <1>4

LEMMA SatsAppend ==
    ASSUME NEW proofs \in Seq(LiquidityProof), NEW proof \in LiquidityProof
    PROVE  LET more == Append(proofs, proof)
           IN SatsOf(more, DOMAIN more) = SatsOf(proofs, DOMAIN proofs) + proof.amount
  <1> DEFINE more == Append(proofs, proof)
             n == Len(proofs)
             e == n + 1
             D == 1 .. n
             E == 1 .. e
  <1>1. /\ n \in Nat /\ DOMAIN proofs = D
        /\ more \in Seq(LiquidityProof) /\ Len(more) = e
        /\ \A i \in D : more[i] = proofs[i]
        /\ more[e] = proof
    BY LenProperties, AppendProperties
  <1>2. E = D \cup {e} /\ e \notin D
    BY <1>1
  <1>3. IsFiniteSet(D)
    BY <1>1, FS_Interval
  <1>4. DOMAIN more = E /\ more \in [E -> LiquidityProof]
    BY <1>1, LenProperties
  <1> HIDE DEF more, n, D, E, e
  <1>5. SatsOf(more, E) = SatsOf(more, D) + more[e].amount
    BY <1>2, <1>3, <1>4, SatsExtend
  <1>6. SatsOf(more, D) = SatsOf(proofs, D)
    BY <1>1 DEF SatsOf
  <1>7. QED
    BY <1>1, <1>4, <1>5, <1>6 DEF more

LEMMA InitCap == LboInit => CapInv
  <1> SUFFICES ASSUME LboInit, NEW c \in Contributors PROVE Contributed(c) = 0
    <2>1. LboInit => MaxContribution \in Nat /\ \A t \in LboTasks : ~LboAt(t, "push")
      BY LboAssumption DEF LboInit, LboAt, NoRequest
    <2>2. QED
      BY <2>1 DEF CapInv
  <1>1. DOMAIN contributions[c] = {}
    BY EmptySeq DEF LboInit
  <1>2. IsFiniteSet({})
    BY FS_EmptySet
  <1> DEFINE f == [i \in {} |-> contributions[c][i].amount]
  <1>3. f \in [{} -> Int] /\ \A i \in {} : f[i] = 0
    OBVIOUS
  <1>4. SumFunction(f) = 0
    BY <1>2, <1>3, SumZero
  <1>5. QED
    BY <1>1, <1>4 DEF Contributed, SatsOf

\* Steps that bring no submission on its way and no proof.
LEMMA CapUntouched ==
    ASSUME CapInv, UNCHANGED <<submitsMet, submitsWrapped>>,
           \A c \in Contributors : Contributed(c)' = Contributed(c),
           \A t \in LboTasks : LboAt(t, "push")' => LboAt(t, "push") /\ lboCall'[t] = lboCall[t]
    PROVE  CapInv'
  <1> SUFFICES ASSUME NEW c \in Contributors \ (submitsMet \cup submitsWrapped)
               PROVE  /\ Contributed(c)' <= MaxContribution
                      /\ \A t, u \in LboTasks :
                           /\ ContributorOf[t] = c /\ ContributorOf[u] = c
                           /\ LboAt(t, "push")' /\ LboAt(u, "push")'
                           => t = u
                      /\ \A t \in LboTasks :
                           ContributorOf[t] = c /\ LboAt(t, "push")' =>
                             Contributed(c)' + lboCall'[t].amount <= MaxContribution
    BY DEF CapInv
  <1>1. Contributed(c)' = Contributed(c)
    OBVIOUS
  <1>2. QED
    BY <1>1 DEF CapInv

LEMMA StepCap ==
    ASSUME LboTyped, CapInv, [LboNext]_lboVars
    PROVE  CapInv'
  <1> USE DEF LboAt
  <1>0. UNCHANGED contributions =>
          \A c \in Contributors : Contributed(c)' = Contributed(c)
    BY DEF Contributed
  <1>00. ASSUME NEW c \in Contributors PROVE Contributed(c) \in Nat
    <2>1. contributions[c] \in Seq(LiquidityProof)
      BY DEF LboTyped, LboTypeOK
    <2>2. QED
      BY <2>1, SatsNat DEF Contributed
  <1>1. CASE LboClock
    BY <1>0, <1>1, CapUntouched DEF LboClock, lboHistory
  <1>2. ASSUME NEW t \in LboTasks, NEW amount \in ProofAmounts, NEW claimed \in BOOLEAN,
               SubmitProof(t, amount, claimed)
        PROVE  CapInv'
    <2> DEFINE d == ContributorOf[t]
    <2>0. LboWrap(ParticipantTotal(d) + amount) <= MaxContribution
      BY <1>2, LboAssumption DEF SubmitProof
    <2>1. /\ LboAt(t, "idle") /\ UNCHANGED contributions
          /\ submitsMet' = submitsMet \cup {c \in {d} : Sibling(t, {"push"})}
          /\ submitsWrapped' = submitsWrapped \cup
                {c \in {d} : ParticipantTotal(c) + amount >= LboWord}
      BY <1>2 DEF SubmitProof, BeginSubmit
    <2>2. /\ lboCall'[t].amount = amount
          /\ \A u \in LboTasks \ {t} : lboCall'[u] = lboCall[u]
      BY <1>2 DEF SubmitProof, BeginSubmit, NoRequest, LboTyped, LboTypeOK
    <2>3. \A c \in Contributors : Contributed(c)' = Contributed(c)
      BY <1>0, <2>1
    <2> SUFFICES ASSUME NEW c \in Contributors \ (submitsMet' \cup submitsWrapped')
                 PROVE  /\ Contributed(c)' <= MaxContribution
                        /\ \A v, u \in LboTasks :
                             /\ ContributorOf[v] = c /\ ContributorOf[u] = c
                             /\ LboAt(v, "push")' /\ LboAt(u, "push")'
                             => v = u
                        /\ \A u \in LboTasks :
                             ContributorOf[u] = c /\ LboAt(u, "push")' =>
                               Contributed(c)' + lboCall'[u].amount <= MaxContribution
      BY DEF CapInv
    <2>4. c \in Contributors \ (submitsMet \cup submitsWrapped)
          /\ Contributed(c)' = Contributed(c)
      BY <2>1, <2>3
    <2>5. CASE c # d
      BY <2>2, <2>4, <2>5 DEF CapInv
    <2>6. CASE c = d
      <3>1. \A u \in LboTasks \ {t} : ContributorOf[u] = d => ~LboAt(u, "push")'
        BY <2>1, <2>2, <2>6 DEF Sibling
      <3>2. Contributed(d) + amount <= MaxContribution
        <4>1. Contributed(d) \in Nat /\ Contributed(d) <= MaxContribution /\ amount \in Nat
          BY <1>00, <2>4, <2>6, LboAssumption DEF CapInv
        <4>2. ParticipantTotal(d) = Contributed(d)
          BY <4>1, LboWraps, LboAssumption DEF ParticipantTotal
        <4>3. ~(ParticipantTotal(d) + amount >= LboWord)
          BY <2>1, <2>6
        <4>4. Contributed(d) + amount \in Nat /\ Contributed(d) + amount < LboWord
          BY <4>1, <4>2, <4>3, LboAssumption
        <4>5. LboWrap(Contributed(d) + amount) = Contributed(d) + amount
          BY <4>4, LboWraps
        <4>6. QED
          BY <2>0, <4>2, <4>5
      <3>3. QED
        BY <2>1, <2>2, <2>4, <2>6, <3>1, <3>2 DEF CapInv
    <2>7. QED
      BY <2>5, <2>6
  <1>3. ASSUME NEW t \in LboTasks, SubmitPush(t)
        PROVE  CapInv'
    <2> DEFINE d == ContributorOf[t]
               proof == [amount |-> lboCall[t].amount, claimed |-> lboCall[t].claimed]
    <2>1. /\ LboAt(t, "push") /\ UNCHANGED <<submitsMet, submitsWrapped>>
          /\ contributions' = [contributions EXCEPT ![d] = Append(@, proof)]
          /\ LboGoto(t, "raise")
      BY <1>3 DEF SubmitPush, lboHistory
    <2>2. /\ d \in Contributors /\ contributions[d] \in Seq(LiquidityProof)
          /\ proof \in LiquidityProof
      BY <2>1 DEF LboTyped, LboTypeOK, PushAmounts, Contributors, LboRequest, LiquidityProof
    <2> HIDE DEF proof
    <2>3. Contributed(d)' = Contributed(d) + lboCall[t].amount
      <3>1. contributions'[d] = Append(contributions[d], proof)
        BY <2>1, <2>2 DEF LboTyped, LboTypeOK
      <3>2. proof.amount = lboCall[t].amount
        BY DEF proof
      <3>3. QED
        BY <2>2, <3>1, <3>2, SatsAppend DEF Contributed
    <2>4. \A c \in Contributors \ {d} : Contributed(c)' = Contributed(c)
      BY <2>1, <2>2 DEF Contributed, LboTyped, LboTypeOK
    <2>5. /\ ~LboAt(t, "push")'
          /\ \A u \in LboTasks \ {t} : lboCall'[u] = lboCall[u]
      BY <2>1 DEF LboGoto, LboTyped, LboTypeOK, LboRequest
    <2> SUFFICES ASSUME NEW c \in Contributors \ (submitsMet \cup submitsWrapped)
                 PROVE  /\ Contributed(c)' <= MaxContribution
                        /\ \A v, u \in LboTasks :
                             /\ ContributorOf[v] = c /\ ContributorOf[u] = c
                             /\ LboAt(v, "push")' /\ LboAt(u, "push")'
                             => v = u
                        /\ \A u \in LboTasks :
                             ContributorOf[u] = c /\ LboAt(u, "push")' =>
                               Contributed(c)' + lboCall'[u].amount <= MaxContribution
      BY <2>1 DEF CapInv
    <2>6. CASE c # d
      <3>1. Contributed(c)' = Contributed(c)
        BY <2>4, <2>6
      <3>2. QED
        BY <2>5, <2>6, <3>1 DEF CapInv
    <2>7. CASE c = d
      <3>1. \A u \in LboTasks : ContributorOf[u] = d => ~LboAt(u, "push")'
        BY <2>1, <2>5, <2>7 DEF CapInv
      <3>2. Contributed(d)' <= MaxContribution
        BY <2>1, <2>3, <2>7 DEF CapInv
      <3>3. QED
        BY <2>7, <3>1, <3>2
    <2>8. QED
      BY <2>6, <2>7
  <1>4. ASSUME NEW t \in LboTasks,
               SubmitRaise(t) \/ Claim(t) \/ ClaimAllocation(t) \/ ClaimMint(t) \/ ClaimCount(t)
        PROVE  CapInv'
    <2>1. UNCHANGED <<contributions, submitsMet, submitsWrapped>>
      BY <1>4 DEF SubmitRaise, Claim, ClaimAllocation, CheckAllocation, ClaimMint, ClaimCount,
                  lboHistory
    <2>2. ASSUME NEW u \in LboTasks, LboAt(u, "push")'
          PROVE  LboAt(u, "push") /\ lboCall'[u] = lboCall[u]
      <3>1. CASE Claim(t)
        BY <2>2, <3>1 DEF Claim, NoRequest, LboTyped, LboTypeOK
      <3>2. CASE LboReturn(t)
        BY <2>2, <3>2 DEF LboReturn, NoRequest, LboTyped, LboTypeOK
      <3>3. CASE LboGoto(t, "mint") \/ LboGoto(t, "mark")
        BY <2>2, <3>3 DEF LboGoto, LboTyped, LboTypeOK, LboRequest
      <3>4. QED
        BY <1>4, <3>1, <3>2, <3>3 DEF SubmitRaise, ClaimAllocation, CheckAllocation, ClaimMint,
                                      ClaimCount
    <2>3. QED
      BY <1>0, <2>1, <2>2, CapUntouched
  <1>5. ASSUME NEW t \in LboTasks, ClaimMark(t)
        PROVE  CapInv'
    <2> DEFINE d == ContributorOf[t]
               old == contributions[d]
               marked == [i \in DOMAIN old |->
                            IF i \in lboCall[t].marks THEN [old[i] EXCEPT !.claimed = TRUE]
                            ELSE old[i]]
    <2>1. /\ d \in Contributors /\ old \in Seq(LiquidityProof)
          /\ contributions' = [contributions EXCEPT ![d] = marked]
          /\ LboGoto(t, "count") /\ UNCHANGED <<submitsMet, submitsWrapped>>
      BY <1>5 DEF ClaimMark, MarkClaimed, LboTyped, LboTypeOK, Contributors, lboHistory
    <2>2. contributions'[d] = marked
          /\ \A c \in Contributors \ {d} : contributions'[c] = contributions[c]
      BY <2>1 DEF LboTyped, LboTypeOK
    <2>3. [i \in DOMAIN marked |-> marked[i].amount] = [i \in DOMAIN old |-> old[i].amount]
      <3>1. \A i \in DOMAIN old : old[i] \in LiquidityProof
        BY <2>1, ElementOfSeq, LenProperties
      <3>2. \A i \in DOMAIN old : marked[i].amount = old[i].amount
        BY <3>1 DEF LiquidityProof
      <3>3. DOMAIN marked = DOMAIN old
        OBVIOUS
      <3> HIDE DEF marked, old
      <3>4. QED
        BY <3>2, <3>3
    <2> HIDE DEF marked
    <2>4. ASSUME NEW c \in Contributors PROVE Contributed(c)' = Contributed(c)
      <3>1. CASE c = d
        BY <2>2, <2>3, <3>1 DEF Contributed, SatsOf
      <3>2. CASE c # d
        BY <2>2, <3>2 DEF Contributed
      <3>3. QED
        BY <3>1, <3>2
    <2>5. ASSUME NEW u \in LboTasks, LboAt(u, "push")'
          PROVE  LboAt(u, "push") /\ lboCall'[u] = lboCall[u]
      BY <2>1, <2>5 DEF LboGoto, LboTyped, LboTypeOK, LboRequest
    <2>6. QED
      BY <2>1, <2>4, <2>5, CapUntouched
  <1>6. CASE UNCHANGED lboVars
    BY <1>0, <1>6, CapUntouched DEF lboVars, lboHistory
  <1>7. QED
    BY <1>1, <1>2, <1>3, <1>4, <1>5, <1>6 DEF LboNext

\* A contributor's proofs stay within the maximum (lbo.rs:100-123), for any number
\* of clients and any amounts, unless two of its submissions overlapped or one was
\* admitted on a total that wrapped.
THEOREM ContributionsCapped == LboSpec => []ContributionCapped
  <1>1. LboInit => LboTyped /\ CapInv
    BY InitTyped, InitCap
  <1>2. LboTyped /\ CapInv /\ [LboNext]_lboVars => (LboTyped /\ CapInv)'
    BY StepTyped, StepCap
  <1>3. CapInv => ContributionCapped
    BY DEF CapInv, ContributionCapped
  <1>4. QED
    BY <1>1, <1>2, <1>3, PTL DEF LboSpec

-----------------------------------------------------------------------------
(* WalletSession.                                                          *)

IdleBound ==
    /\ keystore = "some" => idle <= Timeout + sinceCheck
    /\ unlocking => idle = 0

PollBound ==
    view = "main" /\ asked =>
        /\ idle <= sincePoll
        /\ checker = "expired" => touched

SessionInv == SessionTypeOK /\ IdleBound /\ PollBound

-----------------------------------------------------------------------------
LEMMA InitSession == SessionInit => SessionInv
  <1> SUFFICES ASSUME SessionInit PROVE SessionInv
    OBVIOUS
  <1>1. 0 \in 0 .. LongIdle /\ 0 \in 0 .. CheckPeriod /\ 0 \in 0 .. PollPeriod
    BY SessionAssumption DEF LongIdle
  <1>2. SessionTypeOK
    BY <1>1 DEF SessionInit, SessionTypeOK
  <1>3. IdleBound /\ PollBound
    BY DEF SessionInit, IdleBound, PollBound
  <1>4. QED
    BY <1>2, <1>3 DEF SessionInv

LEMMA StepSession ==
    ASSUME SessionInv, [SessionNext]_sessionVars
    PROVE  SessionInv'
  <1> USE SessionAssumption
  <1> USE DEF SessionInv, SessionTypeOK, IdleBound, PollBound, LongIdle
  <1>1. CASE IsWalletInitialized
    BY <1>1 DEF IsWalletInitialized, Command, Touch
  <1>2. CASE BeginUnlock
    BY <1>2 DEF BeginUnlock, Command, Touch
  <1>3. CASE UnlockWallet
    <2>1. 0 \in 0 .. PollPeriod
      OBVIOUS
    <2>2. SessionTypeOK'
      BY <1>3, <2>1 DEF UnlockWallet
    <2>3. IdleBound'
      BY <1>3 DEF UnlockWallet
    <2>4. PollBound'
      BY <1>3 DEF UnlockWallet
    <2>5. QED
      BY <2>2, <2>3, <2>4
  <1>4. CASE UnlockRefused
    BY <1>4 DEF UnlockRefused
  <1>5. CASE LockWallet
    BY <1>5 DEF LockWallet, Command
  <1>6. CASE GetGovernanceState
    BY <1>6 DEF GetGovernanceState, Asked, Command, Touch
  <1>7. CASE CheckLock
    <2>1. 0 \in 0 .. PollPeriod
      OBVIOUS
    <2>2. SessionTypeOK'
      BY <1>7, <2>1 DEF CheckLock
    <2>3. IdleBound'
      BY <1>7 DEF CheckLock
    <2>4. PollBound'
      BY <1>7 DEF CheckLock
    <2>5. QED
      BY <2>2, <2>3, <2>4
  <1>8. CASE Suspend
    BY <1>8 DEF Suspend
  <1>9. CASE Resume
    <2>1. 0 \in 0 .. PollPeriod
      OBVIOUS
    <2>2. SessionTypeOK' /\ IdleBound'
      BY <1>9, <2>1 DEF Resume
    <2>3. PollBound'
      BY <1>9 DEF Resume
    <2>4. QED
      BY <2>2, <2>3
  <1>10. CASE CheckTimeout
    <2>1. CASE idle > Timeout
      <3>1. ~(view = "main" /\ asked)
        BY <2>1
      <3>2. QED
        BY <1>10, <2>1, <3>1 DEF CheckTimeout, CheckedAgainst
    <2>2. CASE ~(idle > Timeout)
      BY <1>10, <2>2 DEF CheckTimeout, CheckedAgainst
    <2>3. QED
      BY <2>1, <2>2
  <1>11. CASE LockExpired
    BY <1>11 DEF LockExpired
  <1>12. CASE SessionTick
    <2>1. /\ ~unlocking /\ checker = "asleep" /\ sinceCheck < CheckPeriod
          /\ view = "main" => sincePoll < PollPeriod
          /\ sinceCheck' = sinceCheck + 1
          /\ sincePoll' = IF view = "main" THEN sincePoll + 1 ELSE sincePoll
          /\ UNCHANGED <<keystore, unlocking, checker, view, asked, touched>>
      BY <1>12 DEF SessionTick
    <2>2. idle' \in 0 .. LongIdle /\ idle' <= idle + 1
      BY <1>12 DEF SessionTick
    <2>3. QED
      BY <2>1, <2>2
  <1>13. CASE UNCHANGED sessionVars
    BY <1>13 DEF sessionVars
  <1>14. QED
    BY <1>1, <1>2, <1>3, <1>4, <1>5, <1>6, <1>7, <1>8, <1>9, <1>10, <1>11, <1>12, <1>13 DEF SessionNext

\* Without an action the keystore is closed within the timeout and one period of the
\* checking task, for every timeout and every period (lib.rs:80-91, 242-247).
THEOREM ClosesWhenIdle == SessionSpec => []IdleCloses
  <1>1. SessionInit => SessionInv
    BY InitSession
  <1>2. SessionInv /\ [SessionNext]_sessionVars => SessionInv'
    BY StepSession
  <1>3. SessionInv => IdleCloses
    BY SessionAssumption DEF SessionInv, SessionTypeOK, IdleBound, IdleCloses
  <1>4. QED
    BY <1>1, <1>2, <1>3, PTL DEF SessionSpec

\* The checking task never closes the keystore under a main view that keeps asking,
\* unless it had found it expired before a question, for every polling period up
\* to the timeout (lib.rs:157, App.tsx:59-61).
THEOREM StaysOpenWhileShown == SessionSpec => ShownStaysOpen
  <1>1. SessionInit => SessionInv
    BY InitSession
  <1>2. SessionInv /\ [SessionNext]_sessionVars => SessionInv'
    BY StepSession
  <1>3. SessionInv /\ [SessionNext]_sessionVars =>
          [LockExpired /\ keystore = "some" /\ view = "main" /\ asked => touched]_sessionVars
    BY DEF SessionInv, PollBound, LockExpired
  <1>4. QED
    BY <1>1, <1>2, <1>3, PTL DEF SessionSpec, ShownStaysOpen

-----------------------------------------------------------------------------
(* EconomicsFiles.                                                         *)

TokenPart == [supply: Nat, free: Nat, staked: Nat]
PoolPart == [amount: Nat, credited: Nat, owed: Nat]
FeesPart == [pending: Nat, collected: Nat, distributed: Nat]

Says == TokenPart \cup PoolPart \cup FeesPart

\* What FilesTypeOK leaves open: the disk is a function of records.
DiskShaped == disk \in [Parts -> [text: {"absent", "empty", "torn", "whole"}, says: Says]]

-----------------------------------------------------------------------------
(* Memories: what a command does to the three parts.                       *)

LEMMA MemoryParts ==
    ASSUME NEW m
    PROVE  m \in Memory <=> /\ m = [f \in Parts |-> m[f]]
                            /\ m.token \in TokenPart /\ m.pool \in PoolPart /\ m.fees \in FeesPart
  BY DEF Memory, Parts, TokenPart, PoolPart, FeesPart

LEMMA FreshMemory == Fresh \in Memory
  BY DEF Fresh, Memory

\* Memories with one part replaced.
LEMMA WithToken ==
    ASSUME NEW m \in Memory, NEW t \in TokenPart
    PROVE  /\ [m EXCEPT !.token = t] \in Memory /\ [m EXCEPT !.token = t].token = t
           /\ [m EXCEPT !.token = t].pool = m.pool /\ [m EXCEPT !.token = t].fees = m.fees
  BY DEF Memory, TokenPart

LEMMA WithPool ==
    ASSUME NEW m \in Memory, NEW s \in PoolPart
    PROVE  /\ [m EXCEPT !.pool = s] \in Memory /\ [m EXCEPT !.pool = s].pool = s
           /\ [m EXCEPT !.pool = s].token = m.token /\ [m EXCEPT !.pool = s].fees = m.fees
  BY DEF Memory, PoolPart

LEMMA WithFees ==
    ASSUME NEW m \in Memory, NEW d \in FeesPart
    PROVE  /\ [m EXCEPT !.fees = d] \in Memory /\ [m EXCEPT !.fees = d].fees = d
           /\ [m EXCEPT !.fees = d].token = m.token /\ [m EXCEPT !.fees = d].pool = m.pool
  BY DEF Memory, FeesPart

LEMMA SetToken ==
    ASSUME NEW m \in Memory, NEW n \in Nat
    PROVE  /\ LET u == [m EXCEPT !.token.supply = n] IN
              /\ u \in Memory /\ u.token.supply = n
              /\ u.token.free = m.token.free /\ u.token.staked = m.token.staked
              /\ u.pool = m.pool /\ u.fees = m.fees
           /\ LET u == [m EXCEPT !.token.free = n] IN
              /\ u \in Memory /\ u.token.free = n
              /\ u.token.supply = m.token.supply /\ u.token.staked = m.token.staked
              /\ u.pool = m.pool /\ u.fees = m.fees
           /\ LET u == [m EXCEPT !.token.staked = n] IN
              /\ u \in Memory /\ u.token.staked = n
              /\ u.token.supply = m.token.supply /\ u.token.free = m.token.free
              /\ u.pool = m.pool /\ u.fees = m.fees
  <1>1. m.token \in TokenPart
    BY DEF Memory, TokenPart
  <1>2. LET u == [m.token EXCEPT !.supply = n] IN
        u \in TokenPart /\ u.supply = n /\ u.free = m.token.free /\ u.staked = m.token.staked
    BY <1>1 DEF TokenPart
  <1>3. LET u == [m.token EXCEPT !.free = n] IN
        u \in TokenPart /\ u.free = n /\ u.supply = m.token.supply /\ u.staked = m.token.staked
    BY <1>1 DEF TokenPart
  <1>4. LET u == [m.token EXCEPT !.staked = n] IN
        u \in TokenPart /\ u.staked = n /\ u.supply = m.token.supply /\ u.free = m.token.free
    BY <1>1 DEF TokenPart
  <1>5. QED
    BY <1>2, <1>3, <1>4, WithToken

LEMMA SetPool ==
    ASSUME NEW m \in Memory, NEW n \in Nat
    PROVE  /\ LET u == [m EXCEPT !.pool.amount = n] IN
              /\ u \in Memory /\ u.pool.amount = n
              /\ u.pool.credited = m.pool.credited /\ u.pool.owed = m.pool.owed
              /\ u.token = m.token /\ u.fees = m.fees
           /\ LET u == [m EXCEPT !.pool.credited = n] IN
              /\ u \in Memory /\ u.pool.credited = n
              /\ u.pool.amount = m.pool.amount /\ u.pool.owed = m.pool.owed
              /\ u.token = m.token /\ u.fees = m.fees
           /\ LET u == [m EXCEPT !.pool.owed = n] IN
              /\ u \in Memory /\ u.pool.owed = n
              /\ u.pool.amount = m.pool.amount /\ u.pool.credited = m.pool.credited
              /\ u.token = m.token /\ u.fees = m.fees
  <1>1. m.pool \in PoolPart
    BY DEF Memory, PoolPart
  <1>2. LET u == [m.pool EXCEPT !.amount = n] IN
        u \in PoolPart /\ u.amount = n /\ u.credited = m.pool.credited /\ u.owed = m.pool.owed
    BY <1>1 DEF PoolPart
  <1>3. LET u == [m.pool EXCEPT !.credited = n] IN
        u \in PoolPart /\ u.credited = n /\ u.amount = m.pool.amount /\ u.owed = m.pool.owed
    BY <1>1 DEF PoolPart
  <1>4. LET u == [m.pool EXCEPT !.owed = n] IN
        u \in PoolPart /\ u.owed = n /\ u.amount = m.pool.amount /\ u.credited = m.pool.credited
    BY <1>1 DEF PoolPart
  <1>5. QED
    BY <1>2, <1>3, <1>4, WithPool

LEMMA SetFees ==
    ASSUME NEW m \in Memory, NEW n \in Nat
    PROVE  /\ LET u == [m EXCEPT !.fees.pending = n] IN
              /\ u \in Memory /\ u.fees.pending = n
              /\ u.fees.collected = m.fees.collected /\ u.fees.distributed = m.fees.distributed
              /\ u.token = m.token /\ u.pool = m.pool
           /\ LET u == [m EXCEPT !.fees.collected = n] IN
              /\ u \in Memory /\ u.fees.collected = n
              /\ u.fees.pending = m.fees.pending /\ u.fees.distributed = m.fees.distributed
              /\ u.token = m.token /\ u.pool = m.pool
           /\ LET u == [m EXCEPT !.fees.distributed = n] IN
              /\ u \in Memory /\ u.fees.distributed = n
              /\ u.fees.pending = m.fees.pending /\ u.fees.collected = m.fees.collected
              /\ u.token = m.token /\ u.pool = m.pool
  <1>1. m.fees \in FeesPart
    BY DEF Memory, FeesPart
  <1>2. LET u == [m.fees EXCEPT !.pending = n] IN
        u \in FeesPart /\ u.pending = n /\ u.collected = m.fees.collected /\ u.distributed = m.fees.distributed
    BY <1>1 DEF FeesPart
  <1>3. LET u == [m.fees EXCEPT !.collected = n] IN
        u \in FeesPart /\ u.collected = n /\ u.pending = m.fees.pending /\ u.distributed = m.fees.distributed
    BY <1>1 DEF FeesPart
  <1>4. LET u == [m.fees EXCEPT !.distributed = n] IN
        u \in FeesPart /\ u.distributed = n /\ u.pending = m.fees.pending /\ u.collected = m.fees.collected
    BY <1>1 DEF FeesPart
  <1>5. QED
    BY <1>2, <1>3, <1>4, WithFees

\* Every command leaves a memory; the supply is a mint's only.
LEMMA MintedMemory ==
    ASSUME NEW m \in Memory, NEW a \in Nat
    PROVE  /\ Minted(m, a) \in Memory
           /\ Minted(m, a).token.supply = m.token.supply + a
           /\ Minted(m, a).token.staked = m.token.staked
           /\ Minted(m, a).pool = m.pool /\ Minted(m, a).fees = m.fees
  <1> DEFINE u == [m EXCEPT !.token.supply = m.token.supply + a]
  <1>1. m.token.supply + a \in Nat /\ m.token.free + a \in Nat
    BY DEF Memory
  <1>2. /\ u \in Memory /\ u.token.supply = m.token.supply + a
        /\ u.token.free = m.token.free /\ u.token.staked = m.token.staked
        /\ u.pool = m.pool /\ u.fees = m.fees
    BY <1>1, SetToken
  <1>3. Minted(m, a) = [u EXCEPT !.token.free = m.token.free + a]
    BY DEF Minted
  <1> HIDE DEF u
  <1>4. LET w == [u EXCEPT !.token.free = m.token.free + a] IN
        /\ w \in Memory /\ w.token.supply = u.token.supply /\ w.token.staked = u.token.staked
        /\ w.pool = u.pool /\ w.fees = u.fees
    BY <1>1, <1>2, SetToken
  <1>5. QED
    BY <1>2, <1>3, <1>4

LEMMA StakedMemory ==
    ASSUME NEW m \in Memory, NEW a \in Nat, StakeFits(m, a)
    PROVE  /\ Staked(m, a) \in Memory
           /\ Staked(m, a).token.supply = m.token.supply
           /\ Staked(m, a).token.staked = m.token.staked + a
           /\ Staked(m, a).pool.amount = m.pool.amount + a
           /\ Staked(m, a).pool.credited = m.pool.credited /\ Staked(m, a).pool.owed = m.pool.owed
           /\ Staked(m, a).fees = m.fees
  <1> DEFINE u == [m EXCEPT !.token.free = m.token.free - a]
  <1> DEFINE v == [u EXCEPT !.token.staked = m.token.staked + a]
  <1>1. /\ m.token.free - a \in Nat /\ m.token.staked + a \in Nat
        /\ m.pool.amount + a \in Nat
    BY DEF Memory, StakeFits
  <1>2. /\ u \in Memory /\ u.token.supply = m.token.supply
        /\ u.token.staked = m.token.staked /\ u.pool = m.pool /\ u.fees = m.fees
    BY <1>1, SetToken
  <1>3. Staked(m, a) = [v EXCEPT !.pool.amount = m.pool.amount + a]
    BY DEF Staked
  <1> HIDE DEF u
  <1>4. /\ v \in Memory /\ v.token.supply = m.token.supply
        /\ v.token.staked = m.token.staked + a
        /\ v.pool = m.pool /\ v.fees = m.fees
    BY <1>1, <1>2, SetToken
  <1> HIDE DEF v
  <1>5. LET w == [v EXCEPT !.pool.amount = m.pool.amount + a] IN
        /\ w \in Memory /\ w.token = v.token /\ w.fees = v.fees
        /\ w.pool.amount = m.pool.amount + a
        /\ w.pool.credited = v.pool.credited /\ w.pool.owed = v.pool.owed
    BY <1>1, <1>4, SetPool
  <1>6. QED
    BY <1>3, <1>4, <1>5

LEMMA UnstakedMemory ==
    ASSUME NEW m \in Memory, NEW a \in Nat, UnstakeFits(m, a)
    PROVE  /\ Unstaked(m, a) \in Memory
           /\ Unstaked(m, a).token.supply = m.token.supply
           /\ Unstaked(m, a).token.staked = m.token.staked - a
           /\ Unstaked(m, a).pool.amount = m.pool.amount - a
           /\ Unstaked(m, a).pool.credited = m.pool.credited /\ Unstaked(m, a).pool.owed = m.pool.owed
           /\ Unstaked(m, a).fees = m.fees
  <1> DEFINE u == [m EXCEPT !.token.free = m.token.free + a]
  <1> DEFINE v == [u EXCEPT !.token.staked = m.token.staked - a]
  <1>1. /\ m.token.free + a \in Nat /\ m.token.staked - a \in Nat
        /\ m.pool.amount - a \in Nat
    BY DEF Memory, UnstakeFits
  <1>2. /\ u \in Memory /\ u.token.supply = m.token.supply
        /\ u.token.staked = m.token.staked /\ u.pool = m.pool /\ u.fees = m.fees
    BY <1>1, SetToken
  <1>3. Unstaked(m, a) = [v EXCEPT !.pool.amount = m.pool.amount - a]
    BY DEF Unstaked
  <1> HIDE DEF u
  <1>4. /\ v \in Memory /\ v.token.supply = m.token.supply
        /\ v.token.staked = m.token.staked - a
        /\ v.pool = m.pool /\ v.fees = m.fees
    BY <1>1, <1>2, SetToken
  <1> HIDE DEF v
  <1>5. LET w == [v EXCEPT !.pool.amount = m.pool.amount - a] IN
        /\ w \in Memory /\ w.token = v.token /\ w.fees = v.fees
        /\ w.pool.amount = m.pool.amount - a
        /\ w.pool.credited = v.pool.credited /\ w.pool.owed = v.pool.owed
    BY <1>1, <1>4, SetPool
  <1>6. QED
    BY <1>3, <1>4, <1>5

LEMMA ClaimedMemory ==
    ASSUME NEW m \in Memory
    PROVE  /\ Claimed(m) \in Memory
           /\ Claimed(m).token = m.token /\ Claimed(m).fees = m.fees
           /\ Claimed(m).pool.amount = m.pool.amount
           /\ Claimed(m).pool.credited = m.pool.credited /\ Claimed(m).pool.owed = 0
  BY SetPool DEF Claimed

LEMMA TransferredMemory ==
    ASSUME NEW m \in Memory, NEW a \in Nat, a <= m.token.free
    PROVE  LET u == [m EXCEPT !.token.free = m.token.free - a] IN
           /\ u \in Memory /\ u.token.supply = m.token.supply
           /\ u.token.staked = m.token.staked /\ u.pool = m.pool /\ u.fees = m.fees
  <1>1. m.token.free - a \in Nat
    BY DEF Memory
  <1>2. QED
    BY <1>1, SetToken

LEMMA CollectedMemory ==
    ASSUME NEW m \in Memory, NEW a \in Nat
    PROVE  /\ Collected(m, a) \in Memory
           /\ Collected(m, a).token = m.token /\ Collected(m, a).pool = m.pool
           /\ Collected(m, a).fees.distributed = m.fees.distributed
  <1> DEFINE u == [m EXCEPT !.fees.pending = m.fees.pending + a]
  <1>1. m.fees.pending + a \in Nat /\ m.fees.collected + a \in Nat
    BY DEF Memory
  <1>2. /\ u \in Memory /\ u.fees.collected = m.fees.collected
        /\ u.fees.distributed = m.fees.distributed
        /\ u.token = m.token /\ u.pool = m.pool
    BY <1>1, SetFees
  <1>3. Collected(m, a) = [u EXCEPT !.fees.collected = m.fees.collected + a]
    BY DEF Collected
  <1> HIDE DEF u
  <1>4. LET w == [u EXCEPT !.fees.collected = m.fees.collected + a] IN
        /\ w \in Memory /\ w.token = u.token /\ w.pool = u.pool
        /\ w.fees.distributed = u.fees.distributed
    BY <1>1, <1>2, SetFees
  <1>5. QED
    BY <1>2, <1>3, <1>4

LEMMA DistributedMemory ==
    ASSUME NEW m \in Memory
    PROVE  /\ Distributed(m) \in Memory
           /\ Distributed(m).token = m.token /\ Distributed(m).pool.amount = m.pool.amount
           /\ Distributed(m).fees.distributed = m.fees.distributed + m.fees.pending
           /\ \E n \in 0 .. m.fees.pending :
                /\ Distributed(m).pool.credited = m.pool.credited + n
                /\ Distributed(m).pool.owed = m.pool.owed + n
  <1> DEFINE credit == IF m.pool.amount = 0 THEN 0 ELSE m.fees.pending
  <1> DEFINE u == [m EXCEPT !.fees.pending = 0]
  <1> DEFINE v == [u EXCEPT !.fees.distributed = m.fees.distributed + m.fees.pending]
  <1> DEFINE w == [v EXCEPT !.pool.credited = m.pool.credited + credit]
  <1>1. /\ m.fees.distributed + m.fees.pending \in Nat
        /\ m.pool.credited + credit \in Nat /\ m.pool.owed + credit \in Nat
        /\ credit \in 0 .. m.fees.pending
    BY DEF Memory
  <1>2. Distributed(m) = [w EXCEPT !.pool.owed = m.pool.owed + credit]
    BY DEF Distributed
  <1> HIDE DEF credit
  <1>3. u \in Memory /\ u.token = m.token /\ u.pool = m.pool
    BY SetFees
  <1> HIDE DEF u
  <1>4. /\ v \in Memory /\ v.token = m.token /\ v.pool = m.pool
        /\ v.fees.distributed = m.fees.distributed + m.fees.pending
    BY <1>1, <1>3, SetFees
  <1> HIDE DEF v
  <1>5. /\ w \in Memory /\ w.token = m.token /\ w.fees = v.fees
        /\ w.pool.amount = m.pool.amount /\ w.pool.credited = m.pool.credited + credit
    <2> DEFINE n == m.pool.credited + credit
    <2>1. n \in Nat /\ w = [v EXCEPT !.pool.credited = n]
      BY <1>1
    <2> HIDE DEF n, w
    <2>2. /\ w \in Memory /\ w.token = v.token /\ w.fees = v.fees
          /\ w.pool.amount = v.pool.amount /\ w.pool.credited = n
      BY <1>4, <2>1, SetPool
    <2>3. QED
      BY <1>4, <2>2 DEF n
  <1> HIDE DEF w
  <1>6. LET x == [w EXCEPT !.pool.owed = m.pool.owed + credit] IN
        /\ x \in Memory /\ x.token = w.token /\ x.fees = w.fees
        /\ x.pool.amount = w.pool.amount /\ x.pool.credited = w.pool.credited
        /\ x.pool.owed = m.pool.owed + credit
    BY <1>1, <1>5, SetPool
  <1>7. /\ Distributed(m) \in Memory /\ Distributed(m).token = m.token
        /\ Distributed(m).pool.amount = m.pool.amount
        /\ Distributed(m).fees.distributed = m.fees.distributed + m.fees.pending
        /\ Distributed(m).pool.credited = m.pool.credited + credit
        /\ Distributed(m).pool.owed = m.pool.owed + credit
    BY <1>2, <1>4, <1>5, <1>6
  <1>8. QED
    BY <1>1, <1>7

\* What a command named verb may do to stakes, credits, fees and rewards: what is
\* credited comes from the fees, what is staked is locked, what is paid was owed.
Moved(m, after, verb) ==
    /\ m.pool.credited <= after.pool.credited
    /\ verb = "unstake" \/ m.pool.amount <= after.pool.amount
    /\ verb = "distribute" \/ after.fees.distributed = m.fees.distributed
    /\ m.pool.credited <= m.fees.distributed => after.pool.credited <= after.fees.distributed
    /\ m.pool.amount <= m.token.staked => after.pool.amount <= after.token.staked
    /\ \A n \in Nat : n + m.pool.owed <= m.pool.credited =>
          n + (IF verb = "claim" THEN m.pool.owed ELSE 0) + after.pool.owed <= after.pool.credited

LEMMA MemoryNats ==
    ASSUME NEW m \in Memory
    PROVE  /\ m.token.supply \in Nat /\ m.token.free \in Nat /\ m.token.staked \in Nat
           /\ m.pool.amount \in Nat /\ m.pool.credited \in Nat /\ m.pool.owed \in Nat
           /\ m.fees.pending \in Nat /\ m.fees.distributed \in Nat
  BY DEF Memory

LEMMA CommandsMove ==
    ASSUME NEW m \in Memory, NEW a \in Nat
    PROVE  /\ Moved(m, Minted(m, a), "mint")
           /\ a <= m.token.free => Moved(m, [m EXCEPT !.token.free = m.token.free - a], "transfer")
           /\ StakeFits(m, a) => Moved(m, Staked(m, a), "stake")
           /\ UnstakeFits(m, a) => Moved(m, Unstaked(m, a), "unstake")
           /\ Moved(m, Claimed(m), "claim")
           /\ Moved(m, Distributed(m), "distribute")
           /\ Moved(m, Collected(m, a), "collect")
  <1>1. Moved(m, Minted(m, a), "mint")
    <2> DEFINE x == Minted(m, a)
    <2>1. x.token.staked = m.token.staked /\ x.pool = m.pool /\ x.fees = m.fees
      BY MintedMemory
    <2> HIDE DEF x
    <2>2. Moved(m, x, "mint")
      BY <2>1, MemoryNats DEF Moved
    <2>3. QED
      BY <2>2 DEF x
  <1>2. a <= m.token.free => Moved(m, [m EXCEPT !.token.free = m.token.free - a], "transfer")
    <2> DEFINE u == [m EXCEPT !.token.free = m.token.free - a]
    <2>1. a <= m.token.free =>
            u.token.staked = m.token.staked /\ u.pool = m.pool /\ u.fees = m.fees
      BY TransferredMemory
    <2> HIDE DEF u
    <2>2. a <= m.token.free => Moved(m, u, "transfer")
      BY <2>1, MemoryNats DEF Moved
    <2>3. QED
      BY <2>2 DEF u
  <1>3. StakeFits(m, a) => Moved(m, Staked(m, a), "stake")
    BY StakedMemory, MemoryNats DEF Moved
  <1>4. UnstakeFits(m, a) => Moved(m, Unstaked(m, a), "unstake")
    BY UnstakedMemory, MemoryNats DEF Moved, UnstakeFits
  <1>5. Moved(m, Claimed(m), "claim")
    BY ClaimedMemory, MemoryNats DEF Moved
  <1>6. Moved(m, Distributed(m), "distribute")
    <2> DEFINE x == Distributed(m)
    <2>1. PICK n \in 0 .. m.fees.pending :
            /\ x.pool.credited = m.pool.credited + n /\ x.pool.owed = m.pool.owed + n
      BY DistributedMemory
    <2>2. /\ x.token = m.token /\ x.pool.amount = m.pool.amount
          /\ x.fees.distributed = m.fees.distributed + m.fees.pending
      BY DistributedMemory
    <2> HIDE DEF x
    <2>3. Moved(m, x, "distribute")
      BY <2>1, <2>2, MemoryNats DEF Moved
    <2>4. QED
      BY <2>3 DEF x
  <1>7. Moved(m, Collected(m, a), "collect")
    <2> DEFINE x == Collected(m, a)
    <2>1. x.token = m.token /\ x.pool = m.pool /\ x.fees.distributed = m.fees.distributed
      BY CollectedMemory
    <2> HIDE DEF x
    <2>2. Moved(m, x, "collect")
      BY <2>1, MemoryNats DEF Moved
    <2>3. QED
      BY <2>2 DEF x
  <1>8. QED
    BY <1>1, <1>2, <1>3, <1>4, <1>5, <1>6, <1>7

\* What the commands of the CLI save.
LEMMA SavedParts ==
    ASSUME NEW verb \in Verbs \ {"none"}
    PROVE  SavedBy(verb) \in {<<"token">>, <<"token", "pool">>, <<"pool">>, <<"fees", "pool">>, <<"fees">>}
  BY DEF SavedBy, Verbs

-----------------------------------------------------------------------------
(* Disks: writing the text or the part of one file.                        *)

Texts == {"absent", "empty", "torn", "whole"}

LEMMA RetextedDisk ==
    ASSUME DiskShaped, OnDisk \in Memory, NEW f \in Parts, NEW x \in Texts,
           disk' = [disk EXCEPT ![f].text = x]
    PROVE  /\ DiskShaped' /\ OnDisk' = OnDisk
           /\ disk'[f].text = x
           /\ \A g \in Parts \ {f} : disk'[g] = disk[g]
  <1>1. /\ disk' = [disk EXCEPT ![f] = [disk[f] EXCEPT !.text = x]]
        /\ disk[f] \in [text: Texts, says: Says]
    BY DEF DiskShaped, Texts
  <1>2. LET d == [disk[f] EXCEPT !.text = x] IN
        d \in [text: Texts, says: Says] /\ d.text = x /\ d.says = disk[f].says
    BY <1>1
  <1>3. /\ DiskShaped'
        /\ disk'[f] = [disk[f] EXCEPT !.text = x]
        /\ \A g \in Parts \ {f} : disk'[g] = disk[g]
    BY <1>1, <1>2 DEF DiskShaped, Texts
  <1>4. \A g \in Parts : disk'[g].says = disk[g].says
    BY <1>2, <1>3
  <1>5. QED
    BY <1>2, <1>3, <1>4 DEF OnDisk

LEMMA WrittenDisk ==
    ASSUME DiskShaped, OnDisk \in Memory, NEW m \in Memory, NEW f \in Parts,
           disk' = [disk EXCEPT ![f] = [text |-> "whole", says |-> m[f]]]
    PROVE  /\ DiskShaped' /\ OnDisk' \in Memory
           /\ disk'[f].text = "whole" /\ disk'[f].says = m[f]
           /\ \A g \in Parts \ {f} : disk'[g] = disk[g]
  <1>1. m[f] \in Says
    BY MemoryParts DEF Parts, Says
  <1>2. /\ disk'[f] = [text |-> "whole", says |-> m[f]]
        /\ \A g \in Parts \ {f} : disk'[g] = disk[g]
    BY DEF DiskShaped
  <1>3. DiskShaped'
    BY <1>1 DEF DiskShaped
  <1>4. \A g \in Parts : OnDisk'[g] = IF g = f THEN m[g] ELSE OnDisk[g]
    BY <1>2 DEF OnDisk
  <1>5. OnDisk' \in Memory
    <2>1. /\ OnDisk'["token"] \in TokenPart
          /\ OnDisk'["pool"] \in PoolPart
          /\ OnDisk'["fees"] \in FeesPart
      BY <1>4, MemoryParts DEF Parts
    <2>2. OnDisk' = [g \in Parts |-> OnDisk'[g]]
      BY DEF OnDisk
    <2>3. QED
      BY <2>1, <2>2, MemoryParts
  <1>6. QED
    BY <1>2, <1>3, <1>5

-----------------------------------------------------------------------------
(* The files a process has still to save.                                  *)

In(s) == {s[i] : i \in 1 .. Len(s)}

Lefts == {<<>>, <<"token">>, <<"pool">>, <<"fees">>, <<"token", "pool">>,
          <<"pool", "fees">>, <<"fees", "pool">>, <<"token", "pool", "fees">>}

LEMMA LeftIn ==
    /\ In(<<>>) = {} /\ In(<<"token">>) = {"token"} /\ In(<<"pool">>) = {"pool"}
    /\ In(<<"fees">>) = {"fees"} /\ In(<<"token", "pool">>) = {"token", "pool"}
    /\ In(<<"pool", "fees">>) = {"pool", "fees"} /\ In(<<"fees", "pool">>) = {"fees", "pool"}
    /\ In(<<"token", "pool", "fees">>) = Parts
  <1>1. In(<<>>) = {}
    BY DEF In
  <1>2. \A x : In(<<x>>) = {x}
    <2> TAKE x
    <2>1. Len(<<x>>) = 1 /\ <<x>>[1] = x /\ 1 .. 1 = {1}
      OBVIOUS
    <2>2. QED
      BY <2>1 DEF In
  <1>3. \A x, y : In(<<x, y>>) = {x, y}
    <2> TAKE x, y
    <2>1. Len(<<x, y>>) = 2 /\ <<x, y>>[1] = x /\ <<x, y>>[2] = y /\ 1 .. 2 = {1, 2}
      OBVIOUS
    <2>2. QED
      BY <2>1 DEF In
  <1>4. \A x, y, z : In(<<x, y, z>>) = {x, y, z}
    <2> TAKE x, y, z
    <2>1. /\ Len(<<x, y, z>>) = 3 /\ 1 .. 3 = {1, 2, 3}
          /\ <<x, y, z>>[1] = x /\ <<x, y, z>>[2] = y /\ <<x, y, z>>[3] = z
      OBVIOUS
    <2>2. QED
      BY <2>1 DEF In
  <1>5. QED
    BY <1>1, <1>2, <1>3, <1>4 DEF Parts

\* What may be left of the saves of a command: a distribution saves the fees
\* first, every other command the token first.
Planned(verb, s) ==
    IF verb = "distribute" THEN s \in {<<"fees", "pool">>, <<"pool">>, <<>>}
                           ELSE s \in Lefts \ {<<"fees", "pool">>}

\* The first file is a part, and the rest are the others.
LEMMA LeftTail ==
    ASSUME NEW s \in Lefts, s # <<>>
    PROVE  /\ Head(s) \in Parts /\ Tail(s) \in Lefts
           /\ Head(s) \in In(s) /\ In(Tail(s)) = In(s) \ {Head(s)}
  <1>1. \A x : Head(<<x>>) = x /\ Tail(<<x>>) = <<>>
    OBVIOUS
  <1>2. \A x, y : Head(<<x, y>>) = x /\ Tail(<<x, y>>) = <<y>>
    OBVIOUS
  <1>3. \A x, y, z : Head(<<x, y, z>>) = x /\ Tail(<<x, y, z>>) = <<y, z>>
    OBVIOUS
  <1>4. CASE s \in {<<"token">>, <<"pool">>, <<"fees">>}
    <2>1. PICK x \in Parts : s = <<x>>
      BY <1>4 DEF Parts
    <2>2. Head(s) = x /\ Tail(s) = <<>> /\ In(s) = {x}
      BY <2>1, <1>1, LeftIn DEF Parts
    <2>3. QED
      BY <2>2, LeftIn DEF Lefts
  <1>5. CASE s \in {<<"token", "pool">>, <<"pool", "fees">>, <<"fees", "pool">>}
    <2>1. PICK x \in Parts, y \in {"pool", "fees"} : s = <<x, y>> /\ x # y /\ In(s) = {x, y}
      BY <1>5, LeftIn DEF Parts
    <2>2. Head(s) = x /\ Tail(s) = <<y>> /\ In(<<y>>) = {y}
      BY <2>1, <1>2, LeftIn
    <2>3. <<y>> \in Lefts
      BY DEF Lefts
    <2>4. QED
      BY <2>1, <2>2, <2>3
  <1>6. CASE s = <<"token", "pool", "fees">>
    <2>1. Head(s) = "token" /\ Tail(s) = <<"pool", "fees">>
      BY <1>6, <1>3
    <2>2. In(s) = {"token", "pool", "fees"} /\ In(<<"pool", "fees">>) = {"pool", "fees"}
      BY <1>6, LeftIn DEF Parts
    <2>3. QED
      BY <2>1, <2>2 DEF Lefts, Parts
  <1>7. QED
    BY <1>4, <1>5, <1>6 DEF Lefts

LEMMA LeftSeq == Lefts \subseteq Seq(Parts)
  BY DEF Lefts, Parts

-----------------------------------------------------------------------------
(* The invariant.                                                          *)

Capped(m) == m.token.supply <= FileMaxSupply

Typed == FilesTypeOK /\ DiskShaped /\ Capped(OnDisk)

\* No two processes, no command cut short, no failing save passed over.
Good == ~met /\ cut = {} /\ ~skipped

Alone == \A p, q \in Processes : p # q => process[p].pc = "out" \/ process[q].pc = "out"

\* What a process knows of the disk.
Knows(p) ==
    LET r == process[p] IN
    /\ r.open => r.pc = "save" /\ r.left # <<>>
    /\ r.pc = "ready" /\ p \notin Desktops => r.memory = OnDisk
    /\ r.pc = "save" =>
         /\ r.left \in Lefts
         /\ \A f \in Parts :
              /\ disk[f].text \in {"absent", "whole"} \/ (r.open /\ f = Head(r.left))
              /\ r.open /\ f = Head(r.left) => disk[f].text = "empty"
              /\ f \in In(r.left) \/ disk[f].says = r.memory[f]

DoneInv == Good =>
    /\ Alone
    /\ \A p \in Processes : Knows(p)
    /\ Quiet => Loadable /\ OnDisk = ledger

\* A process put in the place of p.
LEMMA PutProcess ==
    ASSUME FilesTypeOK, NEW p \in Processes, NEW r \in Process, Capped(r.memory),
           process' = [process EXCEPT ![p] = r]
    PROVE  /\ process' \in [Processes -> Process]
           /\ \A q \in Processes : Capped(process'[q].memory)
           /\ process'[p] = r
           /\ \A q \in Processes \ {p} : process'[q] = process[q]
  BY DEF FilesTypeOK, Capped

LEMMA OutProcess == Out \in Process /\ Capped(Out.memory)
  <1>1. Out.memory = Fresh /\ Fresh.token.supply = 0
    BY DEF Out, Fresh
  <1>2. Out \in Process
    BY FreshMemory DEF Out, Process, Verbs
  <1>3. QED
    BY <1>1, <1>2, FilesAssumption DEF Capped

-----------------------------------------------------------------------------
(* Each action keeps the types, and what it leaves in the place of p.      *)

LEMMA LoadStep ==
    ASSUME Typed, NEW p \in Processes, Load(p)
    PROVE  /\ Typed' /\ disk' = disk /\ ledger' = ledger
           /\ process'[p].pc = "ready" /\ process'[p].memory = OnDisk /\ ~process'[p].open
           /\ \A q \in Processes \ {p} : process'[q] = process[q]
           /\ Good' => \A q \in Processes \ {p} : process[q].pc = "out"
  <1> DEFINE r == [Out EXCEPT !.pc = "ready", !.memory = OnDisk]
  <1>1. OnDisk \in Memory /\ Capped(OnDisk)
    BY DEF Typed, FilesTypeOK, OnDisk
  <1> DEFINE u == [Out EXCEPT !.pc = "ready"]
  <1>2. u \in Process /\ u.pc = "ready" /\ u.open = FALSE
    BY OutProcess DEF Process, Out
  <1>3. r \in Process /\ r.pc = "ready" /\ r.memory = OnDisk /\ r.open = FALSE
    <2>1. r = [u EXCEPT !.memory = OnDisk]
      OBVIOUS
    <2> HIDE DEF u, r
    <2>2. QED
      BY <1>1, <1>2, <2>1 DEF Process
  <1>4. process' = [process EXCEPT ![p] = r]
    BY DEF Load
  <1> HIDE DEF r
  <1>5. /\ process' \in [Processes -> Process]
        /\ \A q \in Processes : Capped(process'[q].memory)
        /\ process'[p] = r
        /\ \A q \in Processes \ {p} : process'[q] = process[q]
    BY <1>1, <1>3, <1>4, PutProcess DEF Typed
  <1>6. Typed'
    BY <1>5 DEF Typed, FilesTypeOK, DiskShaped, OnDisk, Load, Capped
  <1>7. QED
    BY <1>3, <1>5, <1>6 DEF Load, Good

LEMMA RunStep ==
    ASSUME Typed, NEW p \in Processes, NEW verb \in Verbs, NEW after \in Memory,
           Capped(after), NEW todo \in Lefts, Run(p, verb, after, todo)
    PROVE  /\ Typed' /\ disk' = disk
           /\ process'[p].pc = "save" /\ process'[p].memory = after
           /\ process'[p].verb = verb
           /\ process'[p].left = todo /\ ~process'[p].open
           /\ \A q \in Processes \ {p} : process'[q] = process[q]
  <1> DEFINE r == [pc |-> "save", memory |-> after, verb |-> verb, left |-> todo, open |-> FALSE]
  <1>1. r \in Process /\ Capped(r.memory)
    BY LeftSeq DEF Process
  <1>2. process' = [process EXCEPT ![p] = r]
    BY DEF Run
  <1>3. /\ process' \in [Processes -> Process]
        /\ \A q \in Processes : Capped(process'[q].memory)
        /\ process'[p] = r
        /\ \A q \in Processes \ {p} : process'[q] = process[q]
    <2> HIDE DEF r
    <2>1. QED
      BY <1>1, <1>2, PutProcess DEF Typed
  <1>4. paidOut' \in Nat
    <2>1. process[p].memory.pool.owed \in Nat
      BY DEF Typed, FilesTypeOK, Process, Memory
    <2>2. QED
      BY <2>1 DEF Run, Typed, FilesTypeOK
  <1>5. commands' \in 0 .. MaxCommands
    BY FilesAssumption DEF Run, MayRun, Typed, FilesTypeOK
  <1>6. Typed'
    BY <1>3, <1>4, <1>5 DEF Typed, FilesTypeOK, DiskShaped, OnDisk, Run, Capped
  <1>7. QED
    BY <1>3, <1>6 DEF Run

\* A refused stake of the desktop: only the memory changes.
LEMMA RefusedStep ==
    ASSUME Typed, NEW p \in Processes, NEW m \in Memory, Capped(m),
           process[p].pc = "ready", MayRun, commands' = commands + 1,
           process' = [process EXCEPT ![p].memory = m],
           UNCHANGED <<disk, stops, ledger, paidOut, met, cut, skipped>>
    PROVE  /\ Typed'
           /\ process'[p].pc = "ready" /\ process'[p].open = process[p].open
           /\ process'[p].memory = m
           /\ \A q \in Processes \ {p} : process'[q] = process[q]
  <1> DEFINE r == [process[p] EXCEPT !.memory = m]
  <1>1. process[p] \in Process
    BY DEF Typed, FilesTypeOK
  <1>2. r \in Process /\ r.memory = m /\ r.pc = process[p].pc /\ r.open = process[p].open
    BY <1>1 DEF Process
  <1>3. process' = [process EXCEPT ![p] = r]
    OBVIOUS
  <1> HIDE DEF r
  <1>4. /\ process' \in [Processes -> Process]
        /\ \A q \in Processes : Capped(process'[q].memory)
        /\ process'[p] = r
        /\ \A q \in Processes \ {p} : process'[q] = process[q]
    BY <1>2, <1>3, PutProcess DEF Typed
  <1>5. commands' \in 0 .. MaxCommands
    BY FilesAssumption DEF MayRun, Typed, FilesTypeOK
  <1>6. Typed'
    BY <1>4, <1>5 DEF Typed, FilesTypeOK, DiskShaped, OnDisk, Capped
  <1>7. QED
    BY <1>2, <1>4, <1>6

\* The parts of a saving process, once one more file is behind it.
LEMMA NextFile ==
    ASSUME Typed, NEW p \in Processes, Saving(p)
    PROVE  LET r == [process[p] EXCEPT !.open = FALSE, !.left = Tail(@)] IN
           /\ r \in Process /\ Capped(r.memory) /\ r.pc = "save"
           /\ r.memory = process[p].memory /\ r.verb = process[p].verb
           /\ r.left = Tail(process[p].left) /\ ~r.open
  <1> DEFINE u == [process[p] EXCEPT !.open = FALSE]
  <1> DEFINE r == [u EXCEPT !.left = Tail(process[p].left)]
  <1>1. process[p] \in Process /\ Capped(process[p].memory)
    BY DEF Typed, FilesTypeOK, Capped
  <1>2. /\ u \in Process /\ u.memory = process[p].memory /\ ~u.open
        /\ u.pc = process[p].pc /\ u.verb = process[p].verb
    BY <1>1 DEF Process
  <1>3. Tail(process[p].left) \in Seq(Parts)
    BY <1>1 DEF Process, Saving
  <1>4. /\ r \in Process /\ r.memory = u.memory /\ r.left = Tail(process[p].left)
        /\ r.open = u.open /\ r.pc = u.pc /\ r.verb = u.verb
    <2> HIDE DEF u
    <2>1. QED
      BY <1>2, <1>3 DEF Process
  <1>5. [process[p] EXCEPT !.open = FALSE, !.left = Tail(@)] = r
    OBVIOUS
  <1> HIDE DEF r, u
  <1>6. QED
    BY <1>1, <1>2, <1>4, <1>5 DEF Saving

LEMMA TruncateStep ==
    ASSUME Typed, NEW p \in Processes, Truncate(p), Head(process[p].left) \in Parts
    PROVE  /\ Typed' /\ ledger' = ledger
           /\ process'[p].pc = "save" /\ process'[p].memory = process[p].memory
           /\ process'[p].verb = process[p].verb
           /\ process'[p].left = process[p].left /\ process'[p].open
           /\ \A q \in Processes \ {p} : process'[q] = process[q]
           /\ disk'[Head(process[p].left)].text = "empty"
           /\ OnDisk' = OnDisk
           /\ \A g \in Parts \ {Head(process[p].left)} : disk'[g] = disk[g]
  <1> DEFINE r == [process[p] EXCEPT !.open = TRUE]
  <1>1. process[p] \in Process /\ Capped(process[p].memory)
    BY DEF Typed, FilesTypeOK, Capped
  <1>2. /\ r \in Process /\ r.memory = process[p].memory /\ r.open
        /\ r.pc = process[p].pc /\ r.left = process[p].left /\ r.verb = process[p].verb
    BY <1>1 DEF Process
  <1>3. process' = [process EXCEPT ![p] = r]
    BY DEF Truncate
  <1> HIDE DEF r
  <1>4. /\ process' \in [Processes -> Process]
        /\ \A q \in Processes : Capped(process'[q].memory)
        /\ process'[p] = r
        /\ \A q \in Processes \ {p} : process'[q] = process[q]
    BY <1>1, <1>2, <1>3, PutProcess DEF Typed
  <1>5. /\ DiskShaped' /\ OnDisk' = OnDisk
        /\ disk'[Head(process[p].left)].text = "empty"
        /\ \A g \in Parts \ {Head(process[p].left)} : disk'[g] = disk[g]
    <2>1. DiskShaped /\ OnDisk \in Memory /\ "empty" \in Texts
      BY DEF Typed, FilesTypeOK, OnDisk, Texts
    <2>2. QED
      BY <2>1, RetextedDisk DEF Truncate
  <1>6. Typed'
    BY <1>4, <1>5 DEF Typed, FilesTypeOK, DiskShaped, OnDisk, Truncate, Capped
  <1>7. QED
    BY <1>2, <1>4, <1>5, <1>6 DEF Truncate, Saving

LEMMA WriteFileStep ==
    ASSUME Typed, NEW p \in Processes, WriteFile(p), Head(process[p].left) \in Parts
    PROVE  LET f == Head(process[p].left) IN
           /\ Typed' /\ ledger' = ledger
           /\ process'[p].pc = "save" /\ process'[p].memory = process[p].memory
           /\ process'[p].verb = process[p].verb
           /\ process'[p].left = Tail(process[p].left) /\ ~process'[p].open
           /\ \A q \in Processes \ {p} : process'[q] = process[q]
           /\ disk[f].text = "empty" =>
                disk'[f].text = "whole" /\ disk'[f].says = process[p].memory[f]
           /\ \A g \in Parts \ {f} : disk'[g] = disk[g]
  <1> DEFINE f == Head(process[p].left)
  <1> DEFINE r == [process[p] EXCEPT !.open = FALSE, !.left = Tail(@)]
  <1>1. /\ r \in Process /\ Capped(r.memory) /\ r.pc = "save"
        /\ r.memory = process[p].memory /\ r.verb = process[p].verb
        /\ r.left = Tail(process[p].left) /\ ~r.open
    BY NextFile DEF WriteFile
  <1>2. process' = [process EXCEPT ![p] = r]
    BY DEF WriteFile
  <1> HIDE DEF r
  <1>3. /\ process' \in [Processes -> Process]
        /\ \A q \in Processes : Capped(process'[q].memory)
        /\ process'[p] = r
        /\ \A q \in Processes \ {p} : process'[q] = process[q]
    BY <1>1, <1>2, PutProcess DEF Typed
  <1>4. /\ process[p].memory \in Memory /\ Capped(process[p].memory)
        /\ DiskShaped /\ OnDisk \in Memory /\ Capped(OnDisk)
    BY DEF Typed, FilesTypeOK, OnDisk, Process, Capped
  <1>5. /\ DiskShaped' /\ OnDisk' \in Memory /\ Capped(OnDisk')
        /\ disk[f].text = "empty" =>
             disk'[f].text = "whole" /\ disk'[f].says = process[p].memory[f]
        /\ \A g \in Parts \ {f} : disk'[g] = disk[g]
    <2>1. CASE disk' = [disk EXCEPT ![f] = [text |-> "whole", says |-> process[p].memory[f]]]
      <3> DEFINE m == process[p].memory
      <3>1. m \in Memory /\ f \in Parts
            /\ disk' = [disk EXCEPT ![f] = [text |-> "whole", says |-> m[f]]]
        BY <2>1, <1>4
      <3> HIDE DEF m, f
      <3>2. /\ DiskShaped' /\ OnDisk' \in Memory
            /\ disk'[f].text = "whole" /\ disk'[f].says = m[f]
            /\ \A g \in Parts \ {f} : disk'[g] = disk[g]
        BY <3>1, <1>4, WrittenDisk
      <3>3. OnDisk'.token = m.token \/ OnDisk'.token = OnDisk.token
        BY <3>1, <3>2 DEF OnDisk, Parts
      <3>4. Capped(OnDisk')
        BY <3>3, <1>4 DEF Capped, m
      <3>5. QED
        BY <3>2, <3>4 DEF m
    <2>2. CASE disk[f].text # "empty" /\ disk' = [disk EXCEPT ![f].text = "torn"]
      <3>1. "torn" \in Texts
        BY DEF Texts
      <3>2. /\ DiskShaped' /\ OnDisk' = OnDisk
            /\ \A g \in Parts \ {f} : disk'[g] = disk[g]
        BY <2>2, <3>1, <1>4, RetextedDisk
      <3>3. QED
        BY <3>2, <2>2, <1>4
    <2>3. QED
      BY <2>1, <2>2 DEF WriteFile
  <1>6. Typed'
    BY <1>3, <1>5 DEF Typed, FilesTypeOK, DiskShaped, OnDisk, WriteFile, Capped
  <1>7. QED
    BY <1>1, <1>3, <1>5, <1>6 DEF WriteFile

LEMMA CommandDoneStep ==
    ASSUME Typed, NEW p \in Processes, CommandDone(p)
    PROVE  /\ Typed' /\ disk' = disk /\ ledger' = process[p].memory
           /\ p \in Desktops => /\ process'[p].pc = "ready" /\ process'[p].open = process[p].open
                               /\ process'[p].memory = process[p].memory
           /\ p \notin Desktops => process'[p] = Out
           /\ \A q \in Processes \ {p} : process'[q] = process[q]
  <1> DEFINE u == [process[p] EXCEPT !.pc = "ready"]
  <1> DEFINE v == [u EXCEPT !.verb = "none"]
  <1> DEFINE r == IF p \in Desktops THEN v ELSE Out
  <1>1. process[p] \in Process /\ Capped(process[p].memory)
    BY DEF Typed, FilesTypeOK, Capped
  <1>2. /\ u \in Process /\ u.memory = process[p].memory /\ u.pc = "ready"
        /\ u.open = process[p].open
    BY <1>1 DEF Process
  <1>3. /\ v \in Process /\ v.memory = process[p].memory /\ v.pc = "ready"
        /\ v.open = process[p].open
    <2> HIDE DEF u
    <2>1. QED
      BY <1>2 DEF Process, Verbs
  <1>4. process' = [process EXCEPT ![p] = r]
    BY DEF CommandDone
  <1>5. r \in Process /\ Capped(r.memory)
    <2> HIDE DEF v
    <2>1. QED
      BY <1>1, <1>3, OutProcess
  <1> HIDE DEF r, v
  <1>6. /\ process' \in [Processes -> Process]
        /\ \A q \in Processes : Capped(process'[q].memory)
        /\ process'[p] = r
        /\ \A q \in Processes \ {p} : process'[q] = process[q]
    BY <1>4, <1>5, PutProcess DEF Typed
  <1>7. process[p].memory \in Memory
    BY <1>1 DEF Process
  <1>8. Typed'
    BY <1>6, <1>7 DEF Typed, FilesTypeOK, DiskShaped, OnDisk, CommandDone, Capped
  <1>9. QED
    BY <1>3, <1>6, <1>8 DEF CommandDone, r

LEMMA DesktopSaveFailsStep ==
    ASSUME Typed, NEW p \in Processes, DesktopSaveFails(p)
    PROVE  Typed' /\ ~Good'
  <1> DEFINE r == [process[p] EXCEPT !.open = FALSE, !.left = Tail(@)]
  <1>1. r \in Process /\ Capped(r.memory)
    BY NextFile DEF DesktopSaveFails
  <1>2. process' = [process EXCEPT ![p] = r]
    BY DEF DesktopSaveFails
  <1> HIDE DEF r
  <1>3. /\ process' \in [Processes -> Process]
        /\ \A q \in Processes : Capped(process'[q].memory)
        /\ process'[p] = r
        /\ \A q \in Processes \ {p} : process'[q] = process[q]
    BY <1>1, <1>2, PutProcess DEF Typed
  <1>4. stops' \in 0 .. MaxFileStops
    BY FilesAssumption DEF DesktopSaveFails, Stop, Typed, FilesTypeOK
  <1>5. Typed'
    BY <1>3, <1>4 DEF Typed, FilesTypeOK, DiskShaped, OnDisk, DesktopSaveFails, Capped
  <1>6. QED
    BY <1>5 DEF DesktopSaveFails, Good

LEMMA CrashStep ==
    ASSUME Typed, NEW p \in Processes, Crash(p)
    PROVE  /\ Typed' /\ ~Good' /\ process'[p] = Out
           /\ \A q \in Processes \ {p} : process'[q] = process[q]
  <1>1. /\ process' \in [Processes -> Process]
        /\ \A q \in Processes : Capped(process'[q].memory)
        /\ process'[p] = Out
        /\ \A q \in Processes \ {p} : process'[q] = process[q]
    BY OutProcess, PutProcess DEF Typed, Crash
  <1>2. stops' \in 0 .. MaxFileStops
    BY FilesAssumption DEF Crash, Stop, Typed, FilesTypeOK
  <1>3. process[p].verb \in Verbs
    BY DEF Typed, FilesTypeOK, Process
  <1>4. Typed'
    BY <1>1, <1>2, <1>3 DEF Typed, FilesTypeOK, DiskShaped, OnDisk, Crash, Capped
  <1>5. QED
    BY <1>1, <1>4 DEF Crash, Good

LEMMA LeaveStep ==
    ASSUME Typed, NEW p \in Processes, Leave(p)
    PROVE  /\ Typed' /\ process'[p] = Out
           /\ \A q \in Processes \ {p} : process'[q] = process[q]
  <1>1. /\ process' \in [Processes -> Process]
        /\ \A q \in Processes : Capped(process'[q].memory)
        /\ process'[p] = Out
        /\ \A q \in Processes \ {p} : process'[q] = process[q]
    BY OutProcess, PutProcess DEF Typed, Leave
  <1>2. Typed'
    BY <1>1 DEF Typed, FilesTypeOK, DiskShaped, OnDisk, Leave, Capped
  <1>3. QED
    BY <1>1, <1>2

-----------------------------------------------------------------------------
(* The commands: each runs with a memory that differs only in parts it     *)
(* saves.                                                                  *)

CommandOf(p) ==
    \/ CliClaim(p) \/ CliDistribute(p) \/ DesktopClaim(p)
    \/ \E a \in FileAmounts :
         \/ CliMint(p, a) \/ CliTransfer(p, a) \/ CliStake(p, a) \/ CliUnstake(p, a)
         \/ CliCollect(p, a) \/ DesktopStake(p, a)

\* One command, as Run sees it.
Runs(p, verb, after, todo) ==
    /\ verb \in Verbs /\ after \in Memory /\ Capped(after) /\ todo \in Lefts
    /\ \A f \in Parts : f \in In(todo) \/ after[f] = process[p].memory[f]
    /\ p \in Desktops => In(todo) = Parts
    /\ Planned(verb, todo) /\ Moved(process[p].memory, after, verb)
    /\ Run(p, verb, after, todo)

\* A stake that is refused after its mint.
Refused(p, m) ==
    /\ p \in Desktops
    /\ m \in Memory /\ Capped(m) /\ process[p].pc = "ready" /\ MayRun
    /\ m.token.staked = process[p].memory.token.staked
    /\ m.pool = process[p].memory.pool /\ m.fees = process[p].memory.fees
    /\ commands' = commands + 1
    /\ process' = [process EXCEPT ![p].memory = m]
    /\ UNCHANGED <<disk, stops, ledger, paidOut, met, cut, skipped>>

\* The desktop saves everything.
LEMMA AllPlanned ==
    /\ SaveAll \in Lefts /\ In(SaveAll) = Parts
    /\ \A verb : verb # "distribute" => Planned(verb, SaveAll)
  <1>1. SaveAll # <<"fees", "pool">>
    BY DEF SaveAll
  <1>2. QED
    BY <1>1, LeftIn DEF SaveAll, Lefts, Planned

LEMMA CliRuns ==
    ASSUME NEW p \in Processes, NEW verb \in Verbs \ {"none"}, NEW after \in Memory, Capped(after),
           CliRun(p, verb, after), Moved(process[p].memory, after, verb),
           \A f \in Parts : f \in In(SavedBy(verb)) \/ after[f] = process[p].memory[f]
    PROVE  \E v, m, todo : Runs(p, v, m, todo)
  <1>1. SavedBy(verb) \in Lefts /\ Planned(verb, SavedBy(verb))
    <2>1. /\ SavedBy(verb) \in Lefts
          /\ verb = "distribute" => SavedBy(verb) = <<"fees", "pool">>
          /\ verb # "distribute" => SavedBy(verb) \in {<<"token">>, <<"token", "pool">>, <<"pool">>, <<"fees">>}
      BY SavedParts DEF Lefts, SavedBy, Verbs
    <2>2. \A s \in {<<"token">>, <<"token", "pool">>, <<"pool">>, <<"fees">>} : s # <<"fees", "pool">>
      OBVIOUS
    <2>3. QED
      BY <2>1, <2>2 DEF Planned
  <1>2. Runs(p, verb, after, SavedBy(verb))
    BY <1>1 DEF CliRun, Runs
  <1>3. QED
    BY <1>2

LEMMA CommandRuns ==
    ASSUME Typed, NEW p \in Processes, CommandOf(p)
    PROVE  (\E verb, after, todo : Runs(p, verb, after, todo)) \/ (\E m : Refused(p, m))
  <1> DEFINE m == process[p].memory
  <1>1. m \in Memory /\ Capped(m)
    BY DEF Typed, FilesTypeOK, Process, Capped
  <1>2. \A a \in FileAmounts : a \in Nat
    BY FilesAssumption
  <1>3. /\ SavedBy("mint") = <<"token">> /\ SavedBy("transfer") = <<"token">>
        /\ SavedBy("stake") = <<"token", "pool">> /\ SavedBy("unstake") = <<"token", "pool">>
        /\ SavedBy("claim") = <<"pool">> /\ SavedBy("distribute") = <<"fees", "pool">>
        /\ SavedBy("collect") = <<"fees">>
    BY DEF SavedBy
  <1>4. {"mint", "transfer", "stake", "unstake", "claim", "distribute", "collect"}
          \subseteq Verbs \ {"none"}
    BY DEF Verbs
  <1> HIDE DEF m
  <1>5. CASE CliClaim(p)
    <2>1. CliRun(p, "claim", Claimed(m))
      BY <1>5 DEF CliClaim, m
    <2>2. /\ Claimed(m) \in Memory /\ Capped(Claimed(m))
          /\ \A f \in Parts : f \in In(SavedBy("claim")) \/ Claimed(m)[f] = m[f]
      BY <1>1, <1>3, ClaimedMemory, LeftIn DEF Parts, Capped
    <2>3. QED
      BY <2>1, <2>2, <1>1, <1>2, <1>4, CommandsMove, CliRuns DEF m
  <1>6. CASE CliDistribute(p)
    <2>1. CliRun(p, "distribute", Distributed(m))
      BY <1>6 DEF CliDistribute, m
    <2>2. /\ Distributed(m) \in Memory /\ Capped(Distributed(m))
          /\ \A f \in Parts : f \in In(SavedBy("distribute")) \/ Distributed(m)[f] = m[f]
      BY <1>1, <1>3, DistributedMemory, LeftIn DEF Parts, Capped
    <2>3. QED
      BY <2>1, <2>2, <1>1, <1>2, <1>4, CommandsMove, CliRuns DEF m
  <1>7. CASE DesktopClaim(p)
    <2>1. Run(p, "claim", Claimed(m), SaveAll)
      BY <1>7 DEF DesktopClaim, m
    <2>2. Claimed(m) \in Memory /\ Capped(Claimed(m))
      BY <1>1, ClaimedMemory DEF Capped
    <2>3. Runs(p, "claim", Claimed(m), SaveAll)
      BY <2>1, <2>2, <1>1, <1>4, CommandsMove, AllPlanned DEF Runs, m
    <2>4. QED
      BY <2>3
  <1>8. ASSUME NEW a \in FileAmounts, CliMint(p, a)
        PROVE  \E verb, after, todo : Runs(p, verb, after, todo)
    <2>1. CliRun(p, "mint", Minted(m, a)) /\ MintFits(m, a)
      BY <1>8 DEF CliMint, m
    <2>2. /\ Minted(m, a) \in Memory /\ Capped(Minted(m, a))
          /\ \A f \in Parts : f \in In(SavedBy("mint")) \/ Minted(m, a)[f] = m[f]
      BY <1>1, <1>2, <1>3, <2>1, MintedMemory, LeftIn DEF Parts, Capped, MintFits
    <2>3. QED
      BY <2>1, <2>2, <1>1, <1>2, <1>4, CommandsMove, CliRuns DEF m
  <1>9. ASSUME NEW a \in FileAmounts, CliTransfer(p, a)
        PROVE  \E verb, after, todo : Runs(p, verb, after, todo)
    <2> DEFINE u == [m EXCEPT !.token.free = m.token.free - a]
    <2>1. CliRun(p, "transfer", u) /\ a <= m.token.free
      BY <1>9 DEF CliTransfer, m
    <2>2. u \in Memory /\ u.token.supply = m.token.supply /\ u.pool = m.pool /\ u.fees = m.fees
      BY <1>1, <1>2, <2>1, TransferredMemory
    <2>3. Moved(m, u, "transfer")
      BY <1>1, <1>2, <2>1, CommandsMove
    <2> HIDE DEF u
    <2>4. /\ Capped(u)
          /\ \A f \in Parts : f \in In(SavedBy("transfer")) \/ u[f] = m[f]
      BY <1>1, <1>3, <2>2, LeftIn DEF Parts, Capped
    <2>5. QED
      BY <2>1, <2>2, <2>3, <2>4, <1>4, CliRuns DEF m
  <1>10. ASSUME NEW a \in FileAmounts, CliStake(p, a)
         PROVE  \E verb, after, todo : Runs(p, verb, after, todo)
    <2>1. CliRun(p, "stake", Staked(m, a)) /\ StakeFits(m, a)
      BY <1>10 DEF CliStake, m
    <2>2. /\ Staked(m, a) \in Memory /\ Capped(Staked(m, a))
          /\ \A f \in Parts : f \in In(SavedBy("stake")) \/ Staked(m, a)[f] = m[f]
      BY <1>1, <1>2, <1>3, <2>1, StakedMemory, LeftIn DEF Parts, Capped
    <2>3. QED
      BY <2>1, <2>2, <1>1, <1>2, <1>4, CommandsMove, CliRuns DEF m
  <1>11. ASSUME NEW a \in FileAmounts, CliUnstake(p, a)
         PROVE  \E verb, after, todo : Runs(p, verb, after, todo)
    <2>1. CliRun(p, "unstake", Unstaked(m, a)) /\ UnstakeFits(m, a)
      BY <1>11 DEF CliUnstake, m
    <2>2. /\ Unstaked(m, a) \in Memory /\ Capped(Unstaked(m, a))
          /\ \A f \in Parts : f \in In(SavedBy("unstake")) \/ Unstaked(m, a)[f] = m[f]
      BY <1>1, <1>2, <1>3, <2>1, UnstakedMemory, LeftIn DEF Parts, Capped
    <2>3. QED
      BY <2>1, <2>2, <1>1, <1>2, <1>4, CommandsMove, CliRuns DEF m
  <1>12. ASSUME NEW a \in FileAmounts, CliCollect(p, a)
         PROVE  \E verb, after, todo : Runs(p, verb, after, todo)
    <2>1. CliRun(p, "collect", Collected(m, a))
      BY <1>12 DEF CliCollect, m
    <2>2. /\ Collected(m, a) \in Memory /\ Capped(Collected(m, a))
          /\ \A f \in Parts : f \in In(SavedBy("collect")) \/ Collected(m, a)[f] = m[f]
      BY <1>1, <1>2, <1>3, <2>1, CollectedMemory, LeftIn DEF Parts, Capped
    <2>3. QED
      BY <2>1, <2>2, <1>1, <1>2, <1>4, CommandsMove, CliRuns DEF m
  <1>13. ASSUME NEW a \in FileAmounts, DesktopStake(p, a)
         PROVE  (\E verb, after, todo : Runs(p, verb, after, todo)) \/ (\E x : Refused(p, x))
    <2> DEFINE funded == IF MintFits(m, a + Gift) THEN Minted(m, a + Gift) ELSE m
    <2>1. a + Gift \in Nat
      BY <1>2, FilesAssumption
    <2>2. /\ funded \in Memory /\ Capped(funded)
          /\ funded.token.staked = m.token.staked
          /\ funded.pool = m.pool /\ funded.fees = m.fees
      BY <1>1, <2>1, MintedMemory DEF MintFits, Capped
    <2>3. \/ StakeFits(funded, a) /\ Run(p, "stake", Staked(funded, a), SaveAll)
          \/ Refused(p, funded)
      BY <1>13, <2>2 DEF DesktopStake, Refused, m
    <2> HIDE DEF funded
    <2>4. CASE StakeFits(funded, a) /\ Run(p, "stake", Staked(funded, a), SaveAll)
      <3> DEFINE x == Staked(funded, a)
      <3>1. x \in Memory /\ Capped(x) /\ Moved(funded, x, "stake")
        BY <1>2, <2>2, <2>4, StakedMemory, CommandsMove DEF Capped
      <3> HIDE DEF x
      <3>2. Moved(m, x, "stake")
        BY <2>2, <3>1 DEF Moved
      <3>3. Runs(p, "stake", x, SaveAll)
        BY <2>4, <3>1, <3>2, <1>4, AllPlanned DEF Runs, x, m
      <3>4. QED
        BY <3>3
    <2>5. QED
      BY <2>3, <2>4
  <1>14. QED
    BY <1>5, <1>6, <1>7, <1>8, <1>9, <1>10, <1>11, <1>12, <1>13 DEF CommandOf

-----------------------------------------------------------------------------
(* Each step keeps the invariant.  While all is well, a process that acts  *)
(* is the only one.                                                        *)

\* Every other process being out, what they know needs no proof.
LEMMA OnlyOne ==
    ASSUME Good', NEW p \in Processes,
           \A q \in Processes \ {p} : process[q] = process'[q] /\ process[q].pc = "out" /\ ~process[q].open,
           Knows(p)', Quiet' => (Loadable /\ OnDisk = ledger)'
    PROVE  DoneInv'
  <1>1. Alone'
    BY DEF Alone
  <1>2. ASSUME NEW q \in Processes \ {p} PROVE Knows(q)'
    BY <1>2 DEF Knows
  <1>3. QED
    BY <1>1, <1>2 DEF DoneInv

LEMMA OthersOut ==
    ASSUME DoneInv, Good, NEW p \in Processes, process[p].pc # "out"
    PROVE  \A q \in Processes \ {p} : process[q].pc = "out" /\ ~process[q].open
  BY DEF DoneInv, Alone, Knows

LEMMA InitFiles == FilesInit => Typed /\ DoneInv
  <1> SUFFICES ASSUME FilesInit PROVE Typed /\ DoneInv
    OBVIOUS
  <1>1. /\ Fresh \in Memory /\ Capped(Fresh) /\ Fresh = [f \in Parts |-> Fresh[f]]
        /\ Fresh.token \in TokenPart /\ Fresh.pool \in PoolPart /\ Fresh.fees \in FeesPart
    BY FreshMemory, MemoryParts, OutProcess DEF Out
  <1>2. /\ OnDisk = Fresh /\ DiskShaped
        /\ \A f \in Parts : disk[f].text = "absent"
    <2>1. ASSUME NEW f \in Parts
          PROVE  disk[f].says = Fresh[f] /\ disk[f].text = "absent"
      <3>1. disk[f] = [text |-> "absent", says |-> Fresh[f]]
        BY DEF FilesInit
      <3>2. QED
        BY <3>1
    <2>2. \A f \in Parts : disk[f].says = Fresh[f] /\ disk[f].text = "absent"
      BY <2>1
    <2>3. \A f \in Parts : Fresh[f] \in Says
      BY <1>1 DEF Parts, Says
    <2>4. DiskShaped
      BY <2>3 DEF FilesInit, DiskShaped
    <2>5. OnDisk = Fresh
      BY <1>1, <2>2 DEF OnDisk
    <2>6. QED
      BY <2>2, <2>4, <2>5
  <1>3. \A p \in Processes : process[p] = Out
    BY DEF FilesInit
  <1>4. FilesTypeOK
    <2>1. DOMAIN disk = Parts /\ [f \in Parts |-> disk[f].says] \in Memory
      BY <1>1, <1>2 DEF DiskShaped, OnDisk
    <2>2. /\ process \in [Processes -> Process]
          /\ \A p \in Processes : process[p].memory.token.supply <= FileMaxSupply
      BY <1>3, OutProcess DEF FilesInit, Capped
    <2>3. commands \in 0 .. MaxCommands /\ stops \in 0 .. MaxFileStops
      BY FilesAssumption DEF FilesInit
    <2>4. QED
      BY <1>1, <1>2, <2>1, <2>2, <2>3 DEF FilesInit, FilesTypeOK
  <1>5. Out.pc = "out" /\ ~Out.open
    BY DEF Out
  <1>6. DoneInv
    BY <1>1, <1>2, <1>3, <1>5 DEF FilesInit, DoneInv, Alone, Knows, Loadable
  <1>7. QED
    BY <1>1, <1>2, <1>4, <1>6 DEF Typed

LEMMA LoadDone ==
    ASSUME Typed, DoneInv, NEW p \in Processes, Load(p)
    PROVE  DoneInv'
  <1> SUFFICES ASSUME Good' PROVE DoneInv'
    BY DEF DoneInv
  <1>1. /\ disk' = disk /\ ledger' = ledger
        /\ process'[p].pc = "ready" /\ process'[p].memory = OnDisk /\ ~process'[p].open
        /\ \A q \in Processes \ {p} : process'[q] = process[q] /\ process[q].pc = "out"
    BY LoadStep
  <1>2. Good
    BY DEF Good, Load
  <1>3. Quiet
    BY <1>1 DEF Quiet, Load
  <1>4. Loadable' /\ OnDisk' = ledger' /\ OnDisk' = OnDisk
    BY <1>1, <1>2, <1>3 DEF DoneInv, Loadable, OnDisk
  <1>5. Knows(p)'
    BY <1>1, <1>4 DEF Knows
  <1>6. \A q \in Processes \ {p} : ~process[q].open
    BY <1>1, <1>2 DEF DoneInv, Knows
  <1>7. QED
    BY <1>1, <1>4, <1>5, <1>6, OnlyOne

LEMMA CommandDoes ==
    ASSUME Typed, DoneInv, NEW p \in Processes, CommandOf(p)
    PROVE  Typed' /\ DoneInv'
  <1>1. ASSUME NEW verb, NEW after, NEW todo, Runs(p, verb, after, todo)
        PROVE  Typed' /\ DoneInv'
    <2>1. /\ Typed' /\ disk' = disk
          /\ process'[p].pc = "save" /\ process'[p].memory = after
          /\ process'[p].left = todo /\ ~process'[p].open
          /\ \A q \in Processes \ {p} : process'[q] = process[q]
      BY <1>1, RunStep DEF Runs
    <2> SUFFICES ASSUME Good' PROVE DoneInv'
      BY <2>1 DEF DoneInv
    <2>2. Good /\ process[p].pc = "ready"
      BY <1>1 DEF Runs, Run, Good
    <2>3. \A q \in Processes \ {p} : process[q].pc = "out" /\ ~process[q].open
      BY <2>2, OthersOut
    <2>4. Loadable /\ OnDisk = ledger
      BY <2>2, <2>3 DEF DoneInv, Quiet
    <2>5. \A f \in Parts : f \in In(todo) \/ disk[f].says = after[f]
      <3>1. CASE p \notin Desktops
        <4>1. process[p].memory = OnDisk
          BY <2>2, <3>1 DEF DoneInv, Knows
        <4>2. QED
          BY <1>1, <4>1 DEF Runs, OnDisk
      <3>2. CASE p \in Desktops
        <4>1. In(todo) = Parts
          BY <1>1, <3>2 DEF Runs
        <4>2. QED
          BY <4>1
      <3>3. QED
        BY <3>1, <3>2
    <2>6. Knows(p)'
      BY <1>1, <2>1, <2>4, <2>5 DEF Knows, Runs, Loadable
    <2>7. ~Quiet'
      BY <2>1 DEF Quiet
    <2>8. QED
      BY <2>1, <2>3, <2>6, <2>7, OnlyOne
  <1>2. ASSUME NEW m, Refused(p, m)
        PROVE  Typed' /\ DoneInv'
    <2>1. /\ Typed'
          /\ process'[p].pc = "ready" /\ process'[p].open = process[p].open
          /\ \A q \in Processes \ {p} : process'[q] = process[q]
      BY <1>2, RefusedStep DEF Refused
    <2> SUFFICES ASSUME Good' PROVE DoneInv'
      BY <2>1 DEF DoneInv
    <2>2. Good /\ process[p].pc = "ready" /\ p \in Desktops
      BY <1>2 DEF Refused, Good
    <2>3. \A q \in Processes \ {p} : process[q].pc = "out" /\ ~process[q].open
      BY <2>2, OthersOut
    <2>4. (Loadable /\ OnDisk = ledger)'
      BY <1>2, <2>2, <2>3 DEF DoneInv, Quiet, Refused, Loadable, OnDisk
    <2>5. Knows(p)'
      BY <2>1, <2>2 DEF DoneInv, Knows
    <2>6. QED
      BY <2>1, <2>3, <2>4, <2>5, OnlyOne
  <1>3. QED
    BY <1>1, <1>2, CommandRuns

LEMMA TruncateDone ==
    ASSUME Typed, DoneInv, NEW p \in Processes, Truncate(p), Head(process[p].left) \in Parts
    PROVE  DoneInv'
  <1> SUFFICES ASSUME Good' PROVE DoneInv'
    BY DEF DoneInv
  <1> DEFINE f == Head(process[p].left)
  <1>1. /\ ledger' = ledger
        /\ process'[p].pc = "save" /\ process'[p].memory = process[p].memory
        /\ process'[p].left = process[p].left /\ process'[p].open
        /\ \A q \in Processes \ {p} : process'[q] = process[q]
        /\ disk'[f].text = "empty" /\ OnDisk' = OnDisk
        /\ \A g \in Parts \ {f} : disk'[g] = disk[g]
    BY TruncateStep
  <1>2. /\ Good /\ process[p].pc = "save" /\ ~process[p].open /\ process[p].left # <<>>
    BY DEF Truncate, Saving, Good
  <1>3. \A q \in Processes \ {p} : process[q].pc = "out" /\ ~process[q].open
    BY <1>2, OthersOut
  <1>4. Knows(p)
    BY <1>2 DEF DoneInv
  <1>5. f \in In(process[p].left)
    BY <1>2, <1>4, LeftTail DEF Knows
  <1>6. Knows(p)'
    <2> HIDE DEF f
    <2>1. process'[p].open => process'[p].pc = "save" /\ process'[p].left # <<>>
      BY <1>1, <1>2
    <2>2. process'[p].left \in Lefts
      BY <1>1, <1>2, <1>4 DEF Knows
    <2>3. f = Head(process'[p].left)
      BY <1>1 DEF f
    <2>4. ASSUME NEW g \in Parts
          PROVE  /\ disk'[g].text \in {"absent", "whole"} \/ (process'[p].open /\ g = Head(process'[p].left))
                 /\ process'[p].open /\ g = Head(process'[p].left) => disk'[g].text = "empty"
                 /\ g \in In(process'[p].left) \/ disk'[g].says = process'[p].memory[g]
      BY <1>1, <1>2, <1>4, <1>5, <2>3 DEF Knows
    <2>5. QED
      BY <1>1, <2>1, <2>2, <2>4 DEF Knows
  <1>7. ~Quiet'
    BY <1>1 DEF Quiet
  <1>8. QED
    BY <1>1, <1>3, <1>6, <1>7, OnlyOne

LEMMA WriteFileDone ==
    ASSUME Typed, DoneInv, NEW p \in Processes, WriteFile(p), Head(process[p].left) \in Parts
    PROVE  DoneInv'
  <1> SUFFICES ASSUME Good' PROVE DoneInv'
    BY DEF DoneInv
  <1> DEFINE f == Head(process[p].left)
  <1>1. /\ ledger' = ledger
        /\ process'[p].pc = "save" /\ process'[p].memory = process[p].memory
        /\ process'[p].left = Tail(process[p].left) /\ ~process'[p].open
        /\ \A q \in Processes \ {p} : process'[q] = process[q]
        /\ disk[f].text = "empty" =>
             disk'[f].text = "whole" /\ disk'[f].says = process[p].memory[f]
        /\ \A g \in Parts \ {f} : disk'[g] = disk[g]
    BY WriteFileStep
  <1>2. /\ Good /\ process[p].pc = "save" /\ process[p].open /\ process[p].left # <<>>
    BY DEF WriteFile, Saving, Good
  <1>3. \A q \in Processes \ {p} : process[q].pc = "out" /\ ~process[q].open
    BY <1>2, OthersOut
  <1>4. Knows(p)
    BY <1>2 DEF DoneInv
  <1>5. disk[f].text = "empty"
    BY <1>2, <1>4 DEF Knows
  <1>6. /\ Tail(process[p].left) \in Lefts
        /\ In(Tail(process[p].left)) = In(process[p].left) \ {f}
    BY <1>2, <1>4, LeftTail DEF Knows
  <1>7. Knows(p)'
    <2>1. ASSUME NEW g \in Parts
          PROVE  /\ disk'[g].text \in {"absent", "whole"}
                 /\ g \in In(process'[p].left) \/ disk'[g].says = process'[p].memory[g]
      <3>1. CASE g = f
        BY <1>1, <1>5, <3>1
      <3>2. CASE g # f
        <4> HIDE DEF f
        <4>1. disk'[g] = disk[g] /\ disk[g].text \in {"absent", "whole"}
          BY <1>1, <1>2, <1>4, <3>2 DEF Knows, f
        <4>2. g \in In(process[p].left) \/ disk[g].says = process[p].memory[g]
          BY <1>2, <1>4 DEF Knows
        <4>3. QED
          BY <1>1, <1>6, <3>2, <4>1, <4>2
      <3>3. QED
        BY <3>1, <3>2
    <2>2. QED
      BY <1>1, <1>6, <2>1 DEF Knows
  <1>8. ~Quiet'
    BY <1>1 DEF Quiet
  <1>9. QED
    BY <1>1, <1>3, <1>7, <1>8, OnlyOne

LEMMA CommandDoneDone ==
    ASSUME Typed, DoneInv, NEW p \in Processes, CommandDone(p)
    PROVE  DoneInv'
  <1> SUFFICES ASSUME Good' PROVE DoneInv'
    BY DEF DoneInv
  <1>1. /\ disk' = disk /\ ledger' = process[p].memory
        /\ p \in Desktops => process'[p].pc = "ready" /\ process'[p].open = process[p].open
        /\ p \notin Desktops => process'[p] = Out
        /\ \A q \in Processes \ {p} : process'[q] = process[q]
    BY CommandDoneStep
  <1>2. Good /\ process[p].pc = "save" /\ process[p].left = <<>>
    BY DEF CommandDone, Good
  <1>3. \A q \in Processes \ {p} : process[q].pc = "out" /\ ~process[q].open
    BY <1>2, OthersOut
  <1>4. Knows(p)
    BY <1>2 DEF DoneInv
  <1>5. \A f \in Parts : disk[f].says = process[p].memory[f] /\ disk[f].text \in {"absent", "whole"}
    BY <1>2, <1>4, LeftIn DEF Knows
  <1>6. process[p].memory = [f \in Parts |-> process[p].memory[f]]
    <2>1. process[p].memory \in Memory
      BY DEF Typed, FilesTypeOK, Process
    <2>2. QED
      BY <2>1, MemoryParts
  <1>7. (Loadable /\ OnDisk = ledger)'
    <2>1. OnDisk = process[p].memory
      BY <1>5, <1>6 DEF OnDisk
    <2>2. OnDisk' = OnDisk /\ Loadable'
      BY <1>1, <1>5 DEF OnDisk, Loadable
    <2>3. QED
      BY <1>1, <2>1, <2>2
  <1>8. Knows(p)'
    BY <1>1, <1>2, <1>4 DEF Knows, Out
  <1>9. QED
    BY <1>1, <1>3, <1>7, <1>8, OnlyOne

LEMMA LeaveDone ==
    ASSUME Typed, DoneInv, NEW p \in Processes, Leave(p)
    PROVE  DoneInv'
  <1> SUFFICES ASSUME Good' PROVE DoneInv'
    BY DEF DoneInv
  <1>1. /\ process'[p] = Out /\ Out.pc = "out" /\ ~Out.open
        /\ \A q \in Processes \ {p} : process'[q] = process[q]
    BY LeaveStep DEF Out
  <1>2. Good /\ process[p].pc = "ready"
    BY DEF Leave, Good
  <1>3. \A q \in Processes \ {p} : process[q].pc = "out" /\ ~process[q].open
    BY <1>2, OthersOut
  <1>4. (Loadable /\ OnDisk = ledger)'
    BY <1>2, <1>3 DEF DoneInv, Quiet, Leave, Loadable, OnDisk
  <1>5. Knows(p)'
    BY <1>1 DEF Knows
  <1>6. QED
    BY <1>1, <1>3, <1>4, <1>5, OnlyOne

LEMMA StepFiles ==
    ASSUME Typed, DoneInv, [FilesNext]_filesVars
    PROVE  Typed' /\ DoneInv'
  <1>1. CASE UNCHANGED filesVars
    <2>1. Typed'
      BY <1>1 DEF filesVars, Typed, FilesTypeOK, DiskShaped, OnDisk, Capped
    <2>2. DoneInv'
      BY <1>1 DEF filesVars, DoneInv, Good, Alone, Knows, Quiet, Loadable, OnDisk
    <2>3. QED
      BY <2>1, <2>2
  <1>2. ASSUME NEW p \in Processes, Load(p) PROVE Typed' /\ DoneInv'
    BY <1>2, LoadStep, LoadDone
  <1>3. ASSUME NEW p \in Processes, Truncate(p) \/ WriteFile(p) PROVE Typed' /\ DoneInv'
    <2>1. Saving(p) /\ process[p] \in Process
      BY <1>3 DEF Truncate, WriteFile, Typed, FilesTypeOK
    <2>2. Head(process[p].left) \in Parts
      BY <2>1 DEF Saving, Process
    <2>3. QED
      BY <1>3, <2>2, TruncateStep, TruncateDone, WriteFileStep, WriteFileDone
  <1>4. ASSUME NEW p \in Processes, CommandDone(p) PROVE Typed' /\ DoneInv'
    BY <1>4, CommandDoneStep, CommandDoneDone
  <1>5. ASSUME NEW p \in Processes, DesktopSaveFails(p) \/ Crash(p) PROVE Typed' /\ DoneInv'
    BY <1>5, DesktopSaveFailsStep, CrashStep DEF DoneInv
  <1>6. ASSUME NEW p \in Processes, Leave(p) PROVE Typed' /\ DoneInv'
    BY <1>6, LeaveStep, LeaveDone
  <1>7. ASSUME NEW p \in Processes, CommandOf(p) PROVE Typed' /\ DoneInv'
    BY <1>7, CommandDoes
  <1>8. CASE FilesNext
    BY <1>8, <1>2, <1>3, <1>4, <1>5, <1>6, <1>7 DEF FilesNext, CommandOf
  <1>9. QED
    BY <1>1, <1>8

LEMMA FilesInvariant == FilesSpec => [](Typed /\ DoneInv)
  <1>1. FilesInit => Typed /\ DoneInv
    BY InitFiles
  <1>2. Typed /\ DoneInv /\ [FilesNext]_filesVars => (Typed /\ DoneInv)'
    BY StepFiles
  <1>3. QED
    BY <1>1, <1>2, PTL DEF FilesSpec

-----------------------------------------------------------------------------
(* Crashes between the saves.  What is said of the disk (Sound) holds of   *)
(* the memory a command leaves as well, and after each save of it: a stake *)
(* locks the tokens before it is recorded, a distribution takes the fees   *)
(* before it credits them.  An unstake or a claim that is cut short is let *)
(* off by name.                                                            *)

\* n: what was paid; c: the commands cut short.
Sound(d, n, c) ==
    /\ d.pool.credited <= d.fees.distributed
    /\ "unstake" \in c \/ d.pool.amount <= d.token.staked
    /\ "claim" \in c \/ n + d.pool.owed <= d.pool.credited

\* The disk says d while a command v saves memory m and has the files s left.
Saves(v, s, m, d, n, c) ==
    /\ Planned(v, s) /\ Sound(m, n, c) /\ Sound(d, n, c \cup {v})
    /\ d.pool.credited <= m.pool.credited
    /\ v = "unstake" \/ d.pool.amount <= m.pool.amount
    /\ v = "distribute" \/ d.fees.distributed = m.fees.distributed
    /\ "token" \in In(s) \/ d.token.staked = m.token.staked
    /\ "pool" \in In(s) \/ d.pool = m.pool
    /\ "fees" \in In(s) \/ d.fees = m.fees

Calm == ~met /\ ~skipped

Follows(p) ==
    LET r == process[p] IN
    /\ r.open => r.pc = "save" /\ r.left # <<>> /\ disk[Head(r.left)].text = "empty"
    /\ r.pc = "ready" => /\ r.memory.token.staked = OnDisk.token.staked
                         /\ r.memory.pool = OnDisk.pool /\ r.memory.fees = OnDisk.fees
    /\ r.pc = "save" => Saves(r.verb, r.left, r.memory, OnDisk, paidOut, cut)

OverInv == Calm =>
    /\ Alone
    /\ \A p \in Processes : Follows(p)
    /\ Quiet => Sound(OnDisk, paidOut, cut)

LEMMA PlannedTail ==
    ASSUME NEW v, NEW s, Planned(v, s), s # <<>>
    PROVE  /\ s \in Lefts /\ Head(s) \in Parts /\ Planned(v, Tail(s))
           /\ Head(s) = "pool" => "token" \notin In(s) /\ (v = "distribute" => "fees" \notin In(s))
  <1>1. \A x, y, z : /\ Head(<<x>>) = x /\ Tail(<<x>>) = <<>>
                     /\ Head(<<x, y>>) = x /\ Tail(<<x, y>>) = <<y>>
                     /\ Head(<<x, y, z>>) = x /\ Tail(<<x, y, z>>) = <<y, z>>
    OBVIOUS
  <1>2. <<"fees", "pool">> \notin {<<>>, <<"fees">>, <<"pool", "fees">>, <<"pool">>}
    OBVIOUS
  <1>3. s \in Lefts /\ Head(s) \in Parts
    BY LeftTail DEF Planned, Lefts
  <1>4. CASE v = "distribute"
    <2>1. s \in {<<"fees", "pool">>, <<"pool">>}
      BY <1>4 DEF Planned
    <2>2. CASE s = <<"pool">>
      BY <1>1, <1>3, <1>4, <2>2, LeftIn DEF Planned
    <2>3. CASE s = <<"fees", "pool">>
      BY <1>1, <1>3, <1>4, <2>3 DEF Planned
    <2>4. QED
      BY <2>1, <2>2, <2>3
  <1>5. CASE v # "distribute"
    <2>1. s \in {<<"token">>, <<"pool">>, <<"fees">>, <<"token", "pool">>, <<"pool", "fees">>,
                 <<"token", "pool", "fees">>}
      BY <1>5 DEF Planned, Lefts
    <2>2. Tail(s) \in {<<>>, <<"pool">>, <<"fees">>, <<"pool", "fees">>}
      <3>1. CASE s \in {<<"token">>, <<"pool">>, <<"fees">>}
        BY <1>1, <3>1
      <3>2. CASE s \in {<<"token", "pool">>, <<"pool", "fees">>}
        BY <1>1, <3>2
      <3>3. CASE s = <<"token", "pool", "fees">>
        BY <1>1, <3>3
      <3>4. QED
        BY <2>1, <3>1, <3>2, <3>3
    <2>3. Planned(v, Tail(s))
      BY <1>2, <1>5, <2>2 DEF Planned, Lefts
    <2>4. Head(s) = "pool" => s \in {<<"pool">>, <<"pool", "fees">>}
      BY <1>1, <2>1
    <2>5. QED
      BY <1>3, <1>5, <2>3, <2>4, LeftIn
  <1>6. QED
    BY <1>4, <1>5

\* One more file is written.
LEMMA SavesOne ==
    ASSUME NEW v, NEW s, NEW m \in Memory, NEW d \in Memory, NEW e \in Memory,
           NEW n \in Nat, NEW c, Saves(v, s, m, d, n, c), s # <<>>,
           e[Head(s)] = m[Head(s)], \A g \in Parts \ {Head(s)} : e[g] = d[g]
    PROVE  Saves(v, Tail(s), m, e, n, c)
  <1>1. /\ s \in Lefts /\ Head(s) \in Parts /\ Planned(v, Tail(s))
        /\ Head(s) = "pool" => "token" \notin In(s) /\ (v = "distribute" => "fees" \notin In(s))
    BY PlannedTail DEF Saves
  <1>2. In(Tail(s)) = In(s) \ {Head(s)}
    BY <1>1, LeftTail
  <1>3. CASE Head(s) = "token"
    <2>1. e.token = m.token /\ e.pool = d.pool /\ e.fees = d.fees
      BY <1>3 DEF Parts
    <2>2. QED
      BY <1>1, <1>2, <1>3, <2>1, MemoryNats DEF Saves, Sound
  <1>4. CASE Head(s) = "pool"
    <2>1. e.token = d.token /\ e.pool = m.pool /\ e.fees = d.fees
      BY <1>4 DEF Parts
    <2>2. d.token.staked = m.token.staked /\ d.fees.distributed = m.fees.distributed
      BY <1>1, <1>4 DEF Saves
    <2>3. QED
      BY <1>1, <1>2, <1>4, <2>1, <2>2, MemoryNats DEF Saves, Sound
  <1>5. CASE Head(s) = "fees"
    <2>1. e.token = d.token /\ e.pool = d.pool /\ e.fees = m.fees
      BY <1>5 DEF Parts
    <2>2. QED
      BY <1>1, <1>2, <1>5, <2>1, MemoryNats DEF Saves, Sound
  <1>6. QED
    BY <1>1, <1>3, <1>4, <1>5 DEF Parts

\* A command starts from a memory that agrees with the disk.
LEMMA SavesBegin ==
    ASSUME NEW v, NEW s, NEW m \in Memory, NEW after \in Memory, NEW d \in Memory,
           NEW n \in Nat, NEW c, Sound(d, n, c), Planned(v, s), Moved(m, after, v),
           m.token.staked = d.token.staked, m.pool = d.pool, m.fees = d.fees,
           \A f \in Parts : f \in In(s) \/ after[f] = m[f]
    PROVE  Saves(v, s, after, d, n + (IF v = "claim" THEN m.pool.owed ELSE 0), c)
  <1> DEFINE k == n + (IF v = "claim" THEN m.pool.owed ELSE 0)
  <1>1. /\ "token" \in In(s) \/ after.token.staked = m.token.staked
        /\ "pool" \in In(s) \/ after.pool = m.pool
        /\ "fees" \in In(s) \/ after.fees = m.fees
    BY DEF Parts
  <1>2. Sound(after, k, c)
    <2>1. m.pool.credited <= m.fees.distributed /\ ("unstake" \in c \/ m.pool.amount <= m.token.staked)
      BY DEF Sound
    <2>2. "claim" \in c \/ n + m.pool.owed <= m.pool.credited
      BY DEF Sound
    <2>3. "claim" \in c \/ k + after.pool.owed <= after.pool.credited
      BY <2>2 DEF Moved
    <2>4. QED
      BY <2>1, <2>3 DEF Moved, Sound
  <1>3. Sound(d, k, c \cup {v})
    BY MemoryNats DEF Sound
  <1>4. QED
    BY <1>1, <1>2, <1>3 DEF Saves, Moved

\* Every other process being out, what they follow needs no proof.
LEMMA OnlyOneOver ==
    ASSUME NEW p \in Processes,
           \A q \in Processes \ {p} : process[q] = process'[q] /\ process[q].pc = "out" /\ ~process[q].open,
           Follows(p)', Quiet' => Sound(OnDisk, paidOut, cut)'
    PROVE  OverInv'
  <1>1. Alone'
    BY DEF Alone
  <1>2. ASSUME NEW q \in Processes \ {p} PROVE Follows(q)'
    BY <1>2 DEF Follows
  <1>3. QED
    BY <1>1, <1>2 DEF OverInv

LEMMA OthersOutOver ==
    ASSUME OverInv, Calm, NEW p \in Processes, process[p].pc # "out"
    PROVE  /\ \A q \in Processes \ {p} : process[q].pc = "out" /\ ~process[q].open
           /\ Follows(p)
           /\ process[p].pc = "ready" => Sound(OnDisk, paidOut, cut)
  <1>1. \A q \in Processes \ {p} : process[q].pc = "out" /\ ~process[q].open
    BY DEF OverInv, Alone, Follows
  <1>2. process[p].pc = "ready" => Quiet
    BY <1>1 DEF Quiet
  <1>3. QED
    BY <1>1, <1>2 DEF OverInv

LEMMA InitOver == FilesInit => OverInv
  <1> SUFFICES ASSUME FilesInit PROVE OverInv
    OBVIOUS
  <1>1. \A p \in Processes : process[p].pc = "out" /\ ~process[p].open
    BY DEF FilesInit, Out
  <1>2. OnDisk.pool = Fresh.pool /\ OnDisk.token = Fresh.token /\ OnDisk.fees = Fresh.fees
    <2>1. ASSUME NEW f \in Parts PROVE disk[f].says = Fresh[f]
      <3>1. disk[f] = [text |-> "absent", says |-> Fresh[f]]
        BY DEF FilesInit
      <3>2. QED
        BY <3>1
    <2>2. \A f \in Parts : OnDisk[f] = Fresh[f]
      BY <2>1 DEF OnDisk
    <2>3. QED
      BY <2>2 DEF Parts
  <1>3. Sound(OnDisk, paidOut, cut)
    <2>1. /\ Fresh.pool.credited = 0 /\ Fresh.pool.amount = 0 /\ Fresh.pool.owed = 0
          /\ Fresh.fees.distributed = 0 /\ Fresh.token.staked = 0
      BY DEF Fresh
    <2>2. QED
      BY <1>2, <2>1 DEF Sound, FilesInit
  <1>4. QED
    BY <1>1, <1>3 DEF OverInv, Alone, Follows

LEMMA LoadOver ==
    ASSUME Typed, OverInv, NEW p \in Processes, Load(p)
    PROVE  OverInv'
  <1> SUFFICES ASSUME Calm' PROVE OverInv'
    BY DEF OverInv
  <1>1. /\ disk' = disk /\ paidOut' = paidOut /\ cut' = cut
        /\ process'[p].pc = "ready" /\ process'[p].memory = OnDisk /\ ~process'[p].open
        /\ \A q \in Processes \ {p} : process'[q] = process[q] /\ process[q].pc = "out"
    BY LoadStep DEF Load, Calm
  <1>2. Calm /\ Quiet
    BY <1>1 DEF Calm, Load, Quiet
  <1>3. OnDisk' = OnDisk
    BY <1>1 DEF OnDisk
  <1>4. Sound(OnDisk, paidOut, cut)'
    BY <1>1, <1>2, <1>3 DEF OverInv, Sound
  <1>5. Follows(p)'
    BY <1>1, <1>3 DEF Follows
  <1>6. \A q \in Processes \ {p} : ~process[q].open
    BY <1>1, <1>2 DEF OverInv, Follows
  <1>7. QED
    BY <1>1, <1>4, <1>5, <1>6, OnlyOneOver

LEMMA CommandOver ==
    ASSUME Typed, OverInv, NEW p \in Processes, CommandOf(p)
    PROVE  Typed' /\ OverInv'
  <1>1. /\ process[p].memory \in Memory /\ OnDisk \in Memory /\ paidOut \in Nat
    BY DEF Typed, FilesTypeOK, Process, OnDisk
  <1>2. ASSUME NEW verb, NEW after, NEW todo, Runs(p, verb, after, todo)
        PROVE  Typed' /\ OverInv'
    <2>1. /\ Typed' /\ disk' = disk
          /\ process'[p].pc = "save" /\ process'[p].memory = after /\ process'[p].verb = verb
          /\ process'[p].left = todo /\ ~process'[p].open
          /\ \A q \in Processes \ {p} : process'[q] = process[q]
      BY <1>2, RunStep DEF Runs
    <2> SUFFICES ASSUME Calm' PROVE OverInv'
      BY <2>1 DEF OverInv
    <2>2. /\ Calm /\ process[p].pc = "ready" /\ cut' = cut
          /\ paidOut' = paidOut + (IF verb = "claim" THEN process[p].memory.pool.owed ELSE 0)
      BY <1>2 DEF Runs, Run, Calm
    <2>3. /\ \A q \in Processes \ {p} : process[q].pc = "out" /\ ~process[q].open
          /\ Follows(p) /\ Sound(OnDisk, paidOut, cut)
      BY <2>2, OthersOutOver
    <2>4. /\ process[p].memory.token.staked = OnDisk.token.staked
          /\ process[p].memory.pool = OnDisk.pool /\ process[p].memory.fees = OnDisk.fees
      BY <2>2, <2>3 DEF Follows
    <2>5. Saves(verb, todo, after, OnDisk, paidOut', cut)
      BY <1>1, <1>2, <2>2, <2>3, <2>4, SavesBegin DEF Runs
    <2>6. OnDisk' = OnDisk
      BY <2>1 DEF OnDisk
    <2>7. Follows(p)'
      BY <2>1, <2>2, <2>5, <2>6 DEF Follows
    <2>8. ~Quiet'
      BY <2>1 DEF Quiet
    <2>9. QED
      BY <2>1, <2>3, <2>7, <2>8, OnlyOneOver
  <1>3. ASSUME NEW m, Refused(p, m)
        PROVE  Typed' /\ OverInv'
    <2>1. /\ Typed' /\ disk' = disk /\ paidOut' = paidOut /\ cut' = cut
          /\ process'[p].pc = "ready" /\ process'[p].open = process[p].open
          /\ process'[p].memory = m
          /\ \A q \in Processes \ {p} : process'[q] = process[q]
      BY <1>3, RefusedStep DEF Refused
    <2> SUFFICES ASSUME Calm' PROVE OverInv'
      BY <2>1 DEF OverInv
    <2>2. Calm /\ process[p].pc = "ready"
      BY <1>3 DEF Refused, Calm
    <2>3. /\ \A q \in Processes \ {p} : process[q].pc = "out" /\ ~process[q].open
          /\ Follows(p) /\ Sound(OnDisk, paidOut, cut)
      BY <2>2, OthersOutOver
    <2>4. OnDisk' = OnDisk
      BY <2>1 DEF OnDisk
    <2>5. Follows(p)'
      BY <1>3, <2>1, <2>2, <2>3, <2>4 DEF Follows, Refused
    <2>6. Sound(OnDisk, paidOut, cut)'
      BY <2>1, <2>3, <2>4 DEF Sound
    <2>7. QED
      BY <2>1, <2>3, <2>5, <2>6, OnlyOneOver
  <1>4. QED
    BY <1>2, <1>3, CommandRuns

LEMMA TruncateOver ==
    ASSUME Typed, OverInv, NEW p \in Processes, Truncate(p), Head(process[p].left) \in Parts
    PROVE  OverInv'
  <1> SUFFICES ASSUME Calm' PROVE OverInv'
    BY DEF OverInv
  <1>1. /\ paidOut' = paidOut /\ cut' = cut
        /\ process'[p].pc = "save" /\ process'[p].memory = process[p].memory
        /\ process'[p].verb = process[p].verb
        /\ process'[p].left = process[p].left /\ process'[p].open
        /\ \A q \in Processes \ {p} : process'[q] = process[q]
        /\ disk'[Head(process[p].left)].text = "empty" /\ OnDisk' = OnDisk
    BY TruncateStep DEF Truncate
  <1>2. Calm /\ process[p].pc = "save" /\ process[p].left # <<>>
    BY DEF Truncate, Saving, Calm
  <1>3. /\ \A q \in Processes \ {p} : process[q].pc = "out" /\ ~process[q].open
        /\ Follows(p)
    BY <1>2, OthersOutOver
  <1>4. Follows(p)'
    BY <1>1, <1>2, <1>3 DEF Follows
  <1>5. ~Quiet'
    BY <1>1 DEF Quiet
  <1>6. QED
    BY <1>1, <1>3, <1>4, <1>5, OnlyOneOver

LEMMA WriteFileOver ==
    ASSUME Typed, OverInv, NEW p \in Processes, WriteFile(p), Head(process[p].left) \in Parts
    PROVE  OverInv'
  <1> SUFFICES ASSUME Calm' PROVE OverInv'
    BY DEF OverInv
  <1> DEFINE f == Head(process[p].left)
  <1>1. /\ paidOut' = paidOut /\ cut' = cut
        /\ process'[p].pc = "save" /\ process'[p].memory = process[p].memory
        /\ process'[p].verb = process[p].verb
        /\ process'[p].left = Tail(process[p].left) /\ ~process'[p].open
        /\ \A q \in Processes \ {p} : process'[q] = process[q]
        /\ disk[f].text = "empty" => disk'[f].says = process[p].memory[f]
        /\ \A g \in Parts \ {f} : disk'[g] = disk[g]
        /\ Typed'
    BY WriteFileStep DEF WriteFile
  <1>2. Calm /\ process[p].pc = "save" /\ process[p].open /\ process[p].left # <<>>
    BY DEF WriteFile, Saving, Calm
  <1>3. /\ \A q \in Processes \ {p} : process[q].pc = "out" /\ ~process[q].open
        /\ Follows(p)
    BY <1>2, OthersOutOver
  <1>4. /\ OnDisk'[f] = process[p].memory[f]
        /\ \A g \in Parts \ {f} : OnDisk'[g] = OnDisk[g]
    <2>1. disk[f].text = "empty"
      BY <1>2, <1>3 DEF Follows
    <2> HIDE DEF f
    <2>2. f \in Parts
      BY DEF f
    <2>3. QED
      BY <1>1, <2>1, <2>2 DEF OnDisk
  <1>5. process[p].memory \in Memory /\ OnDisk \in Memory /\ OnDisk' \in Memory /\ paidOut \in Nat
    BY <1>1 DEF Typed, FilesTypeOK, Process, OnDisk
  <1>6. Saves(process[p].verb, Tail(process[p].left), process[p].memory, OnDisk', paidOut, cut)
    <2>1. Saves(process[p].verb, process[p].left, process[p].memory, OnDisk, paidOut, cut)
      BY <1>2, <1>3 DEF Follows
    <2>2. QED
      BY <1>2, <1>4, <1>5, <2>1, SavesOne
  <1>7. Follows(p)'
    BY <1>1, <1>6 DEF Follows
  <1>8. ~Quiet'
    BY <1>1 DEF Quiet
  <1>9. QED
    BY <1>1, <1>3, <1>7, <1>8, OnlyOneOver

LEMMA CommandDoneOver ==
    ASSUME Typed, OverInv, NEW p \in Processes, CommandDone(p)
    PROVE  OverInv'
  <1> SUFFICES ASSUME Calm' PROVE OverInv'
    BY DEF OverInv
  <1>1. /\ disk' = disk /\ paidOut' = paidOut /\ cut' = cut
        /\ p \in Desktops => /\ process'[p].pc = "ready" /\ process'[p].open = process[p].open
                             /\ process'[p].memory = process[p].memory
        /\ p \notin Desktops => process'[p] = Out
        /\ \A q \in Processes \ {p} : process'[q] = process[q]
    BY CommandDoneStep DEF CommandDone
  <1>2. Calm /\ process[p].pc = "save" /\ process[p].left = <<>>
    BY DEF CommandDone, Calm
  <1>3. /\ \A q \in Processes \ {p} : process[q].pc = "out" /\ ~process[q].open
        /\ Follows(p)
    BY <1>2, OthersOutOver
  <1>4. /\ Sound(process[p].memory, paidOut, cut)
        /\ OnDisk.token.staked = process[p].memory.token.staked
        /\ OnDisk.pool = process[p].memory.pool /\ OnDisk.fees = process[p].memory.fees
    BY <1>2, <1>3, LeftIn DEF Follows, Saves
  <1>5. OnDisk' = OnDisk
    BY <1>1 DEF OnDisk
  <1>6. Sound(OnDisk, paidOut, cut)'
    BY <1>1, <1>4, <1>5 DEF Sound
  <1>7. Follows(p)'
    <2>1. CASE p \in Desktops
      BY <1>1, <1>2, <1>3, <1>4, <1>5, <2>1 DEF Follows
    <2>2. CASE p \notin Desktops
      BY <1>1, <2>2 DEF Follows, Out
    <2>3. QED
      BY <2>1, <2>2
  <1>8. QED
    BY <1>1, <1>3, <1>6, <1>7, OnlyOneOver

LEMMA CrashOver ==
    ASSUME Typed, OverInv, NEW p \in Processes, Crash(p)
    PROVE  OverInv'
  <1> SUFFICES ASSUME Calm' PROVE OverInv'
    BY DEF OverInv
  <1>1. /\ disk' = disk /\ paidOut' = paidOut /\ cut' = cut \cup {process[p].verb}
        /\ process'[p] = Out /\ Out.pc = "out" /\ ~Out.open
        /\ \A q \in Processes \ {p} : process'[q] = process[q]
    BY CrashStep DEF Crash, Out
  <1>2. Calm /\ process[p].pc = "save"
    BY DEF Crash, Calm
  <1>3. /\ \A q \in Processes \ {p} : process[q].pc = "out" /\ ~process[q].open
        /\ Follows(p)
    BY <1>2, OthersOutOver
  <1>4. Sound(OnDisk, paidOut, cut \cup {process[p].verb})
    BY <1>2, <1>3 DEF Follows, Saves
  <1>5. OnDisk' = OnDisk
    BY <1>1 DEF OnDisk
  <1>6. Sound(OnDisk, paidOut, cut)'
    BY <1>1, <1>4, <1>5 DEF Sound
  <1>7. Follows(p)'
    BY <1>1 DEF Follows
  <1>8. QED
    BY <1>1, <1>3, <1>6, <1>7, OnlyOneOver

LEMMA LeaveOver ==
    ASSUME Typed, OverInv, NEW p \in Processes, Leave(p)
    PROVE  OverInv'
  <1> SUFFICES ASSUME Calm' PROVE OverInv'
    BY DEF OverInv
  <1>1. /\ disk' = disk /\ paidOut' = paidOut /\ cut' = cut
        /\ process'[p] = Out /\ Out.pc = "out" /\ ~Out.open
        /\ \A q \in Processes \ {p} : process'[q] = process[q]
    BY LeaveStep DEF Leave, Out
  <1>2. Calm /\ process[p].pc = "ready"
    BY DEF Leave, Calm
  <1>3. /\ \A q \in Processes \ {p} : process[q].pc = "out" /\ ~process[q].open
        /\ Sound(OnDisk, paidOut, cut)
    BY <1>2, OthersOutOver
  <1>4. OnDisk' = OnDisk
    BY <1>1 DEF OnDisk
  <1>5. Sound(OnDisk, paidOut, cut)'
    BY <1>1, <1>3, <1>4 DEF Sound
  <1>6. Follows(p)'
    BY <1>1 DEF Follows
  <1>7. QED
    BY <1>1, <1>3, <1>5, <1>6, OnlyOneOver

LEMMA StepOver ==
    ASSUME Typed, OverInv, [FilesNext]_filesVars
    PROVE  Typed' /\ OverInv'
  <1>1. CASE UNCHANGED filesVars
    <2>1. Typed'
      BY <1>1 DEF filesVars, Typed, FilesTypeOK, DiskShaped, OnDisk, Capped
    <2>2. OverInv'
      BY <1>1 DEF filesVars, OverInv, Calm, Alone, Follows, Quiet, OnDisk, Sound, Saves
    <2>3. QED
      BY <2>1, <2>2
  <1>2. ASSUME NEW p \in Processes, Load(p) PROVE Typed' /\ OverInv'
    BY <1>2, LoadStep, LoadOver
  <1>3. ASSUME NEW p \in Processes, Truncate(p) \/ WriteFile(p) PROVE Typed' /\ OverInv'
    <2>1. Saving(p) /\ process[p] \in Process
      BY <1>3 DEF Truncate, WriteFile, Typed, FilesTypeOK
    <2>2. Head(process[p].left) \in Parts
      BY <2>1 DEF Saving, Process
    <2>3. QED
      BY <1>3, <2>2, TruncateStep, TruncateOver, WriteFileStep, WriteFileOver
  <1>4. ASSUME NEW p \in Processes, CommandDone(p) PROVE Typed' /\ OverInv'
    BY <1>4, CommandDoneStep, CommandDoneOver
  <1>5. ASSUME NEW p \in Processes, DesktopSaveFails(p) PROVE Typed' /\ OverInv'
    BY <1>5, DesktopSaveFailsStep DEF DesktopSaveFails, OverInv, Calm
  <1>6. ASSUME NEW p \in Processes, Crash(p) PROVE Typed' /\ OverInv'
    BY <1>6, CrashStep, CrashOver
  <1>7. ASSUME NEW p \in Processes, Leave(p) PROVE Typed' /\ OverInv'
    BY <1>7, LeaveStep, LeaveOver
  <1>8. ASSUME NEW p \in Processes, CommandOf(p) PROVE Typed' /\ OverInv'
    BY <1>8, CommandOver
  <1>9. CASE FilesNext
    BY <1>9, <1>2, <1>3, <1>4, <1>5, <1>6, <1>7, <1>8 DEF FilesNext, CommandOf
  <1>10. QED
    BY <1>1, <1>9

-----------------------------------------------------------------------------
(* Theorems.                                                               *)

\* For any processes, amounts and limits: memory and files have their types, no
\* memory's supply exceeds the cap, and no stake or balance falls below zero,
\* whatever the interleaving, the crashes and the failing saves.
THEOREM FilesTypes == FilesSpec => []FilesTypeOK
  <1>1. Typed => FilesTypeOK
    BY DEF Typed
  <1>2. QED
    BY <1>1, FilesInvariant, PTL

\* For any processes, amounts and limits: while no two processes were alive at
\* once, none was cut short and no failing save was passed over, the files can be
\* loaded and say what the last command reported as done left in memory
\* (main.rs:279-357, lib.rs:93-98).
THEOREM DoneSaved == FilesSpec => []DoneIsOnDisk
  <1>1. DoneInv => DoneIsOnDisk
    BY DEF DoneInv, DoneIsOnDisk, Good
  <1>2. QED
    BY <1>1, FilesInvariant, PTL

\* For any processes, amounts and limits, and wherever a command is cut short
\* between its saves (cli/src/main.rs:248-357, lib.rs:93-98): while no two
\* processes were alive at once and no failing save was passed over, the stakers
\* are credited no more than was taken from the fees; what is staked is locked,
\* unless an unstake was cut short; and what was paid and is still owed was
\* credited, unless a claim was.
THEOREM NeverOverpays == FilesSpec => []CrashesNeverOverpay
  <1>1. OverInv => CrashesNeverOverpay
    BY DEF OverInv, Calm, Sound, CrashesNeverOverpay
  <1>2. Typed /\ OverInv /\ [FilesNext]_filesVars => (Typed /\ OverInv)'
    BY StepOver
  <1>3. FilesInit => Typed /\ OverInv
    BY InitFiles, InitOver
  <1>4. QED
    BY <1>1, <1>2, <1>3, PTL DEF FilesSpec

-----------------------------------------------------------------------------
(* PayoutCurve.                                                            *)

(* The nearest point.  FoldLeft is a recursion over sets of indices, each  *)
(* time without its largest; that it obeys its equation is proved as for   *)
(* sums (Arithmetic), and so is what it computes.                          *)

Nearer(p, best, x) ==
    IF Distance(p.outcome, x) < Distance(best.outcome, x) THEN p ELSE best

IsNearestTable(g, points, x) ==
    g = [s \in SUBSET DOMAIN points |->
           IF s = {} THEN points[1] ELSE Nearer(points[Max(s)], g[s \ {Max(s)}], x)]

LEMMA ClosestIsTable ==
    ASSUME NEW points, NEW x
    PROVE  Closest(points, x) = (CHOOSE g : IsNearestTable(g, points, x))[DOMAIN points]
  BY DEF Closest, FoldLeft, MapThenFoldSet, IsNearestTable, Nearer

LEMMA MaxIn ==
    ASSUME NEW n \in Nat, NEW s \in SUBSET (1 .. n), s # {}
    PROVE  Max(s) \in s
  <1> DEFINE T == {n - k : k \in s}
  <1>1. T \in SUBSET Nat /\ T # {}
    <2>1. \A k \in s : n - k \in Nat
      OBVIOUS
    <2>2. QED
      BY <2>1
  <1>2. PICK m \in T : \A j \in T : m <= j
    BY <1>1, LeastElement
  <1>3. PICK k \in s : m = n - k
    BY <1>2
  <1>4. ASSUME NEW j \in s PROVE k >= j
    <2>1. n - j \in T /\ k \in Nat /\ j \in Nat
      OBVIOUS
    <2>2. n - k <= n - j
      BY <1>2, <1>3, <2>1
    <2>3. QED
      BY <2>1, <2>2
  <1>5. QED
    BY <1>3, <1>4 DEF Max

LEMMA NearestTableExists ==
    ASSUME NEW n \in Nat, NEW points, DOMAIN points = 1 .. n, NEW x
    PROVE  \E g : IsNearestTable(g, points, x)
  <1> DEFINE D == 1 .. n
             Upto(k) == {s \in SUBSET D : Cardinality(s) <= k}
             Value(g, s) ==
                 IF s = {} THEN points[1] ELSE Nearer(points[Max(s)], g[s \ {Max(s)}], x)
             Partial(g, k) == g = [s \in Upto(k) |-> Value(g, s)]
             T == {k \in Nat : \E g : Partial(g, k)}
  <1>0. IsFiniteSet(D) /\ DOMAIN points = D /\ \A s \in SUBSET D : s # {} => Max(s) \in s
    <2>1. IsFiniteSet(D)
      BY FS_Interval
    <2>2. QED
      BY <2>1, MaxIn
  <1> HIDE DEF D
  <1>1. \A s \in SUBSET D : /\ IsFiniteSet(s) /\ Cardinality(s) \in 0 .. Cardinality(D)
                            /\ Cardinality(s) = 0 <=> s = {}
    BY <1>0, FS_Subset, FS_CardinalityType, FS_EmptySet
  <1>2. \A s \in SUBSET D : s # {} =>
            s \ {Max(s)} \in SUBSET D /\ Cardinality(s \ {Max(s)}) = Cardinality(s) - 1
    BY <1>0, <1>1, FS_RemoveElement
  <1>3. 0 \in T
    <2> DEFINE g == [s \in Upto(0) |-> points[1]]
    <2>1. \A s \in Upto(0) : s = {}
      BY <1>1
    <2>2. Partial(g, 0)
      BY <2>1
    <2>3. QED
      BY <2>2
  <1>4. ASSUME NEW k \in T PROVE k + 1 \in T
    <2>1. PICK g : Partial(g, k)
      BY <1>4
    <2> DEFINE h == [s \in Upto(k + 1) |-> Value(g, s)]
    <2>2. \A s \in Upto(k) : h[s] = g[s]
      <3>1. \A s \in Upto(k) : s \in Upto(k + 1)
        BY <1>1
      <3>2. \A s \in Upto(k) : g[s] = Value(g, s)
        BY <2>1
      <3> HIDE DEF Value
      <3>3. QED
        BY <3>1, <3>2
    <2>3. \A s \in Upto(k + 1) : s # {} => s \ {Max(s)} \in Upto(k)
      BY <1>1, <1>2
    <2>4. \A s \in Upto(k + 1) : h[s] = Value(h, s)
      <3> HIDE DEF Upto
      <3>1. \A s \in Upto(k + 1) : h[s] = Value(g, s)
        OBVIOUS
      <3> HIDE DEF h
      <3>2. \A s \in Upto(k + 1) : Value(h, s) = Value(g, s)
        BY <2>2, <2>3
      <3>3. QED
        BY <3>1, <3>2
    <2>5. Partial(h, k + 1)
      <3>1. h = [s \in Upto(k + 1) |-> h[s]]
        OBVIOUS
      <3> HIDE DEF h, Value, Upto
      <3>2. QED
        BY <2>4, <3>1
    <2> HIDE DEF h, Partial
    <2>6. k + 1 \in Nat /\ \E t : Partial(t, k + 1)
      BY <2>5
    <2>7. QED
      BY <2>6
  <1> HIDE DEF T
  <1>5. T \in SUBSET Nat
    BY DEF T
  <1>6. Cardinality(D) \in T
    BY <1>0, <1>3, <1>4, <1>5, NatInductionSet, FS_CardinalityType
  <1>7. PICK g : Partial(g, Cardinality(D))
    BY <1>6 DEF T
  <1>8. Upto(Cardinality(D)) = SUBSET D
    BY <1>1
  <1>9. IsNearestTable(g, points, x)
    BY <1>0, <1>7, <1>8 DEF IsNearestTable
  <1>10. QED
    BY <1>9

LEMMA DistanceType ==
    ASSUME NEW a \in Int, NEW b \in Int
    PROVE  Distance(a, b) \in Nat
  BY DEF Distance

\* min_by_key returns one of the points, and none is nearer.
LEMMA ClosestIsNearest ==
    ASSUME NEW n \in Nat, n > 0, NEW points \in [1 .. n -> PayoutPoint], NEW x \in Int
    PROVE  \E i \in 1 .. n :
             /\ Closest(points, x) = points[i]
             /\ \A j \in 1 .. n :
                  Distance(points[i].outcome, x) <= Distance(points[j].outcome, x)
  <1> DEFINE g == CHOOSE t : IsNearestTable(t, points, x)
             D == 1 .. n
             d(i) == Distance(points[i].outcome, x)
             T == {s \in SUBSET D : \E i \in D : g[s] = points[i] /\ \A j \in s : d(i) <= d(j)}
  <1>1. /\ DOMAIN points = D /\ IsFiniteSet(D) /\ 1 \in D
        /\ \A s \in SUBSET D : s # {} => Max(s) \in s
    <2>1. IsFiniteSet(D)
      BY FS_Interval
    <2>2. DOMAIN points = D /\ 1 \in D
      OBVIOUS
    <2>3. \A s \in SUBSET D : s # {} => Max(s) \in s
      BY MaxIn
    <2>4. QED
      BY <2>1, <2>2, <2>3
  <1>2. IsNearestTable(g, points, x)
    BY <1>1, NearestTableExists
  <1> HIDE DEF g, D
  <1>3. \A s \in SUBSET D :
          g[s] = IF s = {} THEN points[1] ELSE Nearer(points[Max(s)], g[s \ {Max(s)}], x)
    BY <1>1, <1>2 DEF IsNearestTable
  <1>4. \A i \in D : d(i) \in Nat
    <2>1. \A i \in D : points[i].outcome \in Int
      BY CurveAssumption DEF PayoutPoint, D
    <2>2. QED
      BY <2>1, DistanceType
  <1>5. {} \in T
    BY <1>1, <1>3
  <1>6. ASSUME NEW s \in SUBSET D, s # {}, \A e \in s : s \ {e} \in T PROVE s \in T
    <2> DEFINE m == Max(s)
               r == s \ {m}
    <2>1. m \in s
      BY <1>1, <1>6
    <2>0. m \in D /\ s = r \cup {m}
      BY <2>1
    <2> HIDE DEF m
    <2>2. PICK i \in D : g[r] = points[i] /\ \A j \in r : d(i) <= d(j)
      BY <1>6, <2>1
    <2>3. g[s] = Nearer(points[m], points[i], x)
      BY <1>3, <1>6, <2>2 DEF m
    <2>4. CASE d(m) < d(i)
      <3>1. g[s] = points[m]
        BY <2>3, <2>4 DEF Nearer
      <3>2. \A j \in s : d(m) <= d(j)
        <4> HIDE DEF d
        <4>1. QED
          BY <2>0, <2>1, <2>2, <2>4, <1>4
      <3>3. QED
        BY <2>1, <3>1, <3>2
    <2>5. CASE ~(d(m) < d(i))
      <3>1. g[s] = points[i]
        BY <2>3, <2>5 DEF Nearer
      <3>2. \A j \in s : d(i) <= d(j)
        <4> HIDE DEF d
        <4>1. QED
          BY <2>0, <2>1, <2>2, <2>5, <1>4
      <3>3. QED
        BY <3>1, <3>2
    <2>6. QED
      BY <2>4, <2>5
  <1>7. T \in SUBSET SUBSET D
    OBVIOUS
  <1> HIDE DEF T
  <1>8. T = SUBSET D
    BY <1>1, <1>5, <1>6, <1>7, FiniteInductionSet
  <1>9. D \in T
    BY <1>8
  <1>10. Closest(points, x) = g[D]
    BY <1>1, ClosestIsTable DEF g
  <1>11. QED
    BY <1>9, <1>10 DEF T, D

-----------------------------------------------------------------------------
(* The straight line.                                                      *)

LEMMA ShareOfRange ==
    ASSUME NEW total \in Nat, NEW range \in Nat, range > 0, NEW place \in Nat, place < range
    PROVE  LET share == total * place
               q == share \div range
           IN /\ share \in Nat /\ q \in Nat /\ q <= total
              /\ range * q \in Nat /\ range * q <= share /\ share < range * q + range
              /\ share % range = 0 => share = range * q
              /\ share > 0 => total > 0
  <1> DEFINE share == total * place
             q == share \div range
             rest == share % range
             product == range * q
  <1>1. share \in Nat
    BY ProductNat
  <1>2. q \in Nat /\ rest \in Nat /\ rest < range /\ share = product + rest /\ product \in Nat
    <2> HIDE DEF share
    <2>1. QED
      BY <1>1, DivMod, ProductNat
  <1>3. total = 0 => share = 0
    OBVIOUS
  <1>4. share <= total * range /\ total * range \in Nat /\ total * range = range * total
    BY ProductMonotone
  <1> HIDE DEF share, q, rest
  <1>5. ASSUME q > total PROVE FALSE
    <2>1. range * (total + 1) \in Nat /\ range * (total + 1) <= product
      BY <1>2, <1>5, ProductMonotone
    <2>2. range * (total + 1) = range * total + range
      OBVIOUS
    <2> HIDE DEF product
    <2> DEFINE most == range * total
               more == range * (total + 1)
    <2>3. most \in Nat /\ more = most + range /\ more <= product /\ share <= most
      BY <1>4, <2>1, <2>2
    <2> HIDE DEF most, more
    <2>4. QED
      BY <1>1, <1>2, <2>3
  <1> HIDE DEF product
  <1>6. share \in Nat /\ q \in Nat /\ q <= total
    BY <1>1, <1>2, <1>5
  <1>7. /\ product \in Nat /\ product <= share /\ share < product + range
        /\ rest = 0 => share = product
        /\ share > 0 => total > 0
    BY <1>1, <1>2, <1>3
  <1>8. QED
    BY <1>6, <1>7 DEF share, q, rest, product

\* Where the line is drawn: places from the end where the accepter wins.
LineRange(c) == c.offererAt - c.accepterAt
Place(c, x) == x - c.accepterAt
Between(c, x) == c.accepterAt < x /\ x < c.offererAt

LEMMA CurveAmount ==
    ASSUME NEW a \in CurveAmounts
    PROVE  a \in Nat /\ a < CurveWord
  <1>1. a \in 0 .. CurveWord - 1 /\ CurveWord \in Nat
    BY CurveAssumption
  <1>2. QED
    BY <1>1

LEMMA LinearTypes ==
    ASSUME NEW c \in Linear
    PROVE  c.kind = "linear" /\ c.offererAt \in Int /\ c.accepterAt \in Int /\ c.total \in Nat
  <1>1. /\ c.kind = "linear" /\ c.offererAt \in Outcomes /\ c.accepterAt \in Outcomes
        /\ c.total \in CurveAmounts
    BY DEF Linear
  <1>2. QED
    BY <1>1, CurveAssumption, CurveAmount

LEMMA LineTypes ==
    ASSUME NEW c \in Linear, Valid(c)
    PROVE  /\ c.kind = "linear" /\ c.offererAt \in Int /\ c.accepterAt \in Int
           /\ c.total \in Nat /\ LineRange(c) \in Nat /\ LineRange(c) > 0
           /\ \A x \in Int : /\ Place(c, x) \in Int
                             /\ Between(c, x) => Place(c, x) \in Nat /\ Place(c, x) < LineRange(c)
  <1>1. c.kind = "linear" /\ c.offererAt \in Int /\ c.accepterAt \in Int /\ c.total \in Nat
    BY LinearTypes
  <1>2. c.offererAt > c.accepterAt
    BY <1>1 DEF Valid
  <1>3. QED
    BY <1>1, <1>2 DEF LineRange, Place, Between

LEMMA InterpolatedNumbers ==
    ASSUME NEW c \in Linear, Valid(c), NEW x \in Int, Between(c, x),
           NEW n \in Interpolated(c, Place(c, x))
    PROVE  LET share == c.total * Place(c, x)
               q == share \div LineRange(c)
           IN /\ n \in Nat
              /\ n = q \/ (n = q - 1 /\ share > 0 /\ share = LineRange(c) * q)
  <1> DEFINE share == c.total * Place(c, x)
             q == share \div LineRange(c)
  <1>1. /\ share \in Nat /\ q \in Nat
        /\ share % LineRange(c) = 0 => share = LineRange(c) * q
    BY LineTypes, ShareOfRange, CurveAssumption
  <1>2. n = q \/ (n = q - 1 /\ share > 0 /\ share % LineRange(c) = 0)
    BY DEF Interpolated, LineRange
  <1>3. CASE n = q
    BY <1>1, <1>3
  <1>4. CASE n = q - 1 /\ share > 0 /\ share = LineRange(c) * q
    <2>1. q = 0 => LineRange(c) * q = 0
      BY LineTypes
    <2> HIDE DEF share, q
    <2>2. q > 0
      BY <1>1, <1>4, <2>1
    <2>3. n \in Nat
      BY <1>1, <1>4, <2>2
    <2>4. QED
      BY <1>4, <2>3 DEF share, q
  <1>5. QED
    BY <1>1, <1>2, <1>3, <1>4

LEMMA InterpolatedPays ==
    ASSUME NEW c \in Linear, Valid(c), NEW x \in Int, Between(c, x),
           NEW n \in Interpolated(c, Place(c, x))
    PROVE  /\ n \in Nat /\ n <= c.total
           /\ Distance(n * LineRange(c), c.total * Place(c, x)) <= LineRange(c)
  <1> DEFINE R == LineRange(c)
             share == c.total * Place(c, x)
             q == share \div R
             product == R * q
             paid == n * R
  <1>1. R \in Nat /\ R > 0 /\ c.total \in Nat
    BY LineTypes, CurveAssumption
  <1>2. /\ share \in Nat /\ q \in Nat /\ q <= c.total
        /\ product \in Nat /\ product <= share /\ share < product + R
    BY LineTypes, ShareOfRange, CurveAssumption
  <1>3. n \in Nat /\ (n = q \/ (n = q - 1 /\ share = product))
    BY InterpolatedNumbers
  <1> HIDE DEF R, share, q
  <1>4. n <= c.total
    BY <1>1, <1>2, <1>3
  <1>5. n = q => paid = product
    BY <1>1, <1>2
  <1>6. n = q - 1 => paid = product - R
    BY <1>1, <1>2
  <1>7. paid \in Nat
    BY <1>1, <1>3, ProductNat
  <1> HIDE DEF product, paid
  <1>8. Distance(paid, share) <= R
    BY <1>1, <1>2, <1>3, <1>5, <1>6, <1>7 DEF Distance
  <1>9. QED
    BY <1>3, <1>4, <1>8 DEF R, share, paid

\* Truncation and rounding do not turn the line around.
LEMMA InterpolatedRises ==
    ASSUME NEW c \in Linear, Valid(c), NEW x \in Int, NEW y \in Int,
           Between(c, x), Between(c, y), x < y,
           NEW n \in Interpolated(c, Place(c, x)), NEW m \in Interpolated(c, Place(c, y))
    PROVE  m >= n
  <1> DEFINE R == LineRange(c)
             P == Place(c, x)
             Q == Place(c, y)
             low == c.total * P
             high == c.total * Q
             p == low \div R
             q == high \div R
  <1>1. /\ R \in Nat /\ R > 0 /\ c.total \in Nat
        /\ P \in Nat /\ P < R /\ Q \in Nat /\ Q < R /\ P < Q
    BY LineTypes, CurveAssumption DEF Place
  <1>2. /\ low \in Nat /\ p \in Nat /\ R * p \in Nat /\ R * p <= low /\ low < R * p + R
        /\ high \in Nat /\ q \in Nat /\ R * q \in Nat /\ R * q <= high /\ high < R * q + R
        /\ high > 0 => c.total > 0
    BY <1>1, ShareOfRange
  <1>3. /\ n \in Nat /\ m \in Nat
        /\ n = p \/ n = p - 1
        /\ m = q \/ (m = q - 1 /\ high > 0 /\ high = R * q)
    BY InterpolatedNumbers
  <1>4. low <= high /\ (c.total > 0 => low < high)
    <2> DEFINE next == c.total * (P + 1)
    <2>1. P <= Q /\ P + 1 <= Q /\ P + 1 \in Nat
      BY <1>1
    <2>2. low <= high /\ next \in Nat /\ next <= high
      BY <1>1, <2>1, ProductMonotone
    <2>3. next = low + c.total
      BY <1>1
    <2> HIDE DEF low, high, next, P, Q, R
    <2>4. QED
      BY <1>1, <1>2, <2>2, <2>3
  <1> HIDE DEF R, P, Q, low, high, p, q
  <1>5. ASSUME q < p PROVE FALSE
    <2>1. q + 1 \in Nat /\ q + 1 <= p
      BY <1>2, <1>5
    <2>2. R * (q + 1) \in Nat /\ R * (q + 1) <= R * p
      BY <1>1, <1>2, <2>1, ProductMonotone
    <2>3. R * (q + 1) = R * q + R
      BY <1>1, <1>2
    <2> DEFINE a == R * p
               b == R * q
               d == R * (q + 1)
    <2>4. /\ a \in Nat /\ b \in Nat /\ d \in Nat /\ d <= a /\ d = b + R
          /\ a <= low /\ high < b + R
      BY <1>2, <2>2, <2>3
    <2> HIDE DEF a, b, d
    <2>5. QED
      BY <1>1, <1>2, <1>4, <2>4
  <1>6. CASE m = q
    BY <1>2, <1>3, <1>5, <1>6
  <1>7. CASE m = q - 1 /\ high > 0 /\ high = R * q
    <2>1. p # q
      <3> SUFFICES ASSUME p = q PROVE FALSE
        OBVIOUS
      <3> DEFINE a == R * p
      <3>1. a <= low /\ high = a /\ a \in Nat
        BY <1>2, <1>7
      <3> HIDE DEF a
      <3>2. QED
        BY <1>1, <1>2, <1>4, <1>7, <3>1
    <2>2. QED
      BY <1>2, <1>3, <1>5, <1>7, <2>1
  <1>8. QED
    BY <1>3, <1>6, <1>7

-----------------------------------------------------------------------------
(* What each kind of curve pays.                                           *)

LinePays(c, x) ==
    IF x >= c.offererAt THEN {c.total}
    ELSE IF x <= c.accepterAt THEN {0} ELSE Interpolated(c, Place(c, x))

LEMMA PayoutsByKind ==
    ASSUME NEW c, NEW x
    PROVE  /\ c.kind = "binary" => OffererPayouts(c, x) = {IF x > 0 THEN c.win ELSE c.lose}
           /\ c.kind = "linear" => OffererPayouts(c, x) = LinePays(c, x)
           /\ c.kind = "discrete" => OffererPayouts(c, x) = {PointPays(c, x)}
  BY DEF OffererPayouts, LinePays, Place

LEMMA CurveKinds ==
    ASSUME NEW c \in Curves
    PROVE  /\ c.kind \in {"binary", "linear", "discrete"} /\ c # NoCurve
           /\ c.kind = "binary" => c \in Binary
           /\ c.kind = "linear" => c \in Linear
           /\ c.kind = "discrete" => c \in Discrete
  BY DEF Curves, Binary, Linear, Discrete, NoCurve

LEMMA BinaryTypes ==
    ASSUME NEW c \in Binary
    PROVE  /\ c.kind = "binary" /\ c.win \in Nat /\ c.lose \in Nat
           /\ c.win < CurveWord /\ c.lose < CurveWord
  <1>1. c.kind = "binary" /\ c.win \in CurveAmounts /\ c.lose \in CurveAmounts
    BY DEF Binary
  <1>2. QED
    BY <1>1, CurveAmount

\* With neither amount above the collateral the sum has not wrapped.
LEMMA BinarySum ==
    ASSUME NEW c \in Binary, Valid(c), ~NamesTooMuch(c)
    PROVE  c.win <= Collateral /\ c.lose <= Collateral /\ c.win + c.lose = Collateral
  <1> DEFINE sum == c.win + c.lose
             q == sum \div CurveWord
             product == CurveWord * q
  <1>1. c.kind = "binary" /\ c.win \in Nat /\ c.lose \in Nat
        /\ c.win < CurveWord /\ c.lose < CurveWord
    BY BinaryTypes
  <1>2. Collateral \in Nat /\ Collateral < CurveWord /\ CurveWord \in Nat /\ CurveWord > 0
    BY CurveAssumption
  <1>3. c.win <= Collateral /\ c.lose <= Collateral
    BY <1>1, <1>2 DEF NamesTooMuch
  <1>4. sum \in Nat /\ sum % CurveWord = Collateral
    BY <1>1 DEF Valid
  <1>5. q \in Nat /\ sum = product + Collateral /\ product \in Nat
    <2> HIDE DEF sum
    <2>1. QED
      BY <1>2, <1>4, DivMod, ProductNat
  <1>6. q > 0 => product >= CurveWord
    <2> HIDE DEF q
    <2> SUFFICES ASSUME q > 0 PROVE product >= CurveWord
      OBVIOUS
    <2>1. 1 <= q /\ CurveWord * 1 <= CurveWord * q
      BY <1>2, <1>5, ProductMonotone
    <2>2. QED
      BY <1>2, <2>1
  <1>7. q = 0 => product = 0
    BY <1>2
  <1> HIDE DEF q, product
  <1>8. product = 0
    BY <1>1, <1>2, <1>3, <1>5, <1>6, <1>7
  <1>9. QED
    BY <1>2, <1>3, <1>5, <1>8

LEMMA BinaryPays ==
    ASSUME NEW c \in Binary, NEW x \in Int, NEW n \in OffererPayouts(c, x)
    PROVE  /\ n \in Nat
           /\ n = IF x > 0 THEN c.win ELSE c.lose
  BY BinaryTypes, PayoutsByKind

LEMMA LinearPays ==
    ASSUME NEW c \in Linear, Valid(c), NEW x \in Int, NEW n \in OffererPayouts(c, x)
    PROVE  /\ n \in Nat /\ n <= c.total
           /\ x > c.offererAt => n = c.total
           /\ x < c.accepterAt => n = 0
           /\ x \in c.accepterAt .. c.offererAt =>
                Distance(n * LineRange(c), c.total * Place(c, x)) <= LineRange(c)
  <1>1. n \in LinePays(c, x) /\ c.total \in Nat
    BY LineTypes, PayoutsByKind, CurveAssumption
  <1> DEFINE R == LineRange(c)
  <1>2. R \in Nat /\ R > 0 /\ c.offererAt \in Int /\ c.accepterAt \in Int
        /\ R = c.offererAt - c.accepterAt
    BY LineTypes DEF LineRange
  <1>3. CASE x >= c.offererAt
    <2>1. n = c.total
      BY <1>1, <1>3 DEF LinePays
    <2>2. x = c.offererAt => Place(c, x) = R
      BY <1>2 DEF Place
    <2>3. Distance(n * R, c.total * R) = 0
      <3> DEFINE product == c.total * R
      <3>1. product \in Int
        BY <1>1, <1>2
      <3> HIDE DEF product
      <3>2. Distance(product, product) = 0
        BY <3>1 DEF Distance
      <3>3. QED
        BY <2>1, <3>2 DEF product
    <2> HIDE DEF R
    <2>4. x \in c.accepterAt .. c.offererAt =>
             Distance(n * R, c.total * Place(c, x)) <= R
      BY <1>2, <1>3, <2>2, <2>3
    <2>5. QED
      BY <1>1, <1>2, <1>3, <2>1, <2>4 DEF R
  <1>4. CASE x <= c.accepterAt
    <2>1. n = 0 /\ ~(x >= c.offererAt)
      BY <1>1, <1>2, <1>4 DEF LinePays
    <2>2. x = c.accepterAt => Place(c, x) = 0
      BY <1>2 DEF Place
    <2>3. Distance(n * R, c.total * 0) = 0
      <3>1. n * R = 0 /\ c.total * 0 = 0
        BY <1>1, <1>2, <2>1
      <3>2. Distance(0, 0) = 0
        BY DEF Distance
      <3>3. QED
        BY <3>1, <3>2
    <2> HIDE DEF R
    <2>4. x \in c.accepterAt .. c.offererAt =>
             Distance(n * R, c.total * Place(c, x)) <= R
      BY <1>2, <1>4, <2>2, <2>3
    <2>5. QED
      BY <1>1, <1>2, <1>4, <2>1, <2>4 DEF R
  <1>5. CASE Between(c, x)
    <2>1. n \in Interpolated(c, Place(c, x))
      BY <1>1, <1>2, <1>5 DEF LinePays, Between
    <2>2. QED
      BY <1>2, <1>5, <2>1, InterpolatedPays DEF Between
  <1>6. QED
    BY <1>2, <1>3, <1>4, <1>5 DEF Between

LEMMA LinearRises ==
    ASSUME NEW c \in Linear, Valid(c), NEW x \in Int, NEW y \in Int, y > x,
           NEW n \in OffererPayouts(c, x), NEW m \in OffererPayouts(c, y)
    PROVE  m >= n
  <1>1. n \in LinePays(c, x) /\ m \in LinePays(c, y) /\ c.total \in Nat
    BY LineTypes, PayoutsByKind, CurveAssumption
  <1>2. c.offererAt \in Int /\ c.accepterAt \in Int
    BY LineTypes
  <1>3. n \in Nat /\ n <= c.total /\ m \in Nat
    BY LinearPays
  <1>4. CASE y >= c.offererAt
    BY <1>1, <1>3, <1>4 DEF LinePays
  <1>5. CASE x <= c.accepterAt
    BY <1>1, <1>2, <1>3, <1>5, LineTypes DEF LinePays, Valid
  <1>6. CASE Between(c, x) /\ Between(c, y)
    <2>1. n \in Interpolated(c, Place(c, x)) /\ m \in Interpolated(c, Place(c, y))
      BY <1>1, <1>2, <1>6 DEF LinePays, Between
    <2>2. QED
      BY <1>6, <2>1, InterpolatedRises
  <1>7. QED
    BY <1>2, <1>4, <1>5, <1>6 DEF Between

LEMMA DiscretePays ==
    ASSUME NEW c \in Discrete, Valid(c), NEW x \in Int, NEW n \in OffererPayouts(c, x)
    PROVE  /\ n \in Nat
           /\ \E i \in DOMAIN c.points :
                /\ c.points[i].payout = n
                /\ \A j \in DOMAIN c.points :
                     Distance(c.points[i].outcome, x) <= Distance(c.points[j].outcome, x)
  <1>1. PICK k \in 0 .. MaxPoints : c \in [kind: {"discrete"}, points: [1 .. k -> PayoutPoint]]
    BY DEF Discrete
  <1>2. c.kind = "discrete" /\ c.points \in [1 .. k -> PayoutPoint] /\ k \in Nat
    BY <1>1, CurveAssumption
  <1>3. c.points # <<>>
    BY <1>2 DEF Valid
  <1>4. k > 0
    <2> SUFFICES ASSUME k = 0 PROVE FALSE
      BY <1>2
    <2>1. DOMAIN c.points = {} /\ DOMAIN <<>> = {}
      BY <1>2
    <2>2. c.points = <<>>
      BY <1>2, <2>1
    <2>3. QED
      BY <1>3, <2>2
  <1>5. n = Closest(c.points, x).payout
    BY <1>2, <1>3, PayoutsByKind DEF PointPays
  <1>6. PICK i \in 1 .. k :
          /\ Closest(c.points, x) = c.points[i]
          /\ \A j \in 1 .. k :
               Distance(c.points[i].outcome, x) <= Distance(c.points[j].outcome, x)
    BY <1>2, <1>4, ClosestIsNearest
  <1>7. n = c.points[i].payout /\ n \in Nat
    <2>1. c.points[i].payout \in CurveAmounts
      BY <1>2, <1>6 DEF PayoutPoint
    <2>2. QED
      BY <1>5, <1>6, <2>1, CurveAmount
  <1>8. QED
    BY <1>2, <1>6, <1>7

-----------------------------------------------------------------------------
(* The contract: what was paid is what its curve pays.                      *)

CurveInv ==
    /\ CurveTypeOK
    /\ curve = NoCurve => payments = {}
    /\ \A p \in payments : /\ p.offerer \in OffererPayouts(curve, p.outcome)
                           /\ p.accepter = AccepterPayout(p.offerer)

\* A curve that is not valid is computed too: a line from its low end to its high
\* one has no outcomes between, and no points pay nothing.
LEMMA InvalidPays ==
    ASSUME NEW c \in Curves, ~Valid(c), NEW x \in Int, NEW n \in OffererPayouts(c, x)
    PROVE  n \in Nat
  <1>1. CASE c.kind = "binary"
    BY <1>1, CurveKinds, BinaryPays
  <1>2. CASE c.kind = "linear"
    <2>1. c \in Linear /\ c.total \in Nat /\ c.offererAt \in Int /\ c.accepterAt \in Int
      BY <1>2, CurveKinds, LinearTypes
    <2>2. c.offererAt <= c.accepterAt
      BY <1>2, <2>1 DEF Valid
    <2>3. n \in LinePays(c, x)
      BY <1>2, PayoutsByKind
    <2>4. n = c.total \/ n = 0
      BY <2>1, <2>2, <2>3 DEF LinePays
    <2>5. QED
      BY <2>1, <2>4
  <1>3. CASE c.kind = "discrete"
    <2>1. c.points = <<>>
      BY <1>3 DEF Valid
    <2>2. QED
      BY <1>3, <2>1, PayoutsByKind DEF PointPays
  <1>4. QED
    BY <1>1, <1>2, <1>3, CurveKinds

LEMMA PayoutNat ==
    ASSUME NEW c \in Curves, NEW x \in Int, NEW n \in OffererPayouts(c, x)
    PROVE  n \in Nat /\ AccepterPayout(n) \in Nat
  <1>1. n \in Nat
    BY CurveKinds, BinaryPays, LinearPays, DiscretePays, InvalidPays
  <1>2. AccepterPayout(n) \in Nat
    BY <1>1, CurveAssumption DEF AccepterPayout
  <1>3. QED
    BY <1>1, <1>2

\* A valid curve pays no more than it names.
LEMMA NamedIsPaid ==
    ASSUME NEW c \in Curves, Valid(c), ~NamesTooMuch(c), NEW x \in Int,
           NEW n \in OffererPayouts(c, x)
    PROVE  n <= Collateral
  <1>0. Collateral \in Nat
    BY CurveAssumption
  <1>1. CASE c.kind = "binary"
    BY <1>1, CurveKinds, BinaryPays, BinarySum
  <1>2. CASE c.kind = "linear"
    <2>1. c \in Linear /\ n \in Nat /\ n <= c.total /\ c.total \in Nat
      BY <1>2, CurveKinds, LinearTypes, LinearPays
    <2>2. c.total <= Collateral
      BY <1>0, <1>2, <2>1 DEF NamesTooMuch
    <2>3. QED
      BY <1>0, <2>1, <2>2
  <1>3. CASE c.kind = "discrete"
    <2>1. n \in Nat /\ \E i \in DOMAIN c.points : c.points[i].payout = n
      BY <1>3, CurveKinds, DiscretePays
    <2>2. \A i \in DOMAIN c.points : ~(c.points[i].payout > Collateral)
      BY <1>3 DEF NamesTooMuch
    <2>3. QED
      BY <1>0, <2>1, <2>2
  <1>4. QED
    BY <1>1, <1>2, <1>3, CurveKinds

LEMMA InitCurve == CurveInit => CurveInv
  BY DEF CurveInit, CurveInv, CurveTypeOK

LEMMA StepCurve ==
    ASSUME CurveInv, [CurveNext]_curveVars
    PROVE  CurveInv'
  <1>1. CASE UNCHANGED curveVars
    BY <1>1 DEF curveVars, CurveInv, CurveTypeOK
  <1>2. ASSUME NEW c \in Curves, Draw(c) PROVE CurveInv'
    BY <1>2, CurveKinds DEF Draw, CurveInv, CurveTypeOK
  <1>3. ASSUME NEW x \in Outcomes, PayAt(x) PROVE CurveInv'
    <2>1. PICK n \in OffererPayouts(curve, x) :
            payments' = {[outcome |-> x, offerer |-> n, accepter |-> AccepterPayout(n)]}
      BY <1>3 DEF PayAt
    <2>2. curve \in Curves /\ curve' = curve /\ x \in Int /\ curve # NoCurve
      BY <1>3, CurveAssumption DEF PayAt, CurveInv, CurveTypeOK
    <2>3. n \in Nat /\ AccepterPayout(n) \in Nat
      BY <2>2, PayoutNat
    <2>4. CurveTypeOK'
      BY <2>1, <2>2, <2>3 DEF CurveTypeOK, Payment
    <2>5. \A p \in payments' : p.offerer \in OffererPayouts(curve', p.outcome)
                               /\ p.accepter = AccepterPayout(p.offerer)
      BY <2>1, <2>2
    <2>6. QED
      BY <2>2, <2>4, <2>5 DEF CurveInv
  <1>4. QED
    BY <1>1, <1>2, <1>3 DEF CurveNext

LEMMA DrawnIsPaid ==
    ASSUME CurveInv
    PROVE  PaysAsDrawn
  <1> SUFFICES ASSUME NEW p \in payments, Valid(curve)
               PROVE  /\ ~NamesTooMuch(curve) => SplitsExactly(p)
                      /\ curve.kind = "binary" /\ ~NamesTooMuch(curve) =>
                           p.accepter = IF p.outcome > 0 THEN curve.lose ELSE curve.win
                      /\ curve.kind = "linear" => OnTheLine(curve, p)
                      /\ curve.kind = "discrete" => OfNearestPoint(curve, p)
    BY DEF PaysAsDrawn
  <1>1. /\ curve \in Curves
        /\ p.outcome \in Outcomes /\ p.outcome \in Int
        /\ p.offerer \in OffererPayouts(curve, p.outcome)
        /\ p.accepter = AccepterPayout(p.offerer)
    BY CurveAssumption DEF CurveInv, CurveTypeOK, Payment
  <1>2. p.offerer \in Nat /\ (~NamesTooMuch(curve) => p.offerer <= Collateral)
    BY <1>1, PayoutNat, NamedIsPaid
  <1>3. ~NamesTooMuch(curve) => SplitsExactly(p)
    BY <1>1, <1>2, CurveAssumption DEF SplitsExactly, AccepterPayout
  <1>4. ASSUME curve.kind = "binary", ~NamesTooMuch(curve)
        PROVE  p.accepter = IF p.outcome > 0 THEN curve.lose ELSE curve.win
    <2>1. curve \in Binary
      BY <1>1, <1>4, CurveKinds
    <2>2. /\ curve.win \in Nat /\ curve.lose \in Nat
          /\ p.offerer = IF p.outcome > 0 THEN curve.win ELSE curve.lose
      BY <1>1, <2>1, BinaryTypes, BinaryPays
    <2>3. curve.win <= Collateral /\ curve.lose <= Collateral /\ curve.win + curve.lose = Collateral
      BY <1>4, <2>1, BinarySum
    <2>4. p.accepter = Collateral - p.offerer
      BY <1>1, <1>2, <1>4, CurveAssumption DEF AccepterPayout
    <2>5. QED
      BY <2>2, <2>3, <2>4
  <1>5. ASSUME curve.kind = "linear" PROVE OnTheLine(curve, p)
    <2>1. curve \in Linear
      BY <1>1, <1>5, CurveKinds
    <2>2. /\ p.outcome > curve.offererAt => p.offerer = curve.total
          /\ p.outcome < curve.accepterAt => p.offerer = 0
          /\ p.outcome \in curve.accepterAt .. curve.offererAt =>
               Distance(p.offerer * LineRange(curve), curve.total * Place(curve, p.outcome))
                 <= LineRange(curve)
      BY <1>1, <2>1, LinearPays
    <2>3. ASSUME NEW y \in Outcomes, y > p.outcome, NEW more \in OffererPayouts(curve, y)
          PROVE  more >= p.offerer
      BY <1>1, <2>1, <2>3, LinearRises, CurveAssumption
    <2>4. QED
      BY <2>2, <2>3 DEF OnTheLine, LineRange, Place
  <1>6. ASSUME curve.kind = "discrete" PROVE OfNearestPoint(curve, p)
    BY <1>1, <1>6, CurveKinds, DiscretePays DEF OfNearestPoint
  <1>7. QED
    BY <1>3, <1>4, <1>5, <1>6

\* The state of a contract's payouts is well typed: no payout is negative, whatever
\* curve the offer carries (payout.rs:56-119).
THEOREM CurveTypes == CurveSpec => []CurveTypeOK
  <1>1. CurveInv => CurveTypeOK
    BY DEF CurveInv
  <1>2. QED
    BY <1>1, InitCurve, StepCurve, PTL DEF CurveSpec

\* A valid curve that names no amount above the collateral pays all of it and no
\* more, although the sum that validate tests may wrap (payout.rs:128); a valid
\* linear one pays on the line to its own total, a discrete one a nearest point
\* (payout.rs:57-153): for any outcomes, amounts, collateral and number of points.
THEOREM CurvePays == CurveSpec => []PaysAsDrawn
  BY DrawnIsPaid, InitCurve, StepCurve, PTL DEF CurveSpec

-----------------------------------------------------------------------------
(* OracleQuorum.                                                           *)

LEMMA StepQuorum ==
    ASSUME QuorumTypeOK, [QuorumNext]_quorumVars
    PROVE  QuorumTypeOK'
  <1>1. CASE UNCHANGED quorumVars
    BY <1>1 DEF quorumVars, QuorumTypeOK
  <1>2. ASSUME NEW q \in Quorums, NewQuorum(q) PROVE QuorumTypeOK'
    BY <1>2 DEF NewQuorum, QuorumTypeOK
  <1>3. ASSUME NEW o \in Oracles, NEW x \in Results, Publish(o, x) PROVE QuorumTypeOK'
    BY <1>3 DEF Publish, QuorumTypeOK
  <1>4. ASSUME NEW o \in Oracles, AddAttestation(o) PROVE QuorumTypeOK'
    <2>1. PICK a \in Fetched(o) : attestations' = Append(attestations, a)
      BY <1>4 DEF AddAttestation
    <2>2. a \in Attestation
      BY DEF Fetched, Attestation, QuorumTypeOK
    <2>3. attestations' \in Seq(Attestation)
      BY <2>1, <2>2, AppendProperties DEF QuorumTypeOK
    <2>4. QED
      BY <1>4, <2>3 DEF AddAttestation, QuorumTypeOK
  <1>5. QED
    BY <1>1, <1>2, <1>3, <1>4 DEF QuorumNext

\* The oracle quorum's state is well typed (oracle.rs:103-162).
THEOREM QuorumTypes == QuorumSpec => []QuorumTypeOK
  <1>1. QuorumInit => QuorumTypeOK
    BY EmptySeq DEF QuorumInit, QuorumTypeOK
  <1>2. QED
    BY <1>1, StepQuorum, PTL DEF QuorumSpec

-----------------------------------------------------------------------------
(* All services.                                                           *)

AllVars == <<running, lboVars, jsonVars, fileVars, memVars, sessionVars,
             filesVars, curveVars, quorumVars>>

\* Each service takes a step of its own or none.
LEMMA OneRuns ==
    ASSUME [Next]_AllVars
    PROVE  /\ [LboNext]_lboVars /\ [JsonNext]_jsonVars /\ [FileNext]_fileVars
           /\ [MemNext]_memVars /\ [SessionNext]_sessionVars /\ [FilesNext]_filesVars
           /\ [CurveNext]_curveVars /\ [QuorumNext]_quorumVars
  <1>1. CASE UNCHANGED AllVars
    BY <1>1 DEF AllVars
  <1>2. CASE Next
    BY <1>2 DEF Next, Only
  <1>3. QED
    BY <1>1, <1>2

\* What the run of MCServices checks are behaviours of each service: the offering,
\* the keystores, the session, the files, curves and quorums share no state
\* (lbo.rs, keystore.rs, scp-ui's lib.rs, cli's main.rs, payout.rs and oracle.rs
\* hold none of each other's), so every theorem of theirs holds of them together.
THEOREM EachServiceRuns ==
    Spec => /\ LboSpec /\ JsonSpec /\ FileSpec /\ MemSpec
            /\ SessionSpec /\ FilesSpec /\ CurveSpec /\ QuorumSpec
  <1>1. Init => /\ LboInit /\ JsonInit /\ FileInit /\ MemInit
                /\ SessionInit /\ FilesInit /\ CurveInit /\ QuorumInit
    BY DEF Init
  <1>2. QED
    BY <1>1, OneRuns, PTL DEF Spec, AllVars, LboSpec, JsonSpec, FileSpec, MemSpec,
                              SessionSpec, FilesSpec, CurveSpec, QuorumSpec

\* The state of every service modelled here is well typed, whichever of them runs
\* (keystore.rs, lbo.rs, lib.rs, main.rs, payout.rs, oracle.rs): for any number of
\* tasks, keys, processes, curves and oracles.
THEOREM ServicesTypes == Spec => []ServicesTypeOK
  <1>1. JsonSpec => []JsonTypeOK
    <2>1. JsonInv => JsonTypeOK
      BY DEF JsonInv
    <2>2. QED
      BY <2>1, InitJson, StepJson, PTL DEF JsonSpec
  <1>2. FileSpec => []FileTypeOK
    <2>1. FileInv => FileTypeOK
      BY DEF FileInv
    <2>2. QED
      BY <2>1, InitFile, StepFile, PTL DEF FileSpec
  <1>3. SessionSpec => []SessionTypeOK
    <2>1. SessionInv => SessionTypeOK
      BY DEF SessionInv
    <2>2. QED
      BY <2>1, InitSession, StepSession, PTL DEF SessionSpec
  <1>4. LboTypeOK /\ JsonTypeOK /\ FileTypeOK /\ MemTypeOK /\ SessionTypeOK /\ FilesTypeOK
        /\ CurveTypeOK /\ QuorumTypeOK => ServicesTypeOK
    BY DEF ServicesTypeOK
  <1>5. QED
    BY <1>1, <1>2, <1>3, <1>4, EachServiceRuns, LboTypes, MemTypes, FilesTypes, CurveTypes,
       QuorumTypes, PTL
=============================================================================
