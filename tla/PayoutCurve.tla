---------------------------- MODULE PayoutCurve -----------------------------
(***************************************************************************)
(* The curves that split the collateral of a contract by the attested      *)
(* outcome (crates/scp-dlc/src/payout.rs).  An offer comes with a curve;   *)
(* ContractOffer::validate does not look at it (contract.rs:40-51), and    *)
(* PayoutCurve::validate has no caller in the workspace, so any curve may  *)
(* be drawn and the property tells the valid ones apart.  When an outcome  *)
(* is attested, the two payouts are computed.                              *)
(*                                                                         *)
(* Amounts are u64 and their unchecked sum wraps as in a release build.    *)
(* Left out: polynomial curves, whose arithmetic is floating point, and    *)
(* outcomes so far apart that an i64 does not hold their difference.       *)
(***************************************************************************)
EXTENDS Integers, Sequences, SequencesExt

CONSTANTS
    Outcomes,           \* numeric outcomes: a set of integers
    Collateral,         \* the total of the contract
    CurveAmounts,       \* the amounts a curve may name, Collateral or not
    CurveWord,          \* an amount is below it: 2^64
    MaxPoints           \* bound: points of a discrete curve

ASSUME CurveAssumption ==
    /\ Outcomes \subseteq Int /\ MaxPoints \in Nat
    /\ CurveWord \in Nat /\ Collateral \in 0 .. CurveWord - 1
    /\ CurveAmounts \subseteq 0 .. CurveWord - 1

VARIABLES
    curve,              \* the payout curve of the contract, once it is drawn
    payments            \* what was paid for which outcome, once

curveVars == <<curve, payments>>

Binary == [kind: {"binary"}, win: CurveAmounts, lose: CurveAmounts]
Linear == [kind: {"linear"}, offererAt: Outcomes, accepterAt: Outcomes, total: CurveAmounts]
PayoutPoint == [outcome: Outcomes, payout: CurveAmounts]
Discrete == UNION {[kind: {"discrete"}, points: [1 .. n -> PayoutPoint]] : n \in 0 .. MaxPoints}
Curves == Binary \cup Linear \cup Discrete
NoCurve == [kind |-> "none"]

Payment == [outcome: Outcomes, offerer: Nat, accepter: Nat]

\* Type invariant: what is paid out is never negative.
CurveTypeOK ==
    /\ curve \in Curves \cup {NoCurve}
    /\ payments \subseteq Payment

-----------------------------------------------------------------------------
\* PayoutCurve::validate: it adds unchecked, does not look at the total of a linear
\* curve, and not at the amounts of a discrete one.
Valid(c) ==
    CASE c.kind = "binary" -> (c.win + c.lose) % CurveWord = Collateral
      [] c.kind = "linear" -> c.offererAt > c.accepterAt
      [] c.kind = "discrete" -> c.points # <<>>

Distance(a, b) == IF a < b THEN b - a ELSE a - b

\* min_by_key: the first of the nearest points.
Closest(points, x) ==
    FoldLeft(LAMBDA best, p :
                 IF Distance(p.outcome, x) < Distance(best.outcome, x) THEN p ELSE best,
             points[1], points)

\* The satoshis of a share of the range, truncated.  The ratio and the product are
\* rounded to an f64: where the quotient is exact and not zero they may fall just
\* below it.  (The total times the range below 2^52: beyond, they may also reach the
\* next satoshi, which is left out.)
Interpolated(c, position) ==
    LET share == c.total * position
        range == c.offererAt - c.accepterAt
    IN {share \div range}
       \cup {n \in {(share \div range) - 1} : share > 0 /\ share % range = 0}

\* min_by_key of no points is none, and pays nothing.
PointPays(c, x) == IF c.points = <<>> THEN 0 ELSE Closest(c.points, x).payout

\* Variant: the position is measured from the end where the offerer wins.
OffererPayoutsBackwards(c, x) ==
    CASE c.kind = "binary" -> {IF x > 0 THEN c.win ELSE c.lose}
      [] c.kind = "linear" ->
           IF x >= c.offererAt THEN {c.total}
           ELSE IF x <= c.accepterAt THEN {0} ELSE Interpolated(c, c.offererAt - x)
      [] c.kind = "discrete" -> {PointPays(c, x)}

\* calculate_offerer_payout: the amounts it may return.  It ignores the collateral
\* it is given: a linear curve pays out of a total of its own.
OffererPayouts(c, x) ==
    CASE c.kind = "binary" -> {IF x > 0 THEN c.win ELSE c.lose}
      [] c.kind = "linear" ->
           IF x >= c.offererAt THEN {c.total}
           ELSE IF x <= c.accepterAt THEN {0} ELSE Interpolated(c, x - c.accepterAt)
      [] c.kind = "discrete" -> {PointPays(c, x)}

\* calculate_accepter_payout: checked_sub, or zero.
AccepterPayout(offerer) == IF offerer > Collateral THEN 0 ELSE Collateral - offerer

-----------------------------------------------------------------------------
CurveInit ==
    /\ curve = NoCurve
    /\ payments = {}

\* The curve of an offer, from the builder or not.
Draw(c) ==
    /\ curve = NoCurve /\ curve' = c
    /\ UNCHANGED payments

PayAt(x) ==
    /\ curve # NoCurve /\ payments = {}
    /\ \E sats \in OffererPayouts(curve, x) :
         payments' = {[outcome |-> x, offerer |-> sats, accepter |-> AccepterPayout(sats)]}
    /\ UNCHANGED curve

CurveNext == (\E c \in Curves : Draw(c)) \/ (\E x \in Outcomes : PayAt(x))

CurveSpec == CurveInit /\ [][CurveNext]_curveVars

-----------------------------------------------------------------------------
(* Reference: what each kind of curve is to pay.                           *)

SplitsExactly(p) == p.offerer + p.accepter = Collateral

\* A curve that names an amount above the collateral: validate refuses none.
NamesTooMuch(c) ==
    CASE c.kind = "binary" -> c.win > Collateral \/ c.lose > Collateral
      [] c.kind = "linear" -> c.total > Collateral
      [] c.kind = "discrete" -> \E i \in DOMAIN c.points : c.points[i].payout > Collateral

\* Within a satoshi of the straight line between the two ends, and never less for
\* a higher outcome.
OnTheLine(c, p) ==
    LET range == c.offererAt - c.accepterAt
        exact == c.total * (p.outcome - c.accepterAt)
    IN
    /\ p.outcome \in c.accepterAt .. c.offererAt => Distance(p.offerer * range, exact) <= range
    /\ p.outcome > c.offererAt => p.offerer = c.total
    /\ p.outcome < c.accepterAt => p.offerer = 0
    /\ \A y \in Outcomes : y > p.outcome =>
         \A more \in OffererPayouts(c, y) : more >= p.offerer

OfNearestPoint(c, p) ==
    \E i \in DOMAIN c.points :
        /\ c.points[i].payout = p.offerer
        /\ \A j \in DOMAIN c.points :
             Distance(c.points[i].outcome, p.outcome) <= Distance(c.points[j].outcome, p.outcome)

\* What validate is for (payout.rs:57-153).  A valid curve that names no amount
\* above the collateral pays all of it, whatever is attested; a binary one then
\* pays the accepter the amount the offerer is not paid.  Whatever it names, a
\* linear curve stays on the line to its own total and a discrete one pays a
\* nearest point.
PaysAsDrawn ==
    \A p \in payments : Valid(curve) =>
        /\ ~NamesTooMuch(curve) => SplitsExactly(p)
        /\ curve.kind = "binary" /\ ~NamesTooMuch(curve) =>
               p.accepter = IF p.outcome > 0 THEN curve.lose ELSE curve.win
        /\ curve.kind = "linear" => OnTheLine(curve, p)
        /\ curve.kind = "discrete" => OfNearestPoint(curve, p)
=============================================================================
