------------------------------- MODULE MCDlc --------------------------------
(* Instances of DlcStateMachine for TLC.                                   *)
EXTENDS DlcStateMachine, TLC

CONSTANTS t1, t2, c1, c2, a1, a2

\* One caller operates one contract, as a front end that serialises the
\* requests of a contract does.
SoleDriver == c1 :> {t1}

\* Two contracts, each with a caller of its own.
OneDriver == (c1 :> {t1}) @@ (c2 :> {t2})

\* Two tasks share the state machine and operate the same contract.
TwoDrivers == c1 :> {t1, t2}

AllButDelete == OpName \ {"delete"}
ToSettlement == {"offer", "accept", "sign", "confirm", "settle", "delete"}
Protocol == OpName \ {"fail", "delete", "list"}
ProtocolAndList == Protocol \cup {"list"}

Symmetry == Permutations(Callers) \cup Permutations(Accepters)
=============================================================================
