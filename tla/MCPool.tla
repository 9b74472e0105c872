------------------------------- MODULE MCPool -------------------------------
(* Instances of LiquidityPool for TLC.                                     *)
EXTENDS LiquidityPool, TLC

CONSTANTS t1, t2, o1, o2

\* Each provider has one client, which sends one request at a time.
OwnClients == (t1 :> o1) @@ (t2 :> o2)

\* One provider uses two clients.
SharedOwner == (t1 :> o1) @@ (t2 :> o1)

\* The two clients are alike, each with what it serves.
Symmetry == {p \in Permutations({t1, t2, o1, o2}) :
                \A t \in {t1, t2} :
                    p[t] \in {t1, t2} /\ OwnClients[p[t]] = p[OwnClients[t]]}
=============================================================================
