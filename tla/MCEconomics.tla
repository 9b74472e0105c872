---------------------------- MODULE MCEconomics -----------------------------
(* Instances of Economics for TLC.                                         *)
EXTENDS Economics, TLC

CONSTANTS t1, t2, h1, h2

\* Each holder has one client, which sends one request at a time.
OwnClients == (t1 :> h1) @@ (t2 :> h2)

\* The two clients are alike, each with what it serves.
Symmetry == {p \in Permutations({t1, t2, h1, h2}) :
                \A t \in {t1, t2} :
                    p[t] \in {t1, t2} /\ OwnClients[p[t]] = p[OwnClients[t]]}
=============================================================================
