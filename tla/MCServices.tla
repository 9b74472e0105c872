---------------------------- MODULE MCServices -----------------------------
(***************************************************************************)
(* One instance for TLC of the services that share no state: the offering, *)
(* the three keystores, the wallet session, the economics files, payout    *)
(* curves and oracle quorums.  The first state picks the one that runs;    *)
(* the others keep their initial state.                                    *)
(***************************************************************************)
EXTENDS Lbo, JsonKeystore, FileKeystore, MemoryKeystore, WalletSession,
        EconomicsFiles, PayoutCurve, OracleQuorum, TLC

CONSTANTS t1, t2, t3, alice, bob

\* Two clients of one contributor, one of another.
Serves == (t1 :> alice) @@ (t2 :> alice) @@ (t3 :> bob)
\* Those two are interchangeable, also as tasks of the keystores.
Symmetry == Permutations({t1, t2})

OutcomesHere == {-2, 0, 1, 2, 4}

VARIABLE running

Services == {"lbo", "json", "file", "memory", "session", "files", "curve", "quorum"}

Init ==
    /\ running \in Services
    /\ LboInit /\ JsonInit /\ FileInit /\ MemInit /\ SessionInit /\ FilesInit
    /\ CurveInit /\ QuorumInit

\* All services but the one named stay as they are.
Only(service) ==
    /\ running = service /\ UNCHANGED running
    /\ service = "lbo" \/ UNCHANGED lboVars
    /\ service = "json" \/ UNCHANGED jsonVars
    /\ service = "file" \/ UNCHANGED fileVars
    /\ service = "memory" \/ UNCHANGED memVars
    /\ service = "session" \/ UNCHANGED sessionVars
    /\ service = "files" \/ UNCHANGED filesVars
    /\ service = "curve" \/ UNCHANGED curveVars
    /\ service = "quorum" \/ UNCHANGED quorumVars

Next ==
    \/ Only("lbo") /\ LboNext
    \/ Only("json") /\ JsonNext
    \/ Only("file") /\ FileNext
    \/ Only("memory") /\ MemNext
    \/ Only("session") /\ SessionNext
    \/ Only("files") /\ FilesNext
    \/ Only("curve") /\ CurveNext
    \/ Only("quorum") /\ QuorumNext

Spec == Init /\ [][Next]_<<running, lboVars, jsonVars, fileVars, memVars, sessionVars,
                           filesVars, curveVars, quorumVars>>

\* The type invariants of all services.
ServicesTypeOK ==
    /\ LboTypeOK /\ JsonTypeOK /\ FileTypeOK /\ MemTypeOK /\ SessionTypeOK /\ FilesTypeOK
    /\ CurveTypeOK /\ QuorumTypeOK
=============================================================================
