---------------------------- MODULE OracleQuorum ----------------------------
(***************************************************************************)
(* Attestations of several oracles (crates/scp-dlc/src/oracle.rs).  A      *)
(* client fetches what an oracle has published and adds it to the quorum,  *)
(* perhaps more than once.  Nothing is compared or verified when an        *)
(* attestation is added, and has_quorum() counts them.                     *)
(***************************************************************************)
EXTENDS Naturals, Sequences

CONSTANTS
    Oracles,            \* everybody whose attestation may be fetched
    Results,            \* outcomes
    MaxOracles,         \* bound: oracles of a quorum
    MaxAttestations     \* bound: attestations added

ASSUME QuorumAssumption == MaxOracles \in Nat /\ MaxAttestations \in Nat

VARIABLES
    published,          \* OracleClient: what each oracle attests, of one event
    quorum,             \* MultiOracleQuorum: oracles and threshold
    attestations        \* MultiOracleQuorum: what was added

quorumVars == <<published, quorum, attestations>>

Silent == "silent"

\* QuorumConfig::simple, or multi, which refuses a threshold of zero or of more than
\* the length of the vector; one oracle may be in it twice.
OracleLists == UNION {[1 .. n -> Oracles] : n \in 1 .. MaxOracles}
Quorums == {q \in [oracles: OracleLists, threshold: 1 .. MaxOracles] :
              q.threshold <= Len(q.oracles)}
NoQuorum == [oracles |-> <<>>, threshold |-> 0]

Attestation == [oracle: Oracles, outcome: Results]

\* Type invariant of the quorum.
QuorumTypeOK ==
    /\ published \in [Oracles -> Results \cup {Silent}]
    /\ quorum \in Quorums \cup {NoQuorum}
    /\ attestations \in Seq(Attestation)

QuorumInit ==
    /\ published = [o \in Oracles |-> Silent]
    /\ quorum = NoQuorum
    /\ attestations = <<>>

\* MultiOracleQuorum::new
NewQuorum(q) ==
    /\ quorum = NoQuorum /\ quorum' = q
    /\ UNCHANGED <<published, attestations>>

\* add_test_attestation: the entry of the event is set or replaced.
Publish(o, x) ==
    /\ published[o] # x
    /\ published' = [published EXCEPT ![o] = x]
    /\ UNCHANGED <<quorum, attestations>>

\* has_quorum
HasQuorum == Len(attestations) >= quorum.threshold

\* get_attestation: what the oracle attests by now, if it does.
Fetched(o) == {[oracle |-> o, outcome |-> x] : x \in {published[o]} \ {Silent}}

\* The attestation of an oracle is fetched, then added.
AddAttestation(o) ==
    /\ quorum # NoQuorum
    /\ Len(attestations) < MaxAttestations
    /\ \E a \in Fetched(o) : attestations' = Append(attestations, a)
    /\ UNCHANGED <<published, quorum>>

QuorumNext ==
    \/ \E q \in Quorums : NewQuorum(q)
    \/ \E o \in Oracles : AddAttestation(o) \/ \E x \in Results : Publish(o, x)

QuorumSpec == QuorumInit /\ [][QuorumNext]_quorumVars

=============================================================================
