--------------------------- MODULE MemoryKeystore ---------------------------
(***************************************************************************)
(* The keystore of the tests and of `scp run`                              *)
(* (crates/scp-signer/src/keystore.rs, MemoryKeystore): two maps, keys and *)
(* secrets, each under an RwLock.  A creation holds both; a deletion takes *)
(* one after the other.  A new key is named after the number of keys held. *)
(***************************************************************************)
EXTENDS Naturals, FiniteSets

CONSTANTS
    MemTasks,       \* tasks that share the keystore
    MaxMemKeys      \* bound: keys created in a behaviour

ASSUME MemAssumption == MaxMemKeys \in Nat

MemKinds == {"key", "import"}
MemNames == MemKinds \X (0 .. MaxMemKeys)

VARIABLES
    memKeys, memSecrets,    \* per name the key it stands for (a number), 0: none
    memCall,                \* the name whose secret a deletion has still to remove
    memMade,                \* keys created
    memNameOf,              \* history: the name each key was given
    memDoomed,              \* history: names whose deletion was begun
    memDeletions            \* history: some deletion was begun

memVars == <<memKeys, memSecrets, memCall, memMade, memNameOf, memDoomed, memDeletions>>

Nameless == <<"none", 0>>

\* Type invariant of the keystore.
MemTypeOK ==
    /\ memKeys \in [MemNames -> 0 .. memMade] /\ memSecrets \in [MemNames -> 0 .. memMade]
    /\ memCall \in [MemTasks -> MemNames \cup {Nameless}]
    /\ memMade \in 0 .. MaxMemKeys
    /\ memNameOf \in [1 .. memMade -> MemNames]
    /\ memDoomed \subseteq 1 .. memMade /\ memDeletions \in BOOLEAN

MemInit ==
    /\ memKeys = [n \in MemNames |-> 0] /\ memSecrets = [n \in MemNames |-> 0]
    /\ memCall = [t \in MemTasks |-> Nameless]
    /\ memMade = 0 /\ memNameOf = <<>>
    /\ memDoomed = {} /\ memDeletions = FALSE

MemHeld == {n \in MemNames : memKeys[n] # 0}

MemInsert(t, name) ==
    LET key == memMade + 1 IN
    /\ memCall[t] = Nameless /\ memMade < MaxMemKeys
    /\ memKeys' = [memKeys EXCEPT ![name] = key]
    /\ memSecrets' = [memSecrets EXCEPT ![name] = key]
    /\ memMade' = key
    /\ memNameOf' = [k \in 1 .. key |-> IF k = key THEN name ELSE memNameOf[k]]
    /\ UNCHANGED <<memCall, memDoomed, memDeletions>>

\* Variant: the number of keys is read before the locks are taken.
MemCreateStale(t, kind) ==
    \E length \in 0 .. Cardinality(MemHeld) : MemInsert(t, <<kind, length>>)

\* generate_key and import_key.
MemCreate(t, kind) == MemInsert(t, <<kind, Cardinality(MemHeld)>>)

\* delete_key: the description, then the secret.
MemDelete(t, name) ==
    /\ memCall[t] = Nameless /\ name \in MemHeld
    /\ memDoomed' = memDoomed \cup {memKeys[name]}
    /\ memDeletions' = TRUE
    /\ memKeys' = [memKeys EXCEPT ![name] = 0]
    /\ memCall' = [memCall EXCEPT ![t] = name]
    /\ UNCHANGED <<memSecrets, memMade, memNameOf>>

MemForget(t) ==
    /\ memCall[t] # Nameless
    /\ memSecrets' = [memSecrets EXCEPT ![memCall[t]] = 0]
    /\ memCall' = [memCall EXCEPT ![t] = Nameless]
    /\ UNCHANGED <<memKeys, memMade, memNameOf, memDoomed, memDeletions>>

MemNext ==
    \E t \in MemTasks :
        \/ \E kind \in MemKinds : MemCreate(t, kind)
        \/ \E name \in MemNames : MemDelete(t, name)
        \/ MemForget(t)

MemSpec == MemInit /\ [][MemNext]_memVars

\* has_key, sign and get_key_info look a name up among the descriptions.
MemFinds(name, key) == memKeys[name] = key

\* Each key is found, with its secret, under the name its creation returned, as
\* long as nothing was deleted: afterwards the number of keys falls, and a new
\* key may take the name of one that is held (keystore.rs:378, 407, 458).
MemNamesKept ==
    memDeletions \/ \A k \in 1 .. memMade :
        MemFinds(memNameOf[k], k) /\ memSecrets[memNameOf[k]] = k
=============================================================================
