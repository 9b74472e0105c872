---------------------------- MODULE JsonKeystore ----------------------------
(***************************************************************************)
(* The single-file keystore (crates/scp-signer/src/json_keystore.rs): a    *)
(* map in memory under an RwLock and one encrypted file that holds all of  *)
(* it.  An operation changes the map under the write lock, releases it and *)
(* saves.  save() holds a read guard from the copy of the map to the end   *)
(* of std::fs::write, which truncates the file and then writes it: a       *)
(* change of the map waits for every save, but two saves may overlap.      *)
(*                                                                         *)
(* The file is JSON, with the bytes of the ciphertext as decimal numbers,  *)
(* so that two encryptions of one map differ in length.                    *)
(***************************************************************************)
EXTENDS Naturals

CONSTANTS
    JsonTasks,      \* tasks that share the keystore
    MaxJsonKeys,    \* bound: keys created in a behaviour
    MaxJsonFaults   \* bound: crashes and I/O errors

JsonKeyIds == 1 .. MaxJsonKeys      \* generate_id(): taken to be distinct

ASSUME JsonAssumption == MaxJsonKeys \in Nat /\ MaxJsonFaults \in Nat

VARIABLES
    jsonOpen,       \* "closed", "creating" (inside new()), "open"
    jsonKeys,       \* the map in memory
    jsonFile,       \* the file
    jsonCall,       \* the request each task is serving
    jsonMade,       \* identifiers handed out
    jsonFaults,
    jsonAcked,      \* history: keys whose creation returned Ok
    jsonDoomed,     \* history: keys whose deletion was begun
    jsonDeleted,    \* history: keys whose deletion returned Ok
    savesMet,       \* history: two saves were past their truncation together
    saveCut         \* history: a crash or an error hit a save past its truncation

jsonHistory == <<jsonAcked, jsonDoomed, jsonDeleted, savesMet, saveCut>>
jsonVars == <<jsonOpen, jsonKeys, jsonFile, jsonCall, jsonMade, jsonFaults, jsonHistory>>

JsonRequest == [pc: {"idle", "save", "truncate", "write"}, op: {"create", "delete"},
                key: JsonKeyIds \cup {0}, copy: SUBSET JsonKeyIds]

NoJsonRequest == [pc |-> "idle", op |-> "create", key |-> 0, copy |-> {}]

\* Type invariant of the keystore; identifiers are used once.
JsonTypeOK ==
    /\ jsonOpen \in {"closed", "creating", "open"}
    /\ jsonKeys \subseteq 1 .. jsonMade
    /\ jsonFile \in [text: {"absent", "empty", "torn", "whole"}, keys: SUBSET JsonKeyIds]
    /\ jsonCall \in [JsonTasks -> JsonRequest]
    /\ jsonMade \in 0 .. MaxJsonKeys /\ jsonFaults \in 0 .. MaxJsonFaults
    /\ jsonAcked \subseteq 1 .. jsonMade /\ jsonDoomed \subseteq 1 .. jsonMade
    /\ jsonDeleted \subseteq jsonDoomed
    /\ savesMet \in BOOLEAN /\ saveCut \in BOOLEAN

JsonInit ==
    /\ jsonOpen = "closed" /\ jsonKeys = {}
    /\ jsonFile = [text |-> "absent", keys |-> {}]
    /\ jsonCall = [t \in JsonTasks |-> NoJsonRequest]
    /\ jsonMade = 0 /\ jsonFaults = 0
    /\ jsonAcked = {} /\ jsonDoomed = {} /\ jsonDeleted = {}
    /\ savesMet = FALSE /\ saveCut = FALSE

JsonAt(t, pc) == jsonCall[t].pc = pc
JsonReturn(t) == jsonCall' = [jsonCall EXCEPT ![t] = NoJsonRequest]
JsonGoto(t, pc) == jsonCall' = [jsonCall EXCEPT ![t].pc = pc]

\* Variant: the guard of save() is dropped before the file is opened.
JsonGuardDropped == \E t \in JsonTasks : jsonCall[t].pc = "truncate"

\* The read guard of save(): from the copy to the end of the write.
JsonGuarded == \E t \in JsonTasks : jsonCall[t].pc \in {"truncate", "write"}

JsonWriting(t) == jsonCall[t].pc = "write"

\* Somebody is between the truncation of the file and the end of the write.
JsonBusy == jsonOpen = "creating" \/ \E t \in JsonTasks : JsonWriting(t)

JsonTorn == [text |-> "torn", keys |-> {}]

-----------------------------------------------------------------------------
(* JsonKeystore::new: load() an existing file, or create one.              *)

\* A file that is not whole fails to parse or to decrypt: new() returns Err.
JsonLoad ==
    /\ jsonOpen = "closed" /\ jsonFile.text = "whole"
    /\ jsonOpen' = "open" /\ jsonKeys' = jsonFile.keys
    /\ UNCHANGED <<jsonFile, jsonCall, jsonMade, jsonFaults, jsonHistory>>

JsonCreateFile ==
    /\ jsonOpen = "closed" /\ jsonFile.text = "absent"
    /\ jsonOpen' = "creating" /\ jsonKeys' = {}
    /\ jsonFile' = [text |-> "empty", keys |-> {}]
    /\ UNCHANGED <<jsonCall, jsonMade, jsonFaults, jsonHistory>>

JsonFileCreated ==
    /\ jsonOpen = "creating"
    /\ jsonOpen' = "open"
    /\ jsonFile' = [text |-> "whole", keys |-> {}]
    /\ UNCHANGED <<jsonKeys, jsonCall, jsonMade, jsonFaults, jsonHistory>>

-----------------------------------------------------------------------------
(* generate_key, import_key, delete_key: the map, then save().             *)

JsonCreate(t) ==
    /\ jsonOpen = "open" /\ JsonAt(t, "idle") /\ ~JsonGuarded
    /\ jsonMade < MaxJsonKeys
    /\ jsonMade' = jsonMade + 1
    /\ jsonKeys' = jsonKeys \cup {jsonMade + 1}
    /\ jsonCall' = [jsonCall EXCEPT ![t] = [NoJsonRequest EXCEPT !.pc = "save",
                                              !.key = jsonMade + 1]]
    /\ UNCHANGED <<jsonOpen, jsonFile, jsonFaults, jsonHistory>>

JsonDelete(t, k) ==
    /\ jsonOpen = "open" /\ JsonAt(t, "idle") /\ ~JsonGuarded
    /\ k <= jsonMade
    /\ jsonKeys' = jsonKeys \ {k}
    /\ jsonCall' = [jsonCall EXCEPT ![t] = [NoJsonRequest EXCEPT !.pc = "save",
                                              !.op = "delete", !.key = k]]
    /\ jsonDoomed' = jsonDoomed \cup {k}
    /\ UNCHANGED <<jsonOpen, jsonFile, jsonMade, jsonFaults, jsonAcked, jsonDeleted,
                   savesMet, saveCut>>

\* Key derivation and encryption of the copy, under the guard.
JsonCopy(t) ==
    /\ JsonAt(t, "save")
    /\ jsonCall' = [jsonCall EXCEPT ![t].pc = "truncate", ![t].copy = jsonKeys]
    /\ UNCHANGED <<jsonOpen, jsonKeys, jsonFile, jsonMade, jsonFaults, jsonHistory>>

JsonTruncated(t, file) ==
    /\ JsonAt(t, "truncate")
    /\ jsonFile' = file
    /\ savesMet' = (savesMet \/ \E u \in JsonTasks : JsonWriting(u))
    /\ JsonGoto(t, "write")
    /\ UNCHANGED <<jsonOpen, jsonKeys, jsonMade, jsonFaults, jsonAcked, jsonDoomed,
                   jsonDeleted, saveCut>>

\* Variant: the file is opened without being truncated.
JsonOpenInPlace(t) == JsonTruncated(t, jsonFile)

JsonTruncate(t) == JsonTruncated(t, [text |-> "empty", keys |-> {}])

\* Over a text another save has written since, the end of a longer one stays.
JsonWrite(t) ==
    /\ JsonAt(t, "write")
    /\ \/ jsonFile' = [text |-> "whole", keys |-> jsonCall[t].copy]
       \/ jsonFile.text # "empty" /\ jsonFile' = JsonTorn
    /\ IF jsonCall[t].op = "create"
       THEN jsonAcked' = jsonAcked \cup {jsonCall[t].key} /\ UNCHANGED jsonDeleted
       ELSE jsonDeleted' = jsonDeleted \cup {jsonCall[t].key} /\ UNCHANGED jsonAcked
    /\ JsonReturn(t)
    /\ UNCHANGED <<jsonOpen, jsonKeys, jsonMade, jsonFaults, jsonDoomed, savesMet, saveCut>>

\* sign, sign_schnorr, get_key_info and list_keys consult the map only.
JsonCanSign(k) == jsonOpen = "open" /\ k \in jsonKeys

-----------------------------------------------------------------------------
(* Faults.                                                                 *)

JsonFault == jsonFaults < MaxJsonFaults /\ jsonFaults' = jsonFaults + 1

\* std::fs::write fails: at the opening nothing is lost, later the text may be.
\* The map keeps the change that could not be saved.
JsonIoError(t) ==
    /\ JsonFault
    /\ \/ JsonAt(t, "truncate") /\ UNCHANGED <<jsonFile, saveCut>>
       \/ /\ JsonAt(t, "write")
          /\ jsonFile' \in {jsonFile, JsonTorn}
          /\ saveCut' = TRUE
    /\ JsonReturn(t)
    /\ UNCHANGED <<jsonOpen, jsonKeys, jsonMade, jsonAcked, jsonDoomed, jsonDeleted, savesMet>>

\* The process ends, or new() fails to write the file it creates.
JsonCrash ==
    /\ JsonFault
    /\ jsonOpen # "closed" /\ jsonOpen' = "closed"
    /\ jsonKeys' = {}
    /\ jsonCall' = [t \in JsonTasks |-> NoJsonRequest]
    /\ IF JsonBusy
       THEN saveCut' = TRUE /\ jsonFile' \in {jsonFile, JsonTorn}
       ELSE UNCHANGED <<saveCut, jsonFile>>
    /\ UNCHANGED <<jsonMade, jsonAcked, jsonDoomed, jsonDeleted, savesMet>>

-----------------------------------------------------------------------------
JsonNext ==
    \/ JsonLoad \/ JsonCreateFile \/ JsonFileCreated \/ JsonCrash
    \/ \E t \in JsonTasks :
         \/ JsonCreate(t) \/ JsonCopy(t) \/ JsonTruncate(t) \/ JsonWrite(t) \/ JsonIoError(t)
         \/ \E k \in JsonKeyIds : JsonDelete(t, k)

JsonSpec == JsonInit /\ [][JsonNext]_jsonVars

-----------------------------------------------------------------------------
(* Properties.                                                             *)

\* A key whose creation returned Ok signs, and is in the file when that can be
\* read, until its deletion is begun; one whose deletion returned Ok is in
\* neither (json_keystore.rs:101-137, 165-169, 256-262).
JsonKeysKept ==
    /\ jsonOpen = "open" =>
         /\ \A k \in jsonAcked \ jsonDoomed : JsonCanSign(k)
         /\ \A k \in jsonDeleted : ~JsonCanSign(k)
    /\ jsonFile.text = "whole" =>
         /\ jsonAcked \ jsonDoomed \subseteq jsonFile.keys
         /\ jsonDeleted \cap jsonFile.keys = {}

\* The file can be read whenever nobody is writing it (json_keystore.rs:133),
\* unless two saves overlapped or one was cut short.
JsonReadable ==
    \/ savesMet \/ saveCut \/ JsonBusy
    \/ jsonFile.text \in {"absent", "whole"}
=============================================================================
