------------------------- MODULE Keystores_proofs --------------------------
(***************************************************************************)
(* Proofs about the three keystores of crates/scp-signer/src/keystore.rs,  *)
(* each in its section.                                                    *)
(*                                                                         *)
(* JsonKeystore: for any number of tasks and keys, through any number of   *)
(* crashes and failing saves, no acknowledged key is lost by a file that   *)
(* can be read and no deleted one comes back; and the file can be read     *)
(* unless saves overlapped or one was cut short.  The read guard of save() *)
(* makes the copy a task writes the map itself (CopiesCurrent), so a file  *)
(* that is whole is no older than the last acknowledged change             *)
(* (FileCurrent).  The file is empty while one task writes it alone, which *)
(* leaves it whole (FileReadable).                                         *)
(*                                                                         *)
(* FileKeystore: for any number of tasks, keys and passwords, through any  *)
(* crashes and I/O errors, what is listed can sign and what was created or *)
(* deleted stays so.  No lock spans the file and the cache; the order of   *)
(* the two steps is what holds.  A key that is being created is known to   *)
(* nobody else (CreatedAlone), so no deletion meets it; the file of a key  *)
(* whose deletion is past the disk is never written again (RemovedStays).  *)
(*                                                                         *)
(* MemoryKeystore: no more keys are held than were made (HeldCounted), and *)
(* as long as nothing was deleted the numbers in their names run below the *)
(* number of keys made (NamesRun): the name of the next key is new.        *)
(***************************************************************************)
EXTENDS JsonKeystore, FileKeystore, MemoryKeystore, FiniteSetTheorems, TLAPS

-----------------------------------------------------------------------------
(* JsonKeystore.                                                           *)

\* What the type invariant leaves open: keys that are held were made, and tasks
\* run while the keystore is open.
KeysMade ==
    /\ jsonFile.keys \subseteq 1 .. jsonMade
    /\ \A t \in JsonTasks : ~JsonAt(t, "idle") =>
         jsonOpen = "open" /\ jsonCall[t].key \in 1 .. jsonMade

CopiesCurrent ==
    \A t \in JsonTasks : jsonCall[t].pc \in {"truncate", "write"} => jsonCall[t].copy = jsonKeys

\* The map reflects the requests that changed it and have not saved it yet.
MapCurrent ==
    /\ jsonOpen = "open" => /\ jsonAcked \ jsonDoomed \subseteq jsonKeys
                            /\ jsonDeleted \cap jsonKeys = {}
    /\ \A t \in JsonTasks : ~JsonAt(t, "idle") =>
         /\ jsonCall[t].op = "create" => jsonCall[t].key \in jsonKeys \cup jsonDoomed
         /\ jsonCall[t].op = "delete" => jsonCall[t].key \in jsonDoomed \ jsonKeys

FileCurrent ==
    /\ jsonFile.text = "whole" => /\ jsonAcked \ jsonDoomed \subseteq jsonFile.keys
                                  /\ jsonDeleted \cap jsonFile.keys = {}
    /\ jsonFile.text = "absent" => jsonOpen = "closed"
    /\ jsonFile.text = "absent" \/ jsonOpen = "creating" => jsonMade = 0

JsonInv == JsonTypeOK /\ KeysMade /\ CopiesCurrent /\ MapCurrent /\ FileCurrent

FileReadable ==
    savesMet \/ saveCut \/
        /\ \A t, u \in JsonTasks : JsonWriting(t) /\ JsonWriting(u) => t = u
        /\ JsonBusy => jsonFile.text = "empty"
        /\ ~JsonBusy => jsonFile.text \in {"absent", "whole"}

-----------------------------------------------------------------------------
LEMMA InitJson == JsonInit => JsonInv /\ FileReadable
  <1> SUFFICES ASSUME JsonInit PROVE JsonInv /\ FileReadable
    OBVIOUS
  <1>1. jsonCall \in [JsonTasks -> JsonRequest]
    BY DEF JsonInit, JsonRequest, NoJsonRequest
  <1>2. 0 \in 0 .. MaxJsonKeys /\ 0 \in 0 .. MaxJsonFaults
    BY JsonAssumption
  <1>3. JsonTypeOK
    BY <1>1, <1>2 DEF JsonInit, JsonTypeOK
  <1>4. KeysMade /\ CopiesCurrent /\ MapCurrent /\ FileCurrent
    BY DEF JsonInit, KeysMade, CopiesCurrent, MapCurrent, FileCurrent, JsonAt, NoJsonRequest
  <1>5. FileReadable
    BY DEF JsonInit, FileReadable, JsonBusy, JsonWriting, NoJsonRequest
  <1>6. QED
    BY <1>3, <1>4, <1>5 DEF JsonInv

\* The types of the requests: one that is given a type of its own, one that
\* returns, one that takes another step.
LEMMA JsonCalls ==
    ASSUME JsonTypeOK, NEW t \in JsonTasks
    PROVE  /\ \A r \in JsonRequest :
                [jsonCall EXCEPT ![t] = r] \in [JsonTasks -> JsonRequest]
           /\ NoJsonRequest \in JsonRequest
           /\ [jsonCall[t] EXCEPT !.pc = "write"] \in JsonRequest
  BY DEF JsonTypeOK, JsonRequest, NoJsonRequest

\* A task that returns leaves the requests of the others.
LEMMA JsonReturned ==
    ASSUME JsonTypeOK, NEW t \in JsonTasks, JsonReturn(t)
    PROVE  /\ jsonCall' \in [JsonTasks -> JsonRequest]
           /\ jsonCall'[t].pc = "idle"
           /\ \A u \in JsonTasks \ {t} : jsonCall'[u] = jsonCall[u]
  BY JsonCalls DEF JsonTypeOK, JsonReturn, NoJsonRequest

LEMMA StepJson ==
    ASSUME JsonInv, [JsonNext]_jsonVars
    PROVE  JsonInv'
  <1> USE JsonAssumption
  <1> USE DEF JsonInv, JsonAt
  <1>1. CASE JsonLoad
    <2>1. JsonTypeOK'
      BY <1>1 DEF JsonLoad, jsonHistory, JsonTypeOK, KeysMade
    <2>2. \A t \in JsonTasks : jsonCall[t].pc = "idle"
      BY <1>1 DEF JsonLoad, KeysMade, JsonTypeOK
    <2>3. (KeysMade /\ CopiesCurrent /\ MapCurrent /\ FileCurrent)'
      BY <1>1, <2>2 DEF JsonLoad, jsonHistory, KeysMade, CopiesCurrent, MapCurrent, FileCurrent
    <2>4. QED
      BY <2>1, <2>3
  <1>2. CASE JsonCreateFile
    <2>1. JsonTypeOK'
      BY <1>2 DEF JsonCreateFile, jsonHistory, JsonTypeOK
    <2>2. \A t \in JsonTasks : jsonCall[t].pc = "idle"
      BY <1>2 DEF JsonCreateFile, KeysMade, JsonTypeOK
    <2>3. (KeysMade /\ CopiesCurrent /\ MapCurrent /\ FileCurrent)'
      BY <1>2, <2>2 DEF JsonCreateFile, jsonHistory, KeysMade, CopiesCurrent, MapCurrent, FileCurrent
    <2>4. QED
      BY <2>1, <2>3
  <1>3. CASE JsonFileCreated
    <2>1. JsonTypeOK'
      BY <1>3 DEF JsonFileCreated, jsonHistory, JsonTypeOK
    <2>2. \A t \in JsonTasks : jsonCall[t].pc = "idle"
      BY <1>3 DEF JsonFileCreated, KeysMade, JsonTypeOK
    <2>3. jsonAcked = {} /\ jsonDoomed = {} /\ jsonDeleted = {} /\ jsonMade = 0
      BY <1>3 DEF JsonFileCreated, FileCurrent, JsonTypeOK
    <2>4. (KeysMade /\ CopiesCurrent /\ MapCurrent /\ FileCurrent)'
      BY <1>3, <2>2, <2>3 DEF JsonFileCreated, jsonHistory, KeysMade, CopiesCurrent, MapCurrent,
                              FileCurrent
    <2>5. QED
      BY <2>1, <2>4
  <1>4. CASE JsonCrash
    <2>1. jsonFile' \in {jsonFile, JsonTorn} /\ saveCut' \in BOOLEAN
      BY <1>4 DEF JsonCrash, JsonTypeOK
    <2>2. jsonFaults' \in 0 .. MaxJsonFaults
      BY <1>4 DEF JsonCrash, JsonFault, JsonTypeOK
    <2>3. jsonCall' \in [JsonTasks -> JsonRequest] /\ \A t \in JsonTasks : jsonCall'[t].pc = "idle"
      BY <1>4, JsonCalls DEF JsonCrash, NoJsonRequest
    <2>4. JsonTypeOK'
      BY <1>4, <2>1, <2>2, <2>3 DEF JsonCrash, JsonTypeOK, JsonTorn
    <2>5. (KeysMade /\ CopiesCurrent)'
      BY <1>4, <2>1, <2>3 DEF JsonCrash, KeysMade, CopiesCurrent, JsonTorn, JsonTypeOK
    <2>6. (MapCurrent /\ FileCurrent)'
      BY <1>4, <2>1, <2>3 DEF JsonCrash, MapCurrent, FileCurrent, JsonTorn
    <2>7. QED
      BY <2>4, <2>5, <2>6
  <1>5. ASSUME NEW t \in JsonTasks, JsonCreate(t)
        PROVE  JsonInv'
    <2> DEFINE k == jsonMade + 1
               r == [NoJsonRequest EXCEPT !.pc = "save", !.key = k]
    <2>1. k \in JsonKeyIds /\ jsonMade' = k /\ jsonMade \in Nat
      BY <1>5 DEF JsonCreate, JsonTypeOK, JsonKeyIds
    <2>2. jsonCall' = [jsonCall EXCEPT ![t] = r]
      BY <1>5 DEF JsonCreate
    <2>3. r \in JsonRequest /\ r.pc = "save" /\ r.key = k /\ r.op = "create"
      BY <2>1 DEF JsonRequest, NoJsonRequest
    <2> HIDE DEF r
    <2>4. /\ jsonCall' \in [JsonTasks -> JsonRequest] /\ jsonCall'[t] = r
          /\ \A u \in JsonTasks \ {t} : jsonCall'[u] = jsonCall[u]
      BY <2>2, <2>3 DEF JsonTypeOK
    <2>5. JsonTypeOK'
      BY <1>5, <2>1, <2>4 DEF JsonCreate, jsonHistory, JsonTypeOK
    <2>6. \A u \in JsonTasks : jsonCall[u].pc \notin {"truncate", "write"}
      BY <1>5 DEF JsonCreate, JsonGuarded
    <2>7. k \notin jsonDeleted /\ jsonOpen = "open" /\ jsonKeys' = jsonKeys \cup {k}
      BY <1>5, <2>1 DEF JsonCreate, JsonTypeOK
    <2>8. \A u \in JsonTasks : jsonCall[u].pc # "idle" => jsonCall[u].key # k
      BY <2>1 DEF KeysMade
    <2>9. KeysMade'
      BY <1>5, <2>1, <2>3, <2>4 DEF JsonCreate, KeysMade, jsonHistory
    <2>10. CopiesCurrent'
      BY <2>3, <2>4, <2>6 DEF CopiesCurrent
    <2>11. MapCurrent'
      BY <1>5, <2>3, <2>4, <2>7, <2>8 DEF JsonCreate, MapCurrent, jsonHistory
    <2>12. FileCurrent'
      BY <1>5, <2>9 DEF JsonCreate, FileCurrent, jsonHistory, JsonTypeOK
    <2>13. QED
      BY <2>5, <2>9, <2>10, <2>11, <2>12
  <1>6. ASSUME NEW t \in JsonTasks, NEW k \in JsonKeyIds, JsonDelete(t, k)
        PROVE  JsonInv'
    <2> DEFINE r == [NoJsonRequest EXCEPT !.pc = "save", !.op = "delete", !.key = k]
    <2>1. k \in 1 .. jsonMade /\ jsonOpen = "open" /\ jsonOpen' = "open"
      BY <1>6 DEF JsonDelete, JsonTypeOK, JsonKeyIds
    <2>2. jsonCall' = [jsonCall EXCEPT ![t] = r]
      BY <1>6 DEF JsonDelete
    <2>3. r \in JsonRequest /\ r.pc = "save" /\ r.key = k /\ r.op = "delete"
      BY DEF JsonRequest, NoJsonRequest
    <2> HIDE DEF r
    <2>4. /\ jsonCall' \in [JsonTasks -> JsonRequest] /\ jsonCall'[t] = r
          /\ \A u \in JsonTasks \ {t} : jsonCall'[u] = jsonCall[u]
      BY <2>2, <2>3 DEF JsonTypeOK
    <2>5. JsonTypeOK'
      BY <1>6, <2>1, <2>4 DEF JsonDelete, JsonTypeOK
    <2>6. \A u \in JsonTasks : jsonCall[u].pc \notin {"truncate", "write"}
      BY <1>6 DEF JsonDelete, JsonGuarded
    <2>7. KeysMade'
      BY <1>6, <2>1, <2>3, <2>4 DEF JsonDelete, KeysMade
    <2>8. CopiesCurrent'
      BY <2>3, <2>4, <2>6 DEF CopiesCurrent
    <2>9. MapCurrent'
      BY <1>6, <2>3, <2>4 DEF JsonDelete, MapCurrent
    <2>10. FileCurrent'
      BY <1>6, <2>1 DEF JsonDelete, FileCurrent
    <2>11. QED
      BY <2>5, <2>7, <2>8, <2>9, <2>10
  <1>7. ASSUME NEW t \in JsonTasks, JsonCopy(t)
        PROVE  JsonInv'
    <2>1. /\ jsonCall[t].pc = "save"
          /\ jsonCall' = [jsonCall EXCEPT ![t] = [@ EXCEPT !.pc = "truncate", !.copy = jsonKeys]]
      BY <1>7 DEF JsonCopy, JsonTypeOK
    <2>2. jsonKeys \in SUBSET JsonKeyIds
      BY DEF JsonTypeOK, JsonKeyIds
    <2> DEFINE r == [jsonCall[t] EXCEPT !.pc = "truncate", !.copy = jsonKeys]
    <2>3. /\ r \in JsonRequest /\ r.pc = "truncate" /\ r.key = jsonCall[t].key
          /\ r.op = jsonCall[t].op /\ r.copy = jsonKeys
      BY <2>2 DEF JsonTypeOK, JsonRequest
    <2>4. jsonCall' = [jsonCall EXCEPT ![t] = r]
      BY <2>1
    <2> HIDE DEF r
    <2>5. /\ jsonCall' \in [JsonTasks -> JsonRequest] /\ jsonCall'[t] = r
          /\ \A u \in JsonTasks \ {t} : jsonCall'[u] = jsonCall[u]
      BY <2>3, <2>4 DEF JsonTypeOK
    <2>6. JsonTypeOK'
      BY <1>7, <2>5 DEF JsonCopy, jsonHistory, JsonTypeOK
    <2>7. KeysMade'
      BY <1>7, <2>1, <2>3, <2>5 DEF JsonCopy, KeysMade
    <2>8. CopiesCurrent'
      BY <1>7, <2>3, <2>5 DEF JsonCopy, CopiesCurrent
    <2>9. (MapCurrent /\ FileCurrent)'
      BY <1>7, <2>1, <2>3, <2>5 DEF JsonCopy, jsonHistory, MapCurrent, FileCurrent
    <2>10. QED
      BY <2>6, <2>7, <2>8, <2>9
  <1>8. ASSUME NEW t \in JsonTasks, JsonTruncate(t)
        PROVE  JsonInv'
    <2> DEFINE r == [jsonCall[t] EXCEPT !.pc = "write"]
    <2>1. jsonCall[t].pc = "truncate" /\ jsonCall' = [jsonCall EXCEPT ![t] = r]
      BY <1>8 DEF JsonTruncate, JsonTruncated, JsonGoto, JsonTypeOK
    <2>2. /\ r \in JsonRequest /\ r.pc = "write" /\ r.key = jsonCall[t].key
          /\ r.op = jsonCall[t].op /\ r.copy = jsonCall[t].copy
      BY DEF JsonTypeOK, JsonRequest
    <2> HIDE DEF r
    <2>3. /\ jsonCall' \in [JsonTasks -> JsonRequest] /\ jsonCall'[t] = r
          /\ \A u \in JsonTasks \ {t} : jsonCall'[u] = jsonCall[u]
      BY <2>1, <2>2 DEF JsonTypeOK
    <2>4. jsonFile' = [text |-> "empty", keys |-> {}] /\ savesMet' \in BOOLEAN
      BY <1>8 DEF JsonTruncate, JsonTruncated, JsonTypeOK
    <2>5. JsonTypeOK'
      BY <1>8, <2>3, <2>4 DEF JsonTruncate, JsonTruncated, JsonTypeOK
    <2>6. KeysMade' /\ CopiesCurrent'
      BY <1>8, <2>1, <2>2, <2>3, <2>4 DEF JsonTruncate, JsonTruncated, KeysMade, CopiesCurrent
    <2>7. MapCurrent'
      BY <1>8, <2>1, <2>2, <2>3 DEF JsonTruncate, JsonTruncated, MapCurrent
    <2>8. FileCurrent'
      BY <1>8, <2>4 DEF JsonTruncate, JsonTruncated, FileCurrent
    <2>9. QED
      BY <2>5, <2>6, <2>7, <2>8
  <1>9. ASSUME NEW t \in JsonTasks, JsonWrite(t)
        PROVE  JsonInv'
    <2>1. jsonCall[t].pc = "write" /\ jsonCall[t].copy = jsonKeys /\ jsonOpen = "open"
      BY <1>9 DEF JsonWrite, CopiesCurrent, KeysMade
    <2>2. jsonFile' \in {[text |-> "whole", keys |-> jsonKeys], JsonTorn}
      BY <1>9, <2>1 DEF JsonWrite
    <2>3. /\ jsonCall' \in [JsonTasks -> JsonRequest] /\ jsonCall'[t].pc = "idle"
          /\ \A u \in JsonTasks \ {t} : jsonCall'[u] = jsonCall[u]
      BY <1>9, JsonReturned DEF JsonWrite
    <2>4. UNCHANGED <<jsonOpen, jsonKeys, jsonMade, jsonFaults, jsonDoomed, savesMet, saveCut>>
      BY <1>9 DEF JsonWrite
    <2>5. /\ jsonCall[t].key \in 1 .. jsonMade
          /\ jsonCall[t].op = "create" => jsonCall[t].key \in jsonKeys \cup jsonDoomed
          /\ jsonCall[t].op # "create" => jsonCall[t].key \in jsonDoomed \ jsonKeys
      BY <2>1 DEF KeysMade, MapCurrent, JsonTypeOK, JsonRequest
    <2>6. /\ jsonAcked' \subseteq 1 .. jsonMade /\ jsonDeleted' \subseteq jsonDoomed
          /\ jsonAcked' \ jsonDoomed \subseteq jsonKeys /\ jsonDeleted' \cap jsonKeys = {}
      BY <1>9, <2>1, <2>5 DEF JsonWrite, JsonTypeOK, MapCurrent
    <2>7. jsonKeys \in SUBSET JsonKeyIds
      BY DEF JsonTypeOK, JsonKeyIds
    <2>8. jsonFile' \in [text: {"absent", "empty", "torn", "whole"}, keys: SUBSET JsonKeyIds]
      BY <2>2, <2>7 DEF JsonTorn
    <2>9. JsonTypeOK'
      BY <2>3, <2>4, <2>6, <2>8 DEF JsonTypeOK
    <2>10. KeysMade' /\ CopiesCurrent'
      BY <2>2, <2>3, <2>4 DEF KeysMade, CopiesCurrent, JsonTorn, JsonTypeOK
    <2>11. MapCurrent'
      BY <2>3, <2>4, <2>6 DEF MapCurrent
    <2>12. FileCurrent'
      BY <2>1, <2>2, <2>4, <2>6 DEF FileCurrent, JsonTorn
    <2>13. QED
      BY <2>9, <2>10, <2>11, <2>12
  <1>10. ASSUME NEW t \in JsonTasks, JsonIoError(t)
         PROVE  JsonInv'
    <2>1. jsonFile' \in {jsonFile, JsonTorn} /\ saveCut' \in BOOLEAN
      BY <1>10 DEF JsonIoError, JsonTypeOK
    <2>2. jsonFaults' \in 0 .. MaxJsonFaults
      BY <1>10 DEF JsonIoError, JsonFault, JsonTypeOK
    <2>3. /\ jsonCall' \in [JsonTasks -> JsonRequest] /\ jsonCall'[t].pc = "idle"
          /\ \A u \in JsonTasks \ {t} : jsonCall'[u] = jsonCall[u]
      BY <1>10, JsonReturned DEF JsonIoError
    <2>4. UNCHANGED <<jsonOpen, jsonKeys, jsonMade, jsonAcked, jsonDoomed, jsonDeleted, savesMet>>
      BY <1>10 DEF JsonIoError
    <2>5. JsonTypeOK'
      BY <2>1, <2>2, <2>3, <2>4 DEF JsonTypeOK, JsonTorn
    <2>6. KeysMade' /\ CopiesCurrent' /\ MapCurrent'
      BY <2>1, <2>3, <2>4 DEF KeysMade, CopiesCurrent, MapCurrent, JsonTorn
    <2>7. FileCurrent'
      BY <2>1, <2>4 DEF FileCurrent, JsonTorn
    <2>8. QED
      BY <2>5, <2>6, <2>7
  <1>11. CASE UNCHANGED jsonVars
    BY <1>11 DEF jsonVars, jsonHistory, JsonTypeOK, KeysMade, CopiesCurrent, MapCurrent, FileCurrent
  <1>12. QED
    BY <1>1, <1>2, <1>3, <1>4, <1>5, <1>6, <1>7, <1>8, <1>9, <1>10, <1>11 DEF JsonNext

LEMMA StepReadable ==
    ASSUME JsonInv, FileReadable, [JsonNext]_jsonVars
    PROVE  FileReadable'
  <1> USE DEF JsonAt
  <1> SUFFICES ASSUME ~savesMet', ~saveCut' PROVE FileReadable'
    BY DEF FileReadable
  <1>1. ~savesMet /\ ~saveCut
    <2>1. CASE JsonLoad \/ JsonCreateFile \/ JsonFileCreated \/ UNCHANGED jsonVars
      BY <2>1 DEF JsonLoad, JsonCreateFile, JsonFileCreated, jsonVars, jsonHistory
    <2>2. CASE JsonCrash
      BY <2>2 DEF JsonCrash
    <2>3. CASE \E t \in JsonTasks : JsonCreate(t) \/ JsonCopy(t)
      BY <2>3 DEF JsonCreate, JsonCopy, jsonHistory
    <2>4. CASE \E t \in JsonTasks, k \in JsonKeyIds : JsonDelete(t, k)
      BY <2>4 DEF JsonDelete
    <2>5. CASE \E t \in JsonTasks : JsonTruncate(t)
      <3>1. PICK t \in JsonTasks : JsonTruncate(t)
        BY <2>5
      <3>2. savesMet' = (savesMet \/ \E u \in JsonTasks : JsonWriting(u)) /\ UNCHANGED saveCut
        BY <3>1 DEF JsonTruncate, JsonTruncated
      <3>3. QED
        BY <3>2
    <2>6. CASE \E t \in JsonTasks : JsonWrite(t)
      BY <2>6 DEF JsonWrite
    <2>7. CASE \E t \in JsonTasks : JsonIoError(t)
      BY <2>7 DEF JsonIoError
    <2>8. QED
      BY <2>1, <2>2, <2>3, <2>4, <2>5, <2>6, <2>7 DEF JsonNext
  <1>2. /\ \A t, u \in JsonTasks : JsonWriting(t) /\ JsonWriting(u) => t = u
        /\ JsonBusy => jsonFile.text = "empty"
        /\ ~JsonBusy => jsonFile.text \in {"absent", "whole"}
    BY <1>1 DEF FileReadable
  <1>3. CASE JsonLoad \/ JsonCreateFile \/ JsonFileCreated
    <2>1. \A t \in JsonTasks : ~JsonWriting(t)
      BY <1>3 DEF JsonLoad, JsonCreateFile, JsonFileCreated, JsonWriting, JsonInv, KeysMade
    <2>2. UNCHANGED jsonCall
      BY <1>3 DEF JsonLoad, JsonCreateFile, JsonFileCreated
    <2>3. QED
      BY <1>2, <1>3, <2>1, <2>2 DEF JsonLoad, JsonCreateFile, JsonFileCreated, JsonWriting,
                                    JsonBusy, FileReadable
  <1>4. CASE JsonCrash
    <2>1. ~JsonBusy /\ UNCHANGED jsonFile /\ jsonOpen' = "closed"
      BY <1>4 DEF JsonCrash
    <2>2. \A t \in JsonTasks : ~JsonWriting(t)'
      BY <1>4 DEF JsonCrash, JsonWriting, NoJsonRequest
    <2>3. QED
      BY <1>2, <2>1, <2>2 DEF JsonBusy, FileReadable
  <1>5. ASSUME NEW t \in JsonTasks, JsonCreate(t)
        PROVE  FileReadable'
    <2>1. \A u \in JsonTasks : JsonWriting(u)' <=> JsonWriting(u)
      BY <1>5 DEF JsonCreate, JsonWriting, NoJsonRequest, JsonInv, JsonTypeOK
    <2>2. UNCHANGED <<jsonOpen, jsonFile>>
      BY <1>5 DEF JsonCreate
    <2>3. QED
      BY <1>2, <2>1, <2>2 DEF JsonBusy, FileReadable
  <1>6. ASSUME NEW t \in JsonTasks, NEW k \in JsonKeyIds, JsonDelete(t, k)
        PROVE  FileReadable'
    <2>1. \A u \in JsonTasks : JsonWriting(u)' <=> JsonWriting(u)
      BY <1>6 DEF JsonDelete, JsonWriting, NoJsonRequest, JsonInv, JsonTypeOK
    <2>2. UNCHANGED <<jsonOpen, jsonFile>>
      BY <1>6 DEF JsonDelete
    <2>3. QED
      BY <1>2, <2>1, <2>2 DEF JsonBusy, FileReadable
  <1>7. ASSUME NEW t \in JsonTasks, JsonCopy(t)
        PROVE  FileReadable'
    <2>1. \A u \in JsonTasks : JsonWriting(u)' <=> JsonWriting(u)
      BY <1>7 DEF JsonCopy, JsonWriting, JsonInv, JsonTypeOK
    <2>2. UNCHANGED <<jsonOpen, jsonFile>>
      BY <1>7 DEF JsonCopy
    <2>3. QED
      BY <1>2, <2>1, <2>2 DEF JsonBusy, FileReadable
  <1>8. ASSUME NEW t \in JsonTasks, JsonTruncate(t)
        PROVE  FileReadable'
    <2>1. \A u \in JsonTasks : ~JsonWriting(u)
      BY <1>8 DEF JsonTruncate, JsonTruncated
    <2>2. jsonFile'.text = "empty"
      BY <1>8 DEF JsonTruncate, JsonTruncated
    <2>3. \A u \in JsonTasks : JsonWriting(u)' <=> u = t
      BY <1>8, <2>1 DEF JsonTruncate, JsonTruncated, JsonGoto, JsonWriting, JsonInv, JsonTypeOK,
                        JsonRequest
    <2>4. QED
      BY <2>2, <2>3 DEF JsonBusy, FileReadable
  <1>9. ASSUME NEW t \in JsonTasks, JsonWrite(t)
        PROVE  FileReadable'
    <2>1. JsonWriting(t) /\ JsonBusy /\ jsonOpen = "open"
      BY <1>9 DEF JsonWrite, JsonWriting, JsonBusy, JsonInv, KeysMade
    <2>2. jsonFile'.text = "whole" /\ jsonOpen' = "open"
      BY <1>2, <1>9, <2>1 DEF JsonWrite
    <2>3. \A u \in JsonTasks : ~JsonWriting(u)'
      BY <1>2, <1>9, <2>1, JsonReturned DEF JsonWrite, JsonWriting, JsonInv
    <2>4. QED
      BY <2>2, <2>3 DEF JsonBusy, FileReadable
  <1>10. ASSUME NEW t \in JsonTasks, JsonIoError(t)
        PROVE  FileReadable'
    <2>1. jsonCall[t].pc = "truncate" /\ UNCHANGED <<jsonFile, jsonOpen>>
      BY <1>10 DEF JsonIoError
    <2>2. \A u \in JsonTasks : JsonWriting(u)' <=> JsonWriting(u)
      BY <1>10, <2>1, JsonReturned DEF JsonIoError, JsonWriting, JsonInv
    <2>3. QED
      BY <1>2, <2>1, <2>2 DEF JsonBusy, FileReadable
  <1>11. CASE UNCHANGED jsonVars
    BY <1>2, <1>11 DEF jsonVars, JsonBusy, JsonWriting, FileReadable
  <1>12. QED
    BY <1>3, <1>4, <1>5, <1>6, <1>7, <1>8, <1>9, <1>10, <1>11 DEF JsonNext

\* Every creation that returned Ok can sign and is in every file that can be read
\* until its deletion is begun, and no deletion that returned Ok is undone, through
\* any number of crashes and I/O errors (json_keystore.rs:101-137, 165-169, 256-262).
THEOREM KeysKept == JsonSpec => []JsonKeysKept
  <1>1. JsonInit => JsonInv
    BY InitJson
  <1>2. JsonInv /\ [JsonNext]_jsonVars => JsonInv'
    BY StepJson
  <1>3. JsonInv => JsonKeysKept
    BY DEF JsonInv, MapCurrent, FileCurrent, JsonKeysKept, JsonCanSign
  <1>4. QED
    BY <1>1, <1>2, <1>3, PTL DEF JsonSpec

\* The file can be read whenever nobody is writing it, unless two saves overlapped
\* or one was cut short (json_keystore.rs:101-137).
THEOREM Readable == JsonSpec => []JsonReadable
  <1>1. JsonInit => JsonInv /\ FileReadable
    BY InitJson
  <1>2. JsonInv /\ FileReadable /\ [JsonNext]_jsonVars => (JsonInv /\ FileReadable)'
    BY StepJson, StepReadable
  <1>3. FileReadable => JsonReadable
    BY DEF FileReadable, JsonReadable
  <1>4. QED
    BY <1>1, <1>2, <1>3, PTL DEF JsonSpec

-----------------------------------------------------------------------------
(* FileKeystore.                                                           *)

Creating(t) == fileCall[t].pc \in {"open", "write", "cache"}

Known(k) == k \in cache \/ k \in fileDoomed \/ \E p \in Passwords : k \in fileAcked[p]

\* What the type invariant leaves open: keys that are known were made, and tasks
\* run while the keystore is open.
FileKeysMade ==
    /\ password = "closed" => cache = {}
    /\ \A k \in FileKeyIds : Known(k) => k <= fileMade
    /\ \A t \in FileTasks : ~FileAt(t, "idle") =>
         password # "closed" /\ fileCall[t].key \in 1 .. fileMade

CreatedAlone ==
    /\ \A t \in FileTasks : Creating(t) =>
         /\ ~Known(fileCall[t].key)
         /\ FileAt(t, "cache") => files[fileCall[t].key] = password
    /\ \A t, u \in FileTasks :
         Creating(t) /\ Creating(u) /\ fileCall[t].key = fileCall[u].key => t = u

RemovedStays ==
    /\ \A t \in FileTasks :
         /\ fileCall[t].pc \in {"remove", "uncache"} => fileCall[t].key \in fileDoomed
         /\ FileAt(t, "uncache") => files[fileCall[t].key] = "none"

FileInv ==
    FileTypeOK /\ FileKeysMade /\ CreatedAlone /\ RemovedStays /\ ListedCanSign /\ FileKeysKept

-----------------------------------------------------------------------------
LEMMA InitFile == FileInit => FileInv
  <1> SUFFICES ASSUME FileInit PROVE FileInv
    OBVIOUS
  <1>1. fileCall \in [FileTasks -> FileRequest]
    BY DEF FileInit, FileRequest, NoFileRequest
  <1>2. 0 \in 0 .. MaxFileKeys /\ 0 \in 0 .. MaxFileFaults
    BY FileAssumption
  <1>3. FileTypeOK
    BY <1>1, <1>2 DEF FileInit, FileTypeOK
  <1>4. FileKeysMade /\ CreatedAlone /\ RemovedStays
    BY DEF FileInit, FileKeysMade, CreatedAlone, RemovedStays, Known, Creating, FileAt,
           NoFileRequest
  <1>5. ListedCanSign /\ FileKeysKept
    BY DEF FileInit, ListedCanSign, FileKeysKept
  <1>6. QED
    BY <1>3, <1>4, <1>5 DEF FileInv

\* A task that returns or takes another step leaves the requests of the others.
LEMMA FileCalls ==
    ASSUME FileTypeOK, NEW t \in FileTasks
    PROVE  /\ FileReturn(t) =>
                /\ fileCall' \in [FileTasks -> FileRequest]
                /\ fileCall'[t].pc = "idle"
                /\ \A u \in FileTasks \ {t} : fileCall'[u] = fileCall[u]
           /\ \A pc \in {"write", "cache", "uncache"} : FileGoto(t, pc) =>
                /\ fileCall' \in [FileTasks -> FileRequest]
                /\ fileCall'[t].pc = pc /\ fileCall'[t].key = fileCall[t].key
                /\ \A u \in FileTasks \ {t} : fileCall'[u] = fileCall[u]
  <1>1. NoFileRequest \in FileRequest /\ NoFileRequest.pc = "idle"
    BY DEF NoFileRequest, FileRequest
  <1>2. ASSUME NEW pc \in {"write", "cache", "uncache"}
        PROVE  /\ [fileCall[t] EXCEPT !.pc = pc] \in FileRequest
               /\ [fileCall[t] EXCEPT !.pc = pc].pc = pc
               /\ [fileCall[t] EXCEPT !.pc = pc].key = fileCall[t].key
    BY DEF FileTypeOK, FileRequest
  <1>3. FileReturn(t) =>
                /\ fileCall' \in [FileTasks -> FileRequest]
                /\ fileCall'[t].pc = "idle"
                /\ \A u \in FileTasks \ {t} : fileCall'[u] = fileCall[u]
    BY <1>1 DEF FileTypeOK, FileReturn
  <1>4. ASSUME NEW pc \in {"write", "cache", "uncache"}, FileGoto(t, pc)
        PROVE  /\ fileCall' \in [FileTasks -> FileRequest]
               /\ fileCall'[t].pc = pc /\ fileCall'[t].key = fileCall[t].key
               /\ \A u \in FileTasks \ {t} : fileCall'[u] = fileCall[u]
    BY <1>2, <1>4 DEF FileTypeOK, FileGoto
  <1>5. QED
    BY <1>3, <1>4

LEMMA StepFile ==
    ASSUME FileInv, [FileNext]_fileVars
    PROVE  FileInv'
  <1> USE FileAssumption
  <1> USE DEF FileInv, FileAt
  <1>1. CASE FileCrash
    <2>1. /\ fileCall' \in [FileTasks -> FileRequest]
          /\ \A t \in FileTasks : fileCall'[t].pc = "idle"
      BY <1>1 DEF FileCrash, NoFileRequest, FileRequest
    <2>2. /\ password' = "closed" /\ cache' = {} /\ fileFaults' \in 0 .. MaxFileFaults
          /\ UNCHANGED <<files, fileMade, fileAcked, fileDoomed, fileDeleted>>
      BY <1>1 DEF FileCrash, FileFault, fileHistory, FileTypeOK
    <2>3. FileTypeOK'
      BY <2>1, <2>2 DEF FileTypeOK
    <2>4. FileKeysMade' /\ CreatedAlone' /\ RemovedStays'
      BY <2>1, <2>2 DEF FileKeysMade, CreatedAlone, RemovedStays, Known, Creating
    <2>5. ListedCanSign'
      BY <2>2 DEF ListedCanSign
    <2>6. FileKeysKept'
      BY <2>2 DEF FileKeysKept
    <2>7. QED
      BY <2>3, <2>4, <2>5, <2>6
  <1>2. ASSUME NEW p \in Passwords, FileOpen(p)
        PROVE  FileInv'
    <2>1. /\ password' = p /\ cache' = ReadableUnder(p) /\ password = "closed"
          /\ UNCHANGED <<files, fileCall, fileMade, fileFaults, fileAcked, fileDoomed, fileDeleted>>
      BY <1>2 DEF FileOpen, fileHistory
    <2>2. p \notin {"none", "empty", "closed"}
      OBVIOUS
    <2>3. \A k \in ReadableUnder(p) : k \in 1 .. fileMade
      BY <2>2 DEF ReadableUnder, FileTypeOK, FileKeyIds
    <2>4. FileTypeOK'
      BY <2>1, <2>3 DEF FileTypeOK
    <2>5. \A t \in FileTasks : fileCall[t].pc = "idle"
      BY <2>1 DEF FileKeysMade
    <2>6. FileKeysMade' /\ CreatedAlone' /\ RemovedStays'
      BY <2>1, <2>2, <2>3, <2>5 DEF FileKeysMade, CreatedAlone, RemovedStays, Known, Creating
    <2>7. ListedCanSign'
      BY <2>1, <2>2 DEF ListedCanSign, FileCanSign, ReadableUnder
    <2>8. FileKeysKept'
      BY <2>1, <2>2 DEF FileKeysKept, ReadableUnder, FileTypeOK
    <2>9. QED
      BY <2>4, <2>6, <2>7, <2>8
  <1>3. ASSUME NEW t \in FileTasks, FileCreate(t)
        PROVE  FileInv'
    <2> DEFINE k == fileMade + 1
               r == [pc |-> "open", key |-> k]
    <2>1. /\ password # "closed" /\ fileCall[t].pc = "idle" /\ fileMade < MaxFileKeys
          /\ fileMade' = k /\ fileCall' = [fileCall EXCEPT ![t] = r]
          /\ UNCHANGED <<password, cache, files, fileFaults, fileAcked, fileDoomed, fileDeleted>>
      BY <1>3 DEF FileCreate, BeginCreate, fileHistory
    <2>2. k \in FileKeyIds /\ k \in 1 .. fileMade' /\ fileMade \in Nat
      BY <2>1 DEF FileTypeOK, FileKeyIds
    <2>3. r \in FileRequest /\ r.pc = "open" /\ r.key = k
      BY <2>2 DEF FileRequest
    <2> HIDE DEF r
    <2>4. /\ fileCall' \in [FileTasks -> FileRequest] /\ fileCall'[t] = r
          /\ \A u \in FileTasks \ {t} : fileCall'[u] = fileCall[u]
      BY <2>1, <2>3 DEF FileTypeOK
    <2>5. /\ cache' \subseteq 1 .. fileMade' /\ fileMade' \in 0 .. MaxFileKeys
          /\ \A j \in FileKeyIds : files'[j] # "none" => j <= fileMade'
      BY <2>1, <2>2 DEF FileTypeOK, FileKeyIds
    <2>6. FileTypeOK'
      BY <2>1, <2>4, <2>5 DEF FileTypeOK
    <2>7. ~Known(k) /\ \A u \in FileTasks : fileCall[u].pc # "idle" => fileCall[u].key # k
      BY <2>2 DEF FileKeysMade
    <2>8. \A j \in FileKeyIds : Known(j)' <=> Known(j)
      BY <2>1 DEF Known
    <2>9. FileKeysMade'
      BY <2>1, <2>2, <2>3, <2>4, <2>8 DEF FileKeysMade, FileKeyIds
    <2>10. CreatedAlone'
      BY <2>1, <2>2, <2>3, <2>4, <2>7 DEF CreatedAlone, Creating, Known
    <2>11. RemovedStays'
      BY <2>1, <2>3, <2>4 DEF RemovedStays
    <2>12. ListedCanSign'
      BY <2>1, <2>4 DEF ListedCanSign, FileCanSign
    <2>13. FileKeysKept'
      BY <2>1 DEF FileKeysKept
    <2>14. QED
      BY <2>6, <2>9, <2>10, <2>11, <2>12, <2>13
  <1>4. ASSUME NEW t \in FileTasks, FileOpened(t) \/ FileWritten(t)
        PROVE  FileInv'
    <2> DEFINE k == fileCall[t].key
    <2>1. PICK pc \in {"write", "cache"}, text \in Passwords \cup {"empty"} :
            /\ Creating(t) /\ FileGoto(t, pc)
            /\ files' = [files EXCEPT ![k] = text] /\ (pc = "cache" => text = password)
            /\ UNCHANGED <<password, cache, fileMade, fileFaults, fileAcked, fileDoomed, fileDeleted>>
      BY <1>4 DEF FileOpened, FileWritten, fileHistory, Creating, FileKeysMade, FileTypeOK
    <2>2. /\ fileCall' \in [FileTasks -> FileRequest]
          /\ fileCall'[t].pc = pc /\ fileCall'[t].key = k
          /\ \A u \in FileTasks \ {t} : fileCall'[u] = fileCall[u]
      BY <2>1, FileCalls
    <2>3. k \in 1 .. fileMade /\ k \in FileKeyIds /\ ~Known(k)
      BY <2>1 DEF Creating, FileKeysMade, CreatedAlone, FileTypeOK, FileKeyIds
    <2>4. \A j \in FileKeyIds : Known(j)' <=> Known(j)
      BY <2>1 DEF Known
    <2>5. /\ files' \in [FileKeyIds -> Passwords \cup {"none", "empty"}] /\ files'[k] = text
          /\ \A j \in FileKeyIds \ {k} : files'[j] = files[j]
      BY <2>1, <2>3 DEF FileTypeOK
    <2>6. FileTypeOK'
      BY <2>1, <2>2, <2>3, <2>5 DEF FileTypeOK
    <2>7. FileKeysMade'
      BY <2>1, <2>2, <2>3, <2>4 DEF FileKeysMade, Creating
    <2>8. CreatedAlone'
      <3>1. ASSUME NEW u \in FileTasks, Creating(u)'
            PROVE  /\ ~Known(fileCall[u].key)'
                   /\ FileAt(u, "cache")' => files'[fileCall'[u].key] = password'
        <4>1. CASE u = t
          BY <2>1, <2>2, <2>3, <2>4, <2>5, <4>1
        <4>2. CASE u # t
          <5>1. fileCall'[u] = fileCall[u] /\ Creating(u) /\ fileCall[u].key # k
            BY <2>1, <2>2, <3>1, <4>2 DEF CreatedAlone, Creating
          <5>2. fileCall[u].key \in FileKeyIds
            BY <5>1 DEF Creating, FileKeysMade, FileTypeOK, FileKeyIds
          <5>3. QED
            BY <2>1, <2>4, <2>5, <5>1, <5>2 DEF CreatedAlone
        <4>3. QED
          BY <4>1, <4>2
      <3>2. \A u, v \in FileTasks :
              Creating(u)' /\ Creating(v)' /\ fileCall'[u].key = fileCall'[v].key => u = v
        BY <2>1, <2>2 DEF CreatedAlone, Creating
      <3>3. QED
        BY <3>1, <3>2 DEF CreatedAlone
    <2>9. RemovedStays'
      <3>1. ASSUME NEW u \in FileTasks, fileCall'[u].pc \in {"remove", "uncache"}
            PROVE  /\ fileCall'[u] = fileCall[u] /\ fileCall[u].key \in fileDoomed
                   /\ fileCall[u].key \in FileKeyIds \ {k}
        BY <2>1, <2>2, <2>3, <3>1 DEF RemovedStays, Known, FileTypeOK
      <3>2. QED
        BY <2>1, <2>5, <3>1 DEF RemovedStays
    <2>10. ListedCanSign'
      <3>1. ASSUME NEW j \in cache'
            PROVE  FileCanSign(j)' \/ \E u \in FileTasks : fileCall'[u] = [pc |-> "uncache", key |-> j]
        <4>1. j \in cache /\ j \in FileKeyIds \ {k}
          BY <2>1, <2>3, <3>1 DEF Known, FileTypeOK, FileKeyIds
        <4>2. CASE FileCanSign(j)
          BY <2>1, <2>5, <4>1, <4>2 DEF FileCanSign
        <4>3. CASE \E u \in FileTasks : fileCall[u] = [pc |-> "uncache", key |-> j]
          BY <2>1, <2>2, <4>3 DEF Creating
        <4>4. QED
          BY <4>1, <4>2, <4>3 DEF ListedCanSign
      <3>2. QED
        BY <3>1 DEF ListedCanSign
    <2>11. FileKeysKept'
      <3>1. \A p \in Passwords : \A j \in fileAcked[p] \ fileDoomed : j \in FileKeyIds \ {k}
        BY <2>3 DEF Known, FileTypeOK
      <3>2. \A j \in fileDeleted : j \in FileKeyIds \ {k}
        BY <2>3 DEF Known, FileTypeOK
      <3>3. QED
        BY <2>1, <2>5, <3>1, <3>2 DEF FileKeysKept
    <2>12. QED
      BY <2>6, <2>7, <2>8, <2>9, <2>10, <2>11
  <1>5. ASSUME NEW t \in FileTasks, FileCache(t)
        PROVE  FileInv'
    <2> DEFINE k == fileCall[t].key
    <2>1. /\ fileCall[t].pc = "cache" /\ Creating(t) /\ FileReturn(t)
          /\ cache' = cache \cup {k}
          /\ fileAcked' = [fileAcked EXCEPT ![password] = @ \cup {k}]
          /\ UNCHANGED <<password, files, fileMade, fileFaults, fileDoomed, fileDeleted>>
      BY <1>5 DEF FileCache, Creating
    <2>2. /\ fileCall' \in [FileTasks -> FileRequest] /\ fileCall'[t].pc = "idle"
          /\ \A u \in FileTasks \ {t} : fileCall'[u] = fileCall[u]
      BY <2>1, FileCalls
    <2>3. /\ k \in 1 .. fileMade /\ k \in FileKeyIds /\ ~Known(k) /\ files[k] = password
          /\ password # "closed" /\ password \in Passwords
      BY <2>1 DEF FileKeysMade, CreatedAlone, FileTypeOK, FileKeyIds
    <2>4. /\ fileAcked' \in [Passwords -> SUBSET FileKeyIds]
          /\ \A p \in Passwords, j \in FileKeyIds :
               j \in fileAcked'[p] <=> j \in fileAcked[p] \/ (p = password /\ j = k)
      BY <2>1, <2>3 DEF FileTypeOK
    <2>5. FileTypeOK'
      BY <2>1, <2>2, <2>3, <2>4 DEF FileTypeOK
    <2>6. \A j \in FileKeyIds : Known(j)' <=> Known(j) \/ j = k
      BY <2>1, <2>3, <2>4 DEF Known
    <2>7. FileKeysMade'
      BY <2>1, <2>2, <2>3, <2>6 DEF FileKeysMade
    <2>8. CreatedAlone'
      <3>1. ASSUME NEW u \in FileTasks, Creating(u)'
            PROVE  /\ u # t /\ fileCall'[u] = fileCall[u] /\ Creating(u)
                   /\ fileCall[u].key \in FileKeyIds
        BY <2>2, <3>1 DEF Creating, FileKeysMade, FileTypeOK, FileKeyIds
      <3>2. ASSUME NEW u \in FileTasks, Creating(u)'
            PROVE  /\ ~Known(fileCall[u].key)'
                   /\ FileAt(u, "cache")' => files'[fileCall'[u].key] = password'
        <4>1. fileCall[u].key # k /\ ~Known(fileCall[u].key)
          BY <2>1, <3>1, <3>2 DEF CreatedAlone
        <4>2. ~Known(fileCall[u].key)'
          BY <2>6, <3>1, <3>2, <4>1 DEF Known
        <4>3. QED
          BY <2>1, <3>1, <3>2, <4>2 DEF CreatedAlone
      <3>3. QED
        BY <3>1, <3>2 DEF CreatedAlone
    <2>9. RemovedStays'
      BY <2>1, <2>2 DEF RemovedStays
    <2>10. ListedCanSign'
      BY <2>1, <2>2, <2>3 DEF ListedCanSign, FileCanSign
    <2>11. FileKeysKept'
      <3>1. ASSUME NEW p \in Passwords, NEW j \in fileAcked'[p] \ fileDoomed'
            PROVE  files'[j] = p /\ (password' = p => j \in cache')
        BY <2>1, <2>3, <2>4 DEF FileKeysKept
      <3>2. ASSUME NEW j \in fileDeleted'
            PROVE  files'[j] = "none" /\ j \notin cache'
        BY <2>1, <2>3 DEF FileKeysKept, FileTypeOK, Known
      <3>3. QED
        BY <3>1, <3>2 DEF FileKeysKept
    <2>12. QED
      BY <2>5, <2>7, <2>8, <2>9, <2>10, <2>11
  <1>6. ASSUME NEW t \in FileTasks, NEW k \in FileKeyIds, FileDelete(t, k)
        PROVE  FileInv'
    <2> DEFINE r == [pc |-> IF files[k] = "none" THEN "uncache" ELSE "remove", key |-> k]
    <2>1. /\ password # "closed" /\ fileCall[t].pc = "idle"
          /\ k \in cache \/ \E p \in Passwords : k \in fileAcked[p]
          /\ fileCall' = [fileCall EXCEPT ![t] = r]
          /\ fileDoomed' = fileDoomed \cup {k}
          /\ UNCHANGED <<password, cache, files, fileMade, fileFaults, fileAcked, fileDeleted>>
      BY <1>6 DEF FileDelete
    <2>2. /\ r \in FileRequest /\ r.key = k /\ r.pc \in {"remove", "uncache"}
          /\ r.pc = "uncache" => files[k] = "none"
      BY DEF FileRequest
    <2> HIDE DEF r
    <2>3. /\ fileCall' \in [FileTasks -> FileRequest] /\ fileCall'[t] = r
          /\ \A u \in FileTasks \ {t} : fileCall'[u] = fileCall[u]
      BY <2>1, <2>2 DEF FileTypeOK
    <2>4. Known(k) /\ k \in 1 .. fileMade
      BY <2>1 DEF Known, FileKeysMade, FileTypeOK, FileKeyIds
    <2>5. \A j \in FileKeyIds : Known(j)' <=> Known(j)
      BY <2>1, <2>4 DEF Known
    <2>6. FileTypeOK'
      BY <2>1, <2>3 DEF FileTypeOK
    <2>7. FileKeysMade'
      BY <2>1, <2>2, <2>3, <2>4, <2>5 DEF FileKeysMade
    <2>8. CreatedAlone'
      BY <2>1, <2>2, <2>3, <2>5 DEF CreatedAlone, Creating, FileKeysMade, FileTypeOK, FileKeyIds
    <2>9. RemovedStays'
      BY <2>1, <2>2, <2>3 DEF RemovedStays
    <2>10. ListedCanSign'
      <3>1. \A j \in cache : \A u \in FileTasks : fileCall[u] = [pc |-> "uncache", key |-> j] =>
              fileCall'[u] = fileCall[u]
        BY <2>1, <2>3
      <3>2. QED
        BY <2>1, <3>1 DEF ListedCanSign, FileCanSign
    <2>11. FileKeysKept'
      BY <2>1 DEF FileKeysKept
    <2>12. QED
      BY <2>6, <2>7, <2>8, <2>9, <2>10, <2>11
  <1>7. ASSUME NEW t \in FileTasks, FileRemove(t)
        PROVE  FileInv'
    <2> DEFINE k == fileCall[t].key
    <2>1. /\ fileCall[t].pc = "remove" /\ fileFaults' \in 0 .. MaxFileFaults
          /\ UNCHANGED <<password, cache, fileMade, fileAcked, fileDoomed, fileDeleted>>
      BY <1>7 DEF FileRemove, fileHistory, FileTypeOK
    <2>2. k \in 1 .. fileMade /\ k \in FileKeyIds /\ k \in fileDoomed
      BY <2>1 DEF FileKeysMade, RemovedStays, FileTypeOK, FileKeyIds
    <2>3. \A u \in FileTasks : Creating(u) => fileCall[u].key # k
      BY <2>2 DEF CreatedAlone, Known
    <2>4. \A j \in FileKeyIds : Known(j)' <=> Known(j)
      BY <2>1 DEF Known
    <2>5. CASE FileReturn(t) /\ UNCHANGED files
      <3>1. /\ fileCall' \in [FileTasks -> FileRequest] /\ fileCall'[t].pc = "idle"
            /\ \A u \in FileTasks \ {t} : fileCall'[u] = fileCall[u]
        BY <2>5, FileCalls
      <3>2. FileTypeOK'
        BY <2>1, <2>5, <3>1 DEF FileTypeOK
      <3>3. FileKeysMade'
        BY <2>1, <2>4, <3>1 DEF FileKeysMade
      <3>4. CreatedAlone'
        BY <2>1, <2>4, <2>5, <3>1 DEF CreatedAlone, Creating, FileKeysMade, FileTypeOK, FileKeyIds
      <3>5. RemovedStays'
        BY <2>1, <2>5, <3>1 DEF RemovedStays
      <3>6. ListedCanSign'
        <4>1. \A u \in FileTasks, j \in cache : fileCall[u] = [pc |-> "uncache", key |-> j] =>
                fileCall'[u] = fileCall[u]
          BY <2>1, <3>1
        <4>2. QED
          BY ZenonT(30), <2>1, <2>5, <4>1 DEF ListedCanSign, FileCanSign
      <3>7. FileKeysKept'
        BY <2>1, <2>5 DEF FileKeysKept
      <3>8. QED
        BY <3>2, <3>3, <3>4, <3>5, <3>6, <3>7
    <2>6. CASE FileGoto(t, "uncache") /\ files' = [files EXCEPT ![k] = "none"]
      <3>1. /\ fileCall' \in [FileTasks -> FileRequest]
            /\ fileCall'[t].pc = "uncache" /\ fileCall'[t].key = k
            /\ \A u \in FileTasks \ {t} : fileCall'[u] = fileCall[u]
        BY <2>6, FileCalls
      <3>2. /\ files' \in [FileKeyIds -> Passwords \cup {"none", "empty"}] /\ files'[k] = "none"
            /\ \A j \in FileKeyIds \ {k} : files'[j] = files[j]
        BY <2>2, <2>6 DEF FileTypeOK
      <3>3. FileTypeOK'
        BY <2>1, <2>2, <3>1, <3>2 DEF FileTypeOK
      <3>4. FileKeysMade'
        BY <2>1, <2>2, <2>4, <3>1 DEF FileKeysMade
      <3>5. CreatedAlone'
        BY SMTT(20), <2>1, <2>3, <2>4, <3>1, <3>2 DEF CreatedAlone, Creating, FileKeysMade, FileTypeOK, FileKeyIds
      <3>6. RemovedStays'
        <4>1. \A j \in FileKeyIds : files[j] = "none" => files'[j] = "none"
          BY <3>2
        <4>2. \A u \in FileTasks : fileCall[u].pc # "idle" => fileCall[u].key \in FileKeyIds
          BY DEF FileKeysMade, FileTypeOK, FileKeyIds
        <4>3. QED
          BY <2>1, <2>2, <3>1, <3>2, <4>1, <4>2 DEF RemovedStays
      <3>7. ListedCanSign'
        <4>1. ASSUME NEW j \in cache'
              PROVE  FileCanSign(j)' \/ \E u \in FileTasks : fileCall'[u] = [pc |-> "uncache", key |-> j]
          <5>1. CASE j = k
            <6>1. fileCall'[t] = [pc |-> "uncache", key |-> k]
              BY <3>1 DEF FileRequest
            <6>2. QED
              BY <5>1, <6>1
          <5>2. CASE j # k
            <6>1. j \in FileKeyIds \ {k} /\ j \in cache
              BY <2>1, <4>1, <5>2 DEF FileTypeOK, FileKeyIds
            <6>2. \A u \in FileTasks : fileCall[u] = [pc |-> "uncache", key |-> j] =>
                    fileCall'[u] = fileCall[u]
              BY <2>1, <3>1
            <6>3. QED
              BY <2>1, <3>2, <6>1, <6>2 DEF ListedCanSign, FileCanSign
          <5>3. QED
            BY <5>1, <5>2
        <4>2. QED
          BY <4>1 DEF ListedCanSign
      <3>8. FileKeysKept'
        <4>1. \A p \in Passwords : \A j \in fileAcked[p] \ fileDoomed : j \in FileKeyIds \ {k}
          BY <2>2 DEF FileTypeOK
        <4>2. \A j \in fileDeleted : j \in FileKeyIds
          BY DEF FileTypeOK
        <4>3. QED
          BY <2>1, <3>2, <4>1, <4>2 DEF FileKeysKept
      <3>9. QED
        BY <3>3, <3>4, <3>5, <3>6, <3>7, <3>8
    <2>7. QED
      BY <1>7, <2>5, <2>6 DEF FileRemove
  <1>8. ASSUME NEW t \in FileTasks, FileUncache(t)
        PROVE  FileInv'
    <2> DEFINE k == fileCall[t].key
    <2>1. /\ fileCall[t].pc = "uncache" /\ FileReturn(t)
          /\ cache' = cache \ {k} /\ fileDeleted' = fileDeleted \cup {k}
          /\ UNCHANGED <<password, files, fileMade, fileFaults, fileAcked, fileDoomed>>
      BY <1>8 DEF FileUncache
    <2>2. k \in 1 .. fileMade /\ k \in fileDoomed /\ files[k] = "none"
      BY <2>1 DEF FileKeysMade, RemovedStays
    <2>3. /\ fileCall' \in [FileTasks -> FileRequest] /\ fileCall'[t].pc = "idle"
          /\ \A u \in FileTasks \ {t} : fileCall'[u] = fileCall[u]
      BY <2>1, FileCalls
    <2>4. \A j \in FileKeyIds : Known(j)' <=> Known(j)
      BY <2>1, <2>2 DEF Known
    <2>5. FileTypeOK'
      BY <2>1, <2>2, <2>3 DEF FileTypeOK
    <2>6. FileKeysMade'
      BY <2>1, <2>3, <2>4 DEF FileKeysMade
    <2>7. CreatedAlone'
      BY SMTT(20), <2>1, <2>3, <2>4 DEF CreatedAlone, Creating, FileKeysMade, FileTypeOK, FileKeyIds
    <2>8. RemovedStays'
      BY <2>1, <2>3 DEF RemovedStays
    <2>9. ListedCanSign'
      <3>1. \A u \in FileTasks, j \in cache' : fileCall[u] = [pc |-> "uncache", key |-> j] =>
              fileCall'[u] = fileCall[u]
        BY <2>1, <2>3
      <3>2. QED
        BY ZenonT(30), <2>1, <3>1 DEF ListedCanSign, FileCanSign
    <2>10. FileKeysKept'
      BY <2>1, <2>2 DEF FileKeysKept
    <2>11. QED
      BY <2>5, <2>6, <2>7, <2>8, <2>9, <2>10
  <1>9. ASSUME NEW t \in FileTasks, FileWriteError(t)
        PROVE  FileInv'
    <2>1. /\ fileCall[t].pc \in {"open", "write"} /\ FileReturn(t)
          /\ fileFaults' \in 0 .. MaxFileFaults
          /\ UNCHANGED <<password, cache, files, fileMade, fileAcked, fileDoomed, fileDeleted>>
      BY <1>9 DEF FileWriteError, FileFault, fileHistory, FileTypeOK
    <2>2. /\ fileCall' \in [FileTasks -> FileRequest] /\ fileCall'[t].pc = "idle"
          /\ \A u \in FileTasks \ {t} : fileCall'[u] = fileCall[u]
      BY <2>1, FileCalls
    <2>3. \A j \in FileKeyIds : Known(j)' <=> Known(j)
      BY <2>1 DEF Known
    <2>4. FileTypeOK'
      BY <2>1, <2>2 DEF FileTypeOK
    <2>5. FileKeysMade'
      BY <2>1, <2>2, <2>3 DEF FileKeysMade
    <2>6. CreatedAlone'
      BY <2>1, <2>2, <2>3 DEF CreatedAlone, Creating, FileKeysMade, FileTypeOK, FileKeyIds
    <2>7. RemovedStays'
      BY <2>1, <2>2 DEF RemovedStays
    <2>8. ListedCanSign'
      <3>1. \A u \in FileTasks, j \in cache : fileCall[u] = [pc |-> "uncache", key |-> j] =>
              fileCall'[u] = fileCall[u]
        BY <2>1, <2>2
      <3>2. QED
        BY ZenonT(30), <2>1, <3>1 DEF ListedCanSign, FileCanSign
    <2>9. FileKeysKept'
      BY <2>1 DEF FileKeysKept
    <2>10. QED
      BY <2>4, <2>5, <2>6, <2>7, <2>8, <2>9
  <1>10. CASE UNCHANGED fileVars
    BY <1>10 DEF fileVars, fileHistory, FileTypeOK, FileKeysMade, CreatedAlone, RemovedStays,
                 Creating, Known, ListedCanSign, FileCanSign, FileKeysKept
  <1>11. QED
    BY <1>1, <1>2, <1>3, <1>4, <1>5, <1>6, <1>7, <1>8, <1>9, <1>10 DEF FileNext

\* What the keystore lists can sign, except while a deletion is between the file and
\* the cache; for any number of tasks and through any faults (keystore.rs:192-208,
\* 342-356).
THEOREM ListedSigns == FileSpec => []ListedCanSign
  <1>1. FileInit => FileInv
    BY InitFile
  <1>2. FileInv /\ [FileNext]_fileVars => FileInv'
    BY StepFile
  <1>3. FileInv => ListedCanSign
    BY DEF FileInv
  <1>4. QED
    BY <1>1, <1>2, <1>3, PTL DEF FileSpec

\* A creation or a deletion that returned Ok stays done, through crashes and I/O
\* errors, whatever passwords the keystore is opened with (keystore.rs:108-127,
\* 192-208, 342-356).
THEOREM FilesKept == FileSpec => []FileKeysKept
  <1>1. FileInit => FileInv
    BY InitFile
  <1>2. FileInv /\ [FileNext]_fileVars => FileInv'
    BY StepFile
  <1>3. FileInv => FileKeysKept
    BY DEF FileInv
  <1>4. QED
    BY <1>1, <1>2, <1>3, PTL DEF FileSpec

-----------------------------------------------------------------------------
(* MemoryKeystore.                                                         *)

HeldCounted == IsFiniteSet(MemHeld) /\ Cardinality(MemHeld) <= memMade

NamesRun ==
    memDeletions \/ /\ Cardinality(MemHeld) = memMade
                    /\ \A n \in MemHeld : n[2] < memMade
                    /\ \A t \in MemTasks : memCall[t] = Nameless

MemInv == MemTypeOK /\ HeldCounted /\ NamesRun /\ MemNamesKept

LEMMA InitMem == MemInit => MemInv
  <1> SUFFICES ASSUME MemInit PROVE MemInv
    OBVIOUS
  <1>1. MemHeld = {}
    BY DEF MemInit, MemHeld
  <1>2. IsFiniteSet(MemHeld) /\ Cardinality(MemHeld) = 0
    BY <1>1, FS_EmptySet
  <1>3. MemTypeOK
    <2>1. memMade = 0 /\ memNameOf = <<>> /\ 1 .. memMade = {}
      BY DEF MemInit
    <2>2. memNameOf \in [1 .. memMade -> MemNames]
      BY <2>1
    <2>3. memMade \in 0 .. MaxMemKeys /\ 0 \in 0 .. memMade
      BY <2>1, MemAssumption
    <2>4. memKeys \in [MemNames -> 0 .. memMade] /\ memSecrets \in [MemNames -> 0 .. memMade]
      BY <2>3 DEF MemInit
    <2>5. QED
      BY <2>2, <2>3, <2>4 DEF MemInit, MemTypeOK
  <1>4. HeldCounted /\ NamesRun /\ MemNamesKept
    BY <1>1, <1>2 DEF MemInit, HeldCounted, NamesRun, MemNamesKept
  <1>5. QED
    BY <1>3, <1>4 DEF MemInv

LEMMA NamelessIsNoName == Nameless \notin MemNames
  BY DEF Nameless, MemNames, MemKinds

\* A creation, under the locks: its name is one of the names, and a new one as
\* long as nothing was deleted.
LEMMA MemCreateKeeps ==
    ASSUME MemInv, NEW t \in MemTasks, NEW kind \in MemKinds, MemCreate(t, kind)
    PROVE  MemInv'
  <1> DEFINE length == Cardinality(MemHeld)
             name == <<kind, length>>
             key == memMade + 1
  <1>1. /\ memMade < MaxMemKeys
        /\ memKeys' = [memKeys EXCEPT ![name] = key]
        /\ memSecrets' = [memSecrets EXCEPT ![name] = key]
        /\ memMade' = key
        /\ memNameOf' = [k \in 1 .. key |-> IF k = key THEN name ELSE memNameOf[k]]
        /\ UNCHANGED <<memCall, memDoomed, memDeletions>>
    BY DEF MemCreate, MemInsert
  <1>2. /\ MaxMemKeys \in Nat /\ memMade \in Nat /\ key \in 1 .. MaxMemKeys
        /\ 1 .. key = (1 .. memMade) \cup {key} /\ key \notin 1 .. memMade
        /\ 0 .. memMade \subseteq 0 .. key
    BY <1>1, MemAssumption DEF MemInv, MemTypeOK
  <1>3. length \in Nat /\ length <= memMade /\ IsFiniteSet(MemHeld)
    BY FS_CardinalityType DEF MemInv, HeldCounted
  <1>4. name \in MemNames
    BY <1>2, <1>3 DEF MemNames
  <1> HIDE DEF name, key
  <1>5. MemTypeOK'
    <2>1. memKeys' \in [MemNames -> 0 .. memMade'] /\ memSecrets' \in [MemNames -> 0 .. memMade']
      BY <1>1, <1>2, <1>4 DEF MemInv, MemTypeOK
    <2>2. memNameOf' \in [1 .. memMade' -> MemNames]
      BY <1>1, <1>2, <1>4 DEF MemInv, MemTypeOK
    <2>3. QED
      BY <2>1, <2>2, <1>1, <1>2 DEF MemInv, MemTypeOK
  <1>6. MemHeld' = MemHeld \cup {name}
    <2>1. key # 0 /\ \A n \in MemNames : memKeys'[n] = IF n = name THEN key ELSE memKeys[n]
      BY <1>1, <1>2 DEF MemInv, MemTypeOK
    <2>2. QED
      BY <2>1, <1>4 DEF MemHeld
  <1>7. /\ IsFiniteSet(MemHeld') /\ Cardinality(MemHeld') <= length + 1
        /\ name \notin MemHeld => Cardinality(MemHeld') = length + 1
    <2>1. /\ IsFiniteSet(MemHeld')
          /\ Cardinality(MemHeld') = IF name \in MemHeld THEN length ELSE length + 1
      BY <1>3, <1>6, FS_AddElement
    <2> HIDE DEF length
    <2>2. QED
      BY <2>1, <1>3
  <1>8. HeldCounted'
    <2>1. Cardinality(MemHeld') \in Nat
      BY <1>7, FS_CardinalityType
    <2>2. QED
      BY <1>1, <1>2, <1>3, <1>7, <2>1 DEF HeldCounted, key
  <1>9. ASSUME ~memDeletions
        PROVE  /\ Cardinality(MemHeld') = memMade'
               /\ \A n \in MemHeld' : n[2] < memMade'
               /\ \A k \in 1 .. memMade' :
                    memKeys'[memNameOf'[k]] = k /\ memSecrets'[memNameOf'[k]] = k
    <2>1. /\ length = memMade /\ \A n \in MemHeld : n[2] < memMade
          /\ \A k \in 1 .. memMade : memKeys[memNameOf[k]] = k /\ memSecrets[memNameOf[k]] = k
      BY <1>9 DEF MemInv, NamesRun, MemNamesKept, MemFinds
    <2>2. name[2] = memMade
      BY <2>1 DEF name
    <2>3. name \notin MemHeld
      BY <2>1, <2>2, <1>2
    <2>4. Cardinality(MemHeld') = memMade'
      BY <2>1, <2>3, <1>7, <1>1 DEF key
    <2>5. \A n \in MemHeld' : n[2] < memMade'
      <3> SUFFICES ASSUME NEW n \in MemHeld' PROVE n[2] < memMade'
        OBVIOUS
      <3>1. CASE n = name
        BY <3>1, <2>2, <1>1, <1>2 DEF key
      <3>2. CASE n \in MemHeld
        <4>1. n[2] \in Nat
          BY <3>2 DEF MemHeld, MemNames
        <4>2. QED
          BY <3>2, <4>1, <2>1, <1>1, <1>2 DEF key
      <3>3. QED
        BY <3>1, <3>2, <1>6
    <2>6. ASSUME NEW k \in 1 .. memMade'
          PROVE  memKeys'[memNameOf'[k]] = k /\ memSecrets'[memNameOf'[k]] = k
      <3>1. CASE k = key
        BY <3>1, <1>1, <1>2, <1>4 DEF MemInv, MemTypeOK
      <3>2. CASE k \in 1 .. memMade
        <4>1. memNameOf'[k] = memNameOf[k] /\ memNameOf[k] \in MemNames /\ k # 0
          BY <3>2, <1>1, <1>2 DEF MemInv, MemTypeOK
        <4>2. memNameOf[k] \in MemHeld
          BY <4>1, <3>2, <2>1 DEF MemHeld
        <4>3. QED
          BY <4>1, <4>2, <3>2, <2>1, <2>3, <1>1 DEF MemInv, MemTypeOK
      <3>3. QED
        BY <3>1, <3>2, <1>1, <1>2
    <2>7. QED
      BY <2>4, <2>5, <2>6
  <1>10. NamesRun' /\ MemNamesKept'
    BY <1>9, <1>1 DEF MemInv, NamesRun, MemNamesKept, MemFinds
  <1>11. QED
    BY <1>5, <1>8, <1>10 DEF MemInv

LEMMA MemDeleteKeeps ==
    ASSUME MemInv, NEW t \in MemTasks, NEW name \in MemNames, MemDelete(t, name)
    PROVE  MemInv'
  <1>1. MemTypeOK'
    <2>1. memKeys[name] \in 1 .. memMade /\ memMade \in Nat
      BY MemAssumption DEF MemInv, MemTypeOK, MemDelete, MemHeld
    <2>2. /\ memKeys' = [memKeys EXCEPT ![name] = 0]
          /\ memCall' = [memCall EXCEPT ![t] = name]
          /\ memDoomed' = memDoomed \cup {memKeys[name]} /\ memDeletions' = TRUE
          /\ UNCHANGED <<memSecrets, memMade, memNameOf>>
      BY DEF MemDelete
    <2>3. memKeys' \in [MemNames -> 0 .. memMade]
      BY <2>1, <2>2 DEF MemInv, MemTypeOK
    <2>4. memDoomed' \subseteq 1 .. memMade /\ memDeletions' \in BOOLEAN
      BY <2>1, <2>2 DEF MemInv, MemTypeOK
    <2>5. memCall' \in [MemTasks -> MemNames \cup {Nameless}]
      BY <2>2 DEF MemInv, MemTypeOK
    <2>6. QED
      BY <2>2, <2>3, <2>4, <2>5 DEF MemInv, MemTypeOK
  <1>2. MemHeld' \subseteq MemHeld
    BY DEF MemInv, MemTypeOK, MemDelete, MemHeld
  <1>3. HeldCounted'
    <2>1. /\ IsFiniteSet(MemHeld') /\ Cardinality(MemHeld') <= Cardinality(MemHeld)
          /\ Cardinality(MemHeld) \in Nat /\ Cardinality(MemHeld') \in Nat
      BY <1>2, FS_Subset, FS_CardinalityType DEF MemInv, HeldCounted
    <2>2. memMade' = memMade /\ memMade \in Nat
      BY DEF MemInv, MemTypeOK, MemDelete
    <2>3. QED
      BY <2>1, <2>2 DEF MemInv, HeldCounted
  <1>4. NamesRun' /\ MemNamesKept'
    BY DEF MemDelete, NamesRun, MemNamesKept
  <1>5. QED
    BY <1>1, <1>3, <1>4 DEF MemInv

LEMMA MemForgetKeeps ==
    ASSUME MemInv, NEW t \in MemTasks, MemForget(t)
    PROVE  MemInv'
  <1>1. memCall[t] \in MemNames
    BY DEF MemInv, MemTypeOK, MemForget
  <1>2. MemTypeOK'
    BY <1>1 DEF MemInv, MemTypeOK, MemForget
  <1>3. MemHeld' = MemHeld
    BY DEF MemForget, MemHeld
  <1>4. memDeletions
    BY DEF MemInv, NamesRun, MemForget
  <1>5. HeldCounted' /\ NamesRun' /\ MemNamesKept'
    BY <1>3, <1>4 DEF MemInv, HeldCounted, NamesRun, MemNamesKept, MemForget
  <1>6. QED
    BY <1>2, <1>5 DEF MemInv

LEMMA StepMem ==
    ASSUME MemInv, [MemNext]_memVars
    PROVE  MemInv'
  <1>1. CASE UNCHANGED memVars
    BY <1>1 DEF memVars, MemInv, MemTypeOK, HeldCounted, NamesRun, MemNamesKept, MemHeld, MemFinds
  <1>2. CASE MemNext
    BY <1>2, MemCreateKeeps, MemDeleteKeeps, MemForgetKeeps DEF MemNext
  <1>3. QED
    BY <1>1, <1>2

\* MemoryKeystore's state is well typed: the number a new key is named after
\* (keystore.rs:378, 407) never exceeds the number of keys made.
THEOREM MemTypes == MemSpec => []MemTypeOK
  <1>1. MemInv => MemTypeOK
    BY DEF MemInv
  <1>2. QED
    BY <1>1, InitMem, StepMem, PTL DEF MemSpec

\* MemoryKeystore finds each key, with its secret, under the name its creation
\* returned (keystore.rs:378, 407, 458), as long as nothing was deleted: for any
\* number of tasks and keys.
THEOREM NamesKept == MemSpec => []MemNamesKept
  <1>1. MemInv => MemNamesKept
    BY DEF MemInv
  <1>2. QED
    BY <1>1, InitMem, StepMem, PTL DEF MemSpec
=============================================================================
