---------------------------- MODULE FileKeystore ----------------------------
(***************************************************************************)
(* The keystore of one file per key (crates/scp-signer/src/keystore.rs,    *)
(* FileKeystore).  Secrets are on disk only; the cache in memory holds the *)
(* descriptions, under an RwLock of its own.  A creation writes the file,  *)
(* then the cache; a deletion removes the file, then the cache entry; no   *)
(* lock spans the two.  Files are combined with the password byte by byte, *)
(* so that another password reads them as noise and skips them.            *)
(***************************************************************************)
EXTENDS Naturals

CONSTANTS
    FileTasks,      \* tasks that share the keystore
    Passwords,
    MaxFileKeys,    \* bound: keys created in a behaviour
    MaxFileFaults   \* bound: crashes and I/O errors

FileKeyIds == 1 .. MaxFileKeys      \* generate_id(): taken to be distinct

ASSUME FileAssumption ==
    /\ MaxFileKeys \in Nat /\ MaxFileFaults \in Nat
    /\ Passwords \cap {"closed", "none", "empty"} = {}

VARIABLES
    password,       \* the password of the open keystore, or "closed"
    cache,
    files,          \* per key: "none", "empty", or the password it is written under
    fileCall,       \* the request each task is serving
    fileMade, fileFaults,
    fileAcked,      \* history: per password, keys whose creation returned Ok
    fileDoomed,     \* history: keys whose deletion was begun
    fileDeleted     \* history: keys whose deletion returned Ok

fileHistory == <<fileAcked, fileDoomed, fileDeleted>>
fileVars == <<password, cache, files, fileCall, fileMade, fileFaults, fileHistory>>

FileRequest == [pc: {"idle", "open", "write", "cache", "remove", "uncache"},
                key: FileKeyIds \cup {0}]

NoFileRequest == [pc |-> "idle", key |-> 0]

\* Type invariant of the keystore; only keys that were made have files.
FileTypeOK ==
    /\ password \in Passwords \cup {"closed"}
    /\ cache \subseteq 1 .. fileMade
    /\ files \in [FileKeyIds -> Passwords \cup {"none", "empty"}]
    /\ \A k \in FileKeyIds : files[k] # "none" => k <= fileMade
    /\ fileCall \in [FileTasks -> FileRequest]
    /\ fileMade \in 0 .. MaxFileKeys /\ fileFaults \in 0 .. MaxFileFaults
    /\ fileAcked \in [Passwords -> SUBSET FileKeyIds]
    /\ fileDoomed \subseteq FileKeyIds /\ fileDeleted \subseteq fileDoomed

FileInit ==
    /\ password = "closed" /\ cache = {}
    /\ files = [k \in FileKeyIds |-> "none"]
    /\ fileCall = [t \in FileTasks |-> NoFileRequest]
    /\ fileMade = 0 /\ fileFaults = 0
    /\ fileAcked = [p \in Passwords |-> {}]
    /\ fileDoomed = {} /\ fileDeleted = {}

FileAt(t, pc) == fileCall[t].pc = pc
FileGoto(t, pc) == fileCall' = [fileCall EXCEPT ![t].pc = pc]
FileReturn(t) == fileCall' = [fileCall EXCEPT ![t] = NoFileRequest]

\* The keys whose file decrypts and parses under a password.
ReadableUnder(p) == {k \in FileKeyIds : files[k] = p}

-----------------------------------------------------------------------------
\* FileKeystore::new: any password opens; load_keys() skips what it cannot read.
FileOpen(p) ==
    /\ password = "closed"
    /\ password' = p
    /\ cache' = ReadableUnder(p)
    /\ UNCHANGED <<files, fileCall, fileMade, fileFaults, fileHistory>>

(* generate_key, import_key.                                               *)

BeginCreate(t, pc) ==
    /\ password # "closed" /\ FileAt(t, "idle")
    /\ fileMade < MaxFileKeys
    /\ fileMade' = fileMade + 1
    /\ fileCall' = [fileCall EXCEPT ![t] = [pc |-> pc, key |-> fileMade + 1]]
    /\ UNCHANGED <<password, files, fileFaults, fileHistory>>

\* Variant: the cache is filled before the file is written.
FileCreateCached(t) ==
    /\ BeginCreate(t, "open")
    /\ cache' = cache \cup {fileMade + 1}

FileCreate(t) ==
    /\ BeginCreate(t, "open")
    /\ UNCHANGED cache

\* std::fs::write: the file is created empty, then filled.
FileOpened(t) ==
    /\ FileAt(t, "open")
    /\ files' = [files EXCEPT ![fileCall[t].key] = "empty"]
    /\ FileGoto(t, "write")
    /\ UNCHANGED <<password, cache, fileMade, fileFaults, fileHistory>>

FileWritten(t) ==
    /\ FileAt(t, "write")
    /\ files' = [files EXCEPT ![fileCall[t].key] = password]
    /\ FileGoto(t, "cache")
    /\ UNCHANGED <<password, cache, fileMade, fileFaults, fileHistory>>

FileCache(t) ==
    /\ FileAt(t, "cache")
    /\ cache' = cache \cup {fileCall[t].key}
    /\ fileAcked' = [fileAcked EXCEPT ![password] = @ \cup {fileCall[t].key}]
    /\ FileReturn(t)
    /\ UNCHANGED <<password, files, fileMade, fileFaults, fileDoomed, fileDeleted>>

(* delete_key: path.exists(), remove_file, the cache.                      *)

FileDelete(t, k) ==
    /\ password # "closed" /\ FileAt(t, "idle")
    /\ k \in cache \/ \E p \in Passwords : k \in fileAcked[p]
    /\ fileCall' = [fileCall EXCEPT ![t] =
                     [pc |-> IF files[k] = "none" THEN "uncache" ELSE "remove", key |-> k]]
    /\ fileDoomed' = fileDoomed \cup {k}
    /\ UNCHANGED <<password, cache, files, fileMade, fileFaults, fileAcked, fileDeleted>>

\* Variant: the result of remove_file is dropped.
FileRemoveIgnored(t) ==
    /\ FileAt(t, "remove")
    /\ \/ files' = [files EXCEPT ![fileCall[t].key] = "none"] /\ UNCHANGED fileFaults
       \/ /\ fileFaults < MaxFileFaults /\ fileFaults' = fileFaults + 1
          /\ UNCHANGED files
    /\ FileGoto(t, "uncache")
    /\ UNCHANGED <<password, cache, fileMade, fileHistory>>

\* remove_file fails when another deletion was faster, or the disk refuses: the
\* cache entry is left.
FileRemove(t) ==
    /\ FileAt(t, "remove")
    /\ \/ /\ files[fileCall[t].key] # "none"
          /\ files' = [files EXCEPT ![fileCall[t].key] = "none"]
          /\ FileGoto(t, "uncache")
          /\ UNCHANGED fileFaults
       \/ /\ files[fileCall[t].key] = "none"
          /\ FileReturn(t)
          /\ UNCHANGED <<files, fileFaults>>
       \/ /\ fileFaults < MaxFileFaults /\ fileFaults' = fileFaults + 1
          /\ FileReturn(t)
          /\ UNCHANGED files
    /\ UNCHANGED <<password, cache, fileMade, fileHistory>>

FileUncache(t) ==
    /\ FileAt(t, "uncache")
    /\ cache' = cache \ {fileCall[t].key}
    /\ fileDeleted' = fileDeleted \cup {fileCall[t].key}
    /\ FileReturn(t)
    /\ UNCHANGED <<password, files, fileMade, fileFaults, fileAcked, fileDoomed>>

\* sign, sign_schnorr: the file is read each time, the cache is not consulted.
FileCanSign(k) == password # "closed" /\ files[k] = password

-----------------------------------------------------------------------------
FileFault == fileFaults < MaxFileFaults /\ fileFaults' = fileFaults + 1

\* std::fs::write fails; what it has left of the file is not readable.
FileWriteError(t) ==
    /\ FileFault
    /\ \/ FileAt(t, "open")
       \/ FileAt(t, "write")
    /\ FileReturn(t)
    /\ UNCHANGED <<password, cache, files, fileMade, fileHistory>>

FileCrash ==
    /\ FileFault
    /\ password # "closed" /\ password' = "closed"
    /\ cache' = {}
    /\ fileCall' = [t \in FileTasks |-> NoFileRequest]
    /\ UNCHANGED <<files, fileMade, fileHistory>>

-----------------------------------------------------------------------------
FileNext ==
    \/ FileCrash
    \/ \E p \in Passwords : FileOpen(p)
    \/ \E t \in FileTasks :
         \/ FileCreate(t) \/ FileOpened(t) \/ FileWritten(t) \/ FileCache(t)
         \/ FileRemove(t) \/ FileUncache(t) \/ FileWriteError(t)
         \/ \E k \in FileKeyIds : FileDelete(t, k)

FileSpec == FileInit /\ [][FileNext]_fileVars

-----------------------------------------------------------------------------
(* Properties.                                                             *)

\* What the keystore lists can sign, except while a deletion is between the file
\* and the cache (keystore.rs:192-208, 342-356).
ListedCanSign ==
    \A k \in cache : FileCanSign(k) \/ \E t \in FileTasks : fileCall[t] = [pc |-> "uncache", key |-> k]

\* A key whose creation returned Ok keeps its file, under its password, until its
\* deletion is begun, through crashes and errors, and is listed whenever the
\* keystore is open with that password; one whose deletion returned Ok has no
\* file and is not listed (keystore.rs:108-127, 342-356).
FileKeysKept ==
    /\ \A p \in Passwords : \A k \in fileAcked[p] \ fileDoomed :
         files[k] = p /\ (password = p => k \in cache)
    /\ \A k \in fileDeleted : files[k] = "none" /\ k \notin cache
=============================================================================
