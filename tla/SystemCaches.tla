----------------------------- MODULE SystemCaches -----------------------------
(***************************************************************************)
(* The caches of metadata (cache.ts), with a Redis store.  The schema is   *)
(* kept by each instance together with its hash, and is good while the     *)
(* store holds the same hash (utils/get-schema.ts).  Permissions           *)
(* (utils/get-permissions.ts) are kept in the store; a lock keeps entries  *)
(* out of it while it is cleared.  A write of metadata, once committed,    *)
(* calls clearSystemCache.                                                 *)
(*                                                                         *)
(* Metadata is its version, the schema's hash too; entries are one         *)
(* account's.  A definition X_Variant is a faulty X, used to see a property*)
(* fail.                                                                   *)
(***************************************************************************)
EXTENDS Deployment, Naturals

CONSTANT MaxWrites   \* bound: writes of metadata

ASSUME WritesAssumption == MaxWrites \in Nat

VARIABLES
  db,          \* the version in the database
  sharedHash,  \* store: hash of the current schema, None when there is none
  local,       \* the schema each instance keeps, with its hash
  entry,       \* store: the permissions kept
  lock,        \* store: system-cache-lock
  writer,      \* on each instance, a request that writes metadata
  reader,      \* on each instance, a request that needs the schema or permissions
  finished,    \* history: the latest write whose clearSystemCache has returned
  late,        \* history: what was stored after a later version was committed
  skipped      \* history: writes that found the lock and did not clear the entries

cacheVars == <<db, sharedHash, local, entry, lock, writer, reader, finished, late, skipped>>
storeVars == <<sharedHash, local, entry, lock>>

None == 0
Versions == 1..(MaxWrites + 1)
Later(v, w) == IF v > w THEN v ELSE w

CachesInit ==
  /\ db = 1
  /\ sharedHash = None /\ entry = None /\ lock = FALSE
  /\ local = [n \in Nodes |-> None]
  /\ writer = [n \in Nodes |-> [at |-> "idle", ver |-> None]]
  /\ reader \in [Nodes -> [at : {"idle"}, kind : {"schema", "perms"}, ver : {None}, since : {1}]]
  /\ finished = 1
  /\ late = [kind \in {"schema", "perms"} |-> {}]
  /\ skipped = {}

-----------------------------------------------------------------------------
\* A write: commit, then clearSystemCache.

WriterAt(n, at) == writer' = [writer EXCEPT ![n].at = at]

Commit(n) ==
  /\ writer[n].at = "idle" /\ db <= MaxWrites
  /\ db' = db + 1
  /\ writer' = [writer EXCEPT ![n] = [at |-> "locked?", ver |-> db']]
  /\ UNCHANGED <<storeVars, reader, finished, late, skipped>>

\* Someone else's lock: the entries are left to them.  (flushCaches forces it.)
AskLock(n) ==
  /\ writer[n].at = "locked?"
  /\ \/ WriterAt(n, "lock") /\ ~lock /\ UNCHANGED skipped
     \/ WriterAt(n, "hash") /\ lock /\ skipped' = skipped \cup {writer[n].ver}
  /\ UNCHANGED <<db, storeVars, reader, finished, late>>

TakeLock(n) ==
  /\ writer[n].at = "lock"
  /\ lock' = TRUE
  /\ WriterAt(n, "clear")
  /\ UNCHANGED <<db, sharedHash, local, entry, reader, finished, late, skipped>>

Cleared_Kept == entry
Cleared == None

\* An error leaves by way of the lock's release.
ClearEntries(n) ==
  /\ writer[n].at = "clear"
  /\ \/ entry' = Cleared /\ WriterAt(n, "unlock")
     \/ UNCHANGED entry /\ WriterAt(n, "release")
  /\ UNCHANGED <<db, sharedHash, local, lock, reader, finished, late, skipped>>

Unlock(n) ==
  /\ writer[n].at \in {"unlock", "release"}
  /\ lock' = FALSE
  /\ WriterAt(n, IF writer[n].at = "unlock" THEN "hash" ELSE "idle")
  /\ UNCHANGED <<db, sharedHash, local, entry, reader, finished, late, skipped>>

\* The lock lives for ten seconds.
LockExpires ==
  /\ lock /\ lock' = FALSE
  /\ UNCHANGED <<db, sharedHash, local, entry, writer, reader, finished, late, skipped>>

HashAfter_Kept == sharedHash
HashAfter == None

DeleteHash(n) ==
  /\ writer[n].at = "hash"
  /\ sharedHash' = HashAfter
  /\ WriterAt(n, "local")
  /\ UNCHANGED <<db, local, entry, lock, reader, finished, late, skipped>>

\* The message it publishes clears response caches of memory stores only.
ClearLocal(n) ==
  /\ writer[n].at = "local"
  /\ local' = [local EXCEPT ![n] = None]
  /\ WriterAt(n, "idle")
  /\ finished' = Later(finished, writer[n].ver)
  /\ UNCHANGED <<db, sharedHash, entry, lock, reader, late, skipped>>

\* The store fails before the hash is deleted: the request fails, committed.
ClearFails(n) ==
  /\ writer[n].at \in {"locked?", "lock", "hash"}
  /\ WriterAt(n, "idle")
  /\ UNCHANGED <<db, storeVars, reader, finished, late, skipped>>

WriterStep(n) == \/ Commit(n) \/ AskLock(n) \/ TakeLock(n) \/ ClearEntries(n) \/ Unlock(n)
                 \/ DeleteHash(n) \/ ClearLocal(n) \/ ClearFails(n)

-----------------------------------------------------------------------------
\* A read: getSchema or getPermissions.

ReaderAt(n, at, ver) ==
  reader' = [reader EXCEPT ![n] = [at |-> at, kind |-> @.kind, ver |-> ver, since |-> @.since]]
Serve(n, ver) == ReaderAt(n, "idle", ver)

BeginRead(n) ==
  /\ reader[n].at = "idle"
  /\ \E kind \in {"schema", "perms"} :
       reader' = [reader EXCEPT ![n] = [at |-> "ask", kind |-> kind, ver |-> None, since |-> finished]]
  /\ UNCHANGED <<db, storeVars, writer, finished, late, skipped>>

\* getSchemaCache asks the store for the hash and then compares its own.
AskHash(n) ==
  /\ reader[n].at = "ask" /\ reader[n].kind = "schema"
  /\ ReaderAt(n, "compare", sharedHash)
  /\ UNCHANGED <<db, storeVars, writer, finished, late, skipped>>

Matches_Any(n) == local[n] # None
Matches(n) == local[n] # None /\ local[n] = reader[n].ver

Compare(n) ==
  /\ reader[n].at = "compare"
  /\ IF Matches(n) THEN Serve(n, local[n]) ELSE ReaderAt(n, "query", None)
  /\ UNCHANGED <<db, storeVars, writer, finished, late, skipped>>

AskEntry(n) ==
  /\ reader[n].at = "ask" /\ reader[n].kind = "perms"
  /\ IF entry # None THEN Serve(n, entry) ELSE ReaderAt(n, "query", None)
  /\ UNCHANGED <<db, storeVars, writer, finished, late, skipped>>

Query(n) ==
  /\ reader[n].at = "query"
  /\ ReaderAt(n, IF reader[n].kind = "schema" THEN "share" ELSE "unlocked?", db)
  /\ UNCHANGED <<db, storeVars, writer, finished, late, skipped>>

Stored(kind, ver) == late' = [late EXCEPT ![kind] = IF ver < db THEN @ \cup {ver} ELSE @]

\* setSchemaCache: the hash for all, then the schema and the hash for oneself.
ShareHash(n) ==
  /\ reader[n].at = "share"
  /\ sharedHash' = reader[n].ver
  /\ Stored("schema", reader[n].ver)
  /\ ReaderAt(n, "keep", reader[n].ver)
  /\ UNCHANGED <<db, local, entry, lock, writer, finished, skipped>>

KeepSchema(n) ==
  /\ reader[n].at = "keep"
  /\ local' = [local EXCEPT ![n] = reader[n].ver]
  /\ Serve(n, reader[n].ver)
  /\ UNCHANGED <<db, sharedHash, entry, lock, writer, finished, late, skipped>>

\* setSystemCache: not while the lock is seen.
SeeLock(n) ==
  /\ reader[n].at = "unlocked?"
  /\ IF lock THEN Serve(n, reader[n].ver) ELSE ReaderAt(n, "set", reader[n].ver)
  /\ UNCHANGED <<db, storeVars, writer, finished, late, skipped>>

SetEntry(n) ==
  /\ reader[n].at = "set"
  /\ entry' = reader[n].ver
  /\ Stored("perms", reader[n].ver)
  /\ Serve(n, reader[n].ver)
  /\ UNCHANGED <<db, sharedHash, local, lock, writer, finished, skipped>>

\* The store fails.  What was asked is read from the database; a schema that cannot
\* be stored is served all the same, permissions that cannot be are not.
StoreFails(n) ==
  /\ \/ reader[n].at = "ask" /\ ReaderAt(n, "query", None)
     \/ reader[n].at = "share" /\ Serve(n, reader[n].ver)
     \/ reader[n].at \in {"unlocked?", "set"} /\ Serve(n, None)
  /\ UNCHANGED <<db, storeVars, writer, finished, late, skipped>>

ReaderStep(n) == \/ BeginRead(n) \/ AskHash(n) \/ Compare(n) \/ AskEntry(n) \/ Query(n) \/ ShareHash(n)
                 \/ KeepSchema(n) \/ SeeLock(n) \/ SetEntry(n) \/ StoreFails(n)

CachesNext == LockExpires \/ \E n \in Nodes : WriterStep(n) \/ ReaderStep(n)
-----------------------------------------------------------------------------
\* Types of the caches.
CachesTypeOK ==
  /\ db \in Versions /\ finished \in Versions
  /\ sharedHash \in {None} \cup Versions /\ entry \in {None} \cup Versions /\ lock \in BOOLEAN
  /\ local \in [Nodes -> {None} \cup Versions]
  /\ writer \in [Nodes -> [at : {"idle", "locked?", "lock", "clear", "unlock", "release", "hash", "local"},
                           ver : {None} \cup Versions]]
  /\ reader \in [Nodes -> [at : {"idle", "ask", "compare", "query", "share", "keep", "unlocked?", "set"},
                           kind : {"schema", "perms"}, ver : {None} \cup Versions, since : Versions]]
  /\ late \in [{"schema", "perms"} -> SUBSET Versions]
  /\ skipped \subseteq Versions

\* "Invalidated on schema or permission writes" (docs/manage/configuration.md:270),
\* with its two exceptions.  A request is served metadata at least as new as every
\* write that had finished when it began, unless that version was stored after a
\* later one was committed (its read overlapped the write), or, for permissions, a
\* later write left the entries to another writer's clear.
CachesFresh ==
  \A n \in Nodes : reader[n].at = "idle" /\ reader[n].ver # None /\ reader[n].ver < reader[n].since =>
    \/ reader[n].ver \in late[reader[n].kind]
    \/ reader[n].kind = "perms" /\ \E v \in skipped : v > reader[n].ver
=============================================================================
