------------------------------ MODULE DiskStore ------------------------------
(***************************************************************************)
(* The durable presignature store of one node (node/src/store/persist.rs,  *)
(* DiskPresigStore): one file per record, tombstones for spent and expired *)
(* ids, a hash-chained journal of every mutation, and the verification     *)
(* `open` runs over all of it after a restart.                             *)
(*                                                                         *)
(* Granularity: one action per file-system effect that a crash, a power    *)
(* failure or an I/O error can separate from the next one.                 *)
(*                                                                         *)
(* Abstractions.                                                           *)
(*   - Directory: per id the set of its files.  `views` holds every set a  *)
(*     power failure may reveal: an effect adds views, sync_dir collapses  *)
(*     them.  A `.tmp` file is never read and is deleted by open, so       *)
(*     write_atomic is its rename (the file's bytes are synced before it). *)
(*   - Journal: what a replay of its complete entries gives for each id,   *)
(*     and whether a replay succeeds at all (framing, seq, hash chain).    *)
(*   - Records are not told apart: the seal, the digests and the created   *)
(*     stamps are left out; the store is bound to one key, and an id whose *)
(*     insertion failed is not inserted again by the same process (the     *)
(*     pool manager moves on to a fresh id, pool.rs).                      *)
(*   - The journal file's own directory entry is durable from the first    *)
(*     open on.                                                            *)
(*   - The order in which open visits the ids is left open.                *)
(***************************************************************************)
EXTENDS Naturals

CONSTANTS
  Id,          \* presignature ids
  Faults,      \* what may go wrong: a subset of FaultKinds
  Legacy       \* whether the directory may predate the journal

FaultKinds == { "kill",      \* the process dies, the page cache survives
                "power",     \* the machine dies: unsynced effects may be lost
                "io",        \* a system call returns an error
                "torn",      \* an interrupted journal append leaves a prefix
                "foreign" }  \* an accepted share names an id that its session
                             \* is not about: a faulty member's, or that of a
                             \* key-independent session with ids of its own

ASSUME IdAssumption == Id # {}
ASSUME FaultsAssumption == Faults \subseteq FaultKinds
ASSUME LegacyAssumption == Legacy \in BOOLEAN

Kinds == {"presig", "consumed", "expired"}          \* <id>.<kind>
DiskStates == {"absent", "live", "consumed", "expired"}
Ops == {"insert", "consume", "expire", "burn"}
Running == {"ready", "sync", "remove", "resync", "append"}   \* the store is open

VARIABLES
  files,       \* files[id]: the files of id, as the running system sees them
  views,       \* views[id]: the sets of files a power failure may reveal
  journal,     \* whether the journal file exists
  log,         \* the journal file: final state per id, and whether it replays
  logViews,    \* the journal contents a power failure may reveal
  ahead,       \* the file has an entry that Journal.next_seq and tip miss
  pc,          \* where the process is
  cur,         \* the store operation under way
  seen,        \* open: the directory scan (`disk`, then `truth`)
  live, consumed, expired,     \* DiskPresigStore's in-memory sets
  handed,      \* how many times each record was returned by consume
  signing,     \* consumed records whose signing session still runs
  evidence,    \* ids whose own session put a share in the transcript
  foreign,     \* ids that only shares of other sessions name there
  readable     \* whether the transcript still parses

memory     == <<live, consumed, expired>>
disk       == <<files, views>>
journalVars == <<journal, log, logViews, ahead>>
transcript == <<signing, evidence, foreign, readable>>
vars == <<files, views, journal, log, logViews, ahead, pc, cur, seen,
          live, consumed, expired, handed, signing, evidence, foreign, readable>>

-----------------------------------------------------------------------------
(* Journal contents *)

Log == [at: [Id -> DiskStates], ok: BOOLEAN]
EmptyLog == [at |-> [id \in Id |-> "absent"], ok |-> TRUE]

(* The state a journal entry of each operation leaves its id in (OP_INSERT, *)
(* OP_CONSUME, OP_EXPIRE, OP_BURN).                                         *)
EntryState(op) ==
  IF op = "insert" THEN "live" ELSE IF op = "consume" THEN "consumed" ELSE "expired"

(* The op transitions that journal_replay accepts for one id. *)
ValidEntry(before, st) ==
  \/ st = "live" /\ before = "absent"
  \/ st = "consumed" /\ before = "live"
  \/ st = "expired" /\ before \in {"absent", "live"}

(* A complete entry at the end of the file.  After a torn entry, or after  *)
(* one that the writer does not know to be there, the file no longer       *)
(* replays: the framing is lost, or the seq and prev_hash are repeated.    *)
Appended(l, id, st) ==
  IF l.ok /\ ~ahead /\ ValidEntry(l.at[id], st)
  THEN [l EXCEPT !.at[id] = st]
  ELSE [l EXCEPT !.ok = FALSE]

Torn(l) == [l EXCEPT !.ok = FALSE]

(* A mutant of JournalAppend: no sync_all. *)
UnsyncedAppend(id, st) ==
  /\ log' = Appended(log, id, st)
  /\ logViews' = logViews \cup {log'}
  /\ UNCHANGED <<journal, ahead>>

(* The journal right after a successful append: sync_all reaches all of it. *)
JournalAppend(id, st) ==
  /\ log' = Appended(log, id, st)
  /\ logViews' = {log'}
  /\ UNCHANGED <<journal, ahead>>

-----------------------------------------------------------------------------
(* Directory effects *)

WithoutPresig(f) == f \ {"presig"}

ArtifactOfOp(op, f) == f \cup {op}      \* a mutant of Artifact: a wrong suffix

(* The files of an id after the rename of an operation, or a removal. *)
Artifact(op, f) ==
  IF op = "insert" THEN f \cup {"presig"}
  ELSE IF op = "consume" THEN WithoutPresig(f) \cup {"consumed"}
  ELSE IF op = "remove" THEN WithoutPresig(f)
  ELSE f \cup {"expired"}

(* An effect on the files of id, not synced yet. *)
Touch(op, id) ==
  /\ files' = [files EXCEPT ![id] = Artifact(op, @)]
  /\ views' = [views EXCEPT ![id] = @ \cup {Artifact(op, v) : v \in @}]

SkipSync == UNCHANGED <<files, views>>     \* a mutant of SyncDir

SyncDir ==
  /\ views' = [id \in Id |-> {files[id]}]
  /\ UNCHANGED files

-----------------------------------------------------------------------------
Tombstoned(f) == "consumed" \in f \/ "expired" \in f

(* What the scan can make of the files of one id: a tombstone wins over a   *)
(* record; when both tombstones exist, the last one that read_dir returns.  *)
ScanStates(f) ==
  IF Tombstoned(f) THEN f \cap {"consumed", "expired"}
  ELSE IF "presig" \in f THEN {"live"}
  ELSE {"absent"}

Scans == {d \in [Id -> DiskStates] : \A id \in Id : d[id] \in ScanStates(files[id])}

Stray(id) == Tombstoned(files[id]) /\ "presig" \in files[id]

(* A mutant of Diverges: no crash window between a file and its entry. *)
NoCrashWindows(d) == \E id \in Id : log.at[id] # "absent" /\ d[id] # log.at[id]

(* reconcile_journal: the divergences that are refused. *)
Diverges(d) ==
  \E id \in Id :
    \/ log.at[id] = "live" /\ d[id] = "absent"
    \/ log.at[id] \in {"consumed", "expired"} /\ d[id] # log.at[id]

(* ... those that are healed by a journal entry ... *)
NeedsHeal(id) == log.at[id] = "live" /\ seen[id] \in {"consumed", "expired"}

(* ... and the records that no journal entry accounts for. *)
NeedsDrop(id) == log.at[id] = "absent" /\ seen[id] = "live"

(* Ids of a pre-journal directory that the new journal does not list yet. *)
NeedsAdoption(id) == log.at[id] = "absent" /\ seen[id] # "absent"

-----------------------------------------------------------------------------
InitialFiles == IF Legacy THEN {{}, {"presig"}, {"consumed"}, {"expired"}} ELSE {{}}

Init ==
  /\ files \in [Id -> InitialFiles]
  /\ views = [id \in Id |-> {files[id]}]
  /\ journal = FALSE
  /\ log = EmptyLog
  /\ logViews = {EmptyLog}
  /\ ahead = FALSE
  /\ pc = "down"
  /\ cur = [op |-> "insert", id |-> CHOOSE id \in Id : TRUE]
  /\ seen = [id \in Id |-> "absent"]
  /\ live = {} /\ consumed = {} /\ expired = {}
  /\ handed = [id \in Id |-> 0]
  /\ signing = {} /\ evidence = {} /\ foreign = {} /\ readable = TRUE

-----------------------------------------------------------------------------
(* The operations: rename, sync_dir, [remove, sync_dir,] journal, return. *)

LiveOnly == live        \* a mutant of Known: the check of the core PresigStore

Known == live \cup consumed \cup expired

Rename(op, id) ==
  /\ pc = "ready"
  /\ Touch(op, id)
  /\ pc' = "sync"
  /\ cur' = [op |-> op, id |-> id]
  /\ UNCHANGED <<journalVars, seen, memory, handed, transcript>>

(* insert_at: the duplicate check is over every id ever seen. *)
Insert(id) ==
  /\ id \notin Known
  /\ "presig" \notin files[id]
  /\ Rename("insert", id)

(* consume: the sealed record is read before it is renamed. *)
Consume(id) ==
  /\ id \in live
  /\ "presig" \in files[id]
  /\ Rename("consume", id)

Expire(id) ==
  /\ id \in live
  /\ Rename("expire", id)

(* burn: an id whose production failed, so no record was ever inserted. *)
Burn(id) ==
  /\ id \notin Known
  /\ Rename("burn", id)

Sync ==
  /\ pc \in {"sync", "resync"}
  /\ SyncDir
  /\ pc' = IF pc = "sync" /\ cur.op = "expire" THEN "remove" ELSE "append"
  /\ UNCHANGED <<journalVars, cur, seen, memory, handed, transcript>>

(* expire: the sealed file goes once its tombstone is durable. *)
Remove ==
  /\ pc = "remove"
  /\ "presig" \in files[cur.id]
  /\ Touch("remove", cur.id)
  /\ pc' = "resync"
  /\ UNCHANGED <<journalVars, cur, seen, memory, handed, transcript>>

(* Journal.append, then the in-memory sets, then the operation returns. *)
Return ==
  /\ pc = "append"
  /\ JournalAppend(cur.id, EntryState(cur.op))
  /\ pc' = "ready"
  /\ live' = IF cur.op = "insert" THEN live \cup {cur.id} ELSE live \ {cur.id}
  /\ consumed' = IF cur.op = "consume" THEN consumed \cup {cur.id} ELSE consumed
  /\ expired' = IF cur.op \in {"expire", "burn"} THEN expired \cup {cur.id} ELSE expired
  /\ handed' = IF cur.op = "consume" THEN [handed EXCEPT ![cur.id] = @ + 1] ELSE handed
  /\ signing' = IF cur.op = "consume" THEN signing \cup {cur.id} ELSE signing
  /\ UNCHANGED <<disk, cur, seen, evidence, foreign, readable>>

-----------------------------------------------------------------------------
(* open_mode (with the integrity checks on). *)

(* The scan deletes a record that has a tombstone, then either refuses the  *)
(* store, adopts a directory without a journal, or starts reconciling.      *)
OpenScan ==
  /\ pc = "down"
  /\ seen' \in Scans
  /\ files' = [id \in Id |-> IF Stray(id) THEN WithoutPresig(files[id]) ELSE files[id]]
  /\ views' = [id \in Id |-> views[id] \cup
                  IF Stray(id) THEN {WithoutPresig(v) : v \in views[id]} ELSE {}]
  /\ journal' = TRUE
  /\ ahead' = FALSE
  /\ pc' = IF ~journal THEN "adopting"
           ELSE IF ~log.ok \/ Diverges(seen') THEN "refused"
           ELSE "opening"
  /\ UNCHANGED <<log, logViews, cur, memory, handed, transcript>>

(* One INSERT entry per file found; a tombstone's second entry is a Heal. *)
Adopt(id) ==
  /\ pc = "adopting"
  /\ NeedsAdoption(id)
  /\ JournalAppend(id, "live")
  /\ UNCHANGED <<disk, pc, cur, seen, memory, handed, transcript>>

Heal(id) ==
  /\ pc \in {"adopting", "opening"}
  /\ NeedsHeal(id)
  /\ JournalAppend(id, seen[id])
  /\ UNCHANGED <<disk, pc, cur, seen, memory, handed, transcript>>

Drop(id) ==
  /\ pc = "opening"
  /\ \A other \in Id : ~NeedsHeal(other)
  /\ NeedsDrop(id)
  /\ Touch("remove", id)
  /\ seen' = [seen EXCEPT ![id] = "absent"]
  /\ UNCHANGED <<journalVars, pc, cur, memory, handed, transcript>>

(* sign_evidence_ids: every id that an archived SignShare names, whatever   *)
(* the session it was accepted in.                                          *)
Shown == evidence \cup foreign

JournalOnly ==         \* a mutant of RollbackDetected: believes the journal
  \E id \in Shown : seen[id] = "live" /\ log.at[id] = "consumed"

(* The transcript cross-check: an id that is shown must not be live. *)
RollbackDetected ==
  /\ readable
  /\ \E id \in Shown : seen[id] = "live"

Reconciled ==
  /\ \A id \in Id : ~NeedsHeal(id)
  /\ \/ pc = "adopting" /\ \A id \in Id : ~NeedsAdoption(id)
     \/ pc = "opening"  /\ \A id \in Id : ~NeedsDrop(id)

OpenDone ==
  /\ Reconciled
  /\ IF RollbackDetected
     THEN /\ pc' = "refused"
          /\ UNCHANGED memory
     ELSE /\ pc' = "ready"
          /\ live' = {id \in Id : seen[id] = "live"}
          /\ consumed' = {id \in Id : seen[id] = "consumed"}
          /\ expired' = {id \in Id : seen[id] = "expired"}
  /\ UNCHANGED <<disk, journalVars, cur, seen, handed, transcript>>

-----------------------------------------------------------------------------
(* The archive beside the store: a round logs every envelope it accepted    *)
(* (Archive.log_accepted), before the session looks at what they say.       *)
Archive(own, others) ==
  /\ evidence' = evidence \cup own
  /\ foreign' = (foreign \cup others) \ evidence'
  /\ UNCHANGED <<disk, journalVars, pc, cur, seen, memory, handed, signing, readable>>

LogUnspent(id) ==     \* a mutant: a session that shares before it consumes
  pc \in Running /\ id \in signing \cup live /\ Archive({id}, {})

(* The shares of a session on id, which the node joined by consuming it.    *)
LogAccepted(id) ==
  pc \in Running /\ id \in signing /\ Archive({id}, {})

(* A share that names any other id: the session drops it after it is in the *)
(* archive; to a key-independent session, with ids of a pool that is not    *)
(* this store, it is its own.                                               *)
LogForeign(id) ==
  "foreign" \in Faults /\ pc \in Running /\ Archive({}, {id})

EndSession(id) ==
  /\ pc \in Running
  /\ id \in signing
  /\ signing' = signing \ {id}
  /\ UNCHANGED <<disk, journalVars, pc, cur, seen, memory, handed, evidence, foreign, readable>>

-----------------------------------------------------------------------------
(* What goes wrong. *)

(* The journal entries that the process may be in the middle of appending. *)
NextEntries ==
  {e \in Id \X DiskStates : LET id == e[1]  st == e[2] IN
     \/ pc = "append" /\ id = cur.id /\ st = EntryState(cur.op)
     \/ pc \in {"adopting", "opening"} /\ NeedsHeal(id) /\ st = seen[id]
     \/ pc = "adopting" /\ NeedsAdoption(id) /\ st = "live"}

(* What an append that does not finish may leave in the file: all of the    *)
(* entry, or a part of it (the length and the body are two writes).         *)
Interrupted ==
  {Appended(log, e[1], e[2]) : e \in NextEntries}
  \cup (IF "torn" \in Faults THEN {Torn(log) : e \in NextEntries} ELSE {})

(* The transcript has the same framing and no repair: a record of any round *)
(* that is torn makes read_transcript fail from then on.                    *)
TranscriptAfterCrash ==
  /\ readable' \in IF "torn" \in Faults /\ pc \in Running THEN {FALSE, readable} ELSE {readable}
  /\ signing' = {}
  /\ UNCHANGED <<evidence, foreign>>

Kill ==
  /\ "kill" \in Faults
  /\ pc # "down"
  /\ log' \in {log} \cup Interrupted
  /\ logViews' = logViews \cup {log'}
  /\ pc' = "down"
  /\ TranscriptAfterCrash
  /\ UNCHANGED <<disk, journal, ahead, cur, seen, memory, handed>>

PowerLoss ==
  /\ "power" \in Faults
  /\ files' \in {f \in [Id -> SUBSET Kinds] : \A id \in Id : f[id] \in views[id]}
  /\ views' = [id \in Id |-> {files'[id]}]
  /\ log' \in logViews \cup Interrupted
  /\ logViews' = {log'}
  /\ pc' = "down"
  /\ TranscriptAfterCrash
  /\ UNCHANGED <<journal, ahead, cur, seen, memory, handed>>

(* An error from sync_dir, remove_file or the journal: the operation        *)
(* returns it and the in-memory sets keep their old value; open gives up.   *)
IoError ==
  /\ "io" \in Faults
  /\ pc \in {"sync", "remove", "resync", "append", "adopting", "opening"}
  /\ log' \in {log} \cup Interrupted
  /\ logViews' = logViews \cup {log'}
  /\ ahead' = (ahead \/ log'.at # log.at)
  /\ pc' = IF pc \in {"adopting", "opening"} THEN "down" ELSE "ready"
  /\ UNCHANGED <<disk, journal, cur, seen, memory, handed, transcript>>

-----------------------------------------------------------------------------
Next ==
  \/ \E id \in Id : Insert(id) \/ Consume(id) \/ Expire(id) \/ Burn(id)
  \/ Sync \/ Remove \/ Return
  \/ OpenScan \/ OpenDone
  \/ \E id \in Id : Adopt(id) \/ Heal(id) \/ Drop(id)
  \/ \E id \in Id : LogAccepted(id) \/ LogForeign(id) \/ EndSession(id)
  \/ Kill \/ PowerLoss \/ IoError

Spec == Init /\ [][Next]_vars

-----------------------------------------------------------------------------
(* Properties *)

TypeOK ==
  /\ files \in [Id -> SUBSET Kinds]
  /\ views \in [Id -> SUBSET SUBSET Kinds]
  /\ journal \in BOOLEAN
  /\ log \in Log
  /\ logViews \subseteq Log
  /\ ahead \in BOOLEAN
  /\ pc \in {"down", "adopting", "opening", "ready", "sync", "remove", "resync",
             "append", "refused"}
  /\ cur \in [op: Ops, id: Id]
  /\ seen \in [Id -> DiskStates]
  /\ live \subseteq Id /\ consumed \subseteq Id /\ expired \subseteq Id
  /\ handed \in [Id -> Nat]
  /\ signing \subseteq Id /\ evidence \subseteq Id /\ foreign \subseteq Id
  /\ readable \in BOOLEAN

(* 8.6(1), "a consumed id stays consumed across a kill/restart": whatever   *)
(* the faults, consume returns the record of an id at most once.            *)
HandedOutOnce == \A id \in Id : handed[id] <= 1

(* Why: before the record leaves consume, its tombstone is in every         *)
(* directory a power failure can reveal, and no operation removes it.       *)
SpentIsDurable ==
  \A id \in Id : handed[id] > 0 => \A v \in views[id] \cup {files[id]} : "consumed" \in v

(* The transcript cross-check of open raises no false alarm over the ids    *)
(* that were signed with: without a restored backup, no id that its own     *)
(* session shows as spent is live again, whatever was torn or lost.  What   *)
(* alarm there is comes from a share that names an id of another session.   *)
NoFalseRollback ==
  pc \in {"adopting", "opening"} => \A id \in evidence : seen[id] # "live"

(* A store that was interrupted opens again (the safe-direction             *)
(* reconciliation of open covers every crash window), even when writes are  *)
(* torn and system calls fail: what keeps it from opening is a journal that *)
(* no longer replays, an id with two tombstones (after an error an          *)
(* operation can be called again), or a share accepted in another session   *)
(* that names a live id.                                                    *)
RefusedOnlyDamaged ==
  pc = "refused" =>
    \/ ~log.ok
    \/ \E id \in Id : {"consumed", "expired"} \subseteq files[id]
    \/ readable /\ \E id \in foreign : seen[id] = "live"

Status(id) ==
  IF handed[id] > 0 THEN "handed"
  ELSE IF id \in live THEN "stored"
  ELSE IF id \in consumed \cup expired THEN "burned"
  ELSE "absent"

Promise == INSTANCE SingleUse WITH status <- [id \in Id |-> Status(id)], out <- handed

(* The store implements what it promises: nothing stored is forgotten,      *)
(* nothing spent or burned comes back.                                      *)
ImplementsSingleUse == Promise!Spec
=============================================================================
