-------------------------- MODULE DiskStoreRollback --------------------------
(***************************************************************************)
(* The store under an operator who restores a backup of its directory: the *)
(* records, the tombstones and the journal go back together, the           *)
(* transcript archive beside them does not (persist.rs, "A4 rollback       *)
(* detection").  A backup is taken of an idle store and restored while the *)
(* process is stopped.                                                     *)
(*                                                                         *)
(* A backup may predate the insertion of an id, which the restored store   *)
(* then no longer knows.  Storing that id again stores another record, so  *)
(* it says nothing of the reuse of a record; it is left out (minted).      *)
(***************************************************************************)
EXTENDS DiskStore

CONSTANT MaxRestores        \* bounds the number of restores
ASSUME MaxRestoresAssumption == MaxRestores \in Nat

VARIABLES
  backup,       \* the last copy of the store directory
  restores,     \* how many times it was put back
  minted        \* ids that were ever stored

rollbackVars == <<vars, backup, restores, minted>>

Directory == [files |-> files, journal |-> journal, log |-> log]

InitR ==
  /\ Init
  /\ backup = Directory
  /\ restores = 0
  /\ minted = {}

TakeBackup ==
  /\ pc = "ready"
  /\ backup' = Directory
  /\ UNCHANGED <<vars, restores, minted>>

Restore ==
  /\ pc = "down"
  /\ restores < MaxRestores
  /\ restores' = restores + 1
  /\ files' = backup.files
  /\ views' = [id \in Id |-> {backup.files[id]}]
  /\ journal' = backup.journal
  /\ log' = backup.log
  /\ logViews' = {backup.log}
  /\ UNCHANGED <<ahead, pc, cur, seen, memory, handed, transcript, backup, minted>>

StoreStep ==
  /\ Next
  /\ pc = "ready" /\ pc' = "sync" /\ cur'.op = "insert" => cur'.id \notin minted
  /\ minted' = minted \cup {id \in Id : "presig" \in files'[id]}
  /\ UNCHANGED <<backup, restores>>

NextR == StoreStep \/ TakeBackup \/ Restore

SpecR == InitR /\ [][NextR]_rollbackVars

-----------------------------------------------------------------------------
(* Properties *)

(* The cross-check of open works: once a readable transcript shows a share  *)
(* of the session that consumed an id, no restored backup gets its record   *)
(* handed out again.  Shares of other sessions that name live ids (foreign) *)
(* say nothing of the id: it is handed out after them, if the store is not  *)
(* opened in between.                                                       *)
EvidencedOnce ==
  [][\A id \in evidence : readable => handed'[id] = handed[id]]_rollbackVars
=============================================================================
