--------------------------- MODULE DiskStore_proofs ---------------------------
(***************************************************************************)
(* Proofs about DiskStore, for every set of ids, every set of faults and   *)
(* with or without a pre-journal directory: a record is handed out at most *)
(* once, its tombstone is durable before that, and the transcript check of *)
(* open raises no alarm over an id that its own session shows as spent.    *)
(*                                                                         *)
(* The invariant is about ids whose record was handed out: the tombstone   *)
(* is in every view of the directory, so a scan sees it (SeenSpent) and    *)
(* the process knows it (KnownSpent); and about the operation under way,   *)
(* which consumes a record that was not handed out yet (Busy).             *)
(***************************************************************************)
EXTENDS DiskStoreRollback, TLAPS

Spent(id) == handed[id] > 0

Working == {"sync", "remove", "resync", "append"}

KnownSpent ==
  pc \in {"ready"} \cup Working =>
    \A id \in Id : Spent(id) => id \notin live /\ id \in consumed \cup expired

SeenSpent ==
  pc \in {"adopting", "opening"} =>
    \A id \in Id : Spent(id) => seen[id] \in {"consumed", "expired"}

Busy ==
  pc \in Working =>
    /\ cur.op = "insert" => ~Spent(cur.id)
    /\ cur.op = "consume" => cur.id \in live /\ "consumed" \in files[cur.id]
    /\ cur.op = "consume" /\ pc = "append" => \A v \in views[cur.id] : "consumed" \in v

LoggedSpent == \A id \in signing \cup evidence : Spent(id)

IInv ==
  /\ TypeOK
  /\ HandedOutOnce
  /\ SpentIsDurable
  /\ KnownSpent
  /\ SeenSpent
  /\ Busy
  /\ LoggedSpent
-----------------------------------------------------------------------------
(* Types *)

(* Journal appends, finished or interrupted, leave a journal. *)
LEMMA AppendedType ==
  ASSUME NEW l \in Log, NEW id \in Id, NEW st \in DiskStates
  PROVE  Appended(l, id, st) \in Log
  BY DEF Appended, Log

LEMMA EntryStateType ==
  ASSUME NEW op \in Ops
  PROVE  EntryState(op) \in DiskStates
  BY DEF EntryState, Ops, DiskStates

LEMMA InterruptedType ==
  ASSUME TypeOK
  PROVE  Interrupted \subseteq Log
<1>1. \A e \in NextEntries : e[1] \in Id /\ e[2] \in DiskStates
  BY EntryStateType DEF TypeOK, NextEntries, DiskStates
<1>2. \A e \in NextEntries : Appended(log, e[1], e[2]) \in Log
  BY <1>1, AppendedType DEF TypeOK
<1>3. Torn(log) \in Log
  BY DEF TypeOK, Torn, Log
<1> QED
  BY <1>2, <1>3 DEF Interrupted

LEMMA InitType == Init => TypeOK
<1> SUFFICES ASSUME Init PROVE TypeOK
  OBVIOUS
<1>1. files \in [Id -> SUBSET Kinds] /\ views \in [Id -> SUBSET SUBSET Kinds]
  <2>1. InitialFiles \subseteq SUBSET Kinds
    BY DEF InitialFiles, Kinds
  <2> QED
    BY <2>1 DEF Init
<1>2. EmptyLog \in Log
  BY DEF EmptyLog, Log, DiskStates
<1>3. cur \in [op: Ops, id: Id]
  BY IdAssumption DEF Init, Ops
<1> QED
  BY <1>1, <1>2, <1>3 DEF Init, TypeOK, DiskStates

LEMMA NextType == TypeOK /\ [Next]_vars => TypeOK'
<1> SUFFICES ASSUME TypeOK, [Next]_vars PROVE TypeOK'
  OBVIOUS
<1>1. ASSUME NEW op \in Ops, NEW id \in Id, Rename(op, id) PROVE TypeOK'
  <2>1. \A f \in SUBSET Kinds : Artifact(op, f) \in SUBSET Kinds
    BY DEF Artifact, WithoutPresig, Kinds
  <2>2. files' \in [Id -> SUBSET Kinds] /\ views' \in [Id -> SUBSET SUBSET Kinds]
    BY <1>1, <2>1 DEF Rename, Touch, TypeOK
  <2> QED
    BY <1>1, <2>2 DEF Rename, TypeOK, journalVars, memory, transcript
<1>2. CASE Sync
  BY <1>2 DEF Sync, SyncDir, TypeOK, journalVars, memory, transcript
<1>3. CASE Remove
  BY <1>3 DEF Remove, Touch, Artifact, WithoutPresig, TypeOK, journalVars, memory, transcript
<1>4. ASSUME NEW id \in Id, NEW st \in DiskStates, JournalAppend(id, st)
      PROVE  log' \in Log /\ logViews' \subseteq Log /\ journal' \in BOOLEAN /\ ahead' \in BOOLEAN
  BY <1>4, AppendedType DEF JournalAppend, TypeOK
<1>5. CASE Return
  <2>1. log' \in Log /\ logViews' \subseteq Log /\ journal' \in BOOLEAN /\ ahead' \in BOOLEAN
    BY <1>4, <1>5, EntryStateType DEF Return, TypeOK
  <2>2. live' \subseteq Id /\ consumed' \subseteq Id /\ expired' \subseteq Id
    BY <1>5 DEF Return, TypeOK
  <2>3. handed' \in [Id -> Nat] /\ signing' \subseteq Id
    BY <1>5 DEF Return, TypeOK
  <2> QED
    BY <1>5, <2>1, <2>2, <2>3 DEF Return, TypeOK, disk
<1>6. CASE OpenScan
  <2>1. seen' \in [Id -> DiskStates]
    BY <1>6 DEF OpenScan, Scans
  <2>2. files' \in [Id -> SUBSET Kinds] /\ views' \in [Id -> SUBSET SUBSET Kinds]
    BY <1>6 DEF OpenScan, WithoutPresig, TypeOK
  <2> QED
    BY <1>6, <2>1, <2>2 DEF OpenScan, TypeOK, memory, transcript
<1>7. CASE OpenDone
  BY <1>7 DEF OpenDone, TypeOK, disk, journalVars, memory, transcript
<1>8. ASSUME NEW id \in Id, Adopt(id) PROVE TypeOK'
  BY <1>4, <1>8 DEF Adopt, TypeOK, DiskStates, disk, memory, transcript
<1>9. ASSUME NEW id \in Id, Heal(id) PROVE TypeOK'
  BY <1>4, <1>9 DEF Heal, TypeOK, disk, memory, transcript
<1>10. ASSUME NEW id \in Id, Drop(id) PROVE TypeOK'
  BY <1>10 DEF Drop, Touch, Artifact, WithoutPresig, TypeOK, DiskStates, journalVars, memory, transcript
<1>11. ASSUME NEW id \in Id, LogAccepted(id) \/ LogForeign(id) PROVE TypeOK'
  BY <1>11 DEF LogAccepted, LogForeign, Archive, TypeOK, disk, journalVars, memory
<1>12. ASSUME NEW id \in Id, EndSession(id) PROVE TypeOK'
  BY <1>12 DEF EndSession, TypeOK, disk, journalVars, memory
<1>13. CASE Kill
  BY <1>13, InterruptedType DEF Kill, TranscriptAfterCrash, TypeOK, disk, memory
<1>14. CASE PowerLoss
  <2>1. log' \in Log /\ logViews' \subseteq Log
    BY <1>14, InterruptedType DEF PowerLoss, TypeOK
  <2>2. files' \in [Id -> SUBSET Kinds] /\ views' \in [Id -> SUBSET SUBSET Kinds]
    BY <1>14 DEF PowerLoss, TypeOK
  <2> QED
    BY <1>14, <2>1, <2>2 DEF PowerLoss, TranscriptAfterCrash, TypeOK, memory
<1>15. CASE IoError
  BY <1>15, InterruptedType DEF IoError, TypeOK, disk, memory, transcript
<1>16. CASE UNCHANGED vars
  BY <1>16 DEF vars, TypeOK
<1> QED
  BY <1>1, <1>2, <1>3, <1>5, <1>6, <1>7, <1>8, <1>9, <1>10, <1>11, <1>12, <1>13, <1>14,
     <1>15, <1>16 DEF Next, Insert, Consume, Expire, Burn, Ops

(* Every run of the store keeps its types. *)
THEOREM TypeCorrect == Spec => []TypeOK
  BY InitType, NextType, PTL DEF Spec

-----------------------------------------------------------------------------
(* Single use *)

LEMMA InitInv == Init => IInv
<1> SUFFICES ASSUME Init PROVE IInv
  OBVIOUS
<1>1. \A id \in Id : handed[id] = 0
  BY DEF Init
<1>2. TypeOK
  BY InitType
<1>3. pc = "down" /\ signing = {} /\ evidence = {}
  BY DEF Init
<1> QED
  BY <1>1, <1>2, <1>3 DEF IInv, HandedOutOnce, SpentIsDurable, KnownSpent, SeenSpent, Busy,
     LoggedSpent, Spent, Working

(* A step that hands out nothing and leaves the sessions and the transcript *)
(* alone disturbs only what it says about the directory and the process.    *)
LEMMA Quiet ==
  ASSUME HandedOutOnce, LoggedSpent, UNCHANGED handed,
         signing' \cup evidence' \subseteq signing \cup evidence
  PROVE  HandedOutOnce' /\ LoggedSpent' /\ \A id \in Id : Spent(id)' <=> Spent(id)
  BY DEF HandedOutOnce, LoggedSpent, Spent

(* No effect on the directory takes a consume tombstone away. *)
LEMMA ArtifactKeepsTombstone ==
  ASSUME NEW op, NEW f, "consumed" \in f
  PROVE  "consumed" \in Artifact(op, f)
  BY DEF Artifact, WithoutPresig

LEMMA TouchKeepsTombstones ==
  ASSUME TypeOK, SpentIsDurable, UNCHANGED handed, NEW op, NEW id \in Id, Touch(op, id)
  PROVE  SpentIsDurable'
<1> SUFFICES ASSUME NEW i \in Id, handed[i] > 0,
                    NEW v \in views'[i] \cup {files'[i]}
             PROVE  "consumed" \in v
  BY DEF SpentIsDurable
<1>1. \A w \in views[i] \cup {files[i]} : "consumed" \in w
  BY DEF SpentIsDurable
<1>2. CASE i = id
  <2>1. v \in views[i] \/ \E w \in views[i] \cup {files[i]} : v = Artifact(op, w)
    BY <1>2 DEF Touch, TypeOK
  <2> QED
    BY <1>1, <2>1, ArtifactKeepsTombstone
<1>3. CASE i # id
  BY <1>1, <1>3 DEF Touch, TypeOK
<1> QED
  BY <1>2, <1>3

LEMMA RenameInv ==
  ASSUME IInv, NEW op \in Ops, NEW id \in Id, Rename(op, id), TypeOK',
         op = "insert" => id \notin Known,
         op = "consume" => id \in live
  PROVE  IInv'
<1> USE DEF IInv
<1>1. UNCHANGED <<handed, signing, evidence, live, consumed, expired>>
  BY DEF Rename, memory, transcript
<1>2. pc = "ready" /\ pc' = "sync" /\ cur' = [op |-> op, id |-> id]
  BY DEF Rename
<1>3. HandedOutOnce' /\ LoggedSpent' /\ \A i \in Id : Spent(i)' <=> Spent(i)
  BY <1>1, Quiet
<1>4. SpentIsDurable'
  BY <1>1, TouchKeepsTombstones DEF Rename
<1>5. KnownSpent' /\ SeenSpent'
  BY <1>1, <1>2, <1>3 DEF KnownSpent, SeenSpent, Working
<1>6. Busy'
  <2>1. op = "insert" => ~Spent(id)
    BY <1>2 DEF KnownSpent, Known
  <2>2. op = "consume" => "consumed" \in files'[id]
    BY DEF Rename, Touch, Artifact, TypeOK
  <2> QED
    BY <1>1, <1>2, <2>1, <2>2 DEF Busy, Spent
<1> QED
  BY <1>3, <1>4, <1>5, <1>6

LEMMA SyncInv == ASSUME IInv, Sync, TypeOK' PROVE IInv'
<1> USE DEF IInv
<1>1. UNCHANGED <<handed, signing, evidence, live, consumed, expired, cur, files>>
  BY DEF Sync, SyncDir, memory, transcript
<1>2. pc \in Working /\ pc' \in {"remove", "append"}
  BY DEF Sync, Working
<1>3. \A i \in Id : views'[i] = {files[i]}
  BY DEF Sync, SyncDir
<1>4. HandedOutOnce' /\ LoggedSpent' /\ \A i \in Id : Spent(i)' <=> Spent(i)
  BY <1>1, Quiet
<1>5. SpentIsDurable'
  BY <1>1, <1>3 DEF SpentIsDurable
<1>6. KnownSpent' /\ SeenSpent'
  BY <1>1, <1>2, <1>4 DEF KnownSpent, SeenSpent, Working
<1>7. Busy'
  BY <1>1, <1>2, <1>3, <1>4 DEF Busy, Spent, Working, TypeOK
<1> QED
  BY <1>4, <1>5, <1>6, <1>7

LEMMA RemoveInv == ASSUME IInv, Remove, TypeOK' PROVE IInv'
<1> USE DEF IInv
<1>1. UNCHANGED <<handed, signing, evidence, live, consumed, expired, cur>>
  BY DEF Remove, memory, transcript
<1>2. pc \in Working /\ pc' = "resync" /\ cur.id \in Id
  BY DEF Remove, Working, TypeOK
<1>3. HandedOutOnce' /\ LoggedSpent' /\ \A i \in Id : Spent(i)' <=> Spent(i)
  BY <1>1, Quiet
<1>4. SpentIsDurable'
  BY <1>1, <1>2, TouchKeepsTombstones DEF Remove
<1>5. KnownSpent' /\ SeenSpent'
  BY <1>1, <1>2, <1>3 DEF KnownSpent, SeenSpent, Working
<1>6. Busy'
  BY <1>1, <1>2, <1>3 DEF Busy, Spent, Working, Remove, Touch, Artifact, WithoutPresig, TypeOK
<1> QED
  BY <1>3, <1>4, <1>5, <1>6

(* The record leaves the store here: its id is live, so it was not handed   *)
(* out before, and its tombstone is in every view of the directory.         *)
LEMMA ReturnInv == ASSUME IInv, Return, TypeOK' PROVE IInv'
<1> USE DEF IInv
<1>1. pc = "append" /\ pc' = "ready" /\ cur.id \in Id /\ UNCHANGED <<files, views, evidence>>
  BY DEF Return, TypeOK, disk
<1>2. cur.op = "consume" => cur.id \in live /\ handed[cur.id] = 0
  BY <1>1 DEF Busy, KnownSpent, Working, Spent, TypeOK
<1>3. HandedOutOnce'
  <2>1. CASE cur.op = "consume"
    BY <1>1, <1>2, <2>1 DEF Return, HandedOutOnce, TypeOK
  <2>2. CASE cur.op # "consume"
    BY <2>2 DEF Return, HandedOutOnce
  <2> QED
    BY <2>1, <2>2
<1>4. \A i \in Id : Spent(i)' => Spent(i) \/ (cur.op = "consume" /\ i = cur.id)
  BY DEF Return, Spent, TypeOK
<1>5. SpentIsDurable'
  <2>1. cur.op = "consume" => \A v \in views[cur.id] \cup {files[cur.id]} : "consumed" \in v
    BY <1>1 DEF Busy, Working
  <2> QED
    BY <1>1, <1>4, <2>1 DEF SpentIsDurable, Spent
<1>6. KnownSpent'
  <2> SUFFICES ASSUME NEW i \in Id, Spent(i)'
               PROVE  i \notin live' /\ i \in consumed' \cup expired'
    BY DEF KnownSpent
  <2>1. CASE cur.op = "consume" /\ i = cur.id
    BY <2>1 DEF Return
  <2>2. CASE Spent(i)
    <3>1. i \notin live /\ i \in consumed \cup expired
      BY <1>1, <2>2 DEF KnownSpent, Working
    <3>2. cur.op = "insert" => i # cur.id
      BY <1>1, <2>2 DEF Busy, Working
    <3> QED
      BY <3>1, <3>2 DEF Return
  <2> QED
    BY <1>4, <2>1, <2>2
<1>7. SeenSpent' /\ Busy'
  BY <1>1 DEF SeenSpent, Busy, Working
<1>8. LoggedSpent'
  <2>1. \A i \in Id : Spent(i) => Spent(i)'
    BY DEF Return, Spent, TypeOK
  <2>2. cur.op = "consume" => Spent(cur.id)'
    BY <1>1 DEF Return, Spent, TypeOK
  <2> QED
    BY <1>1, <2>1, <2>2 DEF Return, LoggedSpent, TypeOK
<1> QED
  BY <1>3, <1>5, <1>6, <1>7, <1>8

(* A scan finds the tombstone of every spent id. *)
LEMMA OpenScanInv == ASSUME IInv, OpenScan, TypeOK' PROVE IInv'
<1> USE DEF IInv
<1>1. UNCHANGED <<handed, signing, evidence, live, consumed, expired, cur>>
  BY DEF OpenScan, memory, transcript
<1>2. pc' \in {"adopting", "opening", "refused"}
  BY DEF OpenScan
<1>3. HandedOutOnce' /\ LoggedSpent' /\ \A i \in Id : Spent(i)' <=> Spent(i)
  BY <1>1, Quiet
<1>4. SpentIsDurable'
  <2> SUFFICES ASSUME NEW i \in Id, handed[i] > 0,
                      NEW v \in views'[i] \cup {files'[i]}
               PROVE  "consumed" \in v
    BY <1>1 DEF SpentIsDurable
  <2>1. \A w \in views[i] \cup {files[i]} : "consumed" \in w
    BY DEF SpentIsDurable
  <2>2. \A w \in views[i] \cup {files[i]} : "consumed" \in WithoutPresig(w)
    BY <2>1 DEF WithoutPresig
  <2>3. \/ v \in views[i] \cup {files[i]}
        \/ \E w \in views[i] \cup {files[i]} : v = WithoutPresig(w)
    BY DEF OpenScan
  <2> QED
    BY <2>1, <2>2, <2>3
<1>5. SeenSpent'
  <2> SUFFICES ASSUME NEW i \in Id, Spent(i) PROVE seen'[i] \in {"consumed", "expired"}
    BY <1>3 DEF SeenSpent
  <2>1. "consumed" \in files[i]
    BY DEF SpentIsDurable, Spent
  <2>2. seen'[i] \in ScanStates(files[i])
    BY DEF OpenScan, Scans
  <2> QED
    BY <2>1, <2>2 DEF ScanStates, Tombstoned
<1>6. KnownSpent' /\ Busy'
  BY <1>2 DEF KnownSpent, Busy, Working
<1> QED
  BY <1>3, <1>4, <1>5, <1>6

LEMMA OpenDoneInv == ASSUME IInv, OpenDone, TypeOK' PROVE IInv'
<1> USE DEF IInv
<1>1. UNCHANGED <<handed, signing, evidence, files, views, seen>>
  BY DEF OpenDone, disk, transcript
<1>2. pc \in {"adopting", "opening"} /\ pc' \in {"ready", "refused"}
  BY DEF OpenDone, Reconciled
<1>3. HandedOutOnce' /\ LoggedSpent' /\ \A i \in Id : Spent(i)' <=> Spent(i)
  BY <1>1, Quiet
<1>4. SpentIsDurable' /\ SeenSpent' /\ Busy'
  BY <1>1, <1>2 DEF SpentIsDurable, SeenSpent, Busy, Working
<1>5. KnownSpent'
  <2> SUFFICES ASSUME NEW i \in Id, Spent(i), pc' = "ready"
               PROVE  i \notin live' /\ i \in consumed' \cup expired'
    BY <1>2, <1>3 DEF KnownSpent, Working
  <2>1. seen[i] \in {"consumed", "expired"}
    BY <1>2 DEF SeenSpent
  <2> QED
    BY <2>1 DEF OpenDone
<1> QED
  BY <1>3, <1>4, <1>5

LEMMA AdoptHealInv ==
  ASSUME IInv, NEW id \in Id, Adopt(id) \/ Heal(id), TypeOK'
  PROVE  IInv'
<1>1. UNCHANGED <<handed, signing, evidence, readable, live, consumed, expired, cur, files,
                  views, seen, pc>>
  BY DEF Adopt, Heal, disk, memory, transcript
<1> QED
  BY <1>1 DEF IInv, HandedOutOnce, LoggedSpent, SpentIsDurable, KnownSpent, SeenSpent, Busy,
     Spent, Working

LEMMA DropInv == ASSUME IInv, NEW id \in Id, Drop(id), TypeOK' PROVE IInv'
<1> USE DEF IInv
<1>1. UNCHANGED <<handed, signing, evidence, live, consumed, expired, cur, pc>> /\ pc = "opening"
  BY DEF Drop, memory, transcript
<1>2. HandedOutOnce' /\ LoggedSpent' /\ \A i \in Id : Spent(i)' <=> Spent(i)
  BY <1>1, Quiet
<1>3. SpentIsDurable'
  BY <1>1, TouchKeepsTombstones DEF Drop
<1>4. ~Spent(id)
  BY <1>1 DEF SeenSpent, Drop, NeedsDrop
<1>5. SeenSpent'
  BY <1>1, <1>2, <1>4 DEF SeenSpent, Drop, TypeOK
<1>6. KnownSpent' /\ Busy'
  BY <1>1 DEF KnownSpent, Busy, Working
<1> QED
  BY <1>2, <1>3, <1>5, <1>6

LEMMA SessionInv ==
  ASSUME IInv, NEW id \in Id, LogAccepted(id) \/ LogForeign(id) \/ EndSession(id), TypeOK'
  PROVE  IInv'
<1> USE DEF IInv
<1>1. UNCHANGED <<handed, live, consumed, expired, cur, files, views, seen, pc>>
  BY DEF LogAccepted, LogForeign, Archive, EndSession, disk, memory
<1>2. signing' \cup evidence' \subseteq signing \cup evidence
  BY DEF LogAccepted, LogForeign, Archive, EndSession
<1>3. HandedOutOnce' /\ LoggedSpent' /\ \A i \in Id : Spent(i)' <=> Spent(i)
  BY <1>1, <1>2, Quiet
<1>4. SpentIsDurable'
  BY <1>1 DEF SpentIsDurable
<1>5. KnownSpent'
  BY <1>1, <1>3 DEF KnownSpent
<1>6. Busy'
  BY <1>1 DEF Busy, Spent
<1>7. SeenSpent'
  BY <1>1, <1>3 DEF SeenSpent
<1> QED
  BY <1>3, <1>4, <1>5, <1>6, <1>7

(* Whatever a crash leaves of the directory, the tombstones are part of it. *)
LEMMA CrashInv == ASSUME IInv, Kill \/ PowerLoss, TypeOK' PROVE IInv'
<1> USE DEF IInv
<1>1. UNCHANGED handed /\ pc' = "down" /\ signing' \cup evidence' \subseteq signing \cup evidence
  BY DEF Kill, PowerLoss, TranscriptAfterCrash
<1>2. HandedOutOnce' /\ LoggedSpent'
  BY <1>1, Quiet
<1>3. SpentIsDurable'
  <2>1. CASE Kill
    BY <2>1 DEF Kill, disk, SpentIsDurable
  <2>2. CASE PowerLoss
    BY <2>2 DEF PowerLoss, SpentIsDurable
  <2> QED
    BY <2>1, <2>2
<1> QED
  BY <1>1, <1>2, <1>3 DEF KnownSpent, SeenSpent, Busy, Working

LEMMA IoErrorInv == ASSUME IInv, IoError, TypeOK' PROVE IInv'
<1> USE DEF IInv
<1>1. UNCHANGED <<handed, signing, evidence, live, consumed, expired, cur, files, views, seen>>
  BY DEF IoError, disk, memory, transcript
<1>2. \/ pc \in Working /\ pc' = "ready"
      \/ pc' = "down"
  BY DEF IoError, Working
<1>3. HandedOutOnce' /\ LoggedSpent' /\ \A i \in Id : Spent(i)' <=> Spent(i)
  BY <1>1, Quiet
<1> QED
  BY <1>1, <1>2, <1>3 DEF SpentIsDurable, KnownSpent, SeenSpent, Busy, Working

LEMMA NextInv == IInv /\ [Next]_vars => IInv'
<1> SUFFICES ASSUME IInv, [Next]_vars PROVE IInv'
  OBVIOUS
<1>1. TypeOK'
  BY NextType DEF IInv
<1>2. ASSUME NEW id \in Id, Insert(id) PROVE IInv'
  BY <1>1, <1>2, RenameInv DEF Insert, Ops
<1>3. ASSUME NEW id \in Id, Consume(id) PROVE IInv'
  BY <1>1, <1>3, RenameInv DEF Consume, Ops
<1>4. ASSUME NEW id \in Id, Expire(id) PROVE IInv'
  BY <1>1, <1>4, RenameInv DEF Expire, Ops
<1>5. ASSUME NEW id \in Id, Burn(id) PROVE IInv'
  BY <1>1, <1>5, RenameInv DEF Burn, Ops
<1>6. CASE UNCHANGED vars
  BY <1>6 DEF vars, IInv, TypeOK, HandedOutOnce, LoggedSpent, SpentIsDurable, KnownSpent,
     SeenSpent, Busy, Spent, Working
<1> QED
  BY <1>1, <1>2, <1>3, <1>4, <1>5, <1>6, SyncInv, RemoveInv, ReturnInv, OpenScanInv,
     OpenDoneInv, AdoptHealInv, DropInv, SessionInv, CrashInv, IoErrorInv DEF Next

LEMMA Invariance == Spec => []IInv
  BY InitInv, NextInv, PTL DEF Spec

(* persist.rs: consume hands the record of an id out at most once, across   *)
(* kills, power failures, I/O errors and torn journal entries.              *)
THEOREM SingleUseTheorem == Spec => []HandedOutOnce
<1>1. IInv => HandedOutOnce
  BY DEF IInv
<1> QED
  BY <1>1, Invariance, PTL

(* persist.rs, consume: the tombstone is durable before the record is       *)
(* returned, and stays so.                                                  *)
THEOREM DurabilityTheorem == Spec => []SpentIsDurable
<1>1. IInv => SpentIsDurable
  BY DEF IInv
<1> QED
  BY <1>1, Invariance, PTL

(* persist.rs, open_mode: whatever interrupted the store, its scan finds no *)
(* id live that was signed with and whose session is in the transcript; an  *)
(* alarm without a restored backup comes from a share of another session.   *)
THEOREM NoFalseRollbackTheorem == Spec => []NoFalseRollback
<1>1. IInv => NoFalseRollback
  <2> SUFFICES ASSUME IInv, pc \in {"adopting", "opening"}, NEW id \in evidence,
                      seen[id] = "live"
               PROVE  FALSE
    BY DEF NoFalseRollback
  <2>1. Spent(id) /\ id \in Id
    BY DEF IInv, LoggedSpent, TypeOK
  <2> QED
    BY <2>1 DEF IInv, SeenSpent
<1> QED
  BY <1>1, Invariance, PTL

-----------------------------------------------------------------------------
(***************************************************************************)
(* The promise. DiskStore keeps the promise of SingleUse, and opens again  *)
(* after every kill, torn write or I/O error, as long as the page cache    *)
(* survives (no power failure).                                            *)
(*                                                                         *)
(* The invariant FInv ties what the process believes, and what the journal *)
(* says, to the files: a journal entry has its file (Accounted), the scan  *)
(* of an open that is under way is still true (Scanned), and a stored or   *)
(* spent id can be told from the files (Backed).                           *)
(***************************************************************************)

Accounted ==
  \A id \in Id :
    /\ log.at[id] = "live" => files[id] # {}
    /\ log.at[id] \in {"consumed", "expired"} => log.at[id] \in files[id]

Scanned == pc \in {"adopting", "opening"} => seen \in Scans

(* The effect of the operation under way is in the directory.              *)
UnderWay ==
  /\ pc \in Working =>
       /\ cur.op = "insert" => "presig" \in files[cur.id] /\ cur.id \notin Known
       /\ cur.op = "consume" => "consumed" \in files[cur.id] /\ cur.id \in live
       /\ cur.op = "expire" => "expired" \in files[cur.id] /\ cur.id \in live
       /\ cur.op = "burn" => "expired" \in files[cur.id] /\ cur.id \notin Known
  /\ pc \in {"remove", "resync"} => cur.op = "expire"

(* What the process knows (or knew, until it stopped) is in the directory, *)
(* and open drops no record that it stored.                                *)
Backed ==
  /\ live \cap (consumed \cup expired) = {}
  /\ \A id \in live : files[id] # {} /\ (log.ok => log.at[id] # "absent")
  /\ \A id \in consumed \cup expired : Tombstoned(files[id])

FirstOpen ==
  /\ ~journal => pc = "down"
  /\ ~journal \/ pc = "adopting" => Known = {}
  /\ pc = "opening" => log.ok /\ ~ahead

FInv == IInv /\ Accounted /\ Scanned /\ UnderWay /\ Backed /\ FirstOpen

NoPower == "power" \notin Faults

LEMMA InitFInv == Init => FInv
<1> SUFFICES ASSUME Init PROVE FInv
  OBVIOUS
<1>1. \A id \in Id : log.at[id] = "absent"
  BY DEF Init, EmptyLog
<1>2. pc = "down" /\ journal = FALSE /\ Known = {}
  BY DEF Init, Known
<1> QED
  BY <1>1, <1>2, InitInv
     DEF FInv, Accounted, Scanned, UnderWay, Working, Backed, FirstOpen, Known

-----------------------------------------------------------------------------
(* The journal *)

Entries == {"live", "consumed", "expired"}
Tombstones == {"consumed", "expired"}

(* Every entry that is appended, or may be, has its file.                  *)
LEMMA EntrySound ==
  ASSUME TypeOK, Scanned, UnderWay, NEW e \in NextEntries
  PROVE  /\ e[1] \in Id /\ e[2] \in Entries
         /\ e[2] = "live" => files[e[1]] # {}
         /\ e[2] \in Tombstones => e[2] \in files[e[1]]
<1>1. CASE pc = "append" /\ e[1] = cur.id /\ e[2] = EntryState(cur.op)
  <2>1. cur.id \in Id /\ cur.op \in Ops
    BY DEF TypeOK
  <2>2. pc \in Working
    BY <1>1 DEF Working
  <2> QED
    BY <1>1, <2>1, <2>2 DEF UnderWay, EntryState, Ops, Entries, Tombstones
<1>2. ASSUME pc \in {"adopting", "opening"}, e[1] \in Id
      PROVE  seen[e[1]] \in ScanStates(files[e[1]])
  BY <1>2 DEF Scanned, Scans
<1>3. CASE pc \in {"adopting", "opening"} /\ NeedsHeal(e[1]) /\ e[2] = seen[e[1]]
  BY <1>2, <1>3 DEF NextEntries, NeedsHeal, ScanStates, Entries, Tombstones
<1>4. CASE pc = "adopting" /\ NeedsAdoption(e[1]) /\ e[2] = "live"
  BY <1>2, <1>4 DEF NextEntries, NeedsAdoption, ScanStates, Tombstoned, Entries, Tombstones
<1> QED
  BY <1>1, <1>3, <1>4 DEF NextEntries

(* What an append, finished or not, does to the journal.                   *)
LEMMA LogStep ==
  ASSUME TypeOK, Scanned, UnderWay, Accounted, log' \in {log} \cup Interrupted, UNCHANGED files
  PROVE  /\ Accounted'
         /\ \A id \in Id : log.at[id] # "absent" => log'.at[id] # "absent"
         /\ log'.ok => log.ok
<1>1. CASE log' = log
  BY <1>1 DEF Accounted
<1>2. ASSUME NEW e \in NextEntries, log' = Appended(log, e[1], e[2])
      PROVE  /\ Accounted'
             /\ \A id \in Id : log.at[id] # "absent" => log'.at[id] # "absent"
             /\ log'.ok => log.ok
  <2>1. log \in Log /\ e[1] \in Id /\ e[2] \in Entries
    BY EntrySound DEF TypeOK
  <2>2. \/ log' = [log EXCEPT !.at[e[1]] = e[2]] /\ log.ok
        \/ log' = [log EXCEPT !.ok = FALSE]
    BY <1>2 DEF Appended
  <2>3. \A id \in Id : log'.at[id] = log.at[id] \/ (id = e[1] /\ log'.at[id] = e[2])
    BY <2>1, <2>2 DEF Log
  <2>4. log'.ok => log.ok
    BY <2>1, <2>2 DEF Log
  <2> QED
    BY <2>1, <2>3, <2>4, EntrySound DEF Accounted, Entries, Tombstones
<1>3. CASE log' = Torn(log)
  <2>1. log'.at = log.at /\ ~log'.ok
    BY <1>3 DEF Torn, TypeOK, Log
  <2> QED
    BY <2>1 DEF Accounted
<1> QED
  BY <1>1, <1>2, <1>3 DEF Interrupted

(* An append that succeeds is of an entry that was due.                    *)
LEMMA AppendedEntry ==
  ASSUME NEW e \in NextEntries, JournalAppend(e[1], e[2])
  PROVE  log' \in {log} \cup Interrupted
  BY DEF JournalAppend, Interrupted

(* A step of the journal that leaves the directory and the memory alone.   *)
LEMMA BackedLog ==
  ASSUME Backed, UNCHANGED <<files, live, consumed, expired>>, log'.ok => log.ok,
         \A id \in Id : log.at[id] # "absent" => log'.at[id] # "absent", live \subseteq Id
  PROVE  Backed'
  BY DEF Backed

-----------------------------------------------------------------------------
(* The directory *)

(* A step that takes no tombstone away and no last file.                   *)
LEMMA FilesKept ==
  ASSUME TypeOK, Accounted, Backed, UNCHANGED <<log, live, consumed, expired>>,
         \A id \in Id : /\ files[id] # {} => files'[id] # {}
                        /\ files[id] \cap Tombstones \subseteq files'[id]
  PROVE  Accounted' /\ Backed'
<1>1. Accounted'
  BY DEF Accounted, Tombstones
<1>2. Backed'
  BY DEF Backed, Tombstoned, Tombstones, TypeOK
<1> QED
  BY <1>1, <1>2

LEMMA ArtifactKeeps ==
  ASSUME NEW op \in Ops, NEW f
  PROVE  /\ Artifact(op, f) # {}
         /\ f \cap Tombstones \subseteq Artifact(op, f)
         /\ op = "insert" => "presig" \in Artifact(op, f)
         /\ op = "consume" => "consumed" \in Artifact(op, f)
         /\ op \in {"expire", "burn"} => "expired" \in Artifact(op, f)
  BY DEF Ops, Artifact, WithoutPresig, Tombstones

LEMMA TouchFiles ==
  ASSUME TypeOK, NEW op, NEW id \in Id, Touch(op, id)
  PROVE  /\ files'[id] = Artifact(op, files[id])
         /\ \A i \in Id \ {id} : files'[i] = files[i]
  BY DEF Touch, TypeOK

(* Rename, for each operation under the guard that starts it.              *)
LEMMA RenameFInv ==
  ASSUME FInv, NEW op \in Ops, NEW id \in Id, Rename(op, id),
         op \in {"insert", "burn"} => id \notin Known,
         op \in {"consume", "expire"} => id \in live
  PROVE  Accounted' /\ Scanned' /\ UnderWay' /\ Backed' /\ FirstOpen'
<1>0. TypeOK
  BY DEF FInv, IInv
<1>1. /\ files'[id] = Artifact(op, files[id])
      /\ \A i \in Id \ {id} : files'[i] = files[i]
  BY <1>0, TouchFiles DEF Rename
<1>2. UNCHANGED <<log, live, consumed, expired, journal, ahead>> /\ Known' = Known
  BY DEF Rename, journalVars, memory, Known
<1>3. Accounted' /\ Backed'
  BY <1>0, <1>1, <1>2, ArtifactKeeps, FilesKept DEF FInv
<1>4. pc = "ready" /\ pc' = "sync" /\ cur'.op = op /\ cur'.id = id
  BY DEF Rename
<1>5. UnderWay'
  BY <1>1, <1>2, <1>4, ArtifactKeeps DEF UnderWay, Ops
<1>6. Scanned' /\ FirstOpen'
  BY <1>2, <1>4 DEF Scanned, FirstOpen, FInv
<1> QED
  BY <1>3, <1>5, <1>6

-----------------------------------------------------------------------------
(* The other actions *)

LEMMA SyncFInv ==
  ASSUME FInv, Sync
  PROVE  Accounted' /\ Scanned' /\ UnderWay' /\ Backed' /\ FirstOpen'
<1>1. UNCHANGED <<files, log, ahead, journal, cur, live, consumed, expired>> /\ Known' = Known
  BY DEF Sync, SyncDir, journalVars, memory, Known
<1>2. pc \in {"sync", "resync"} /\ pc' = (IF pc = "sync" /\ cur.op = "expire" THEN "remove" ELSE "append")
  BY DEF Sync
<1>3. UnderWay'
  BY <1>1, <1>2 DEF FInv, UnderWay, Working
<1>4. Accounted' /\ Backed'
  BY <1>1 DEF FInv, Accounted, Backed
<1>5. Scanned' /\ FirstOpen'
  BY <1>1, <1>2 DEF Scanned, FInv, FirstOpen
<1> QED
  BY <1>3, <1>4, <1>5

(* expire removes the record once it has a tombstone.                      *)
LEMMA RemoveFInv ==
  ASSUME FInv, Remove
  PROVE  Accounted' /\ Scanned' /\ UnderWay' /\ Backed' /\ FirstOpen'
<1>0. TypeOK /\ cur.id \in Id
  BY DEF FInv, IInv, TypeOK
<1>1. /\ files'[cur.id] = files[cur.id] \ {"presig"}
      /\ \A i \in Id \ {cur.id} : files'[i] = files[i]
  BY <1>0, TouchFiles DEF Remove, Artifact, WithoutPresig
<1>2. UNCHANGED <<log, live, consumed, expired, journal, ahead, cur>> /\ Known' = Known
  BY DEF Remove, journalVars, memory, Known
<1>3. cur.op = "expire" /\ "expired" \in files[cur.id] /\ cur.id \in live
  BY DEF Remove, FInv, UnderWay, Working
<1>4. Accounted' /\ Backed'
  BY <1>0, <1>1, <1>2, <1>3, FilesKept DEF FInv, Tombstones
<1>5. pc = "remove" /\ pc' = "resync"
  BY DEF Remove
<1>6. UnderWay' /\ Scanned' /\ FirstOpen'
  BY <1>1, <1>2, <1>3, <1>5 DEF UnderWay, Scanned, FInv, FirstOpen
<1> QED
  BY <1>4, <1>6

LEMMA ReturnFInv ==
  ASSUME FInv, Return
  PROVE  Accounted' /\ Scanned' /\ UnderWay' /\ Backed' /\ FirstOpen'
<1>0. TypeOK /\ Accounted /\ Scanned /\ UnderWay /\ Backed /\ FirstOpen
  BY DEF FInv, IInv
<1> DEFINE e == <<cur.id, EntryState(cur.op)>>
<1>1. e \in NextEntries
  BY <1>0, EntryStateType DEF Return, NextEntries, TypeOK
<1>2. log' \in {log} \cup Interrupted
  BY <1>1, AppendedEntry DEF Return
<1>3. UNCHANGED <<files, cur, journal, ahead>>
  BY DEF Return, JournalAppend, disk
<1>4. /\ Accounted'
      /\ \A id \in Id : log.at[id] # "absent" => log'.at[id] # "absent"
      /\ log'.ok => log.ok
  BY <1>0, <1>2, <1>3, LogStep
<1>5. pc = "append" /\ pc' = "ready" /\ pc \in Working
  BY DEF Return, Working
<1>6. UnderWay' /\ Scanned' /\ FirstOpen'
  BY <1>0, <1>3, <1>5 DEF UnderWay, Working, Scanned, FirstOpen
<1>7. Backed'
  <2>0. cur.id \in Id /\ cur.op \in Ops
    BY <1>0 DEF TypeOK
  <2>1. log'.ok => log'.at[cur.id] = EntryState(cur.op)
    BY <1>0, <2>0 DEF Return, JournalAppend, Appended, TypeOK, Log
  <2>2. CASE cur.op = "insert"
    <3>1. live' = live \cup {cur.id} /\ consumed' = consumed /\ expired' = expired
      BY <2>2 DEF Return
    <3>2. "presig" \in files[cur.id] /\ cur.id \notin consumed \cup expired
      BY <1>0, <1>5, <2>2 DEF UnderWay, Known
    <3>3. log'.ok => log'.at[cur.id] = "live"
      BY <2>1, <2>2 DEF EntryState
    <3> QED
      BY <1>0, <1>3, <1>4, <3>1, <3>2, <3>3 DEF Backed, TypeOK
  <2>3. CASE cur.op # "insert"
    <3>1. /\ live' = live \ {cur.id}
          /\ consumed' \cup expired' \subseteq consumed \cup expired \cup {cur.id}
      BY <2>3 DEF Return
    <3>2. Tombstoned(files[cur.id])
      BY <1>0, <1>5, <2>0, <2>3 DEF UnderWay, Ops, Tombstoned
    <3>3. live' \cap (consumed' \cup expired') = {}
      BY <1>0, <3>1 DEF Backed
    <3>4. \A id \in consumed' \cup expired' : Tombstoned(files'[id])
      BY <1>0, <1>3, <3>1, <3>2 DEF Backed
    <3>5. \A id \in live' : files'[id] # {} /\ (log'.ok => log'.at[id] # "absent")
      BY <1>0, <1>3, <1>4, <3>1 DEF Backed, TypeOK
    <3> QED
      BY <3>3, <3>4, <3>5 DEF Backed, Tombstoned
  <2> QED
    BY <2>2, <2>3
<1> QED
  BY <1>4, <1>6, <1>7

(* The scan of open: a stray record beside its tombstone goes.             *)
LEMMA OpenScanFInv ==
  ASSUME FInv, OpenScan
  PROVE  Accounted' /\ Scanned' /\ UnderWay' /\ Backed' /\ FirstOpen'
<1>0. TypeOK /\ Accounted /\ Backed /\ FirstOpen
  BY DEF FInv, IInv
<1>1. \A id \in Id : files'[id] = files[id] \/ (Stray(id) /\ files'[id] = files[id] \ {"presig"})
  BY <1>0 DEF OpenScan, WithoutPresig, TypeOK
<1>2. UNCHANGED <<log, live, consumed, expired, cur>> /\ Known' = Known
  BY DEF OpenScan, memory, Known
<1>3. \A id \in Id : /\ files[id] # {} => files'[id] # {}
                     /\ files[id] \cap Tombstones \subseteq files'[id]
  BY <1>1 DEF Stray, Tombstoned, Tombstones
<1>4. Accounted' /\ Backed'
  BY <1>0, <1>2, <1>3, FilesKept
<1>5. seen' \in Scans /\ pc = "down"
  BY DEF OpenScan
<1>6. ASSUME NEW id \in Id PROVE ScanStates(files'[id]) = ScanStates(files[id])
  BY <1>1 DEF ScanStates, Stray, Tombstoned
<1>7. Scanned'
  <2>1. \A id \in Id : seen'[id] \in ScanStates(files'[id])
    BY <1>5, <1>6 DEF Scans
  <2> QED
    BY <1>5, <2>1 DEF Scanned, Scans
<1>8. pc' \in {"adopting", "refused", "opening"} /\ ahead' = FALSE /\ journal'
  BY DEF OpenScan
<1>9. pc' = "adopting" => ~journal
  BY DEF OpenScan
<1>10. pc' = "opening" => log.ok
  BY DEF OpenScan
<1>11. UnderWay'
  BY <1>8 DEF UnderWay, Working
<1>12. FirstOpen'
  BY <1>0, <1>2, <1>8, <1>9, <1>10 DEF FirstOpen
<1> QED
  BY <1>4, <1>7, <1>11, <1>12

LEMMA OpenDoneFInv ==
  ASSUME FInv, OpenDone
  PROVE  Accounted' /\ Scanned' /\ UnderWay' /\ Backed' /\ FirstOpen'
<1>0. TypeOK /\ Accounted /\ Scanned /\ UnderWay /\ Backed /\ FirstOpen
  BY DEF FInv, IInv
<1>1. UNCHANGED <<files, log, journal, ahead, cur>>
  BY DEF OpenDone, disk, journalVars
<1>2. pc \in {"adopting", "opening"}
  BY DEF OpenDone, Reconciled
<1>3. pc' \in {"refused", "ready"}
  BY DEF OpenDone
<1>4. journal
  BY <1>0, <1>2 DEF FirstOpen
<1>5. Accounted' /\ UnderWay' /\ Scanned' /\ FirstOpen'
  BY <1>0, <1>1, <1>3, <1>4 DEF Accounted, UnderWay, Working, Scanned, FirstOpen
<1>6. Backed'
  <2>1. CASE RollbackDetected
    BY <1>0, <1>1, <2>1 DEF OpenDone, Backed, memory
  <2>2. CASE ~RollbackDetected
    <3>1. /\ live' = {id \in Id : seen[id] = "live"}
          /\ consumed' = {id \in Id : seen[id] = "consumed"}
          /\ expired' = {id \in Id : seen[id] = "expired"}
      BY <2>2 DEF OpenDone
    <3>2. ASSUME NEW id \in Id PROVE seen[id] \in ScanStates(files[id])
      BY <1>0, <1>2 DEF Scanned, Scans
    <3>3. \A id \in Id : seen[id] = "live" => log.at[id] # "absent"
      BY <1>2 DEF OpenDone, Reconciled, NeedsAdoption, NeedsDrop
    <3>4. \A id \in Id : /\ seen[id] = "live" => files[id] # {}
                         /\ seen[id] \in {"consumed", "expired"} => Tombstoned(files[id])
      BY <3>2 DEF ScanStates, Tombstoned
    <3> QED
      BY <1>1, <3>1, <3>3, <3>4 DEF Backed
  <2> QED
    BY <2>1, <2>2
<1> QED
  BY <1>5, <1>6

LEMMA AdoptHealFInv ==
  ASSUME FInv, NEW id \in Id, Adopt(id) \/ Heal(id)
  PROVE  Accounted' /\ Scanned' /\ UnderWay' /\ Backed' /\ FirstOpen'
<1>0. TypeOK /\ Accounted /\ Scanned /\ UnderWay /\ Backed /\ FirstOpen
  BY DEF FInv, IInv
<1>1. PICK st \in DiskStates : <<id, st>> \in NextEntries /\ JournalAppend(id, st)
                               /\ ((st = seen[id] /\ NeedsHeal(id)) \/ pc = "adopting")
  <2>1. CASE Adopt(id)
    BY <2>1 DEF Adopt, NextEntries, DiskStates
  <2>2. CASE Heal(id)
    BY <1>0, <2>2 DEF Heal, NextEntries, DiskStates, TypeOK
  <2> QED
    BY <2>1, <2>2
<1>2. UNCHANGED <<files, live, consumed, expired, journal, ahead, pc, cur, seen>> /\ Known' = Known
  BY <1>1 DEF Adopt, Heal, JournalAppend, disk, memory, Known
<1>3. log' \in {log} \cup Interrupted
  <2> DEFINE e == <<id, st>>
  <2>1. e \in NextEntries /\ JournalAppend(e[1], e[2])
    BY <1>1
  <2> QED
    BY <2>1, AppendedEntry
<1>4. /\ Accounted'
      /\ \A i \in Id : log.at[i] # "absent" => log'.at[i] # "absent"
      /\ log'.ok => log.ok
  BY <1>0, <1>2, <1>3, LogStep
<1>5. Backed'
  BY <1>0, <1>2, <1>4, BackedLog DEF TypeOK
<1>6. Scanned' /\ UnderWay'
  BY <1>0, <1>2 DEF Scanned, Scans, UnderWay, Working
<1>7. pc = "opening" => log'.ok
  <2> SUFFICES ASSUME pc = "opening" PROVE log'.ok
    OBVIOUS
  <2>1. log.ok /\ ~ahead /\ log.at[id] = "live" /\ st \in {"consumed", "expired"}
    BY <1>0, <1>1 DEF FirstOpen, NeedsHeal
  <2>2. log' = [log EXCEPT !.at[id] = st]
    BY <1>1, <2>1 DEF JournalAppend, Appended, ValidEntry
  <2> QED
    BY <1>0, <2>1, <2>2 DEF TypeOK, Log
<1>8. FirstOpen'
  BY <1>0, <1>2, <1>7 DEF FirstOpen
<1> QED
  BY <1>4, <1>5, <1>6, <1>8

(* open drops a record that no journal entry accounts for: no stored one.  *)
LEMMA DropFInv ==
  ASSUME FInv, NEW id \in Id, Drop(id)
  PROVE  Accounted' /\ Scanned' /\ UnderWay' /\ Backed' /\ FirstOpen'
<1>0. TypeOK /\ Accounted /\ Scanned /\ UnderWay /\ Backed /\ FirstOpen
  BY DEF FInv, IInv
<1>1. /\ files'[id] = files[id] \ {"presig"}
      /\ \A i \in Id \ {id} : files'[i] = files[i]
  BY <1>0, TouchFiles DEF Drop, Artifact, WithoutPresig
<1>2. UNCHANGED <<log, live, consumed, expired, journal, ahead, pc, cur>> /\ Known' = Known
  BY DEF Drop, journalVars, memory, Known
<1>3. pc = "opening" /\ log.at[id] = "absent" /\ seen[id] = "live" /\ log.ok
  BY <1>0 DEF Drop, NeedsDrop, FirstOpen
<1>4. ~Tombstoned(files[id]) /\ files[id] \subseteq {"presig"}
  BY <1>0, <1>3 DEF Scanned, Scans, ScanStates, Tombstoned, TypeOK, Kinds
<1>5. Accounted'
  BY <1>0, <1>1, <1>2, <1>3 DEF Accounted
<1>6. Backed'
  <2>1. id \notin live
    BY <1>0, <1>3 DEF Backed
  <2>2. id \notin consumed \cup expired
    BY <1>0, <1>4 DEF Backed
  <2> QED
    BY <1>0, <1>1, <1>2, <2>1, <2>2 DEF Backed, Tombstoned, TypeOK
<1>7. Scanned'
  <2>1. seen' = [seen EXCEPT ![id] = "absent"]
    BY DEF Drop
  <2>2. ScanStates(files'[id]) = {"absent"}
    BY <1>1, <1>4 DEF ScanStates, Tombstoned
  <2>3. \A i \in Id : seen'[i] \in ScanStates(files'[i])
    BY <1>0, <1>1, <1>3, <2>1, <2>2 DEF Scanned, Scans, ScanStates, Tombstoned
  <2>4. seen' \in [Id -> DiskStates]
    BY <1>0, <2>1 DEF TypeOK, DiskStates
  <2> QED
    BY <2>3, <2>4 DEF Scanned, Scans
<1>8. UnderWay' /\ FirstOpen'
  BY <1>0, <1>2, <1>3 DEF UnderWay, Working, FirstOpen
<1> QED
  BY <1>5, <1>6, <1>7, <1>8

LEMMA SessionFInv ==
  ASSUME FInv, NEW id \in Id, LogAccepted(id) \/ LogForeign(id) \/ EndSession(id)
  PROVE  Accounted' /\ Scanned' /\ UnderWay' /\ Backed' /\ FirstOpen'
<1>1. UNCHANGED <<files, log, live, consumed, expired, journal, ahead, pc, cur, seen>>
  BY DEF LogAccepted, LogForeign, Archive, EndSession, disk, journalVars, memory
<1> QED
  BY <1>1 DEF FInv, Accounted, Scanned, Scans, UnderWay, Working, Backed, FirstOpen, Known

(* What an interruption leaves.                                            *)
LEMMA FaultFInv ==
  ASSUME FInv, Kill \/ IoError
  PROVE  Accounted' /\ Scanned' /\ UnderWay' /\ Backed' /\ FirstOpen'
<1>0. TypeOK /\ Accounted /\ Scanned /\ UnderWay /\ Backed /\ FirstOpen
  BY DEF FInv, IInv
<1>1. UNCHANGED <<files, live, consumed, expired, journal, cur, seen>> /\ Known' = Known
  BY DEF Kill, IoError, disk, memory, Known
<1>2. log' \in {log} \cup Interrupted
  BY DEF Kill, IoError
<1>3. /\ Accounted'
      /\ \A i \in Id : log.at[i] # "absent" => log'.at[i] # "absent"
      /\ log'.ok => log.ok
  BY <1>0, <1>1, <1>2, LogStep
<1>4. Backed'
  BY <1>0, <1>1, <1>3, BackedLog DEF TypeOK
<1>5. pc' \in {"down", "ready"} /\ (pc' = "ready" => pc \in Working)
  BY DEF Kill, IoError, Working
<1>6. FirstOpen' /\ Scanned' /\ UnderWay'
  BY <1>0, <1>1, <1>5 DEF FirstOpen, Scanned, UnderWay, Working
<1> QED
  BY <1>3, <1>4, <1>6

LEMMA NextFInv == NoPower /\ FInv /\ [Next]_vars => FInv'
<1> SUFFICES ASSUME NoPower, FInv, [Next]_vars PROVE FInv'
  OBVIOUS
<1>0. IInv'
  BY NextInv DEF FInv
<1>1. ASSUME NEW id \in Id, Insert(id) \/ Consume(id) \/ Expire(id) \/ Burn(id)
      PROVE  Accounted' /\ Scanned' /\ UnderWay' /\ Backed' /\ FirstOpen'
  BY <1>1, RenameFInv DEF Insert, Consume, Expire, Burn, Ops
<1>2. ~PowerLoss
  BY DEF NoPower, PowerLoss
<1>3. ASSUME UNCHANGED vars
      PROVE  Accounted' /\ Scanned' /\ UnderWay' /\ Backed' /\ FirstOpen'
  <2>1. UNCHANGED <<files, log, live, consumed, expired, journal, ahead, pc, cur, seen>>
    BY <1>3 DEF vars
  <2> QED
    BY <2>1 DEF FInv, Accounted, Scanned, Scans, UnderWay, Working, Backed, FirstOpen, Known
<1>4. ASSUME NEW id \in Id, \/ Adopt(id) \/ Heal(id) \/ Drop(id)
                            \/ LogAccepted(id) \/ LogForeign(id) \/ EndSession(id)
      PROVE  Accounted' /\ Scanned' /\ UnderWay' /\ Backed' /\ FirstOpen'
  BY <1>4, AdoptHealFInv, DropFInv, SessionFInv
<1>5. ASSUME Sync \/ Remove \/ Return \/ OpenScan \/ OpenDone \/ Kill \/ IoError
      PROVE  Accounted' /\ Scanned' /\ UnderWay' /\ Backed' /\ FirstOpen'
  BY <1>5, SyncFInv, RemoveFInv, ReturnFInv, OpenScanFInv, OpenDoneFInv, FaultFInv
<1>6. Accounted' /\ Scanned' /\ UnderWay' /\ Backed' /\ FirstOpen'
  BY <1>1, <1>2, <1>3, <1>4, <1>5 DEF Next
<1> QED
  BY <1>0, <1>6 DEF FInv

LEMMA FInvariance == ASSUME NoPower PROVE Spec => []FInv
<1>1. FInv /\ [Next]_vars => FInv'
  BY NextFInv
<1> QED
  BY <1>1, InitFInv, PTL DEF Spec

-----------------------------------------------------------------------------
(* Opening again *)

(* The journal and the directory disagree on no id but one with both       *)
(* tombstones.                                                             *)
LEMMA DivergesOnlyDamaged ==
  ASSUME TypeOK, Accounted, NEW d \in Scans, Diverges(d)
  PROVE  \E id \in Id : {"consumed", "expired"} \subseteq files[id]
<1>1. PICK id \in Id :
        \/ log.at[id] = "live" /\ d[id] = "absent"
        \/ log.at[id] \in {"consumed", "expired"} /\ d[id] # log.at[id]
  BY DEF Diverges
<1>2. d[id] \in ScanStates(files[id])
  BY DEF Scans
<1>3. files[id] \subseteq Kinds
  BY DEF TypeOK
<1> QED
  BY <1>1, <1>2, <1>3 DEF Accounted, ScanStates, Tombstoned, Kinds

LEMMA NextRefused ==
  ASSUME FInv, [Next]_vars, RefusedOnlyDamaged
  PROVE  RefusedOnlyDamaged'
<1>0. TypeOK /\ Accounted /\ SeenSpent /\ LoggedSpent
  BY DEF FInv, IInv
<1>1. CASE OpenScan
  <2>1. UNCHANGED log
    BY <1>1 DEF OpenScan
  <2>2. CASE log.ok /\ Diverges(seen')
    <3>1. seen' \in Scans
      BY <1>1 DEF OpenScan
    <3>2. PICK id \in Id : {"consumed", "expired"} \subseteq files[id]
      BY <1>0, <2>2, <3>1, DivergesOnlyDamaged
    <3>3. {"consumed", "expired"} \subseteq files'[id]
      BY <1>0, <1>1, <3>2 DEF OpenScan, WithoutPresig, TypeOK
    <3> QED
      BY <3>3 DEF RefusedOnlyDamaged
  <2> QED
    BY <1>1, <2>1, <2>2 DEF OpenScan, RefusedOnlyDamaged
<1>2. CASE OpenDone
  <2>1. pc \in {"adopting", "opening"}
    BY <1>2 DEF OpenDone, Reconciled
  <2>2. RollbackDetected => readable /\ \E id \in foreign : seen[id] = "live"
    BY <1>0, <2>1 DEF RollbackDetected, Shown, SeenSpent, LoggedSpent, TypeOK
  <2> QED
    BY <1>2, <2>2 DEF OpenDone, transcript, RefusedOnlyDamaged
<1>3. CASE pc' # "refused"
  BY <1>3 DEF RefusedOnlyDamaged
<1>4. ASSUME pc' = "refused", ~OpenScan, ~OpenDone PROVE UNCHANGED <<pc, log, files, readable, foreign, seen>>
  <2>1. CASE pc = "refused"
    BY <1>4, <2>1 DEF Next, vars, Insert, Consume, Expire, Burn, Rename, Sync, Remove, Return, Adopt,
       Heal, Drop, LogAccepted, LogForeign, EndSession, Running, Kill, PowerLoss, IoError
  <2>2. CASE pc # "refused"
    BY <1>4, <2>2 DEF Next, vars, Insert, Consume, Expire, Burn, Rename, Sync, Remove, Return, Adopt,
       Heal, Drop, LogAccepted, LogForeign, Archive, EndSession, Kill, PowerLoss, IoError
  <2> QED
    BY <2>1, <2>2
<1> QED
  BY <1>1, <1>2, <1>3, <1>4 DEF RefusedOnlyDamaged

(* The safe-direction reconciliation of open covers every crash window:    *)
(* after any sequence of operations, kills, torn appends and I/O errors,   *)
(* open refuses only a journal that does not replay, an id whose two       *)
(* tombstones contradict each other, or a live id that a share accepted in *)
(* another session named.                                                  *)
THEOREM OpensAgain == ASSUME NoPower PROVE Spec => []RefusedOnlyDamaged
<1>1. Init => RefusedOnlyDamaged
  BY DEF Init, RefusedOnlyDamaged
<1>2. FInv /\ [Next]_vars /\ RefusedOnlyDamaged => RefusedOnlyDamaged'
  BY NextRefused
<1> QED
  BY <1>1, <1>2, FInvariance, PTL DEF Spec

-----------------------------------------------------------------------------
(* The promise *)

LEMMA InitPromise == Init => Promise!Init
  BY DEF Init, Promise!Init, Status

(* One operation completes: one abstract step for its id.                  *)
LEMMA ReturnPromise ==
  ASSUME FInv, Return
  PROVE  Promise!Next
<1>0. TypeOK /\ UnderWay /\ Backed /\ KnownSpent /\ Busy
  BY DEF FInv, IInv
<1> PICK c \in Id : c = cur.id
  BY <1>0 DEF TypeOK
<1>1. pc \in Working /\ pc \in {"ready"} \cup Working /\ cur.id \in Id /\ cur.op \in Ops
  BY <1>0 DEF Return, Working, TypeOK
<1>2. handed[c] \in Nat /\ (handed[c] > 0 => c \notin live /\ c \in consumed \cup expired)
  BY <1>0, <1>1 DEF KnownSpent, Spent, TypeOK
<1>3. ASSUME NEW i \in Id, i # c
      PROVE  Status(i)' = Status(i) /\ handed'[i] = handed[i]
  BY <1>0, <1>3 DEF Return, Status, TypeOK
<1>4. CASE cur.op = "insert"
  <2>1. Status(c) = "absent" /\ c \notin Known
    BY <1>0, <1>1, <1>2, <1>4 DEF UnderWay, Known, Status
  <2>2. Status(c)' = "stored" /\ handed' = handed
    BY <1>2, <1>4, <2>1 DEF Return, Status, Known
  <2>3. Promise!Insert(c)
    BY <1>1, <1>3, <2>1, <2>2 DEF Promise!Insert
  <2> QED
    BY <1>1, <2>3 DEF Promise!Next
<1>5. CASE cur.op = "consume"
  <2>1. Status(c) = "stored"
    BY <1>0, <1>1, <1>2, <1>5 DEF UnderWay, Status
  <2>2. handed' = [handed EXCEPT ![c] = @ + 1]
    BY <1>5 DEF Return
  <2>3. Status(c)' = "handed"
    BY <1>0, <1>1, <1>2, <2>2 DEF Status, TypeOK
  <2>4. Promise!HandOut(c)
    BY <1>1, <1>3, <2>1, <2>2, <2>3 DEF Promise!HandOut
  <2> QED
    BY <1>1, <2>4 DEF Promise!Next
<1>6. CASE cur.op \in {"expire", "burn"}
  <2>1. handed[c] = 0 /\ Status(c) \in {"absent", "stored"}
    BY <1>0, <1>1, <1>2, <1>6 DEF UnderWay, Known, Status
  <2>2. handed' = handed /\ live' = live \ {c} /\ expired' = expired \cup {c}
    BY <1>6 DEF Return
  <2>3. Status(c)' = "burned"
    BY <2>1, <2>2 DEF Status
  <2>4. Promise!Burn(c)
    BY <1>1, <1>3, <2>1, <2>2, <2>3 DEF Promise!Burn
  <2> QED
    BY <1>1, <2>4 DEF Promise!Next
<1> QED
  BY <1>1, <1>4, <1>5, <1>6 DEF Ops

(* open finds the interrupted operations done or not done.                 *)
LEMMA OpenDonePromise ==
  ASSUME FInv, OpenDone
  PROVE  Promise!Settle
<1>0. TypeOK /\ Scanned /\ Backed
  BY DEF FInv, IInv
<1>1. handed' = handed
  BY DEF OpenDone
<1>2. ASSUME NEW id \in Id
      PROVE  Status(id)' \in Promise!Statuses /\ Status(id)' \in Promise!Settled(Status(id))
  <2>1. seen[id] \in ScanStates(files[id])
    BY <1>0 DEF OpenDone, Reconciled, Scanned, Scans
  <2>2. CASE RollbackDetected
    BY <1>1, <2>2 DEF OpenDone, memory, Status, Promise!Statuses, Promise!Settled
  <2>3. CASE ~RollbackDetected
    <3>1. /\ id \in live' <=> seen[id] = "live"
          /\ id \in consumed' \cup expired' <=> seen[id] \in {"consumed", "expired"}
      BY <2>3 DEF OpenDone
    <3>2. id \in live => seen[id] # "absent"
      BY <1>0, <2>1 DEF Backed, ScanStates, Tombstoned, TypeOK, Kinds
    <3>3. id \in consumed \cup expired => seen[id] \in {"consumed", "expired"}
      BY <1>0, <2>1 DEF Backed, ScanStates
    <3>4. seen[id] \in DiskStates
      BY <1>0 DEF TypeOK
    <3> QED
      BY <1>1, <3>1, <3>2, <3>3, <3>4 DEF Status, DiskStates, Promise!Statuses, Promise!Settled
  <2> QED
    BY <2>2, <2>3
<1> QED
  BY <1>1, <1>2 DEF Promise!Settle

LEMMA NextPromise ==
  ASSUME FInv, [Next]_vars
  PROVE  [Promise!Next]_(Promise!abstractVars)
<1>1. CASE Return
  BY <1>1, ReturnPromise
<1>2. CASE OpenDone
  BY <1>2, OpenDonePromise DEF Promise!Next
<1>3. CASE ~Return /\ ~OpenDone
  <2>1. UNCHANGED <<live, consumed, expired, handed>>
    BY <1>3 DEF Next, vars, Insert, Consume, Expire, Burn, Rename, Sync, Remove, OpenScan, Adopt, Heal,
       Drop, LogAccepted, LogForeign, Archive, EndSession, Kill, PowerLoss, IoError, memory
  <2> QED
    BY <2>1 DEF Promise!abstractVars, Status
<1> QED
  BY <1>1, <1>2, <1>3

(* The store keeps its promise: whatever is killed, torn or fails under it,*)
(* as its callers see it a stored record stays until it is handed out or   *)
(* burned, and what was spent or burned never comes back.                  *)
THEOREM PromiseKept == ASSUME NoPower PROVE Spec => ImplementsSingleUse
<1>1. FInv /\ [Next]_vars => [Promise!Next]_(Promise!abstractVars)
  BY NextPromise
<1> QED
  BY <1>1, InitPromise, FInvariance, PTL DEF Spec, ImplementsSingleUse, Promise!Spec

-----------------------------------------------------------------------------
(* DiskStoreRollback: for any number of restored backups.  Nothing is known *)
(* of a directory that was put back.  What counts is what open checks       *)
(* (Checked: no live id has evidence in a readable one), that a session    *)
(* runs on a consumed record and adds evidence of its id (Sessions), and    *)
(* that an id is not stored again once it was (Minted, BusyR).              *)

Typed ==
  /\ cur \in [op : Ops, id : Id]
  /\ handed \in [Id -> Nat]
  /\ live \subseteq Id /\ signing \subseteq Id /\ evidence \subseteq Id
  /\ DOMAIN seen = Id

(* A directory that was put back has files of ids, and that is all.        *)
Directories == DOMAIN files = Id /\ DOMAIN backup.files = Id

WorkingR == Running \ {"ready"}

Minted ==
  /\ live \cup signing \cup evidence \subseteq minted
  /\ \A id \in Id : seen[id] = "live" => id \in minted

Sessions ==
  /\ pc \notin Running => signing = {}
  /\ pc \in Running => signing \cap live = {}

Checked == pc \in Running /\ readable => evidence \cap live = {}

BusyR ==
  pc \in WorkingR =>
    /\ cur.op = "insert" => cur.id \in minted \ (signing \cup evidence)
    /\ cur.op = "consume" => cur.id \in live

RInv == Directories /\ Typed /\ Minted /\ Sessions /\ Checked /\ BusyR

-----------------------------------------------------------------------------
LEMMA InitRInv == InitR => RInv
<1> SUFFICES ASSUME InitR PROVE RInv
  OBVIOUS
<1>1. cur \in [op : Ops, id : Id]
  BY IdAssumption DEF InitR, Init, Ops
<1> QED
  BY <1>1 DEF InitR, Init, Directory, RInv, Directories, Typed, Minted, Sessions, Checked, BusyR, Running, WorkingR

LEMMA DirectoriesKept ==
  ASSUME Directories, NextR
  PROVE  Directories'
<1>1. CASE StoreStep
  <2>1. UNCHANGED backup /\ Next
    BY <1>1 DEF StoreStep
  <2>2. DOMAIN files' = Id
    <3>1. CASE \E op, id : Rename(op, id)
      BY <3>1 DEF Rename, Touch, Directories
    <3>2. CASE Sync \/ Remove \/ Return
      BY <3>2 DEF Sync, SyncDir, Remove, Touch, Return, disk, Directories
    <3>3. CASE OpenScan \/ OpenDone
      BY <3>3 DEF OpenScan, OpenDone, disk, Directories
    <3>4. ASSUME NEW id \in Id, Adopt(id) \/ Heal(id) \/ Drop(id) \/ LogAccepted(id) \/ LogForeign(id) \/ EndSession(id)
          PROVE  DOMAIN files' = Id
      BY <3>4 DEF Adopt, Heal, Drop, Touch, LogAccepted, LogForeign, Archive, EndSession, disk, Directories
    <3>5. CASE Kill \/ PowerLoss \/ IoError
      BY <3>5 DEF Kill, PowerLoss, IoError, disk, Directories
    <3> QED
      BY <2>1, <3>1, <3>2, <3>3, <3>4, <3>5 DEF Next, Insert, Consume, Expire, Burn
  <2> QED
    BY <2>1, <2>2 DEF Directories
<1>2. CASE TakeBackup
  BY <1>2 DEF TakeBackup, Directory, vars, Directories
<1>3. CASE Restore
  BY <1>3 DEF Restore, Directories
<1> QED
  BY <1>1, <1>2, <1>3 DEF NextR

(* The start of an operation: an id that is inserted was never stored.     *)
LEMMA RenameRInv ==
  ASSUME RInv, Directories', NEW op \in Ops, NEW id \in Id, Rename(op, id), minted \subseteq minted',
         op = "insert" => id \in minted' \ minted,
         op = "consume" => id \in live
  PROVE  RInv'
<1>1. pc = "ready" /\ pc' = "sync" /\ cur' = [op |-> op, id |-> id]
      /\ UNCHANGED <<seen, handed, live, signing, evidence, readable>>
  BY DEF Rename, memory, transcript
<1>2. cur'.op = op /\ cur'.id = id /\ cur' \in [op : Ops, id : Id]
  BY <1>1
<1>3. Typed' /\ Minted' /\ Sessions' /\ Checked'
  BY <1>1, <1>2 DEF RInv, Typed, Minted, Sessions, Checked, Running
<1>4. BusyR'
  BY <1>1, <1>2 DEF RInv, Minted, BusyR
<1> QED
  BY <1>3, <1>4 DEF RInv

(* An operation returns: a consumed record gets a session.                 *)
LEMMA ReturnRInv ==
  ASSUME RInv, Directories', Return, minted \subseteq minted'
  PROVE  RInv'
<1>1. /\ pc = "append" /\ pc' = "ready"
      /\ live' = IF cur.op = "insert" THEN live \cup {cur.id} ELSE live \ {cur.id}
      /\ handed' = IF cur.op = "consume" THEN [handed EXCEPT ![cur.id] = @ + 1] ELSE handed
      /\ signing' = IF cur.op = "consume" THEN signing \cup {cur.id} ELSE signing
      /\ UNCHANGED <<cur, seen, evidence, readable>>
  BY DEF Return
<1>2. cur.id \in Id
  BY DEF RInv, Typed
<1>3. /\ cur.op = "insert" => cur.id \in minted \ (signing \cup evidence)
      /\ cur.op = "consume" => cur.id \in live
  BY <1>1 DEF RInv, BusyR, Running, WorkingR
<1>4. Typed'
  <2>1. handed' \in [Id -> Nat]
    BY <1>1, <1>2 DEF RInv, Typed
  <2> QED
    BY <1>1, <1>2, <2>1 DEF RInv, Typed
<1>5. Minted'
  BY <1>1, <1>3 DEF RInv, Minted
<1>6. Sessions' /\ Checked' /\ BusyR'
  BY <1>1, <1>3 DEF RInv, Sessions, Checked, BusyR, Running, WorkingR
<1> QED
  BY <1>4, <1>5, <1>6 DEF RInv

(* What open takes for a live record has a file, and was stored before.    *)
LEMMA OpenScanRInv ==
  ASSUME RInv, Directories', OpenScan, minted' = minted \cup {id \in Id : "presig" \in files'[id]}
  PROVE  RInv'
<1>1. /\ pc = "down" /\ pc' \notin Running
      /\ UNCHANGED <<cur, handed, live, signing, evidence, readable>>
  BY DEF OpenScan, memory, transcript, Running
<1>2. ASSUME NEW id \in Id, seen'[id] = "live" PROVE id \in minted'
  <2>1. seen'[id] \in ScanStates(files[id])
    BY DEF OpenScan, Scans
  <2>2. "presig" \in files[id] /\ ~Tombstoned(files[id])
    BY <1>2, <2>1 DEF ScanStates
  <2>3. files'[id] = files[id]
    BY <2>2 DEF OpenScan, Stray
  <2> QED
    BY <2>2, <2>3
<1>3. Minted'
  BY <1>1, <1>2 DEF RInv, Minted
<1>4. DOMAIN seen' = Id
  BY DEF OpenScan, Scans
<1> QED
  BY <1>1, <1>3, <1>4 DEF RInv, Typed, Sessions, Checked, BusyR, WorkingR, Running

(* The cross-check of open.                                                *)
LEMMA OpenDoneRInv ==
  ASSUME RInv, Directories', OpenDone, minted \subseteq minted'
  PROVE  RInv'
<1>1. pc \in {"adopting", "opening"} /\ UNCHANGED <<cur, seen, handed, signing, evidence, readable>>
  BY DEF OpenDone, Reconciled, transcript
<1>2. signing = {}
  BY <1>1 DEF RInv, Sessions, Running
<1>3. CASE RollbackDetected
  <2>1. pc' = "refused" /\ live' = live
    BY <1>3 DEF OpenDone, memory
  <2> QED
    BY <1>1, <1>2, <2>1 DEF RInv, Typed, Minted, Sessions, Checked, BusyR, WorkingR, Running
<1>4. CASE ~RollbackDetected
  <2>1. pc' = "ready" /\ live' = {id \in Id : seen[id] = "live"}
    BY <1>4 DEF OpenDone
  <2>2. Checked'
    BY <1>1, <1>4, <2>1 DEF RollbackDetected, Shown, Checked
  <2> QED
    BY <1>1, <1>2, <2>1, <2>2 DEF RInv, Typed, Minted, Sessions, BusyR, WorkingR, Running
<1> QED
  BY <1>3, <1>4

LEMMA SessionRInv ==
  ASSUME RInv, Directories', NEW id \in Id, LogAccepted(id) \/ LogForeign(id) \/ EndSession(id), minted \subseteq minted'
  PROVE  RInv'
<1>1. /\ UNCHANGED <<pc, cur, seen, handed, live, readable>>
      /\ pc \in Running
      /\ signing' \subseteq signing /\ evidence' \subseteq evidence \cup signing
  BY DEF LogAccepted, LogForeign, Archive, EndSession, memory
<1>2. evidence' \cap live = {} \/ ~readable
  BY <1>1 DEF RInv, Sessions, Checked
<1> QED
  BY <1>1, <1>2 DEF RInv, Typed, Minted, Sessions, Checked, BusyR, WorkingR, Running

(* A crash ends the sessions.                                              *)
LEMMA CrashRInv ==
  ASSUME RInv, Directories', Kill \/ PowerLoss, minted \subseteq minted'
  PROVE  RInv'
<1>1. /\ pc' = "down" /\ signing' = {}
      /\ UNCHANGED <<cur, seen, handed, live, evidence>>
  BY DEF Kill, PowerLoss, TranscriptAfterCrash, memory
<1> QED
  BY <1>1 DEF RInv, Typed, Minted, Sessions, Checked, BusyR, WorkingR, Running

LEMMA IoErrorRInv ==
  ASSUME RInv, Directories', IoError, minted \subseteq minted'
  PROVE  RInv'
<1>1. /\ UNCHANGED <<cur, seen, handed, live, signing, evidence, readable>>
      /\ \/ pc \in Running /\ pc' = "ready"
         \/ pc \notin Running /\ pc' = "down"
  BY DEF IoError, memory, transcript, Running
<1> QED
  BY <1>1 DEF RInv, Typed, Minted, Sessions, Checked, BusyR, WorkingR, Running

-----------------------------------------------------------------------------
LEMMA StoreStepRInv ==
  ASSUME RInv, Directories', StoreStep
  PROVE  RInv'
<1>1. minted \subseteq minted' /\ minted' = minted \cup {id \in Id : "presig" \in files'[id]}
  BY DEF StoreStep
<1>2. ASSUME NEW id \in Id, Insert(id) PROVE RInv'
  <2>1. Rename("insert", id)
    BY <1>2 DEF Insert
  <2>2. pc = "ready" /\ pc' = "sync" /\ cur'.op = "insert" /\ cur'.id = id
    BY <2>1 DEF Rename
  <2>3. id \notin minted
    BY <2>2 DEF StoreStep
  <2>4. id \in minted'
    BY <1>1, <2>1 DEF Rename, Touch, Artifact, RInv, Directories
  <2> QED
    BY <1>1, <2>1, <2>3, <2>4, RenameRInv DEF Ops
<1>3. ASSUME NEW id \in Id, Consume(id) \/ Expire(id) \/ Burn(id) PROVE RInv'
  <2>1. CASE Consume(id)
    BY <1>1, <2>1, RenameRInv DEF Consume, Ops
  <2>2. CASE Expire(id)
    BY <1>1, <2>2, RenameRInv DEF Expire, Ops
  <2>3. CASE Burn(id)
    BY <1>1, <2>3, RenameRInv DEF Burn, Ops
  <2> QED
    BY <1>3, <2>1, <2>2, <2>3
<1>4. CASE Sync \/ Remove
  <2>1. /\ UNCHANGED <<cur, seen, handed, live, signing, evidence, readable>>
        /\ pc \in WorkingR /\ pc' \in WorkingR
    BY <1>4 DEF Sync, Remove, memory, transcript, WorkingR, Running
  <2> QED
    BY <1>1, <2>1 DEF RInv, Typed, Minted, Sessions, Checked, BusyR, WorkingR
<1>5. CASE Return
  BY <1>1, <1>5, ReturnRInv
<1>6. CASE OpenScan
  BY <1>1, <1>6, OpenScanRInv
<1>7. CASE OpenDone
  BY <1>1, <1>7, OpenDoneRInv
<1>8. ASSUME NEW id \in Id, Adopt(id) \/ Heal(id) \/ Drop(id) PROVE RInv'
  <2>1. /\ UNCHANGED <<pc, cur, handed, memory, transcript>> /\ pc \notin WorkingR
        /\ seen' = seen \/ seen' = [seen EXCEPT ![id] = "absent"]
    BY <1>8 DEF Adopt, Heal, Drop, WorkingR, Running
  <2>2. \A x \in Id : seen'[x] = "live" => x \in minted'
    <3>1. \A x \in Id : seen'[x] = "live" => seen[x] = "live"
      BY <2>1 DEF RInv, Typed
    <3> QED
      BY <1>1, <3>1 DEF RInv, Minted
  <2> QED
    BY <1>1, <2>1, <2>2 DEF RInv, Typed, Minted, Sessions, Checked, BusyR, memory, transcript, Running
<1>9. ASSUME NEW id \in Id, LogAccepted(id) \/ LogForeign(id) \/ EndSession(id) PROVE RInv'
  BY <1>1, <1>9, SessionRInv
<1>10. CASE Kill \/ PowerLoss
  BY <1>1, <1>10, CrashRInv
<1>11. CASE IoError
  BY <1>1, <1>11, IoErrorRInv
<1> QED
  BY <1>2, <1>3, <1>4, <1>5, <1>6, <1>7, <1>8, <1>9, <1>10, <1>11 DEF StoreStep, Next

LEMMA NextRInv == RInv /\ [NextR]_rollbackVars => RInv'
<1> SUFFICES ASSUME RInv, [NextR]_rollbackVars PROVE RInv'
  OBVIOUS
<1>1. CASE StoreStep
  BY <1>1, DirectoriesKept, StoreStepRInv DEF NextR, RInv
<1>2. CASE TakeBackup \/ Restore
  <2>1. Directories'
    BY <1>2, DirectoriesKept DEF NextR, RInv
  <2>2. UNCHANGED <<pc, cur, seen, handed, live, signing, evidence, readable, minted>>
    BY <1>2 DEF TakeBackup, Restore, vars, memory, transcript
  <2> QED
    BY <2>1, <2>2 DEF RInv, Typed, Minted, Sessions, Checked, BusyR
<1>3. CASE UNCHANGED rollbackVars
  BY <1>3 DEF rollbackVars, vars, RInv, Directories, Typed, Minted, Sessions, Checked, BusyR
<1> QED
  BY <1>1, <1>2, <1>3 DEF NextR

(* Only consume hands a record out.                                        *)
LEMMA HandedByReturn ==
  ASSUME NextR, handed' # handed
  PROVE  Return /\ cur.op = "consume"
<1>1. StoreStep
  BY DEF NextR, TakeBackup, Restore, vars
<1>2. Next
  BY <1>1 DEF StoreStep
<1>3. Return
  BY <1>2 DEF Next, Insert, Consume, Expire, Burn, Rename, Sync, Remove, OpenScan, OpenDone,
              Adopt, Heal, Drop, LogAccepted, LogForeign, Archive, EndSession, Kill, PowerLoss, IoError
<1> QED
  BY <1>3 DEF Return

LEMMA StepEvidenced ==
  ASSUME RInv, [NextR]_rollbackVars
  PROVE  [\A id \in evidence : readable => handed'[id] = handed[id]]_rollbackVars
<1> SUFFICES ASSUME NextR, NEW id \in evidence, readable, handed' # handed
             PROVE  handed'[id] = handed[id]
  OBVIOUS
<1>1. pc = "append" /\ cur.op = "consume" /\ handed' = [handed EXCEPT ![cur.id] = @ + 1]
  BY HandedByReturn DEF Return
<1>2. cur.id \in live /\ id \notin live
  BY <1>1 DEF RInv, BusyR, Checked, Running, WorkingR
<1> QED
  BY <1>1, <1>2 DEF RInv, Typed

-----------------------------------------------------------------------------
(* The transcript cross-check of open does what it is for: as long as the  *)
(* archive is readable, a record whose own session it shows is not handed  *)
(* out again, whichever backups of the store directory are put back,       *)
(* whatever crashes and errors happen in between and whatever other ids    *)
(* the archived shares name.                                               *)
THEOREM EvidencedTheorem == SpecR => EvidencedOnce
<1>1. SpecR => []RInv
  BY InitRInv, NextRInv, PTL DEF SpecR
<1>2. RInv /\ [NextR]_rollbackVars => [\A id \in evidence : readable => handed'[id] = handed[id]]_rollbackVars
  BY StepEvidenced
<1> QED
  BY <1>1, <1>2, PTL DEF SpecR, EvidencedOnce

===============================================================================
