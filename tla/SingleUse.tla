------------------------------ MODULE SingleUse ------------------------------
(***************************************************************************)
(* What a presignature store promises its callers, whatever happens to the *)
(* process and to the disk under it (SPEC 8.6(1), 8.6(3)):                 *)
(*                                                                         *)
(*   - an id is stored at most once, and handed out at most once;          *)
(*   - a stored record is never forgotten: it stays available until it is  *)
(*     handed out or burned;                                               *)
(*   - an id that was handed out or burned never comes back.               *)
(*                                                                         *)
(* A crash shows through in one way only: the operation it interrupted may *)
(* be found done or not done when the store comes back (Settle).  Burning  *)
(* is what an interrupted consume amounts to: the record is lost.          *)
(*                                                                         *)
(* DiskStore implements this specification.                                *)
(***************************************************************************)
EXTENDS Naturals

CONSTANT Id                 \* presignature ids

VARIABLES
  status,                   \* what the callers know of each id
  out                       \* how many times the record was handed out

abstractVars == <<status, out>>

Statuses == {"absent", "stored", "handed", "burned"}

TypeOK ==
  /\ status \in [Id -> Statuses]
  /\ out \in [Id -> Nat]

Init ==
  /\ status = [id \in Id |-> "absent"]
  /\ out = [id \in Id |-> 0]

Insert(id) ==
  /\ status[id] = "absent"
  /\ status' = [status EXCEPT ![id] = "stored"]
  /\ UNCHANGED out

HandOut(id) ==
  /\ status[id] = "stored"
  /\ status' = [status EXCEPT ![id] = "handed"]
  /\ out' = [out EXCEPT ![id] = @ + 1]

Burn(id) ==
  /\ status[id] \in {"absent", "stored"}
  /\ status' = [status EXCEPT ![id] = "burned"]
  /\ UNCHANGED out

(* The store comes back after a crash: the operations that were under way  *)
(* when it stopped are each found either done or not done.                 *)
Settled(before) ==
  CASE before = "absent" -> {"absent", "stored", "burned"}
    [] before = "stored" -> {"stored", "burned"}
    [] OTHER             -> {before}

Settle ==
  /\ status' \in [Id -> Statuses]
  /\ \A id \in Id : status'[id] \in Settled(status[id])
  /\ UNCHANGED out

Next ==
  \/ \E id \in Id : Insert(id) \/ HandOut(id) \/ Burn(id)
  \/ Settle

Spec == Init /\ [][Next]_abstractVars
=============================================================================
