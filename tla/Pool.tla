--------------------------------- MODULE Pool ---------------------------------
(***************************************************************************)
(* The presignature pools of a committee: on every node one pool manager   *)
(* (node/src/party/pool.rs, PoolManager) that keeps a target number of     *)
(* records in the node's durable store and erases the ones past their TTL, *)
(* and one signing loop (node/src/main.rs, run_factory_demo and soak_sign) *)
(* that consumes the oldest record for every message.  Nothing but the     *)
(* session ids, which are derived from the presignature id, keeps the      *)
(* nodes together.                                                         *)
(*                                                                         *)
(* Abstractions.                                                           *)
(*   - The store is atomic and durable (DiskStore shows what that takes).  *)
(*   - A production session is what its nodes have put on the wire: it     *)
(*     needs every node's first message before any node can send its last  *)
(*     one, and every node's last message before a node has its record.    *)
(*   - A node that starts a session again after its first messages are out *)
(*     gets nowhere: peers echo only the first payload of a slot, and a    *)
(*     second one is an equivocation.                                      *)
(*   - The pool never misbehaves on purpose: every node is honest.         *)
(***************************************************************************)
EXTENDS Naturals, FiniteSets, FiniteSetsExt

CONSTANTS
  Node,
  T,            \* the signing threshold
  Target, Ttl,  \* PoolConfig (a Ttl of 0: records never expire)
  Tolerant,     \* tick_tolerant (soak worker) or tick (factory demo)
  Faults,       \* a subset of FaultKinds
  MaxId, MaxMsg, MaxTime, MaxKills    \* bounds: ids, messages, clock, kills

FaultKinds == { "kill",   \* a node dies and restarts on its data directory
                "lost",   \* a production session misses its deadline at a node
                "late" }  \* a signing round ends without some of the shares

ASSUME NodeAssumption == IsFiniteSet(Node) /\ T \in 1 .. Cardinality(Node)
ASSUME ConfigAssumption ==
  /\ Target \in Nat /\ Ttl \in Nat /\ Tolerant \in BOOLEAN /\ Faults \subseteq FaultKinds
  /\ {MaxId, MaxMsg, MaxTime, MaxKills} \subseteq Nat

Id == 1 .. MaxId
Msg == 1 .. MaxMsg

VARIABLES
  now, kills,
  live, gone,        \* stored records; expired or burned ids
  stamp,             \* the created-at stamp of a record
  signed,            \* signed[n][id]: the message n spent its record on, or 0
  mgr, next, tickAt, aged,   \* the manager: phase, next_id, `now` and `aged` of its tick
  sent,              \* what a node has put on the wire for a production
  loop, msg, pick,   \* the signing loop: phase, message, chosen record
  blamed             \* nodes that a completed signing session has blamed

clockVars == <<now, kills>>
store  == <<live, gone, stamp, signed>>
manager == <<mgr, next, tickAt, aged, sent>>
signing == <<loop, msg, pick, blamed>>
vars == <<now, kills, live, gone, stamp, signed, mgr, next, tickAt, aged,
          sent, loop, msg, pick, blamed>>

Spent(n) == {id \in Id : signed[n][id] # 0}
Known(n) == live[n] \cup gone[n] \cup Spent(n)

LiveMaxId(n) == Max({0} \cup live[n])         \* a mutant of MaxSeenId
MaxSeenId(n) == Max({0} \cup Known(n))

ResumeAtLast(n) == MaxSeenId(n)               \* a mutant of ResumeId
ResumeId(n) == MaxSeenId(n) + 1

Producing == {"produce", "begun", "finished"}

(* The id of the session that a manager is in: next_id was incremented. *)
Current(n) == next[n] - 1

-----------------------------------------------------------------------------
Init ==
  /\ now = Ttl + 1 /\ kills = 0
  /\ live = [n \in Node |-> {}] /\ gone = [n \in Node |-> {}]
  /\ stamp = [n \in Node |-> [id \in Id |-> 0]]
  /\ signed = [n \in Node |-> [id \in Id |-> 0]]
  /\ mgr = [n \in Node |-> "idle"]
  /\ next = [n \in Node |-> 1]
  /\ tickAt = [n \in Node |-> 0]
  /\ aged = [n \in Node |-> {}]
  /\ sent = [n \in Node |-> [id \in Id |-> "nothing"]]
  /\ loop = [n \in Node |-> "wait"]
  /\ msg = [n \in Node |-> 1]
  /\ pick = [n \in Node |-> 0]
  /\ blamed = {}

-----------------------------------------------------------------------------
(* The manager *)

(* tick, first half: one clock reading, and one look at the aged records.   *)
(* A factory node that stops signing stops its manager.                     *)
Tick(n) ==
  /\ mgr[n] = "idle" /\ loop[n] # "stopped"
  /\ mgr' = [mgr EXCEPT ![n] = "expire"]
  /\ tickAt' = [tickAt EXCEPT ![n] = now]
  /\ aged' = [aged EXCEPT ![n] =
                IF Ttl = 0 THEN {} ELSE {id \in live[n] : stamp[n][id] <= now - Ttl}]
  /\ UNCHANGED <<clockVars, store, next, sent, signing>>

(* A mutant of Erased: without the check of DiskPresigStore::expire. *)
ErasedUnchecked(n, id) == {id}

(* DiskPresigStore::expire leaves an id alone that was consumed meanwhile. *)
Erased(n, id) == {id} \cap live[n]

Expire(n, id) ==
  /\ mgr[n] = "expire"
  /\ id \in aged[n]
  /\ aged' = [aged EXCEPT ![n] = @ \ {id}]
  /\ live' = [live EXCEPT ![n] = @ \ {id}]
  /\ gone' = [gone EXCEPT ![n] = @ \cup Erased(n, id)]
  /\ UNCHANGED <<clockVars, stamp, signed, mgr, next, tickAt, sent, signing>>

RefillWhenEmpty(n) == live[n] = {}                      \* mutants of BelowTarget
RefillPastTarget(n) == Cardinality(live[n]) <= Target
BelowTarget(n) == Cardinality(live[n]) < Target

(* tick, second half: at most one production session. *)
Refill(n) ==
  /\ mgr[n] = "expire" /\ aged[n] = {}
  /\ BelowTarget(n)
  /\ next[n] \in Id
  /\ mgr' = [mgr EXCEPT ![n] = "produce"]
  /\ next' = [next EXCEPT ![n] = @ + 1]
  /\ UNCHANGED <<clockVars, store, tickAt, aged, sent, signing>>

Rest(n) ==
  /\ mgr[n] = "expire" /\ aged[n] = {}
  /\ ~BelowTarget(n) \/ next[n] \notin Id
  /\ mgr' = [mgr EXCEPT ![n] = "idle"]
  /\ UNCHANGED <<clockVars, store, next, tickAt, aged, sent, signing>>

(* produce(id) on the wire: the first messages, then the last ones. *)
Begin(n) ==
  /\ mgr[n] = "produce"
  /\ sent[n][Current(n)] = "nothing"
  /\ mgr' = [mgr EXCEPT ![n] = "begun"]
  /\ sent' = [sent EXCEPT ![n][Current(n)] = "first"]
  /\ UNCHANGED <<clockVars, store, next, tickAt, aged, signing>>

Finish(n) ==
  /\ mgr[n] = "begun"
  /\ \A m \in Node : sent[m][Current(n)] # "nothing"
  /\ mgr' = [mgr EXCEPT ![n] = "finished"]
  /\ sent' = [sent EXCEPT ![n][Current(n)] = "all"]
  /\ UNCHANGED <<clockVars, store, next, tickAt, aged, signing>>

(* insert_at: the record gets the stamp of the tick, which is older than it. *)
Insert(n) ==
  /\ mgr[n] = "finished"
  /\ \A m \in Node : sent[m][Current(n)] = "all"
  /\ live' = [live EXCEPT ![n] = @ \cup ({Current(n)} \ Known(n))]
  /\ stamp' = [stamp EXCEPT ![n][Current(n)] = tickAt[n]]
  /\ mgr' = [mgr EXCEPT ![n] = "idle"]
  /\ UNCHANGED <<clockVars, gone, signed, next, tickAt, aged, sent, signing>>

(* A failed session: its id is burned, or the loop stops loudly. *)
Fail(n) ==
  /\ mgr[n] \in Producing
  /\ Faults \cap {"lost", "kill"} # {}
  /\ IF Tolerant
     THEN /\ gone' = [gone EXCEPT ![n] = @ \cup ({Current(n)} \ Known(n))]
          /\ mgr' = [mgr EXCEPT ![n] = "idle"]
     ELSE /\ mgr' = [mgr EXCEPT ![n] = "dead"]
          /\ UNCHANGED gone
  /\ UNCHANGED <<clockVars, live, stamp, signed, next, tickAt, aged, sent,
                 signing>>

-----------------------------------------------------------------------------
(* The signing loop *)

(* The soak driver sends a message once every node has answered the one     *)
(* before; a factory node works through its list on its own.                *)
Issued(n) == Tolerant => \A m \in Node : msg[m] >= msg[n]

NewestLiveId(n) == Max(live[n])                 \* a mutant of OldestLiveId
OldestLiveId(n) == Min(live[n])

Pick(n) ==
  /\ loop[n] = "wait" /\ mgr[n] # "dead"
  /\ msg[n] \in Msg /\ Issued(n)
  /\ live[n] # {}
  /\ pick' = [pick EXCEPT ![n] = OldestLiveId(n)]
  /\ loop' = [loop EXCEPT ![n] = "picked"]
  /\ UNCHANGED <<clockVars, store, manager, msg, blamed>>

(* The message is answered, with or without a signature; a factory node     *)
(* stops at the first one that it could not sign.                           *)
Answer(n, delivered) ==
  /\ msg' = [msg EXCEPT ![n] = @ + 1]
  /\ loop' = [loop EXCEPT ![n] = IF delivered \/ Tolerant THEN "wait" ELSE "stopped"]
  /\ pick' = [pick EXCEPT ![n] = 0]

NothingTaken(n) == {}              \* a mutant of Taken: the record stays
Taken(n) == {pick[n]}

(* sign_stored: the atomic consume, then the share goes out under the       *)
(* session id of the record; the message is not part of it.                 *)
Consume(n) ==
  /\ loop[n] = "picked" /\ pick[n] \in live[n]
  /\ live' = [live EXCEPT ![n] = @ \ Taken(n)]
  /\ signed' = [signed EXCEPT ![n][pick[n]] = msg[n]]
  /\ loop' = [loop EXCEPT ![n] = "signing"]
  /\ UNCHANGED <<clockVars, gone, stamp, manager, msg, pick, blamed>>

(* The record expired between the look and the consume: a loud failure. *)
ConsumeFails(n) ==
  /\ loop[n] = "picked" /\ pick[n] \notin live[n]
  /\ Answer(n, FALSE)
  /\ UNCHANGED <<clockVars, store, manager, blamed>>

Signers(id) == {m \in Node : signed[m][id] # 0}

(* sign_run and combine_robust over the shares that came: a share over      *)
(* another message fails its commitment check.                              *)
Combine(n) ==
  /\ loop[n] = "signing"
  /\ \E shares \in SUBSET Signers(pick[n]) :
       LET valid == {m \in shares : signed[m][pick[n]] = msg[n]} IN
       /\ shares = Node \/ "late" \in Faults
       /\ Answer(n, Cardinality(valid) >= T)
       /\ blamed' = IF Cardinality(valid) >= T THEN blamed \cup (shares \ valid) ELSE blamed
  /\ UNCHANGED <<clockVars, store, manager>>

-----------------------------------------------------------------------------
Clock ==
  /\ Ttl > 0 /\ now < MaxTime
  /\ now' = now + 1
  /\ UNCHANGED <<kills, store, manager, signing>>

(* A node dies and comes back: what it keeps is its store, and the manager  *)
(* resumes above the largest id in it.  The message it was signing is asked *)
(* of it again.                                                             *)
Kill(n) ==
  /\ "kill" \in Faults /\ kills < MaxKills
  /\ kills' = kills + 1
  /\ mgr' = [mgr EXCEPT ![n] = "idle"]
  /\ next' = [next EXCEPT ![n] = ResumeId(n)]
  /\ aged' = [aged EXCEPT ![n] = {}]
  /\ loop' = [loop EXCEPT ![n] = "wait"]
  /\ pick' = [pick EXCEPT ![n] = 0]
  /\ UNCHANGED <<now, store, tickAt, sent, msg, blamed>>

ManagerStep(n) ==
  \/ Tick(n) \/ Refill(n) \/ Rest(n)
  \/ \E id \in Id : Expire(n, id)
  \/ Begin(n) \/ Finish(n) \/ Insert(n)

LoopStep(n) == Pick(n) \/ Consume(n) \/ ConsumeFails(n) \/ Combine(n)

Next ==
  \/ \E n \in Node : ManagerStep(n) \/ LoopStep(n) \/ Fail(n) \/ Kill(n)
  \/ Clock

Spec == Init /\ [][Next]_vars

(* Every thread of every node is scheduled, and messages arrive. *)
FairSpec == Spec /\ \A n \in Node : WF_vars(ManagerStep(n)) /\ WF_vars(LoopStep(n))

-----------------------------------------------------------------------------
(* Properties *)

TypeOK ==
  /\ now \in 1 .. MaxTime + Ttl + 1 /\ kills \in 0 .. MaxKills
  /\ live \in [Node -> SUBSET Id] /\ gone \in [Node -> SUBSET Id]
  /\ stamp \in [Node -> [Id -> 0 .. MaxTime + Ttl + 1]]
  /\ signed \in [Node -> [Id -> 0 .. MaxMsg]]
  /\ mgr \in [Node -> {"idle", "expire", "dead"} \cup Producing]
  /\ next \in [Node -> 1 .. MaxId + 1]
  /\ tickAt \in [Node -> 0 .. MaxTime + Ttl + 1]
  /\ aged \in [Node -> SUBSET Id]
  /\ sent \in [Node -> [Id -> {"nothing", "first", "all"}]]
  /\ loop \in [Node -> {"wait", "picked", "signing", "stopped"}]
  /\ msg \in [Node -> 1 .. MaxMsg + 1]
  /\ pick \in [Node -> 0 .. MaxId]
  /\ blamed \subseteq Node

(* "A restart never over-produces", with kills, expiry and concurrent       *)
(* signing.                                                                 *)
PoolBounded == \A n \in Node : Cardinality(live[n]) <= Target

(* A manager produces no id that its store has ever seen (max_seen_id).     *)
NeverRemade == \A n \in Node : mgr[n] \in Producing => Current(n) \notin Known(n)

(* An id that expired or was burned was not and is not served.              *)
ExpiredNeverServed == \A n \in Node : gone[n] \cap (live[n] \cup Spent(n)) = {}

(* The committee never splits one record over two messages: two signatures  *)
(* with the same k give the key away.                                       *)
OneMessagePerRecord ==
  \A n, m \in Node, id \in Id :
    signed[n][id] # 0 /\ signed[m][id] # 0 => signed[n][id] = signed[m][id]

(* No honest node is ever blamed.                                           *)
HonestBlameless == blamed = {}

(* Every pool is refilled while the loops drain it.                         *)
PoolRefilled == <>[](\A n \in Node : Cardinality(live[n]) = Target)

(* Every message is signed at every node.                                   *)
AllSigned == <>(\A n \in Node : msg[n] = MaxMsg + 1)
=============================================================================
