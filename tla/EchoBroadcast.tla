---------------------------- MODULE EchoBroadcast ----------------------------
(***************************************************************************)
(* The signed-echo broadcast of the per-party nodes, over the rounds of    *)
(* one session: what the mesh does with an incoming message                *)
(* (node/src/net/mesh.rs, handle), what the acceptor makes of it           *)
(* (node/src/party/party.rs, Acceptor), and the driver that waits for a    *)
(* round's complete set and starts the next round                          *)
(* (PartyNode::accepted_broadcasts_over).                                  *)
(*                                                                         *)
(* Abstractions.                                                           *)
(*   - Signatures are unforgeable: a faulty node signs whatever it likes   *)
(*     in its own name and passes on what others have signed.              *)
(*   - Every message of an honest node goes to all its peers, so its       *)
(*     outgoing connections are one sequence that each peer reads in       *)
(*     order; a reconnect replays it from the start, which adds nothing.   *)
(*   - The acceptor's slots are the set of the messages it has processed,  *)
(*     and it processes a message when the mesh has read it: the inbox     *)
(*     between the two (a queue) is left out.                              *)
(*   - A driver whose set is incomplete at the deadline fails closed: it   *)
(*     takes no further step, which Spec allows at any time.               *)
(*   - An honest node broadcasts the number of the round.                  *)
(*   - A session begins with the broadcasts of its first Upfront rounds    *)
(*     and the shares for each peer, all sent at once (joint_vss_run:      *)
(*     commit and reveal); each later broadcast waits for the round before.*)
(*   - Bounds: a faulty node shows one node one value per slot at most (a  *)
(*     second one would only poison it there), its messages reach a node   *)
(*     in their round or later (early ones only warn the others), and it   *)
(*     does not echo to a node what that node accepts already.             *)
(***************************************************************************)
EXTENDS Integers, Sequences, FiniteSets

CONSTANTS
  Node, Faulty,
  T,               \* the threshold: fewer than T nodes are faulty
  Rounds,          \* the number of rounds of the session
  Upfront,         \* how many of them are sent at once
  Direct,          \* the rounds that also end with a share from every peer
  Disputed         \* bound: the rounds in which a faulty node may show two values

ASSUME NodeAssumption == IsFiniteSet(Node) /\ Faulty \subseteq Node
ASSUME ThresholdAssumption ==
  T \in Nat /\ Cardinality(Node) >= 2 * T - 1 /\ Cardinality(Faulty) < T
ASSUME RoundsAssumption ==
  /\ Rounds \in Nat \ {0} /\ Upfront \in 1 .. Rounds
  /\ Direct \cup Disputed \subseteq 1 .. Rounds

Honest == Node \ Faulty
Round == 1 .. Rounds
Value == Round \cup {1, 2}

EchoNext(e, r, s, v) ==       \* a mutant of Echo: the counter of the driver
  [kind |-> "echo", by |-> e, round |-> r + 1, from |-> s, value |-> v]

Original(r, s, v) == [kind |-> "original", by |-> s, round |-> r, from |-> s, value |-> v]
Echo(e, r, s, v)  == [kind |-> "echo", by |-> e, round |-> r, from |-> s, value |-> v]

Message ==
  [kind: {"original", "echo"}, by: Node, round: Round, from: Node, value: Value]

VARIABLES
  log,         \* log[n]: what honest n has sent, in order
  read,        \* read[n][m]: how much of log[m] has reached n
  seen,        \* seen[n]: the messages n's acceptor has processed
  poisoned,    \* poisoned[n]: the senders that n's acceptor has caught equivocating
  echoed,      \* echoed[n]: the slots n has echoed a value for
  round,       \* round[n]: the round that n's driver waits for
  returned,    \* returned[n][r][s]: the value of s in the set n returned for r
  calm         \* calm[n]: the rounds that n ended when no message was under way

vars == <<log, read, seen, poisoned, echoed, round, returned, calm>>

-----------------------------------------------------------------------------
(* The acceptor *)

(* A mutant of Conflicts: slots without their sender. *)
ConflictsInRound(n, m) == \E x \in seen[n] : x.round = m.round /\ x.value # m.value

(* A mutant of Conflicts: only what comes from the sender itself.           *)
ConflictsDirectly(n, m) ==
  \E x \in seen[n] :
    x.by = m.by /\ x.from = m.from /\ x.round = m.round /\ x.value # m.value

(* insert_candidate: m is a second distinct payload of its slot.            *)
Conflicts(n, m) ==
  \E x \in seen[n] : x.from = m.from /\ x.round = m.round /\ x.value # m.value

Echoers(n, r, s, v) ==
  {e \in Node \ {s} : Echo(e, r, s, v) \in seen[n]}

QuorumOfAll == Cardinality(Node)             \* a mutant of EchoQuorum
EchoQuorum == T - 1

Accepts(n, r, s, v) ==
  /\ s \notin poisoned[n]
  /\ \E m \in seen[n] : m.from = s /\ m.round = r /\ m.value = v
  /\ Cardinality(Echoers(n, r, s, v)) >= EchoQuorum

(* Acceptor::process: nothing more is taken from a poisoned sender, and the *)
(* second value of a slot poisons its sender for the whole session.         *)
Process(n, m, echo) ==
  IF m.from \in poisoned[n] THEN UNCHANGED <<seen, poisoned>>
  ELSE /\ seen' = [seen EXCEPT ![n] = @ \cup {m} \cup echo]
       /\ poisoned' = IF Conflicts(n, m)
                      THEN [poisoned EXCEPT ![n] = @ \cup {m.from}] ELSE poisoned

-----------------------------------------------------------------------------
None == 0        \* no value: the round is not over

Init ==
  /\ log = [n \in Honest |-> [r \in 1 .. Upfront |-> Original(r, n, r)]]
  /\ read = [n \in Honest |-> [m \in Honest |-> 0]]
  /\ seen = [n \in Honest |-> {}]
  /\ poisoned = [n \in Honest |-> {}]
  /\ echoed = [n \in Honest |-> {}]
  /\ round = [n \in Honest |-> 1]
  /\ returned = [n \in Honest |-> [r \in Round |-> [s \in Node |-> None]]]
  /\ calm = [n \in Honest |-> {}]

FirstEcho(n, m) == <<m.round, m.from>> \notin echoed[n]

(* handle: a broadcast original is echoed to all if it is the first of its  *)
(* slot, and the node's own echo loops back into its acceptor.              *)
Handle(n, m) ==
  IF m.kind = "original" /\ FirstEcho(n, m)
  THEN LET echo == Echo(n, m.round, m.from, m.value) IN
       /\ log' = [log EXCEPT ![n] = Append(@, echo)]
       /\ Process(n, m, {echo})
       /\ echoed' = [echoed EXCEPT ![n] = @ \cup {<<m.round, m.from>>}]
  ELSE /\ Process(n, m, {})
       /\ UNCHANGED <<log, echoed>>

(* The next message of an honest peer arrives. *)
Deliver(n, m) ==
  /\ m # n
  /\ read[n][m] < Len(log[m])
  /\ read' = [read EXCEPT ![n][m] = @ + 1]
  /\ Handle(n, log[m][read[n][m] + 1])
  /\ UNCHANGED <<round, returned, calm>>

HasSent(m, r) == r <= Upfront \/ r <= round[m]

(* What a faulty node can sign so that WireMessage::verify passes: originals *)
(* of its own, and echoes of what others have signed.                        *)
FaultySigned ==
  {m \in Message :
     /\ m.by \in Faulty
     /\ (m.kind = "original") <=> (m.by = m.from)
     /\ m.round \in Disputed \/ m.value = m.round}

Inject(n, m) ==
  /\ m.round <= round[n]
  /\ m.from \in Honest => m.value = m.round /\ HasSent(m.from, m.round)
  /\ m \notin seen[n]
  /\ m.from \notin poisoned[n]
  /\ m.kind = "echo" => ~Accepts(n, m.round, m.from, m.value)
  /\ \A x \in seen[n] : x.by = m.by /\ x.round = m.round /\ x.from = m.from => x.value = m.value
  /\ Handle(n, m)
  /\ UNCHANGED <<read, round, returned, calm>>

(* What SPEC 4.7 counts on when a round ends: nothing is under way. *)
Settled ==
  \A n, m \in Honest : m # n => read[n][m] = Len(log[m])

(* The share that m sends to n alone follows its first broadcasts.          *)
ShareArrived(n, m) == read[n][m] >= Upfront

(* The set is complete: the driver takes it and starts the next round.      *)
EndRound(n) ==
  /\ round[n] \in Round
  /\ round[n] \in Direct => \A m \in Honest \ {n} : ShareArrived(n, m)
  /\ \A s \in Node : \E v \in Value : Accepts(n, round[n], s, v)
  /\ returned' = [returned EXCEPT ![n][round[n]] =
       [s \in Node |-> CHOOSE v \in Value : Accepts(n, round[n], s, v)]]
  /\ calm' = [calm EXCEPT ![n] = IF Settled THEN @ \cup {round[n]} ELSE @]
  /\ round' = [round EXCEPT ![n] = @ + 1]
  /\ log' = IF round[n] + 1 \in Upfront + 1 .. Rounds
            THEN [log EXCEPT ![n] = Append(@, Original(round[n] + 1, n, round[n] + 1))]
            ELSE log
  /\ UNCHANGED <<read, seen, poisoned, echoed>>

Next ==
  \E n \in Honest :
    \/ \E m \in Honest : Deliver(n, m)
    \/ \E m \in FaultySigned : Inject(n, m)
    \/ EndRound(n)

Spec == Init /\ [][Next]_vars

(* Connections deliver, and a driver is woken when its set is complete.     *)
Progress ==
  \A n \in Honest : WF_vars(EndRound(n)) /\ \A m \in Honest : WF_vars(Deliver(n, m))

FairSpec == Spec /\ Progress

-----------------------------------------------------------------------------
(* Properties *)

TypeOK ==
  /\ log \in [Honest -> Seq(Message)]
  /\ read \in [Honest -> [Honest -> Nat]]
  /\ seen \in [Honest -> SUBSET Message]
  /\ poisoned \in [Honest -> SUBSET Node]
  /\ echoed \in [Honest -> SUBSET (Round \X Node)]
  /\ round \in [Honest -> 1 .. Rounds + 1]
  /\ returned \in [Honest -> [Round -> [Node -> Value \cup {None}]]]
  /\ calm \in [Honest -> SUBSET Round]

Differ(n, m, r, s) ==
  returned[n][r][s] # None /\ returned[m][r][s] # None /\ returned[n][r][s] # returned[m][r][s]

(* SPEC 4.7, consistency: no two honest parties accept different values.    *)
Consistency == \A n, m \in Honest, r \in Round, s \in Node : ~Differ(n, m, r, s)

(* What the code keeps of it: with a node that ended the round when nothing *)
(* was under way, no other honest node ever disagrees.                      *)
CalmRoundsAgree ==
  \A n, m \in Honest, s \in Node : \A r \in calm[n] : ~Differ(n, m, r, s)

(* Both sides of a split end up with the evidence against the sender.       *)
SplitsAreExposed ==
  \A n, m \in Honest, r \in Round, s \in Node :
    Differ(n, m, r, s) ~> s \in poisoned[n] \cap poisoned[m]

(* No honest sender is ever poisoned: there is no second signed value.      *)
HonestNeverPoisoned == \A n \in Honest : poisoned[n] \subseteq Faulty

(* SPEC 4.7, validity: whatever faulty nodes do, every honest node comes to *)
(* accept what an honest one broadcasts.                                    *)
Validity == \A n, m \in Honest, r \in 1 .. Upfront : <>Accepts(n, r, m, r)
=============================================================================
