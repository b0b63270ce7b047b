-------------------------------- MODULE Mesh --------------------------------
(***************************************************************************)
(* The links of the mesh (node/src/net/mesh.rs): every node keeps one      *)
(* outgoing connection to every peer, journals what it sends before it     *)
(* writes it, and after a failed write a reconnect task dials again and    *)
(* sends the whole journal once more.                                      *)
(*                                                                         *)
(* A node is many threads.  A driver per session and a reader per accepted *)
(* connection send frames, one peer at a time; a write takes the           *)
(* connection from the table first and uses it later (send_raw), while the *)
(* reconnect task of that peer may replace it.                             *)
(*                                                                         *)
(* Abstractions.                                                           *)
(*   - The connections of a node to a peer are numbered in the order they  *)
(*     are made; the table holds the latest.  A broken connection has lost *)
(*     the frames its peer had not read; a write to it either fails or is  *)
(*     swallowed by the kernel, which reports nothing.  Write timeouts,    *)
(*     the rate cap and the size bounds break a connection too.  A         *)
(*     connection that was replaced is still read to its end.              *)
(*   - Kicking the reconnect task is one step with the write that failed.  *)
(*   - The peers of a broadcast are served in any order.                   *)
(*   - handle claims the slot, journals its echo and delivers in one step, *)
(*     then writes the echo; the mailbox never fills.                      *)
(*   - Every sender is honest, so that a slot is a message.                *)
(*   - The nodes are up: connect has returned and shutdown is not called.  *)
(* Bounds: MaxBreaks breaks of the connections over the links Flaky.       *)
(***************************************************************************)
EXTENDS Integers, Sequences, FiniteSets, SequencesExt

CONSTANTS
  Node,
  Sids,        \* the number of sessions: their ids are 1 .. Sids
  Script,      \* Script[n][s]: what n's driver sends, in order: a peer or All
  All,         \* the recipient of a broadcast
  Flaky,       \* the links <<n, p>> whose connections may break
  MaxBreaks

Sid == 1 .. Sids
Link == {l \in Node \X Node : l[1] # l[2]}
Peers(n) == Node \ {n}

ASSUME SidsAssumption == Sids \in Nat
ASSUME AllAssumption == All \notin Node
ASSUME ScriptAssumption ==
  /\ DOMAIN Script = Node
  /\ \A n \in Node : /\ DOMAIN Script[n] = Sid
                     /\ \A s \in Sid : Script[n][s] \in Seq(Peers(n) \cup {All})
ASSUME FlakyAssumption == Flaky \subseteq Link /\ MaxBreaks \in Nat

(* A frame: message number seq of the session, as its sender sent it       *)
(* (by = from) or as a peer echoes it.                                     *)
Frame == [by: Node, sid: Sid, from: Node, seq: Nat, to: Node \cup {All}]
Original(n, s, k) == [by |-> n, sid |-> s, from |-> n, seq |-> k, to |-> Script[n][s][k]]
EchoOf(n, f) == [f EXCEPT !.by = n]
IsEcho(f) == f.by # f.from
Addressed(f, p) == f.to \in {p, All}

VARIABLES
  pos,         \* pos[n][s]: how many messages n's driver has sent in s, or Retired
  journal,     \* journal[n][s]: the frames that n has sent in s
  conn,        \* conn[l]: the connection in the table for link l
  wire,        \* wire[l]: for each connection made, what its reader has yet to read
  broken,      \* broken[l]: the connections that are broken
  task,        \* task[l]: the reconnect task of link l
  sending,     \* sending[n]: the thread of n that is in send_all or send_to
  echoed,      \* echoed[n]: the broadcasts n has echoed
  got,         \* got[n]: the frames in n's mailbox
  breaks       \* bound: the breaks so far

vars == <<pos, journal, conn, wire, broken, task, sending, echoed, got, breaks>>

Retired == -1
NoTask == [pc |-> "none", rest |-> <<>>]
Dialing == [pc |-> "dial", rest |-> <<>>]

(* A thread of a node: the driver of a session, or the reader of a         *)
(* connection c that peer p made.  A thread that sends has a frame, the    *)
(* peers it has yet to serve, and perhaps the connection it took for one.  *)
Driver(s) == [of |-> "driver", sid |-> s]
Reader(p, c) == [of |-> "reader", peer |-> p, conn |-> c]
(* A mutant of Sender: the table names the node itself.                    *)
SenderToSelf(th, f, peers) ==
  [thread |-> th, frame |-> f, left |-> peers \cup {f.by}, to |-> All, on |-> 0]
Sender(th, f, peers) == [thread |-> th, frame |-> f, left |-> peers, to |-> All, on |-> 0]
Busy(n, th) == \E x \in sending[n] : x.thread = th

TypeOK ==
  /\ pos \in [Node -> [Sid -> Nat \cup {Retired}]]
  /\ \A n \in Node : \A s \in Sid : journal[n][s] \in Seq(Frame)
  /\ DOMAIN conn = Link /\ DOMAIN wire = Link
  /\ \A l \in Link : /\ conn[l] = Len(wire[l]) /\ conn[l] > 0
                     /\ broken[l] \subseteq 1 .. conn[l]
                     /\ task[l].pc \in {"none", "dial", "snapshot", "resend", "failed"}
                     /\ task[l].rest \in Seq(Frame)
                     /\ \A c \in 1 .. conn[l] : wire[l][c] \in Seq(Frame)
  /\ \A n \in Node : /\ echoed[n] \subseteq Frame /\ got[n] \subseteq Frame
                     /\ \A x \in sending[n] : /\ x.frame \in Frame
                                              /\ x.left \cup ({x.to} \ {All}) \subseteq Peers(n)
                                              /\ x.to # All <=> x.on > 0
                                              /\ \A y \in sending[n] : x.thread = y.thread => x = y
  /\ breaks \in 0 .. MaxBreaks

Init ==
  /\ pos = [n \in Node |-> [s \in Sid |-> 0]]
  /\ journal = [n \in Node |-> [s \in Sid |-> <<>>]]
  /\ conn = [l \in Link |-> 1]
  /\ wire = [l \in Link |-> << <<>> >>]
  /\ broken = [l \in Link |-> {}]
  /\ task = [l \in Link |-> NoTask]
  /\ sending = [n \in Node |-> {}]
  /\ echoed = [n \in Node |-> {}]
  /\ got = [n \in Node |-> {}]
  /\ breaks = 0

-----------------------------------------------------------------------------
(* Sending *)

Pushed(n, f) == [journal EXCEPT ![n][f.sid] = Append(@, f)]

(* The driver of session s sends its next message.                         *)
Send(n, s) ==
  LET k == pos[n][s] + 1
      f == Original(n, s, k)
  IN /\ pos[n][s] # Retired /\ k <= Len(Script[n][s])
     /\ ~ Busy(n, Driver(s))
     /\ pos' = [pos EXCEPT ![n][s] = k]
     /\ journal' = Pushed(n, f)
     /\ sending' = [sending EXCEPT ![n] =
          @ \cup {Sender(Driver(s), f, IF f.to = All THEN Peers(n) ELSE {f.to})}]
     /\ UNCHANGED <<conn, wire, broken, task, echoed, got, breaks>>

(* A mutant of Retire: the prefix matches the other sessions.              *)
RetireAll(n, s) ==
  /\ pos[n][s] # Retired
  /\ ~ Busy(n, Driver(s))
  /\ pos' = [pos EXCEPT ![n][s] = Retired]
  /\ journal' = [journal EXCEPT ![n] = [t \in Sid |-> <<>>]]
  /\ UNCHANGED <<conn, wire, broken, task, sending, echoed, got, breaks>>

(* The driver ends, whatever became of its session.                        *)
Retire(n, s) ==
  /\ pos[n][s] # Retired
  /\ ~ Busy(n, Driver(s))
  /\ pos' = [pos EXCEPT ![n][s] = Retired]
  /\ journal' = [journal EXCEPT ![n][s] = <<>>]
  /\ UNCHANGED <<conn, wire, broken, task, sending, echoed, got, breaks>>

(* A sending thread takes the connection of its next peer.                 *)
Take(n, x, p) ==
  /\ x.to = All /\ p \in x.left
  /\ sending' = [sending EXCEPT ![n] = (@ \ {x}) \cup
       {[x EXCEPT !.left = @ \ {p}, !.to = p, !.on = conn[<<n, p>>]]}]
  /\ UNCHANGED <<pos, journal, conn, wire, broken, task, echoed, got, breaks>>

Served(n, x) == [sending EXCEPT ![n] =
  (@ \ {x}) \cup IF x.left = {} THEN {} ELSE {[x EXCEPT !.to = All, !.on = 0]}]

(* The write on the connection it took: it arrives or is lost.             *)
Put(l, c, f) ==
  wire' = IF c \in broken[l] THEN wire ELSE [wire EXCEPT ![l][c] = Append(@, f)]

Write(n, x) ==
  /\ x.to # All
  /\ Put(<<n, x.to>>, x.on, x.frame)
  /\ sending' = Served(n, x)
  /\ UNCHANGED <<pos, journal, conn, broken, task, echoed, got, breaks>>

(* The write fails: start the peer's reconnect task unless it is running.  *)
Kick(l) == IF task[l] = NoTask THEN Dialing ELSE task[l]

FailWrite(n, x) ==
  /\ x.to # All /\ x.on \in broken[<<n, x.to>>]
  /\ task' = [task EXCEPT ![<<n, x.to>>] = Kick(<<n, x.to>>)]
  /\ sending' = Served(n, x)
  /\ UNCHANGED <<pos, journal, conn, wire, broken, echoed, got, breaks>>

-----------------------------------------------------------------------------
(* Receiving *)

(* The reader of connection c of link <<p, n>> handles one frame.          *)
Read(p, n, c) ==
  LET l == <<p, n>>
      f == Head(wire[l][c])
      echo == EchoOf(n, f)
  IN /\ c <= conn[l] /\ wire[l][c] # <<>>
     /\ ~ Busy(n, Reader(p, c))
     /\ wire' = [wire EXCEPT ![l][c] = Tail(@)]
     /\ got' = [got EXCEPT ![n] = IF Addressed(f, n) THEN @ \cup {f} ELSE @]
     /\ IF ~ IsEcho(f) /\ f.to = All /\ f \notin echoed[n]
          THEN /\ echoed' = [echoed EXCEPT ![n] = @ \cup {f}]
               /\ journal' = Pushed(n, echo)
               /\ sending' = [sending EXCEPT ![n] =
                    @ \cup {Sender(Reader(p, c), echo, Peers(n))}]
          ELSE UNCHANGED <<echoed, journal, sending>>
     /\ UNCHANGED <<pos, conn, broken, task, breaks>>

-----------------------------------------------------------------------------
(* Faults, and the reconnect task *)

Break(l, c) ==
  /\ l \in Flaky /\ breaks < MaxBreaks
  /\ c \in 1 .. conn[l] \ broken[l]
  /\ \E k \in 0 .. Len(wire[l][c]) :
       wire' = [wire EXCEPT ![l][c] = SubSeq(@, 1, k)]
  /\ broken' = [broken EXCEPT ![l] = @ \cup {c}]
  /\ breaks' = breaks + 1
  /\ UNCHANGED <<pos, journal, conn, task, sending, echoed, got>>

(* The dial succeeds at some attempt: the table holds the new connection.  *)
Dial(l) ==
  /\ task[l].pc = "dial"
  /\ conn' = [conn EXCEPT ![l] = @ + 1]
  /\ wire' = [wire EXCEPT ![l] = Append(@, <<>>)]
  /\ task' = [task EXCEPT ![l].pc = "snapshot"]
  /\ UNCHANGED <<pos, journal, broken, sending, echoed, got, breaks>>

(* A mutant of Snapshot: only the latest session.                          *)
SnapshotOfLast(l) ==
  /\ task[l].pc = "snapshot"
  /\ task' = [task EXCEPT ![l] = [pc |-> "resend", rest |-> journal[l[1]][Sids]]]
  /\ UNCHANGED <<pos, journal, conn, wire, broken, sending, echoed, got, breaks>>

(* The resend begins with a copy of the journal, whoever its frames are    *)
(* for, session by session.                                                *)
Snapshot(l) ==
  /\ task[l].pc = "snapshot"
  /\ task' = [task EXCEPT ![l] = [pc |-> "resend", rest |-> FlattenSeq(journal[l[1]])]]
  /\ UNCHANGED <<pos, journal, conn, wire, broken, sending, echoed, got, breaks>>

Resend(l) ==
  /\ task[l].pc = "resend" /\ task[l].rest # <<>>
  /\ Put(l, conn[l], Head(task[l].rest))
  /\ task' = [task EXCEPT ![l].rest = Tail(@)]
  /\ UNCHANGED <<pos, journal, conn, broken, sending, echoed, got, breaks>>

(* A resend that fails kicks the reconnect task: its own, which is still   *)
(* registered, so that the kick does nothing.                              *)
FailResend(l) ==
  /\ task[l].pc = "resend" /\ task[l].rest # <<>> /\ conn[l] \in broken[l]
  /\ task' = [task EXCEPT ![l] = [Kick(l) EXCEPT !.pc = "failed", !.rest = <<>>]]
  /\ UNCHANGED <<pos, journal, conn, wire, broken, sending, echoed, got, breaks>>

Leave(l) ==
  /\ task[l].pc \in {"resend", "failed"} /\ task[l].rest = <<>>
  /\ task' = [task EXCEPT ![l] = NoTask]
  /\ UNCHANGED <<pos, journal, conn, wire, broken, sending, echoed, got, breaks>>

Sending(n) == \E x \in sending[n] :
  (\E p \in x.left : Take(n, x, p)) \/ Write(n, x) \/ FailWrite(n, x)
Reading(l) == \E c \in 1 .. conn[l] : Read(l[1], l[2], c)
Reconnecting(l) == Dial(l) \/ Snapshot(l) \/ Resend(l) \/ FailResend(l) \/ Leave(l)

Next ==
  \/ \E n \in Node, s \in Sid : Send(n, s) \/ Retire(n, s)
  \/ \E n \in Node : Sending(n)
  \/ \E l \in Link : Reading(l) \/ Reconnecting(l) \/ \E c \in 1 .. conn[l] : Break(l, c)

Spec == Init /\ [][Next]_vars

(* Every thread goes on: no write parks its thread for ever                *)
(* (WRITE_TIMEOUT), readers read, and a dial succeeds at last since the    *)
(* peers are up and the attempts unlimited (ReconnectConfig::default).     *)
FairSpec ==
  /\ Spec
  /\ \A n \in Node : WF_vars(Sending(n))
  /\ \A l \in Link : WF_vars(Reading(l)) /\ WF_vars(Reconnecting(l))

-----------------------------------------------------------------------------
(* Properties *)

(* f is read or will be: it is in the mailbox of the peer, on its way on   *)
(* some connection, or a thread is about to write it on the connection     *)
(* that is in the table.                                                   *)
OnItsWay(l, f) ==
  \/ f \in got[l[2]]
  \/ \E c \in 1 .. conn[l] : f \in Range(wire[l][c])
  \/ f \in Range(task[l].rest)
  \/ \E x \in sending[l[1]] :
       x.frame = f /\ (l[2] \in x.left \/ (x.to = l[2] /\ x.on = conn[l]))

(* What n has sent in the sessions it still runs.                          *)
Sent(n) ==
  (UNION {{Original(n, s, k) : k \in 1 .. pos[n][s]} : s \in Sid})
    \cup {EchoOf(n, f) : f \in {e \in echoed[n] : pos[n][e.sid] # Retired}}

(* A connection that works misses nothing: but for the moment between a    *)
(* dial and the copy of the journal, everything sent to the peer in the    *)
(* running sessions has arrived or is on its way, whichever threads sent   *)
(* it before, during or after the reconnection (journal_push before        *)
(* send_raw, and the new connection in the table before resend_journal     *)
(* copies the journal).                                                    *)
NoGap ==
  \A l \in Link : conn[l] \notin broken[l] /\ task[l].pc # "snapshot" =>
    \A f \in Sent(l[1]) : Addressed(f, l[2]) => OnItsWay(l, f)

(* What was sent in the sessions that go on is delivered, once the         *)
(* connections stay up (the re-sync of reconnect_loop): only a break that  *)
(* nobody notices, or that the resend itself notices, leaves a peer        *)
(* without it.                                                             *)
Delivered ==
  <>[](\A l \in Link : conn[l] \notin broken[l]) =>
  <>[](\A l \in Link : \A f \in Sent(l[1]) : Addressed(f, l[2]) => f \in got[l[2]])
=============================================================================
