----------------------------- MODULE Mesh_proofs -----------------------------
(***************************************************************************)
(* Proofs about Mesh, for every set of nodes, every number of sessions and *)
(* scripts, any links that break and any number of breaks.                 *)
(***************************************************************************)
EXTENDS Mesh, NaturalsInduction, WellFoundedInduction, SequenceTheorems, TLAPS

(* A non-empty set of natural numbers has a least element.                 *)
LEMMA LeastExists ==
  ASSUME NEW S \in SUBSET Nat, S # {}
  PROVE  \E x \in S : \A y \in S : x <= y
<1>1. PICK x \in S : \A y \in S : <<y, x>> \notin OpToRel(<, Nat)
  BY NatLessThanWellFounded, WFMin
<1>2. \A y \in S : ~(y < x)
  BY <1>1 DEF OpToRel
<1> QED
  BY <1>2

-----------------------------------------------------------------------------
(* The copy of a journal has the frames of every session.                  *)

LEMMA RangeOfAppend ==
  ASSUME NEW F, NEW a \in Seq(F), NEW x \in F
  PROVE  Append(a, x) \in Seq(F) /\ Range(Append(a, x)) = Range(a) \cup {x}
<1>1. Append(a, x) \in Seq(F) /\ Len(Append(a, x)) = Len(a) + 1 /\ Len(a) \in Nat
  OBVIOUS
<1>2. \A i \in 1 .. Len(a) : Append(a, x)[i] = a[i]
  OBVIOUS
<1>3. Append(a, x)[Len(a) + 1] = x
  OBVIOUS
<1> QED
  BY <1>1, <1>2, <1>3 DEF Range

LEMMA RangeOfTail ==
  ASSUME NEW F, NEW a \in Seq(F), a # <<>>
  PROVE  Tail(a) \in Seq(F) /\ Range(a) = Range(Tail(a)) \cup {Head(a)}
<1>1. Tail(a) \in Seq(F) /\ Len(Tail(a)) = Len(a) - 1 /\ Len(a) \in Nat \ {0} /\ Head(a) = a[1]
  OBVIOUS
<1>2. \A i \in 1 .. Len(a) - 1 : Tail(a)[i] = a[i + 1] /\ i + 1 \in 1 .. Len(a)
  BY <1>1
<1>3. Range(Tail(a)) \cup {Head(a)} \subseteq Range(a)
  BY <1>1, <1>2 DEF Range
<1>4. ASSUME NEW i \in 1 .. Len(a)
      PROVE  a[i] \in Range(Tail(a)) \cup {Head(a)}
  <2>1. CASE i = 1
    BY <1>1, <2>1
  <2>2. CASE i # 1
    <3>1. i - 1 \in 1 .. Len(a) - 1 /\ (i - 1) + 1 = i
      BY <1>1, <2>2
    <3>2. Tail(a)[i - 1] = a[i] /\ i - 1 \in 1 .. Len(Tail(a))
      BY <1>1, <1>2, <3>1
    <3>3. \E k \in 1 .. Len(Tail(a)) : Tail(a)[k] = a[i]
      BY <3>2
    <3>4. DOMAIN Tail(a) = 1 .. Len(Tail(a))
      BY <1>1
    <3> QED
      BY <3>3, <3>4 DEF Range
  <2> QED
    BY <2>1, <2>2
<1> QED
  BY <1>1, <1>3, <1>4 DEF Range

LEMMA RangeOfConcat ==
  ASSUME NEW F, NEW a \in Seq(F), NEW b \in Seq(F)
  PROVE  a \o b \in Seq(F) /\ Range(a) \cup Range(b) \subseteq Range(a \o b)
<1>1. a \o b \in Seq(F) /\ Len(a \o b) = Len(a) + Len(b) /\ Len(a) \in Nat /\ Len(b) \in Nat
  OBVIOUS
<1>2. \A i \in 1 .. Len(a) : (a \o b)[i] = a[i] /\ i \in 1 .. Len(a \o b)
  BY <1>1
<1>3. \A i \in 1 .. Len(b) : (a \o b)[Len(a) + i] = b[i] /\ Len(a) + i \in 1 .. Len(a \o b)
  BY <1>1
<1>4. Range(a) \subseteq Range(a \o b)
  BY <1>1, <1>2 DEF Range
<1>5. Range(b) \subseteq Range(a \o b)
  <2> SUFFICES ASSUME NEW i \in 1 .. Len(b) PROVE b[i] \in Range(a \o b)
    BY DEF Range
  <2>1. \E k \in 1 .. Len(a \o b) : (a \o b)[k] = b[i]
    BY <1>3
  <2> QED
    BY <1>1, <2>1 DEF Range
<1> QED
  BY <1>1, <1>4, <1>5

(* FlattenSeq is a recursive function: there is one, and it is what it     *)
(* should be, by the least index at which either would fail.               *)
LEMMA FlattenIs ==
  ASSUME NEW F, NEW n \in Nat, NEW s \in [1 .. n -> Seq(F)]
  PROVE  /\ FlattenSeq(s) \in Seq(F)
         /\ \A i \in 1 .. n : Range(s[i]) \subseteq Range(FlattenSeq(s))
<1> DEFINE Body(g, i) == IF i = 1 THEN s[i] ELSE g[i - 1] \o s[i]
           Flat(g, m) ==
             /\ g = [i \in 1 .. m |-> Body(g, i)]
             /\ \A i \in 1 .. m : g[i] \in Seq(F) /\ \A j \in 1 .. i : Range(s[j]) \subseteq Range(g[i])
<1>1. s \in Seq(Seq(F)) /\ Len(s) = n
  OBVIOUS
<1>2. CASE n = 0
  <2>1. FlattenSeq(s) = s
    BY <1>1, <1>2 DEF FlattenSeq
  <2>2. s \in Seq(F)
    BY <1>2
  <2> QED
    BY <1>2, <2>1, <2>2
<1>3. CASE n # 0
  <2>1. ASSUME NEW m \in 1 .. n, m = 1
        PROVE  \E g : Flat(g, m)
    <3> DEFINE g == [i \in 1 .. 1 |-> s[1]]
    <3>1. g = [i \in 1 .. m |-> Body(g, i)]
      BY <2>1
    <3>2. \A i \in 1 .. m : g[i] \in Seq(F) /\ \A j \in 1 .. i : Range(s[j]) \subseteq Range(g[i])
      BY <2>1
    <3> QED
      BY <3>1, <3>2
  <2>2. ASSUME NEW m \in 1 .. n, m + 1 \in 1 .. n, NEW g, Flat(g, m)
        PROVE  \E h : Flat(h, m + 1)
    <3> DEFINE new == g[m] \o s[m + 1]
               h == [i \in 1 .. m + 1 |-> IF i = m + 1 THEN new ELSE g[i]]
    <3>1. g[m] \in Seq(F) /\ s[m + 1] \in Seq(F) /\ \A j \in 1 .. m : Range(s[j]) \subseteq Range(g[m])
      <4>1. m \in 1 .. m /\ s[m + 1] \in Seq(F)
        BY <2>2
      <4> HIDE DEF Body
      <4> QED
        BY <2>2, <4>1
    <3>2. new \in Seq(F) /\ Range(g[m]) \cup Range(s[m + 1]) \subseteq Range(new)
      BY <3>1, RangeOfConcat
    <3>3. ASSUME NEW i \in 1 .. m + 1
          PROVE  h[i] = Body(h, i)
      <4> HIDE DEF new
      <4>1. CASE i = m + 1
        <5>1. h[i - 1] = g[m] /\ i # 1
          BY <4>1
        <5>2. h[i] = new
          BY <4>1
        <5> QED
          BY <4>1, <5>1, <5>2 DEF new
      <4>2. CASE i # m + 1
        <5>1. i \in 1 .. m /\ h[i] = g[i] /\ (i # 1 => h[i - 1] = g[i - 1])
          BY <4>2
        <5>2. g[i] = Body(g, i)
          BY <2>2, <5>1
        <5> QED
          BY <5>1, <5>2
      <4> QED
        BY <4>1, <4>2
    <3>4. ASSUME NEW i \in 1 .. m + 1
          PROVE  h[i] \in Seq(F) /\ \A j \in 1 .. i : Range(s[j]) \subseteq Range(h[i])
      <4> HIDE DEF new
      <4>1. CASE i = m + 1
        BY <3>1, <3>2, <4>1
      <4>2. CASE i # m + 1
        <5>1. i \in 1 .. m /\ h[i] = g[i]
          BY <4>2
        <5> HIDE DEF h, Body
        <5> QED
          BY <2>2, <5>1
      <4> QED
        BY <4>1, <4>2
    <3>5. h = [i \in 1 .. m + 1 |-> Body(h, i)]
      <4> HIDE DEF new
      <4> QED
        BY <3>3
    <3> HIDE DEF h, Body
    <3> QED
      BY <3>4, <3>5
  <2> HIDE DEF Flat
  <2>3. \A m \in 1 .. n : \E g : Flat(g, m)
    <3> DEFINE Bad == {m \in 1 .. n : ~ \E g : Flat(g, m)}
    <3> SUFFICES ASSUME Bad # {} PROVE FALSE
      OBVIOUS
    <3>1. PICK m \in Bad : \A y \in Bad : m <= y
      <4>1. Bad \in SUBSET Nat
        OBVIOUS
      <4> QED
        BY <4>1, LeastExists
    <3>2. m # 1
      BY <2>1
    <3>3. m - 1 \in 1 .. n /\ (m - 1) + 1 \in 1 .. n /\ m - 1 \notin Bad /\ (m - 1) + 1 = m
      <4>1. m \in 1 .. n
        OBVIOUS
      <4>2. m - 1 \in 1 .. n /\ (m - 1) + 1 \in 1 .. n /\ (m - 1) + 1 = m /\ ~ (m <= m - 1)
        BY <3>2, <4>1
      <4> HIDE DEF Bad
      <4> QED
        BY <3>1, <4>2
    <3>4. PICK k : k = m - 1
      OBVIOUS
    <3>5. PICK g : Flat(g, k)
      BY <3>3, <3>4
    <3>6. \E h : Flat(h, k + 1)
      BY <2>2, <3>3, <3>4, <3>5
    <3> QED
      BY <3>3, <3>4, <3>6
  <2>4. n \in 1 .. n
    BY <1>3
  <2>5. PICK g : Flat(g, n)
    BY <2>3, <2>4
  <2> DEFINE f == CHOOSE h : h = [i \in 1 .. Len(s) |-> IF i = 1 THEN s[i] ELSE h[i - 1] \o s[i]]
  <2>6. FlattenSeq(s) = f[Len(s)]
    BY <1>1, <1>3, Zenon DEF FlattenSeq
  <2>7. g = [i \in 1 .. Len(s) |-> IF i = 1 THEN s[i] ELSE g[i - 1] \o s[i]]
    BY <1>1, <2>5, Zenon DEF Flat
  <2>8. f = [i \in 1 .. Len(s) |-> IF i = 1 THEN s[i] ELSE f[i - 1] \o s[i]]
    BY <2>7, Zenon
  <2> HIDE DEF f
  <2>9. \A m \in 1 .. n : f[m] \in Seq(F) /\ \A j \in 1 .. m : Range(s[j]) \subseteq Range(f[m])
    <3> DEFINE Bad == {m \in 1 .. n : ~ (f[m] = g[m])}
    <3>1. Bad = {}
      <4> SUFFICES ASSUME Bad # {} PROVE FALSE
        OBVIOUS
      <4>1. PICK m \in Bad : \A y \in Bad : m <= y
        <5>1. Bad \in SUBSET Nat
          OBVIOUS
        <5> QED
          BY <5>1, LeastExists
      <4>2. f[m] = Body(f, m) /\ g[m] = Body(g, m)
        BY <1>1, <2>7, <2>8
      <4>3. m # 1 => m - 1 \in 1 .. n /\ m - 1 \notin Bad
        BY <4>1
      <4>4. m # 1 => f[m - 1] = g[m - 1]
        BY <4>3
      <4> QED
        BY <4>2, <4>4
    <3>2. \A m \in 1 .. n : f[m] = g[m]
      BY <3>1
    <3> QED
      BY <2>5, <3>2 DEF Flat
  <2> QED
    BY <1>1, <2>4, <2>6, <2>9
<1> QED
  BY <1>2, <1>3

-----------------------------------------------------------------------------
(* Types *)

Thread == [of: {"driver"}, sid: Sid] \cup [of: {"reader"}, peer: Node, conn: Nat]
SenderSet == [thread: Thread, frame: Frame, left: SUBSET Node, to: Node \cup {All}, on: Nat]
Task == [pc: {"none", "dial", "snapshot", "resend", "failed"}, rest: Seq(Frame)]

(* Every thread of n sends one frame at a time, and never to n itself.     *)
SendersOf(n, X) ==
  /\ X \in SUBSET SenderSet
  /\ \A x \in X : /\ x.left \cup ({x.to} \ {All}) \subseteq Peers(n)
                  /\ x.to # All <=> x.on > 0
                  /\ \A y \in X : x.thread = y.thread => x = y

Types ==
  /\ pos \in [Node -> [Sid -> Nat \cup {Retired}]]
  /\ journal \in [Node -> [Sid -> Seq(Frame)]]
  /\ conn \in [Link -> Nat \ {0}]
  /\ wire \in [Link -> Seq(Seq(Frame))]
  /\ broken \in [Link -> SUBSET Nat]
  /\ \A l \in Link : conn[l] = Len(wire[l]) /\ broken[l] \subseteq 1 .. conn[l]
  /\ task \in [Link -> Task]
  /\ sending \in [Node -> SUBSET SenderSet]
  /\ \A n \in Node : SendersOf(n, sending[n])
  /\ echoed \in [Node -> SUBSET Frame] /\ got \in [Node -> SUBSET Frame]
  /\ breaks \in 0 .. MaxBreaks

LEMMA TypesGive == Types => TypeOK
<1> SUFFICES ASSUME Types PROVE TypeOK
  OBVIOUS
<1>1. /\ pos \in [Node -> [Sid -> Nat \cup {Retired}]]
      /\ \A n \in Node : \A s \in Sid : journal[n][s] \in Seq(Frame)
      /\ DOMAIN conn = Link /\ DOMAIN wire = Link
      /\ breaks \in 0 .. MaxBreaks
  BY DEF Types
<1>2. ASSUME NEW l \in Link
      PROVE  /\ conn[l] = Len(wire[l]) /\ conn[l] > 0
             /\ broken[l] \subseteq 1 .. conn[l]
             /\ task[l].pc \in {"none", "dial", "snapshot", "resend", "failed"}
             /\ task[l].rest \in Seq(Frame)
             /\ \A c \in 1 .. conn[l] : wire[l][c] \in Seq(Frame)
  <2>1. conn[l] = Len(wire[l]) /\ broken[l] \subseteq 1 .. conn[l] /\ conn[l] \in Nat \ {0}
    BY DEF Types
  <2>2. task[l] \in Task /\ wire[l] \in Seq(Seq(Frame))
    BY DEF Types
  <2>3. \A c \in 1 .. conn[l] : wire[l][c] \in Seq(Frame)
    BY <2>1, <2>2
  <2> QED
    BY <2>1, <2>2, <2>3 DEF Task
<1>3. ASSUME NEW n \in Node
      PROVE  /\ echoed[n] \subseteq Frame /\ got[n] \subseteq Frame
             /\ \A x \in sending[n] : /\ x.frame \in Frame
                                      /\ x.left \cup ({x.to} \ {All}) \subseteq Peers(n)
                                      /\ x.to # All <=> x.on > 0
                                      /\ \A y \in sending[n] : x.thread = y.thread => x = y
  <2>1. SendersOf(n, sending[n]) /\ echoed[n] \subseteq Frame /\ got[n] \subseteq Frame
    BY DEF Types
  <2>2. \A x \in sending[n] : x.frame \in Frame
    BY <2>1 DEF SendersOf, SenderSet
  <2> QED
    BY <2>1, <2>2 DEF SendersOf
<1> QED
  BY <1>1, <1>2, <1>3 DEF TypeOK

(* A new frame, and the thread that begins to send it.                     *)
LEMMA SenderStarts ==
  ASSUME NEW n \in Node, NEW X, SendersOf(n, X), NEW th \in Thread, NEW f \in Frame,
         NEW P \in SUBSET Peers(n), \A x \in X : x.thread # th
  PROVE  SendersOf(n, X \cup {Sender(th, f, P)})
<1>1. Sender(th, f, P) \in SenderSet
  BY DEF Sender, SenderSet, Peers
<1>2. /\ Sender(th, f, P).left = P /\ Sender(th, f, P).to = All /\ Sender(th, f, P).on = 0
      /\ Sender(th, f, P).thread = th
  BY DEF Sender
<1> HIDE DEF Sender
<1> QED
  BY <1>1, <1>2 DEF SendersOf

LEMMA TakeTypes ==
  ASSUME Types, NEW n \in Node, NEW x \in sending[n], NEW p \in x.left, Take(n, x, p)
  PROVE  Types'
<1> DEFINE y == [x EXCEPT !.left = @ \ {p}, !.to = p, !.on = conn[<<n, p>>]]
<1>0. SendersOf(n, sending[n]) /\ x \in SenderSet /\ p \in Peers(n) /\ <<n, p>> \in Link
  BY DEF Types, SendersOf, Peers, Link
<1>1. conn[<<n, p>>] \in Nat \ {0}
  BY <1>0 DEF Types
<1>2. /\ y \in SenderSet /\ y.left = x.left \ {p} /\ y.to = p /\ y.on = conn[<<n, p>>]
      /\ y.thread = x.thread
  BY <1>0, <1>1 DEF SenderSet, Peers
<1>3. p # All
  BY <1>0, AllAssumption DEF Peers
<1> HIDE DEF y
<1>4. SendersOf(n, (sending[n] \ {x}) \cup {y})
  BY <1>0, <1>1, <1>2, <1>3 DEF SendersOf
<1>5. sending' = [sending EXCEPT ![n] = (@ \ {x}) \cup {y}]
  BY DEF Take, y
<1>6. sending' \in [Node -> SUBSET SenderSet] /\ \A m \in Node : SendersOf(m, sending'[m])
  BY <1>4, <1>5 DEF Types, SendersOf
<1> QED
  BY <1>6 DEF Types, Take

LEMMA ServedTypes ==
  ASSUME Types, NEW n \in Node, NEW x \in sending[n], sending' = Served(n, x)
  PROVE  sending' \in [Node -> SUBSET SenderSet] /\ \A m \in Node : SendersOf(m, sending'[m])
<1> DEFINE y == [x EXCEPT !.to = All, !.on = 0]
           Y == (sending[n] \ {x}) \cup IF x.left = {} THEN {} ELSE {y}
<1>0. SendersOf(n, sending[n]) /\ x \in SenderSet
  BY DEF Types, SendersOf
<1>1. y \in SenderSet /\ y.left = x.left /\ y.to = All /\ y.on = 0 /\ y.thread = x.thread
  BY <1>0 DEF SenderSet
<1> HIDE DEF y
<1>2. SendersOf(n, Y)
  BY <1>0, <1>1 DEF SendersOf
<1>3. sending' = [sending EXCEPT ![n] = Y]
  BY DEF Served, y, Types
<1> HIDE DEF Y
<1> QED
  BY <1>2, <1>3 DEF Types, SendersOf

LEMMA PutTypes ==
  ASSUME Types, NEW l \in Link, NEW c, NEW f \in Frame, Put(l, c, f)
  PROVE  /\ wire' \in [Link -> Seq(Seq(Frame))] /\ \A m \in Link : Len(wire'[m]) = Len(wire[m])
         /\ \A m \in Link : \A d \in 1 .. Len(wire[m]) :
              wire'[m][d] = IF m = l /\ d = c /\ c \notin broken[l]
                            THEN Append(wire[l][c], f) ELSE wire[m][d]
<1>0. wire \in [Link -> Seq(Seq(Frame))] /\ wire[l] \in Seq(Seq(Frame))
  BY DEF Types
<1>1. CASE c \in broken[l]
  BY <1>0, <1>1 DEF Put
<1>2. CASE c \notin broken[l]
  <2> DEFINE W == [wire[l] EXCEPT ![c] = Append(@, f)]
  <2>1. wire' = [wire EXCEPT ![l] = W]
    BY <1>2, <1>0 DEF Put
  <2>2. \A d \in 1 .. Len(wire[l]) : wire[l][d] \in Seq(Frame) /\ Append(wire[l][d], f) \in Seq(Frame)
    BY <1>0
  <2>3. /\ DOMAIN W = 1 .. Len(wire[l])
        /\ \A d \in 1 .. Len(wire[l]) : W[d] = IF d = c THEN Append(wire[l][c], f) ELSE wire[l][d]
    BY <1>0
  <2>4. W = [d \in 1 .. Len(wire[l]) |-> W[d]] /\ \A d \in 1 .. Len(wire[l]) : W[d] \in Seq(Frame)
    BY <1>0, <2>2, <2>3
  <2> HIDE DEF W
  <2>5. W \in Seq(Seq(Frame)) /\ Len(W) = Len(wire[l])
    BY <1>0, <2>4
  <2> QED
    BY <1>0, <1>2, <2>1, <2>3, <2>5
<1> QED
  BY <1>1, <1>2

(* Appending to the journal of a session.                                  *)
LEMMA PushTypes ==
  ASSUME Types, NEW n \in Node, NEW f \in Frame, journal' = Pushed(n, f)
  PROVE  /\ journal' \in [Node -> [Sid -> Seq(Frame)]]
         /\ \A m \in Node : \A s \in Sid : Range(journal[m][s]) \subseteq Range(journal'[m][s])
         /\ f \in Range(journal'[n][f.sid])
<1>0. journal \in [Node -> [Sid -> Seq(Frame)]] /\ f.sid \in Sid
  BY DEF Types, Frame
<1>1. /\ Append(journal[n][f.sid], f) \in Seq(Frame)
      /\ Range(Append(journal[n][f.sid], f)) = Range(journal[n][f.sid]) \cup {f}
  BY <1>0, RangeOfAppend
<1>2. PICK j : j = Append(journal[n][f.sid], f)
  OBVIOUS
<1>3. journal' = [journal EXCEPT ![n] = [journal[n] EXCEPT ![f.sid] = j]]
  BY <1>0, <1>2 DEF Pushed
<1>4. /\ journal' \in [Node -> [Sid -> Seq(Frame)]]
      /\ \A m \in Node : \A s \in Sid :
           journal'[m][s] = IF m = n /\ s = f.sid THEN j ELSE journal[m][s]
  BY <1>0, <1>1, <1>2, <1>3
<1> QED
  BY <1>0, <1>1, <1>2, <1>4

LEMMA OriginalIsFrame ==
  ASSUME Types, NEW n \in Node, NEW s \in Sid, NEW k \in 1 .. Len(Script[n][s])
  PROVE  Original(n, s, k) \in Frame /\ Script[n][s][k] \in Peers(n) \cup {All}
<1>1. Script[n][s] \in Seq(Peers(n) \cup {All})
  BY ScriptAssumption
<1>2. Script[n][s][k] \in Peers(n) \cup {All}
  BY <1>1
<1>3. k \in Nat
  BY <1>1
<1> QED
  BY <1>2, <1>3 DEF Original, Frame, Peers

LEMMA SendTypes ==
  ASSUME Types, NEW n \in Node, NEW s \in Sid, Send(n, s)
  PROVE  Types'
<1> DEFINE f == Original(n, s, pos[n][s] + 1)
           P == IF f.to = All THEN Peers(n) ELSE {f.to}
<1>1. pos[n][s] \in Nat /\ pos[n][s] + 1 \in 1 .. Len(Script[n][s])
  <2>1. pos[n][s] \in Nat \cup {Retired} /\ pos[n][s] # Retired
    BY DEF Types, Send
  <2>2. Script[n][s] \in Seq(Peers(n) \cup {All})
    BY ScriptAssumption
  <2> QED
    BY <2>1, <2>2 DEF Send
<1>2. f \in Frame /\ f.to \in Peers(n) \cup {All}
  BY <1>1, OriginalIsFrame DEF Original
<1>3. P \in SUBSET Peers(n)
  BY <1>2
<1>4. Driver(s) \in Thread /\ \A x \in sending[n] : x.thread # Driver(s)
  BY DEF Send, Busy, Driver, Thread
<1>5. /\ sending' = [sending EXCEPT ![n] = @ \cup {Sender(Driver(s), f, P)}]
      /\ journal' = Pushed(n, f) /\ pos' = [pos EXCEPT ![n][s] = pos[n][s] + 1]
  BY DEF Send
<1> HIDE DEF f, P
<1>6. PICK g : g = f
  OBVIOUS
<1>7. PICK Q : Q = P
  OBVIOUS
<1>8. journal' \in [Node -> [Sid -> Seq(Frame)]]
  BY <1>2, <1>5, <1>6, PushTypes
<1>9. SendersOf(n, sending[n] \cup {Sender(Driver(s), g, Q)})
  BY <1>2, <1>3, <1>4, <1>6, <1>7, SenderStarts DEF Types
<1>10. sending' \in [Node -> SUBSET SenderSet] /\ \A m \in Node : SendersOf(m, sending'[m])
  BY <1>5, <1>6, <1>7, <1>9 DEF Types, SendersOf
<1>11. pos' \in [Node -> [Sid -> Nat \cup {Retired}]]
  BY <1>1, <1>5 DEF Types
<1> QED
  BY <1>8, <1>10, <1>11 DEF Types, Send

LEMMA RetireTypes ==
  ASSUME Types, NEW n \in Node, NEW s \in Sid, Retire(n, s)
  PROVE  Types'
<1>1. pos' \in [Node -> [Sid -> Nat \cup {Retired}]]
  BY DEF Types, Retire
<1>2. journal' \in [Node -> [Sid -> Seq(Frame)]]
  BY DEF Types, Retire
<1> QED
  BY <1>1, <1>2 DEF Types, Retire

(* The connection a thread took was made by then.                          *)
LEMMA WriteTypes ==
  ASSUME Types, NEW n \in Node, NEW x \in sending[n], Write(n, x)
  PROVE  Types'
<1>1. x.frame \in Frame /\ x.to \in Peers(n)
  BY DEF Types, SendersOf, SenderSet, Write
<1>2. PICK l \in Link : l = <<n, x.to>>
  BY <1>1 DEF Link, Peers
<1>3. wire' \in [Link -> Seq(Seq(Frame))] /\ \A m \in Link : Len(wire'[m]) = Len(wire[m])
  BY <1>1, <1>2, PutTypes DEF Write
<1>4. sending' \in [Node -> SUBSET SenderSet] /\ \A m \in Node : SendersOf(m, sending'[m])
  BY ServedTypes DEF Write
<1>5. UNCHANGED <<pos, journal, conn, broken, task, echoed, got, breaks>>
  BY DEF Write
<1> QED
  BY <1>3, <1>4, <1>5 DEF Types

LEMMA KickIsTask ==
  ASSUME Types, NEW l \in Link
  PROVE  /\ task[l] \in Task /\ Kick(l) \in Task /\ Kick(l).rest = task[l].rest
         /\ Kick(l).pc = "snapshot" => task[l].pc = "snapshot"
<1>1. task[l] \in Task
  BY DEF Types
<1>2. Dialing \in Task /\ Dialing.rest = <<>> /\ Dialing.pc = "dial"
  BY DEF Dialing, Task
<1>3. task[l] = NoTask => task[l].rest = <<>>
  BY DEF NoTask
<1> QED
  BY <1>1, <1>2, <1>3 DEF Kick

LEMMA FailWriteTypes ==
  ASSUME Types, NEW n \in Node, NEW x \in sending[n], FailWrite(n, x)
  PROVE  Types'
<1>1. x.to \in Peers(n)
  BY DEF Types, SendersOf, SenderSet, FailWrite
<1>2. PICK l \in Link : l = <<n, x.to>>
  BY <1>1 DEF Link, Peers
<1>3. task' = [task EXCEPT ![l] = Kick(l)]
  BY <1>2 DEF FailWrite
<1>4. PICK k \in Task : k = Kick(l)
  BY KickIsTask
<1>5. task' \in [Link -> Task]
  BY <1>3, <1>4 DEF Types
<1>6. sending' \in [Node -> SUBSET SenderSet] /\ \A m \in Node : SendersOf(m, sending'[m])
  BY ServedTypes DEF FailWrite
<1>7. UNCHANGED <<pos, journal, conn, wire, broken, echoed, got, breaks>>
  BY DEF FailWrite
<1> QED
  BY <1>5, <1>6, <1>7 DEF Types

(* The frames on one connection change.                                    *)
LEMMA WireChanges ==
  ASSUME Types, NEW l \in Link, NEW c \in 1 .. conn[l], NEW q \in Seq(Frame),
         wire' = [wire EXCEPT ![l][c] = q]
  PROVE  /\ wire' \in [Link -> Seq(Seq(Frame))] /\ \A m \in Link : Len(wire'[m]) = Len(wire[m])
         /\ \A m \in Link : \A d \in 1 .. Len(wire[m]) :
              wire'[m][d] = IF m = l /\ d = c THEN q ELSE wire[m][d]
<1> DEFINE W == [wire[l] EXCEPT ![c] = q]
<1>0. wire \in [Link -> Seq(Seq(Frame))] /\ wire[l] \in Seq(Seq(Frame)) /\ conn[l] = Len(wire[l])
  BY DEF Types
<1>1. wire' = [wire EXCEPT ![l] = W]
  OBVIOUS
<1>2. /\ DOMAIN W = 1 .. Len(wire[l])
      /\ \A d \in 1 .. Len(wire[l]) : W[d] = IF d = c THEN q ELSE wire[l][d]
  BY <1>0
<1>3. \A d \in 1 .. Len(wire[l]) : wire[l][d] \in Seq(Frame)
  BY <1>0
<1>4. W = [d \in 1 .. Len(wire[l]) |-> W[d]] /\ \A d \in 1 .. Len(wire[l]) : W[d] \in Seq(Frame)
  BY <1>0, <1>2, <1>3
<1> HIDE DEF W
<1>5. W \in Seq(Seq(Frame)) /\ Len(W) = Len(wire[l])
  BY <1>0, <1>4
<1> QED
  BY <1>0, <1>1, <1>2, <1>5

(* What a reader finds on its connection.                                  *)
LEMMA HeadIsFrame ==
  ASSUME Types, NEW l \in Link, NEW c \in 1 .. conn[l], wire[l][c] # <<>>
  PROVE  /\ wire[l][c] \in Seq(Frame) /\ Head(wire[l][c]) \in Frame
         /\ Tail(wire[l][c]) \in Seq(Frame)
         /\ Range(wire[l][c]) = Range(Tail(wire[l][c])) \cup {Head(wire[l][c])}
<1>1. wire[l] \in Seq(Seq(Frame)) /\ conn[l] = Len(wire[l])
  BY DEF Types
<1>2. PICK q \in Seq(Frame) : q = wire[l][c]
  BY <1>1
<1>3. q # <<>> => Head(q) \in Frame /\ Tail(q) \in Seq(Frame)
  OBVIOUS
<1>4. q # <<>> => Range(q) = Range(Tail(q)) \cup {Head(q)}
  BY RangeOfTail
<1> QED
  BY <1>2, <1>3, <1>4

LEMMA ReadTypes ==
  ASSUME Types, NEW p \in Node, NEW n \in Node, <<p, n>> \in Link, NEW c \in 1 .. conn[<<p, n>>],
         Read(p, n, c)
  PROVE  Types'
<1>1. PICK l \in Link : l = <<p, n>>
  OBVIOUS
<1>2. PICK f \in Frame : f = Head(wire[l][c])
  BY <1>1, HeadIsFrame DEF Read
<1>3. EchoOf(n, f) \in Frame
  BY DEF EchoOf, Frame
<1>4. PICK e \in Frame : e = EchoOf(n, f)
  BY <1>3
<1>5. PICK q \in Seq(Frame) : q = Tail(wire[l][c])
  BY <1>1, HeadIsFrame DEF Read
<1>6. wire' = [wire EXCEPT ![l][c] = q]
  BY <1>1, <1>5 DEF Read
<1>7. wire' \in [Link -> Seq(Seq(Frame))] /\ \A m \in Link : Len(wire'[m]) = Len(wire[m])
  BY <1>1, <1>6, WireChanges
<1>8. got' \in [Node -> SUBSET Frame]
  BY <1>1, <1>2 DEF Read, Types
<1>9. /\ echoed' \in [Node -> SUBSET Frame] /\ journal' \in [Node -> [Sid -> Seq(Frame)]]
      /\ sending' \in [Node -> SUBSET SenderSet] /\ \A m \in Node : SendersOf(m, sending'[m])
  <2>1. CASE UNCHANGED <<echoed, journal, sending>>
    BY <2>1 DEF Types
  <2>2. CASE ~ UNCHANGED <<echoed, journal, sending>>
    <3>1. /\ echoed' = [echoed EXCEPT ![n] = @ \cup {f}]
          /\ journal' = Pushed(n, e)
          /\ sending' = [sending EXCEPT ![n] = @ \cup {Sender(Reader(p, c), e, Peers(n))}]
      BY <1>1, <1>2, <1>4, <2>2 DEF Read
    <3>2. echoed' \in [Node -> SUBSET Frame]
      BY <3>1 DEF Types
    <3>3. journal' \in [Node -> [Sid -> Seq(Frame)]]
      BY <3>1, PushTypes
    <3>4. Reader(p, c) \in Thread
      <4>1. conn[<<p, n>>] \in Nat
        BY DEF Types
      <4>2. c \in Nat
        BY <4>1
      <4> QED
        BY <4>2 DEF Reader, Thread
    <3>5. \A x \in sending[n] : x.thread # Reader(p, c)
      BY DEF Read, Busy
    <3>6. PICK th \in Thread : th = Reader(p, c)
      BY <3>4
    <3>7. PICK P \in SUBSET Peers(n) : P = Peers(n)
      OBVIOUS
    <3>8. SendersOf(n, sending[n] \cup {Sender(th, e, P)})
      BY <3>5, <3>6, SenderStarts DEF Types
    <3>9. sending' \in [Node -> SUBSET SenderSet] /\ \A m \in Node : SendersOf(m, sending'[m])
      BY <3>1, <3>6, <3>7, <3>8 DEF Types, SendersOf
    <3> QED
      BY <3>2, <3>3, <3>9
  <2> QED
    BY <2>1, <2>2
<1>10. UNCHANGED <<pos, conn, broken, task, breaks>>
  BY DEF Read
<1> QED
  BY <1>7, <1>8, <1>9, <1>10 DEF Types

LEMMA BreakTypes ==
  ASSUME Types, NEW l \in Link, NEW c \in 1 .. conn[l], Break(l, c)
  PROVE  Types'
<1>1. wire[l] \in Seq(Seq(Frame)) /\ conn[l] = Len(wire[l])
  BY DEF Types
<1>2. PICK r \in Seq(Frame) : r = wire[l][c]
  BY <1>1
<1>3. PICK k \in 0 .. Len(r) : wire' = [wire EXCEPT ![l][c] = SubSeq(wire[l][c], 1, k)]
  <2>1. \E k \in 0 .. Len(wire[l][c]) : wire' = [wire EXCEPT ![l][c] = SubSeq(wire[l][c], 1, k)]
    BY DEF Break
  <2> QED
    BY <1>2, <2>1
<1>4. PICK q \in Seq(Frame) : q = SubSeq(r, 1, k)
  <2>1. SubSeq(r, 1, k) \in Seq(Frame)
    BY <1>3
  <2> QED
    BY <2>1
<1>5. wire' = [wire EXCEPT ![l][c] = q]
  BY <1>2, <1>3, <1>4
<1>6. wire' \in [Link -> Seq(Seq(Frame))] /\ \A m \in Link : Len(wire'[m]) = Len(wire[m])
  BY <1>5, WireChanges
<1>7. broken' \in [Link -> SUBSET Nat] /\ \A m \in Link : broken'[m] \subseteq 1 .. conn[m]
  <2>1. broken' = [broken EXCEPT ![l] = @ \cup {c}] /\ c \in 1 .. conn[l]
    BY DEF Break
  <2>2. broken \in [Link -> SUBSET Nat] /\ \A m \in Link : broken[m] \subseteq 1 .. conn[m]
    BY DEF Types
  <2>3. c \in Nat
    BY <1>1
  <2> QED
    BY <2>1, <2>2, <2>3
<1>8. breaks' \in 0 .. MaxBreaks
  BY FlakyAssumption DEF Break, Types
<1>9. UNCHANGED <<pos, journal, conn, task, sending, echoed, got>>
  BY DEF Break
<1> QED
  BY <1>6, <1>7, <1>8, <1>9 DEF Types

LEMMA DialTypes ==
  ASSUME Types, NEW l \in Link, Dial(l)
  PROVE  /\ Types' /\ conn'[l] = conn[l] + 1 /\ task'[l].pc = "snapshot"
         /\ \A m \in Link \ {l} : conn'[m] = conn[m] /\ wire'[m] = wire[m] /\ task'[m] = task[m]
<1>0. /\ wire \in [Link -> Seq(Seq(Frame))] /\ conn \in [Link -> Nat \ {0}]
      /\ broken \in [Link -> SUBSET Nat] /\ task \in [Link -> Task]
      /\ \A m \in Link : conn[m] = Len(wire[m]) /\ broken[m] \subseteq 1 .. conn[m]
  BY DEF Types
<1>1. <<>> \in Seq(Frame) /\ wire[l] \in Seq(Seq(Frame))
  BY <1>0
<1>2. Append(wire[l], <<>>) \in Seq(Seq(Frame)) /\ Len(Append(wire[l], <<>>)) = Len(wire[l]) + 1
  BY <1>1
<1>3. PICK w \in Seq(Seq(Frame)) : w = Append(wire[l], <<>>) /\ Len(w) = Len(wire[l]) + 1
  BY <1>2
<1>4. wire' = [wire EXCEPT ![l] = w] /\ conn' = [conn EXCEPT ![l] = conn[l] + 1]
  BY <1>3 DEF Dial
<1>5. wire' \in [Link -> Seq(Seq(Frame))] /\ conn' \in [Link -> Nat \ {0}]
  BY <1>0, <1>4
<1>6. broken' = broken
  BY DEF Dial
<1>7. \A m \in Link : conn'[m] = Len(wire'[m]) /\ broken'[m] \subseteq 1 .. conn'[m]
  <2>1. ASSUME NEW m \in Link, m # l
        PROVE  conn'[m] = Len(wire'[m]) /\ broken'[m] \subseteq 1 .. conn'[m]
    BY <1>0, <1>4, <1>6, <2>1
  <2>2. conn'[l] = conn[l] + 1 /\ wire'[l] = w /\ conn[l] \in Nat
    BY <1>0, <1>4
  <2>3. \A i \in 1 .. conn[l] : i \in 1 .. conn'[l]
    BY <2>2
  <2>4. conn'[l] = Len(wire'[l]) /\ broken'[l] \subseteq 1 .. conn'[l]
    BY <1>0, <1>3, <1>6, <2>2, <2>3
  <2> QED
    BY <2>1, <2>4
<1>8. task[l] \in Task /\ task' = [task EXCEPT ![l] = [task[l] EXCEPT !.pc = "snapshot"]]
  BY <1>0 DEF Dial
<1>9. task' \in [Link -> Task] /\ task'[l].pc = "snapshot"
  BY <1>0, <1>8 DEF Task
<1>10. UNCHANGED <<pos, journal, broken, sending, echoed, got, breaks>>
  BY DEF Dial
<1>11. Types'
  BY <1>5, <1>7, <1>9, <1>10 DEF Types
<1>12. \A m \in Link \ {l} : conn'[m] = conn[m] /\ wire'[m] = wire[m] /\ task'[m] = task[m]
  BY <1>0, <1>4, <1>8
<1> QED
  BY <1>0, <1>4, <1>9, <1>11, <1>12

(* The copy of a journal.                                                  *)
LEMMA JournalIsFrames ==
  ASSUME Types, NEW n \in Node
  PROVE  /\ FlattenSeq(journal[n]) \in Seq(Frame)
         /\ \A s \in Sid : Range(journal[n][s]) \subseteq Range(FlattenSeq(journal[n]))
<1>1. journal[n] \in [1 .. Sids -> Seq(Frame)]
  BY DEF Types, Sid
<1>2. PICK j \in [1 .. Sids -> Seq(Frame)] : j = journal[n]
  BY <1>1
<1>3. FlattenSeq(j) \in Seq(Frame) /\ \A i \in 1 .. Sids : Range(j[i]) \subseteq Range(FlattenSeq(j))
  BY SidsAssumption, FlattenIs
<1> QED
  BY <1>2, <1>3 DEF Sid

LEMMA SnapshotTypes ==
  ASSUME Types, NEW l \in Link, Snapshot(l)
  PROVE  /\ Types' /\ task' = [task EXCEPT ![l] = [pc |-> "resend", rest |-> FlattenSeq(journal[l[1]])]]
<1>1. l[1] \in Node
  BY DEF Link
<1>2. PICK q \in Seq(Frame) : q = FlattenSeq(journal[l[1]])
  BY <1>1, JournalIsFrames
<1>3. task' = [task EXCEPT ![l] = [pc |-> "resend", rest |-> q]]
  BY <1>2 DEF Snapshot
<1>4. task' \in [Link -> Task]
  BY <1>3 DEF Types, Task
<1>5. UNCHANGED <<pos, journal, conn, wire, broken, sending, echoed, got, breaks>>
  BY DEF Snapshot
<1> QED
  BY <1>4, <1>5 DEF Types, Snapshot

(* The resend gives up the first of its frames.                            *)
LEMMA RestTypes ==
  ASSUME Types, NEW l \in Link, task[l].rest # <<>>
  PROVE  /\ Head(task[l].rest) \in Frame /\ Tail(task[l].rest) \in Seq(Frame)
         /\ Range(task[l].rest) = Range(Tail(task[l].rest)) \cup {Head(task[l].rest)}
<1>1. PICK q \in Seq(Frame) : q = task[l].rest
  BY DEF Types, Task
<1>2. q # <<>> => Head(q) \in Frame /\ Tail(q) \in Seq(Frame)
  OBVIOUS
<1>3. q # <<>> => Range(q) = Range(Tail(q)) \cup {Head(q)}
  BY RangeOfTail
<1> QED
  BY <1>1, <1>2, <1>3

LEMMA ResendTypes ==
  ASSUME Types, NEW l \in Link, Resend(l)
  PROVE  Types'
<1>1. PICK f \in Frame : f = Head(task[l].rest)
  BY RestTypes DEF Resend
<1>2. Put(l, conn[l], f)
  BY <1>1 DEF Resend
<1>3. wire' \in [Link -> Seq(Seq(Frame))] /\ \A m \in Link : Len(wire'[m]) = Len(wire[m])
  BY <1>2, PutTypes
<1>4. PICK q \in Seq(Frame) : q = Tail(task[l].rest)
  BY RestTypes DEF Resend
<1>5. task' = [task EXCEPT ![l] = [task[l] EXCEPT !.rest = q]]
  BY <1>4 DEF Resend
<1>6. task[l] \in Task
  BY DEF Types
<1>7. [task[l] EXCEPT !.rest = q] \in Task
  BY <1>6 DEF Task
<1>8. task' \in [Link -> Task]
  BY <1>5, <1>7 DEF Types
<1>9. UNCHANGED <<pos, journal, conn, broken, sending, echoed, got, breaks>>
  BY DEF Resend
<1> QED
  BY <1>3, <1>8, <1>9 DEF Types

LEMMA FailResendTypes ==
  ASSUME Types, NEW l \in Link, FailResend(l)
  PROVE  Types'
<1>1. PICK k \in Task : k = Kick(l)
  BY KickIsTask
<1>2. [k EXCEPT !.pc = "failed", !.rest = <<>>] \in Task
  <2>1. PICK e \in Seq(Frame) : e = <<>>
    BY EmptySeq
  <2>2. [k EXCEPT !.pc = "failed", !.rest = e] \in Task
    BY DEF Task
  <2> QED
    BY <2>1, <2>2
<1>3. task' = [task EXCEPT ![l] = [k EXCEPT !.pc = "failed", !.rest = <<>>]]
  BY <1>1 DEF FailResend
<1>4. task' \in [Link -> Task]
  BY <1>2, <1>3 DEF Types
<1>5. UNCHANGED <<pos, journal, conn, wire, broken, sending, echoed, got, breaks>>
  BY DEF FailResend
<1> QED
  BY <1>4, <1>5 DEF Types

LEMMA LeaveTypes ==
  ASSUME Types, NEW l \in Link, Leave(l)
  PROVE  Types'
<1>1. NoTask \in Task
  BY DEF NoTask, Task
<1>2. task' \in [Link -> Task]
  BY <1>1 DEF Leave, Types
<1>3. UNCHANGED <<pos, journal, conn, wire, broken, sending, echoed, got, breaks>>
  BY DEF Leave
<1> QED
  BY <1>2, <1>3 DEF Types

LEMMA InitTypes == Init => Types
<1> SUFFICES ASSUME Init PROVE Types
  OBVIOUS
<1>1. pos \in [Node -> [Sid -> Nat \cup {Retired}]] /\ journal \in [Node -> [Sid -> Seq(Frame)]]
  BY DEF Init
<1>2. << <<>> >> \in Seq(Seq(Frame)) /\ Len(<< <<>> >>) = 1
  BY EmptySeq
<1>3. wire \in [Link -> Seq(Seq(Frame))] /\ \A l \in Link : conn[l] = Len(wire[l])
  BY <1>2 DEF Init
<1>4. /\ conn \in [Link -> Nat \ {0}] /\ broken \in [Link -> SUBSET Nat]
      /\ \A l \in Link : broken[l] \subseteq 1 .. conn[l]
  BY DEF Init
<1>5. NoTask \in Task
  BY DEF NoTask, Task
<1>6. task \in [Link -> Task]
  BY <1>5 DEF Init
<1>7. sending \in [Node -> SUBSET SenderSet] /\ \A n \in Node : SendersOf(n, sending[n])
  BY DEF Init, SendersOf
<1>8. /\ echoed \in [Node -> SUBSET Frame] /\ got \in [Node -> SUBSET Frame]
      /\ breaks \in 0 .. MaxBreaks
  BY FlakyAssumption DEF Init
<1> QED
  BY <1>1, <1>3, <1>4, <1>6, <1>7, <1>8 DEF Types

LEMMA NextTypes == Types /\ [Next]_vars => Types'
<1> SUFFICES ASSUME Types, [Next]_vars PROVE Types'
  OBVIOUS
<1>1. ASSUME NEW n \in Node, NEW s \in Sid, Send(n, s) \/ Retire(n, s)
      PROVE  Types'
  BY <1>1, SendTypes, RetireTypes
<1>2. ASSUME NEW n \in Node, Sending(n)
      PROVE  Types'
  BY <1>2, TakeTypes, WriteTypes, FailWriteTypes DEF Sending
<1>3. ASSUME NEW l \in Link, Reading(l)
      PROVE  Types'
  <2>1. PICK p \in Node, n \in Node : l = <<p, n>>
    BY DEF Link
  <2> QED
    BY <1>3, <2>1, ReadTypes DEF Reading
<1>4. ASSUME NEW l \in Link, Reconnecting(l)
      PROVE  Types'
  BY <1>4, DialTypes, SnapshotTypes, ResendTypes, FailResendTypes, LeaveTypes DEF Reconnecting
<1>5. ASSUME NEW l \in Link, NEW c \in 1 .. conn[l], Break(l, c)
      PROVE  Types'
  BY <1>5, BreakTypes
<1>6. CASE UNCHANGED vars
  BY <1>6 DEF vars, Types
<1> QED
  BY <1>1, <1>2, <1>3, <1>4, <1>5, <1>6 DEF Next

(* Every field keeps its range: a thread sends to others than its own      *)
(* node, uses a connection only while it serves a peer and sends one frame *)
(* at a time, and the table holds the latest connection (send_raw,         *)
(* reconnect_loop).                                                        *)
THEOREM TypeCorrect == Spec => []TypeOK
<1>1. Spec => []Types
  BY InitTypes, NextTypes, PTL DEF Spec
<1> QED
  BY <1>1, TypesGive, PTL

-----------------------------------------------------------------------------
(* What the table's connection carries *)

(* Every message of a session that runs is in the journal of its sender.   *)
Journaled == \A n \in Node : \A f \in Sent(n) : f.sid \in Sid /\ f \in Range(journal[n][f.sid])

(* Stronger than OnItsWay: an older connection does not count.  It may     *)
(* break, and then the frames it carries are lost while the table's        *)
(* connection works.                                                       *)
InHand(l, f) ==
  \E x \in sending[l[1]] :
    x.frame = f /\ (l[2] \in x.left \/ (x.to = l[2] /\ x.on = conn[l]))
Now(l, f) ==
  \/ f \in got[l[2]]
  \/ f \in Range(wire[l][conn[l]])
  \/ f \in Range(task[l].rest)
  \/ InHand(l, f)

Working(l) == conn[l] \notin broken[l] /\ task[l].pc # "snapshot"
Whole(l) == Working(l) => \A f \in Sent(l[1]) : Addressed(f, l[2]) => Now(l, f)

GInv == Types /\ Journaled /\ \A l \in Link : Whole(l)

LEMMA WholeGivesNoGap == GInv => NoGap
<1> SUFFICES ASSUME GInv, NEW l \in Link, conn[l] \notin broken[l], task[l].pc # "snapshot",
                    NEW f \in Sent(l[1]), Addressed(f, l[2])
             PROVE  OnItsWay(l, f)
  BY DEF NoGap
<1>1. Now(l, f)
  BY DEF GInv, Whole, Working
<1>2. conn[l] \in 1 .. conn[l]
  <2>1. conn[l] \in Nat \ {0}
    BY DEF GInv, Types
  <2> QED
    BY <2>1
<1> QED
  BY <1>1, <1>2 DEF Now, InHand, OnItsWay

(* What a node has sent, without the set operators.                        *)
IsSent(n, P, E, f) ==
  \/ \E s \in Sid : \E k \in 1 .. P[n][s] : f = Original(n, s, k)
  \/ \E e \in E[n] : P[n][e.sid] # Retired /\ f = EchoOf(n, e)

LEMMA SentUnfolds ==
  ASSUME NEW n, NEW P, NEW E, NEW f
  PROVE  f \in (UNION {{Original(n, s, k) : k \in 1 .. P[n][s]} : s \in Sid})
                \cup {EchoOf(n, g) : g \in {e \in E[n] : P[n][e.sid] # Retired}}
         <=> IsSent(n, P, E, f)
<1>1. f \in UNION {{Original(n, s, k) : k \in 1 .. P[n][s]} : s \in Sid}
      <=> \E s \in Sid : \E k \in 1 .. P[n][s] : f = Original(n, s, k)
  <2>1. ASSUME NEW s \in Sid, NEW k \in 1 .. P[n][s], f = Original(n, s, k)
        PROVE  f \in UNION {{Original(n, t, j) : j \in 1 .. P[n][t]} : t \in Sid}
    <3>1. f \in {Original(n, s, j) : j \in 1 .. P[n][s]}
      BY <2>1
    <3> QED
      BY <3>1, Zenon
  <2>2. ASSUME f \in UNION {{Original(n, s, k) : k \in 1 .. P[n][s]} : s \in Sid}
        PROVE  \E s \in Sid : \E k \in 1 .. P[n][s] : f = Original(n, s, k)
    BY <2>2, Zenon
  <2> QED
    BY <2>1, <2>2, Zenon
<1>2. f \in {EchoOf(n, g) : g \in {e \in E[n] : P[n][e.sid] # Retired}}
      <=> \E e \in E[n] : P[n][e.sid] # Retired /\ f = EchoOf(n, e)
  BY Zenon
<1> QED
  BY <1>1, <1>2, Zenon DEF IsSent

LEMMA SentIs ==
  ASSUME NEW n \in Node, NEW f
  PROVE  f \in Sent(n) <=>
           \/ \E s \in Sid : \E k \in 1 .. pos[n][s] : f = Original(n, s, k)
           \/ \E e \in echoed[n] : pos[n][e.sid] # Retired /\ f = EchoOf(n, e)
<1>1. f \in Sent(n) <=> IsSent(n, pos, echoed, f)
  BY SentUnfolds, Zenon DEF Sent
<1> QED
  BY <1>1 DEF IsSent

LEMMA SentFields ==
  ASSUME Types, NEW n \in Node, NEW f \in Sent(n)
  PROVE  f.sid \in Sid /\ pos[n][f.sid] # Retired
<1>1. CASE \E s \in Sid : \E k \in 1 .. pos[n][s] : f = Original(n, s, k)
  <2>1. PICK s \in Sid : \E k \in 1 .. pos[n][s] : f = Original(n, s, k)
    BY <1>1
  <2>2. f.sid = s
    BY <2>1 DEF Original
  <2>3. pos[n][s] # Retired
    BY <2>1 DEF Retired
  <2> QED
    BY <2>2, <2>3
<1>2. CASE \E e \in echoed[n] : pos[n][e.sid] # Retired /\ f = EchoOf(n, e)
  <2>1. PICK e \in echoed[n] : pos[n][e.sid] # Retired /\ f = EchoOf(n, e)
    BY <1>2
  <2>2. e \in Frame
    BY DEF Types
  <2>3. f.sid = e.sid /\ e.sid \in Sid
    BY <2>1, <2>2 DEF EchoOf, Frame
  <2> QED
    BY <2>1, <2>3
<1> QED
  BY <1>1, <1>2, SentIs

LEMMA SentKept ==
  ASSUME UNCHANGED <<pos, echoed>>, NEW n \in Node
  PROVE  Sent(n)' = Sent(n)
BY DEF Sent

LEMMA SentBySend ==
  ASSUME Types, NEW n \in Node, NEW s \in Sid, Send(n, s), NEW f, f = Original(n, s, pos[n][s] + 1),
         NEW m \in Node
  PROVE  Sent(m)' \subseteq Sent(m) \cup (IF m = n THEN {f} ELSE {})
<1> SUFFICES ASSUME NEW g \in Sent(m)', g \notin Sent(m) PROVE m = n /\ g = f
  OBVIOUS
<1>1. pos[n][s] \in Nat
  BY DEF Types, Send
<1>2. /\ \A q \in Node : \A t \in Sid : pos'[q][t] = IF q = n /\ t = s THEN pos[n][s] + 1 ELSE pos[q][t]
      /\ echoed' = echoed
  BY DEF Types, Send
<1>3. \/ \E t \in Sid : \E k \in 1 .. pos'[m][t] : g = Original(m, t, k)
      \/ \E e \in echoed[m] : pos'[m][e.sid] # Retired /\ g = EchoOf(m, e)
  <2>1. IsSent(m, pos', echoed', g)
    BY SentUnfolds, Zenon DEF Sent
  <2> QED
    BY <1>2, <2>1 DEF IsSent
<1>4. CASE \E t \in Sid : \E k \in 1 .. pos'[m][t] : g = Original(m, t, k)
  <2>1. PICK t \in Sid : \E k \in 1 .. pos'[m][t] : g = Original(m, t, k)
    BY <1>4
  <2>2. PICK k \in 1 .. pos'[m][t] : g = Original(m, t, k)
    BY <2>1
  <2>3. k \notin 1 .. pos[m][t]
    BY <2>2, SentIs
  <2>4. m = n /\ t = s
    BY <1>2, <2>2, <2>3
  <2>5. k = pos[n][s] + 1
    BY <1>1, <1>2, <2>2, <2>3, <2>4
  <2> QED
    BY <2>2, <2>4, <2>5
<1>5. CASE \E e \in echoed[m] : pos'[m][e.sid] # Retired /\ g = EchoOf(m, e)
  <2>1. PICK e \in echoed[m] : pos'[m][e.sid] # Retired /\ g = EchoOf(m, e)
    BY <1>5
  <2>2. e.sid \in Sid
    BY DEF Types, Frame
  <2>3. pos[m][e.sid] # Retired
    BY <1>1, <1>2, <2>1, <2>2 DEF Retired
  <2> QED
    BY <2>1, <2>3, SentIs
<1> QED
  BY <1>3, <1>4, <1>5

LEMMA SentByRetire ==
  ASSUME Types, NEW n \in Node, NEW s \in Sid, Retire(n, s), NEW m \in Node
  PROVE  Sent(m)' \subseteq {f \in Sent(m) : m = n => f.sid # s}
<1> SUFFICES ASSUME NEW g \in Sent(m)' PROVE g \in Sent(m) /\ (m = n => g.sid # s)
  OBVIOUS
<1>1. /\ \A q \in Node : \A t \in Sid : pos'[q][t] = IF q = n /\ t = s THEN Retired ELSE pos[q][t]
      /\ echoed' = echoed
  BY DEF Types, Retire
<1>2. \/ \E t \in Sid : \E k \in 1 .. pos'[m][t] : g = Original(m, t, k)
      \/ \E e \in echoed[m] : pos'[m][e.sid] # Retired /\ g = EchoOf(m, e)
  <2>1. IsSent(m, pos', echoed', g)
    BY SentUnfolds, Zenon DEF Sent
  <2> QED
    BY <1>1, <2>1 DEF IsSent
<1>3. CASE \E t \in Sid : \E k \in 1 .. pos'[m][t] : g = Original(m, t, k)
  <2>1. PICK t \in Sid : \E k \in 1 .. pos'[m][t] : g = Original(m, t, k)
    BY <1>3
  <2>2. ~ (m = n /\ t = s)
    BY <1>1, <2>1 DEF Retired
  <2>3. g.sid = t
    BY <2>1 DEF Original
  <2>4. g \in Sent(m)
    BY <1>1, <2>1, <2>2, SentIs
  <2> QED
    BY <2>2, <2>3, <2>4
<1>4. CASE \E e \in echoed[m] : pos'[m][e.sid] # Retired /\ g = EchoOf(m, e)
  <2>1. PICK e \in echoed[m] : pos'[m][e.sid] # Retired /\ g = EchoOf(m, e)
    BY <1>4
  <2>2. e \in Frame
    BY DEF Types
  <2>3. e.sid \in Sid /\ g.sid = e.sid
    BY <2>1, <2>2 DEF EchoOf, Frame
  <2>4. ~ (m = n /\ e.sid = s) /\ pos[m][e.sid] # Retired
    BY <1>1, <2>1, <2>3
  <2> QED
    BY <2>1, <2>3, <2>4, SentIs
<1> QED
  BY <1>2, <1>3, <1>4

LEMMA SentByEcho ==
  ASSUME NEW n \in Node, NEW f, pos' = pos, echoed' = [echoed EXCEPT ![n] = @ \cup {f}],
         Types, NEW m \in Node
  PROVE  Sent(m)' \subseteq Sent(m) \cup (IF m = n THEN {EchoOf(n, f)} ELSE {})
<1> SUFFICES ASSUME NEW g \in Sent(m)', g \notin Sent(m) PROVE m = n /\ g = EchoOf(n, f)
  OBVIOUS
<1>1. \/ \E t \in Sid : \E k \in 1 .. pos[m][t] : g = Original(m, t, k)
      \/ \E e \in echoed'[m] : pos[m][e.sid] # Retired /\ g = EchoOf(m, e)
  <2>1. IsSent(m, pos', echoed', g)
    BY SentUnfolds, Zenon DEF Sent
  <2> QED
    BY <2>1 DEF IsSent
<1>2. PICK e \in echoed'[m] : pos[m][e.sid] # Retired /\ g = EchoOf(m, e)
  BY <1>1, SentIs
<1>3. e \notin echoed[m]
  BY <1>2, SentIs
<1>4. m = n /\ e = f
  BY <1>2, <1>3 DEF Types
<1> QED
  BY <1>2, <1>4

(* Who has been told to send a frame keeps it in hand until it is written. *)
LEMMA InHandTaken ==
  ASSUME Types, NEW n \in Node, NEW x \in sending[n], NEW p \in x.left, Take(n, x, p),
         NEW l \in Link, NEW f, InHand(l, f)
  PROVE  InHand(l, f)'
<1>1. PICK z \in sending[l[1]] : z.frame = f /\ (l[2] \in z.left \/ (z.to = l[2] /\ z.on = conn[l]))
  BY DEF InHand
<1>2. l[1] \in Node /\ l[2] \in Node /\ l = <<l[1], l[2]>>
  BY DEF Link
<1> DEFINE y == [x EXCEPT !.left = @ \ {p}, !.to = p, !.on = conn[<<n, p>>]]
<1>3. x \in SenderSet /\ x.to = All /\ sending' = [sending EXCEPT ![n] = (@ \ {x}) \cup {y}] /\ conn' = conn
  BY DEF Types, Take, SendersOf
<1>4. y.frame = x.frame /\ y.left = x.left \ {p} /\ y.to = p /\ y.on = conn[<<n, p>>]
  BY <1>3 DEF SenderSet
<1> HIDE DEF y
<1>5. CASE l[1] = n /\ z = x
  <2>1. l[2] \in x.left
    BY <1>1, <1>2, <1>3, <1>5, AllAssumption
  <2>2. l[2] \in y.left \/ (y.to = l[2] /\ y.on = conn[l])
    BY <1>2, <1>4, <1>5, <2>1
  <2>3. y \in sending'[l[1]]
    BY <1>2, <1>3, <1>5 DEF Types
  <2>4. y.frame = f
    BY <1>1, <1>4, <1>5
  <2> QED
    BY <1>3, <2>2, <2>3, <2>4 DEF InHand
<1>6. CASE ~ (l[1] = n /\ z = x)
  <2>1. z \in sending'[l[1]]
    BY <1>1, <1>2, <1>3, <1>6 DEF Types
  <2> QED
    BY <1>1, <1>3, <2>1 DEF InHand
<1> QED
  BY <1>5, <1>6

LEMMA InHandServed ==
  ASSUME Types, NEW n \in Node, NEW x \in sending[n], x.to # All, sending' = Served(n, x), conn' = conn,
         NEW l \in Link, NEW f, InHand(l, f)
  PROVE  InHand(l, f)' \/ (l = <<n, x.to>> /\ x.on = conn[l] /\ x.frame = f)
<1>1. PICK z \in sending[l[1]] : z.frame = f /\ (l[2] \in z.left \/ (z.to = l[2] /\ z.on = conn[l]))
  BY DEF InHand
<1>2. l[1] \in Node /\ l[2] \in Node /\ l = <<l[1], l[2]>>
  BY DEF Link
<1> DEFINE y == [x EXCEPT !.to = All, !.on = 0]
<1>3. x \in SenderSet
  BY DEF Types, SendersOf
<1>4. y.frame = x.frame /\ y.left = x.left
  BY <1>3 DEF SenderSet
<1>5. sending' = [sending EXCEPT ![n] = (@ \ {x}) \cup IF x.left = {} THEN {} ELSE {y}]
  BY DEF Served
<1> HIDE DEF y
<1>6. CASE l[1] = n /\ z = x /\ l[2] \in x.left
  <2>1. y \in sending'[l[1]]
    BY <1>2, <1>5, <1>6 DEF Types
  <2>2. y.frame = f /\ l[2] \in y.left
    BY <1>1, <1>4, <1>6
  <2> QED
    BY <2>1, <2>2 DEF InHand
<1>7. CASE l[1] = n /\ z = x /\ l[2] \notin x.left
  BY <1>1, <1>2, <1>7
<1>8. CASE ~ (l[1] = n /\ z = x)
  <2>1. z \in sending'[l[1]]
    BY <1>1, <1>2, <1>5, <1>8 DEF Types
  <2> QED
    BY <1>1, <2>1 DEF InHand
<1> QED
  BY <1>6, <1>7, <1>8

LEMMA InHandKept ==
  ASSUME NEW l \in Link, NEW f, InHand(l, f), sending[l[1]] \subseteq sending'[l[1]], conn'[l] = conn[l]
  PROVE  InHand(l, f)'
BY DEF InHand

(* A thread that begins to send has its frame in hand for every peer.      *)
LEMMA InHandStarts ==
  ASSUME Types, NEW n \in Node, NEW th, NEW f \in Frame, NEW P,
         sending' = [sending EXCEPT ![n] = @ \cup {Sender(th, f, P)}],
         NEW l \in Link, l[1] = n, l[2] \in P
  PROVE  InHand(l, f)'
<1>1. PICK y : y = Sender(th, f, P)
  OBVIOUS
<1>2. y.frame = f /\ y.left = P
  BY <1>1 DEF Sender
<1>3. y \in sending'[l[1]]
  BY <1>1 DEF Types
<1> QED
  BY <1>2, <1>3 DEF InHand

-----------------------------------------------------------------------------
(* Every step keeps it *)

LEMMA JournaledKept ==
  ASSUME Journaled,
         \A n \in Node : \A s \in Sid : Range(journal[n][s]) \subseteq Range(journal'[n][s]),
         \A n \in Node : \A f \in Sent(n)' :
           f \in Sent(n) \/ (f.sid \in Sid /\ f \in Range(journal'[n][f.sid]))
  PROVE  Journaled'
BY DEF Journaled

LEMMA JournaledStays ==
  ASSUME Journaled, UNCHANGED <<pos, journal, echoed>>
  PROVE  Journaled'
<1>1. \A n \in Node : Sent(n)' = Sent(n)
  BY SentKept
<1> QED
  BY <1>1 DEF Journaled

LEMMA WholeKept ==
  ASSUME NEW l \in Link, Whole(l), Sent(l[1])' \subseteq Sent(l[1]), Working(l)' => Working(l),
         \A f : Working(l)' /\ Addressed(f, l[2]) /\ Now(l, f) => Now(l, f)'
  PROVE  Whole(l)'
<1>1. \A f : Addressed(f, l[2])' = Addressed(f, l[2])
  BY DEF Addressed
<1> QED
  BY <1>1 DEF Whole

LEMMA LinkEnds ==
  ASSUME NEW l \in Link
  PROVE  l[1] \in Node /\ l[2] \in Peers(l[1]) /\ l = <<l[1], l[2]>>
BY DEF Link, Peers

LEMMA SendKeeps ==
  ASSUME GInv, NEW n \in Node, NEW s \in Sid, Send(n, s)
  PROVE  Journaled' /\ \A l \in Link : Whole(l)'
<1> USE DEF GInv
<1>1. pos[n][s] + 1 \in 1 .. Len(Script[n][s])
  <2>1. pos[n][s] \in Nat \cup {Retired} /\ pos[n][s] # Retired
    BY DEF Types, Send
  <2>2. Script[n][s] \in Seq(Peers(n) \cup {All})
    BY ScriptAssumption
  <2> QED
    BY <2>1, <2>2 DEF Send
<1>2. PICK f \in Frame : f = Original(n, s, pos[n][s] + 1)
  BY <1>1, OriginalIsFrame
<1>3. PICK P : P = IF f.to = All THEN Peers(n) ELSE {f.to}
  OBVIOUS
<1>4. /\ sending' = [sending EXCEPT ![n] = @ \cup {Sender(Driver(s), f, P)}]
      /\ journal' = Pushed(n, f)
      /\ UNCHANGED <<conn, wire, broken, task, echoed, got, breaks>>
  BY <1>2, <1>3 DEF Send
<1>5. \A m \in Node : Sent(m)' \subseteq Sent(m) \cup (IF m = n THEN {f} ELSE {})
  BY <1>2, SentBySend
<1>6. Journaled'
  <2>1. /\ \A m \in Node : \A t \in Sid : Range(journal[m][t]) \subseteq Range(journal'[m][t])
        /\ f \in Range(journal'[n][f.sid])
    BY <1>4, PushTypes
  <2>2. f.sid \in Sid
    BY DEF Frame
  <2> QED
    BY <1>5, <2>1, <2>2, JournaledKept
<1>7. ASSUME NEW l \in Link
      PROVE  Whole(l)'
  <2>1. Working(l)' = Working(l) /\ Whole(l)
    BY <1>4 DEF Working
  <2>2. ASSUME NEW g, Now(l, g)
        PROVE  Now(l, g)'
    <3>1. sending[l[1]] \subseteq sending'[l[1]] /\ conn'[l] = conn[l]
      BY <1>4, LinkEnds DEF Types
    <3> QED
      BY <1>4, <2>2, <3>1, InHandKept DEF Now
  <2>3. ASSUME l[1] = n, Addressed(f, l[2])
        PROVE  Now(l, f)'
    <3>1. l[2] \in P
      BY <1>3, <2>3, LinkEnds DEF Addressed
    <3> QED
      BY <1>4, <2>3, <3>1, InHandStarts DEF Now
  <2>4. \A g : Addressed(g, l[2])' = Addressed(g, l[2])
    BY DEF Addressed
  <2> QED
    BY <1>5, <2>1, <2>2, <2>3, <2>4, LinkEnds DEF Whole
<1> QED
  BY <1>6, <1>7

LEMMA RetireKeeps ==
  ASSUME GInv, NEW n \in Node, NEW s \in Sid, Retire(n, s)
  PROVE  Journaled' /\ \A l \in Link : Whole(l)'
<1> USE DEF GInv
<1>1. \A m \in Node : Sent(m)' \subseteq {f \in Sent(m) : m = n => f.sid # s}
  BY SentByRetire
<1>2. Journaled'
  <2> SUFFICES ASSUME NEW m \in Node, NEW f \in Sent(m)'
               PROVE  f.sid \in Sid /\ f \in Range(journal'[m][f.sid])
    BY DEF Journaled
  <2>1. f \in Sent(m) /\ (m = n => f.sid # s)
    BY <1>1
  <2>2. f.sid \in Sid /\ f \in Range(journal[m][f.sid])
    BY <2>1 DEF Journaled
  <2>3. journal'[m][f.sid] = journal[m][f.sid]
    BY <2>1, <2>2 DEF Retire, Types
  <2> QED
    BY <2>2, <2>3
<1>3. UNCHANGED <<conn, wire, broken, task, sending, got>>
  BY DEF Retire
<1>4. ASSUME NEW l \in Link
      PROVE  Whole(l)'
  <2>1. Sent(l[1])' \subseteq Sent(l[1])
    BY <1>1, LinkEnds
  <2>2. Working(l)' = Working(l) /\ Whole(l) /\ \A f : Now(l, f)' = Now(l, f)
    BY <1>3 DEF Working, Now, InHand
  <2> QED
    BY <2>1, <2>2, WholeKept
<1> QED
  BY <1>2, <1>4

LEMMA TakeKeeps ==
  ASSUME GInv, NEW n \in Node, NEW x \in sending[n], NEW p \in x.left, Take(n, x, p)
  PROVE  Journaled' /\ \A l \in Link : Whole(l)'
<1> USE DEF GInv
<1>1. UNCHANGED <<pos, journal, conn, wire, broken, task, echoed, got, breaks>>
  BY DEF Take
<1>2. ASSUME NEW l \in Link
      PROVE  Whole(l)'
  <2>1. Sent(l[1])' = Sent(l[1])
    BY <1>1, SentKept, LinkEnds
  <2>2. Working(l)' = Working(l) /\ Whole(l)
    BY <1>1 DEF Working
  <2>3. ASSUME NEW f, Now(l, f)
        PROVE  Now(l, f)'
    BY <1>1, <2>3, InHandTaken DEF Now
  <2> QED
    BY <2>1, <2>2, <2>3, WholeKept
<1> QED
  BY <1>1, <1>2, JournaledStays

LEMMA WriteKeeps ==
  ASSUME GInv, NEW n \in Node, NEW x \in sending[n], Write(n, x)
  PROVE  Journaled' /\ \A l \in Link : Whole(l)'
<1> USE DEF GInv
<1>1. UNCHANGED <<pos, journal, conn, broken, task, echoed, got, breaks>>
  BY DEF Write
<1>2. x.frame \in Frame /\ x.to \in Peers(n) /\ x.to # All /\ sending' = Served(n, x)
  BY DEF Types, SendersOf, SenderSet, Write
<1>3. PICK k \in Link : k = <<n, x.to>>
  BY <1>2 DEF Link, Peers
<1>4. PICK g \in Frame : g = x.frame
  BY <1>2
<1>5. PICK c : c = x.on
  OBVIOUS
<1>6. Put(k, c, g)
  BY <1>3, <1>4, <1>5 DEF Write
<1>7. ASSUME NEW l \in Link
      PROVE  Whole(l)'
  <2>1. Sent(l[1])' = Sent(l[1])
    BY <1>1, SentKept, LinkEnds
  <2>2. Working(l)' = Working(l) /\ Whole(l)
    BY <1>1 DEF Working
  <2>3. conn[l] \in 1 .. Len(wire[l]) /\ wire[l][conn[l]] \in Seq(Frame)
    <3>1. conn[l] = Len(wire[l]) /\ conn[l] \in Nat \ {0} /\ wire[l] \in Seq(Seq(Frame))
      BY DEF Types
    <3>2. conn[l] \in 1 .. Len(wire[l])
      BY <3>1
    <3> QED
      BY <3>1, <3>2
  <2>4. wire'[l][conn[l]] = IF l = k /\ conn[l] = c /\ c \notin broken[k]
                            THEN Append(wire[k][c], g) ELSE wire[l][conn[l]]
    BY <1>6, <2>3, PutTypes
  <2>5. ASSUME NEW f, Working(l), Now(l, f)
        PROVE  Now(l, f)'
    <3>1. CASE f \in got[l[2]] \/ f \in Range(task[l].rest)
      BY <1>1, <3>1 DEF Now
    <3>2. CASE f \in Range(wire[l][conn[l]])
      <4>1. f \in Range(wire'[l][conn[l]])
        <5>1. CASE l = k /\ conn[l] = c /\ c \notin broken[k]
          BY <2>3, <2>4, <3>2, <5>1, RangeOfAppend
        <5>2. CASE ~ (l = k /\ conn[l] = c /\ c \notin broken[k])
          BY <2>4, <3>2, <5>2
        <5> QED
          BY <5>1, <5>2
      <4> QED
        BY <1>1, <4>1 DEF Now
    <3>3. CASE InHand(l, f)
      <4>1. InHand(l, f)' \/ (l = k /\ c = conn[l] /\ g = f)
        BY <1>1, <1>2, <1>3, <1>4, <1>5, <3>3, InHandServed
      <4>2. CASE l = k /\ c = conn[l] /\ g = f
        <5>1. c \notin broken[k]
          BY <2>5, <4>2 DEF Working
        <5>2. f \in Range(wire'[l][conn[l]])
          BY <2>3, <2>4, <4>2, <5>1, RangeOfAppend
        <5> QED
          BY <1>1, <5>2 DEF Now
      <4>3. CASE InHand(l, f)'
        BY <4>3 DEF Now
      <4> QED
        BY <4>1, <4>2, <4>3
    <3> QED
      BY <2>5, <3>1, <3>2, <3>3 DEF Now
  <2> QED
    BY <2>1, <2>2, <2>5, WholeKept
<1> QED
  BY <1>1, <1>7, JournaledStays

LEMMA FailWriteKeeps ==
  ASSUME GInv, NEW n \in Node, NEW x \in sending[n], FailWrite(n, x)
  PROVE  Journaled' /\ \A l \in Link : Whole(l)'
<1> USE DEF GInv
<1>1. UNCHANGED <<pos, journal, conn, wire, broken, echoed, got, breaks>>
  BY DEF FailWrite
<1>2. x.to \in Peers(n) /\ x.to # All /\ sending' = Served(n, x) /\ x.on \in broken[<<n, x.to>>]
  BY DEF Types, SendersOf, SenderSet, FailWrite
<1>3. PICK k \in Link : k = <<n, x.to>>
  BY <1>2 DEF Link, Peers
<1>4. PICK t \in Task : t = Kick(k) /\ t.rest = task[k].rest
                        /\ (task[k].pc = "snapshot" => t.pc = "snapshot")
  <2>1. task[k] = NoTask => task[k].pc # "snapshot"
    BY DEF NoTask
  <2>2. task[k].pc = "snapshot" => Kick(k).pc = "snapshot"
    BY <2>1 DEF Kick
  <2> QED
    BY <2>2, KickIsTask
<1>5. task' = [task EXCEPT ![k] = t]
  BY <1>3, <1>4 DEF FailWrite
<1>6. ASSUME NEW l \in Link
      PROVE  Whole(l)'
  <2>1. Sent(l[1])' = Sent(l[1])
    BY <1>1, SentKept, LinkEnds
  <2>2. task'[l].rest = task[l].rest /\ (Working(l)' => Working(l)) /\ Whole(l)
    BY <1>1, <1>4, <1>5 DEF Working, Types
  <2>3. ASSUME NEW f, Working(l), Now(l, f)
        PROVE  Now(l, f)'
    <3>1. CASE InHand(l, f)
      <4>1. InHand(l, f)' \/ (l = k /\ x.on = conn[l])
        BY <1>1, <1>2, <1>3, <3>1, InHandServed
      <4>2. ~ (l = k /\ x.on = conn[l])
        BY <1>2, <1>3, <2>3 DEF Working
      <4> QED
        BY <4>1, <4>2 DEF Now
    <3>2. CASE ~ InHand(l, f)
      BY <1>1, <2>2, <2>3, <3>2 DEF Now
    <3> QED
      BY <3>1, <3>2
  <2> QED
    BY <2>1, <2>2, <2>3, WholeKept
<1> QED
  BY <1>1, <1>6, JournaledStays

LEMMA ConnectionIs ==
  ASSUME Types, NEW l \in Link
  PROVE  conn[l] \in Nat \ {0} /\ conn[l] \in 1 .. Len(wire[l]) /\ conn[l] = Len(wire[l])
         /\ wire[l][conn[l]] \in Seq(Frame)
<1>1. conn[l] = Len(wire[l]) /\ conn[l] \in Nat \ {0} /\ wire[l] \in Seq(Seq(Frame))
  BY DEF Types
<1>2. conn[l] \in 1 .. Len(wire[l])
  BY <1>1
<1> QED
  BY <1>1, <1>2

(* What a reader takes from the table's connection goes to the mailbox.    *)
LEMMA ReadKeeps ==
  ASSUME GInv, NEW k \in Link, NEW c \in 1 .. conn[k], Read(k[1], k[2], c)
  PROVE  Journaled' /\ \A l \in Link : Whole(l)'
<1> USE DEF GInv
<1>1. PICK n \in Node : n = k[2] /\ k = <<k[1], n>> /\ k[1] \in Node
  BY LinkEnds DEF Peers
<1>2. wire[k][c] # <<>>
  BY <1>1 DEF Read
<1>3. PICK f \in Frame, q \in Seq(Frame) :
        f = Head(wire[k][c]) /\ q = Tail(wire[k][c]) /\ Range(wire[k][c]) = Range(q) \cup {f}
  BY <1>2, HeadIsFrame
<1>4. PICK e \in Frame : e = EchoOf(n, f)
  BY DEF EchoOf, Frame
<1>5. /\ wire' = [wire EXCEPT ![k][c] = q]
      /\ got' = [got EXCEPT ![n] = IF Addressed(f, n) THEN @ \cup {f} ELSE @]
      /\ UNCHANGED <<pos, conn, broken, task, breaks>>
  BY <1>1, <1>3 DEF Read
<1>6. \/ UNCHANGED <<echoed, journal, sending>>
      \/ /\ echoed' = [echoed EXCEPT ![n] = @ \cup {f}]
         /\ journal' = Pushed(n, e)
         /\ sending' = [sending EXCEPT ![n] = @ \cup {Sender(Reader(k[1], c), e, Peers(n))}]
  BY <1>1, <1>3, <1>4 DEF Read
<1>7. ASSUME NEW l \in Link
      PROVE  /\ Working(l)' = Working(l) /\ sending[l[1]] \subseteq sending'[l[1]]
             /\ \A g : Addressed(g, l[2]) /\ Now(l, g) => Now(l, g)'
  <2>1. Working(l)' = Working(l)
    BY <1>5 DEF Working
  <2>2. sending[l[1]] \subseteq sending'[l[1]]
    BY <1>6, LinkEnds DEF Types
  <2>3. ASSUME NEW g, Addressed(g, l[2]), Now(l, g)
        PROVE  Now(l, g)'
    <3>1. CASE g \in got[l[2]]
      <4>1. l[2] \in Node
        BY DEF Link
      <4>2. g \in got'[l[2]]
        BY <1>5, <3>1, <4>1 DEF Types
      <4> QED
        BY <4>2 DEF Now
    <3>2. CASE g \in Range(wire[l][conn[l]])
      <4>1. wire'[l][conn[l]] = IF l = k /\ conn[l] = c THEN q ELSE wire[l][conn[l]]
        <5>1. PICK r : r = [wire[k] EXCEPT ![c] = q]
          OBVIOUS
        <5>2. wire' = [wire EXCEPT ![k] = r]
          BY <1>5, <5>1
        <5>3. conn[l] \in DOMAIN wire[l] /\ wire \in [Link -> Seq(Seq(Frame))]
          <6>1. conn[l] \in 1 .. Len(wire[l]) /\ wire \in [Link -> Seq(Seq(Frame))]
            BY ConnectionIs DEF Types
          <6> QED
            BY <6>1
        <5>4. l = k => r[conn[l]] = IF conn[l] = c THEN q ELSE wire[l][conn[l]]
          BY <5>1, <5>3
        <5> QED
          BY <5>2, <5>3, <5>4
      <4>2. CASE l = k /\ conn[l] = c /\ g = f
        <5>1. l[2] = n /\ Addressed(f, n)
          BY <1>1, <2>3, <4>2
        <5>2. g \in got'[l[2]]
          BY <1>5, <4>2, <5>1 DEF Types
        <5> QED
          BY <5>2 DEF Now
      <4>3. CASE l = k /\ conn[l] = c /\ g # f
        <5>1. g \in Range(q)
          BY <1>3, <3>2, <4>3
        <5> QED
          BY <1>5, <4>1, <4>3, <5>1 DEF Now
      <4>4. CASE ~ (l = k /\ conn[l] = c)
        BY <1>5, <3>2, <4>1, <4>4 DEF Now
      <4> QED
        BY <4>2, <4>3, <4>4
    <3>3. CASE g \in Range(task[l].rest)
      BY <1>5, <3>3 DEF Now
    <3>4. CASE InHand(l, g)
      BY <1>5, <2>2, <3>4, InHandKept DEF Now
    <3> QED
      BY <2>3, <3>1, <3>2, <3>3, <3>4 DEF Now
  <2> QED
    BY <2>1, <2>2, <2>3
<1>8. CASE UNCHANGED <<echoed, journal, sending>>
  <2>1. Journaled'
    BY <1>5, <1>8, JournaledStays
  <2>2. ASSUME NEW l \in Link
        PROVE  Whole(l)'
    <3>1. Sent(l[1])' = Sent(l[1])
      BY <1>5, <1>8, SentKept, LinkEnds
    <3> QED
      BY <1>7, <3>1, WholeKept
  <2> QED
    BY <2>1, <2>2
<1>9. CASE /\ echoed' = [echoed EXCEPT ![n] = @ \cup {f}]
           /\ journal' = Pushed(n, e)
           /\ sending' = [sending EXCEPT ![n] = @ \cup {Sender(Reader(k[1], c), e, Peers(n))}]
  <2>1. \A m \in Node : Sent(m)' \subseteq Sent(m) \cup (IF m = n THEN {e} ELSE {})
    BY <1>4, <1>5, <1>9, SentByEcho
  <2>2. Journaled'
    <3>1. /\ \A m \in Node : \A t \in Sid : Range(journal[m][t]) \subseteq Range(journal'[m][t])
          /\ e \in Range(journal'[n][e.sid])
      BY <1>9, PushTypes
    <3>2. e.sid \in Sid
      BY DEF Frame
    <3> QED
      BY <2>1, <3>1, <3>2, JournaledKept
  <2>3. ASSUME NEW l \in Link
        PROVE  Whole(l)'
    <3>1. l[1] = n => Now(l, e)'
      BY <1>9, InHandStarts, LinkEnds DEF Now
    <3>2. \A g : Addressed(g, l[2])' = Addressed(g, l[2])
      BY DEF Addressed
    <3>3. Whole(l) /\ Working(l)' = Working(l)
      BY <1>7
    <3> QED
      BY <1>7, <2>1, <3>1, <3>2, <3>3, LinkEnds DEF Whole
  <2> QED
    BY <2>2, <2>3
<1> QED
  BY <1>6, <1>8, <1>9

(* Only the table's connection matters: an older one may break.            *)
LEMMA BreakKeeps ==
  ASSUME GInv, NEW k \in Link, NEW c \in 1 .. conn[k], Break(k, c)
  PROVE  Journaled' /\ \A l \in Link : Whole(l)'
<1> USE DEF GInv
<1>1. UNCHANGED <<pos, journal, conn, task, sending, echoed, got>>
  BY DEF Break
<1>2. PICK r : wire' = [wire EXCEPT ![k] = r] /\ \A d \in DOMAIN wire[k] \ {c} : r[d] = wire[k][d]
  <2>1. PICK i \in 0 .. Len(wire[k][c]) : wire' = [wire EXCEPT ![k][c] = SubSeq(wire[k][c], 1, i)]
    BY DEF Break
  <2>2. wire' = [wire EXCEPT ![k] = [wire[k] EXCEPT ![c] = SubSeq(wire[k][c], 1, i)]]
    BY <2>1
  <2>3. \A d \in DOMAIN wire[k] \ {c} :
          [wire[k] EXCEPT ![c] = SubSeq(wire[k][c], 1, i)][d] = wire[k][d]
    OBVIOUS
  <2> QED
    BY <2>2, <2>3
<1>3. broken' = [broken EXCEPT ![k] = @ \cup {c}]
  BY DEF Break
<1>4. ASSUME NEW l \in Link
      PROVE  Whole(l)'
  <2>1. Sent(l[1])' = Sent(l[1])
    BY <1>1, SentKept, LinkEnds
  <2>2. Working(l)' => Working(l) /\ ~ (l = k /\ conn[l] = c)
    BY <1>1, <1>3 DEF Working, Types
  <2>3. ASSUME Working(l)'
        PROVE  wire'[l][conn[l]] = wire[l][conn[l]]
    <3>1. CASE l = k
      <4>1. conn[l] \in DOMAIN wire[l] \ {c}
        <5>1. conn[l] \in 1 .. Len(wire[l]) /\ wire[l] \in Seq(Seq(Frame))
          BY ConnectionIs DEF Types
        <5> QED
          BY <2>2, <2>3, <3>1, <5>1
      <4> QED
        BY <1>2, <3>1, <4>1 DEF Types
    <3>2. CASE l # k
      BY <1>2, <3>2 DEF Types
    <3> QED
      BY <3>1, <3>2
  <2>4. ASSUME NEW f, Working(l)', Now(l, f)
        PROVE  Now(l, f)'
    BY <1>1, <2>3, <2>4 DEF Now, InHand
  <2> QED
    BY <2>1, <2>2, <2>4, WholeKept
<1> QED
  BY <1>1, <1>4, JournaledStays

LEMMA DialKeeps ==
  ASSUME GInv, NEW k \in Link, Dial(k)
  PROVE  Journaled' /\ \A l \in Link : Whole(l)'
<1> USE DEF GInv
<1>1. UNCHANGED <<pos, journal, broken, sending, echoed, got, breaks>>
  BY DEF Dial
<1>2. /\ task'[k].pc = "snapshot"
      /\ \A m \in Link \ {k} : conn'[m] = conn[m] /\ wire'[m] = wire[m] /\ task'[m] = task[m]
  BY DialTypes
<1>3. ASSUME NEW l \in Link, l # k
      PROVE  Whole(l)'
  <2>1. Sent(l[1])' = Sent(l[1])
    BY <1>1, SentKept, LinkEnds
  <2>2. conn'[l] = conn[l] /\ wire'[l] = wire[l] /\ task'[l] = task[l]
    BY <1>2, <1>3
  <2>3. Working(l)' = Working(l) /\ \A f : Now(l, f)' = Now(l, f)
    BY <1>1, <2>2 DEF Working, Now, InHand
  <2> QED
    BY <2>1, <2>3, WholeKept
<1>4. Whole(k)'
  BY <1>2 DEF Whole, Working
<1> QED
  BY <1>1, <1>3, <1>4, JournaledStays

(* The copy has every message the sender still answers for.                *)
LEMMA SnapshotKeeps ==
  ASSUME GInv, NEW k \in Link, Snapshot(k)
  PROVE  Journaled' /\ \A l \in Link : Whole(l)'
<1> USE DEF GInv
<1>1. UNCHANGED <<pos, journal, conn, wire, broken, sending, echoed, got, breaks>>
  BY DEF Snapshot
<1>2. PICK n \in Node : n = k[1]
  BY LinkEnds
<1>3. PICK q \in Seq(Frame) : q = FlattenSeq(journal[n]) /\ \A s \in Sid : Range(journal[n][s]) \subseteq Range(q)
  BY JournalIsFrames
<1>4. task' = [task EXCEPT ![k] = [pc |-> "resend", rest |-> q]]
  BY <1>2, <1>3 DEF Snapshot
<1>5. ASSUME NEW l \in Link, l # k
      PROVE  Whole(l)'
  <2>1. Sent(l[1])' = Sent(l[1])
    BY <1>1, SentKept, LinkEnds
  <2>2. task'[l] = task[l]
    BY <1>4, <1>5 DEF Types
  <2>3. Working(l)' = Working(l) /\ \A f : Now(l, f)' = Now(l, f)
    BY <1>1, <2>2 DEF Working, Now, InHand
  <2> QED
    BY <2>1, <2>3, WholeKept
<1>6. Whole(k)'
  <2>1. task'[k].rest = q
    BY <1>4 DEF Types
  <2>2. Sent(k[1])' = Sent(n)
    BY <1>1, <1>2, SentKept
  <2>3. \A f \in Sent(n) : f \in Range(q)
    BY <1>3 DEF Journaled
  <2> QED
    BY <2>1, <2>2, <2>3 DEF Whole, Now
<1> QED
  BY <1>1, <1>5, <1>6, JournaledStays

LEMMA ResendKeeps ==
  ASSUME GInv, NEW k \in Link, Resend(k)
  PROVE  Journaled' /\ \A l \in Link : Whole(l)'
<1> USE DEF GInv
<1>1. UNCHANGED <<pos, journal, conn, broken, sending, echoed, got, breaks>>
  BY DEF Resend
<1>2. PICK f \in Frame, q \in Seq(Frame) :
        f = Head(task[k].rest) /\ q = Tail(task[k].rest) /\ Range(task[k].rest) = Range(q) \cup {f}
  BY RestTypes DEF Resend
<1>3. Put(k, conn[k], f)
  BY <1>2 DEF Resend
<1>4. task[k] \in Task /\ task' = [task EXCEPT ![k] = [task[k] EXCEPT !.rest = q]]
  BY <1>2 DEF Resend, Types
<1>5. task'[k].rest = q /\ task'[k].pc = task[k].pc /\ \A l \in Link \ {k} : task'[l] = task[l]
  <2>1. [task[k] EXCEPT !.rest = q].rest = q /\ [task[k] EXCEPT !.rest = q].pc = task[k].pc
    BY <1>4 DEF Task
  <2> QED
    BY <1>4, <2>1 DEF Types
<1>6. ASSUME NEW l \in Link
      PROVE  Whole(l)'
  <2>1. Sent(l[1])' = Sent(l[1])
    BY <1>1, SentKept, LinkEnds
  <2>2. Working(l)' = Working(l) /\ Whole(l)
    BY <1>1, <1>5 DEF Working
  <2>3. wire'[l][conn[l]] = IF l = k /\ conn[k] \notin broken[k]
                            THEN Append(wire[l][conn[l]], f) ELSE wire[l][conn[l]]
    BY <1>3, ConnectionIs, PutTypes
  <2>4. ASSUME NEW g, Working(l), Now(l, g)
        PROVE  Now(l, g)'
    <3>1. CASE l = k /\ g = f
      <4>1. conn[k] \notin broken[k]
        BY <2>4, <3>1 DEF Working
      <4>2. g \in Range(wire'[l][conn[l]])
        BY <2>3, <3>1, <4>1, ConnectionIs, RangeOfAppend
      <4> QED
        BY <1>1, <4>2 DEF Now
    <3>2. CASE g \in Range(task[l].rest) /\ ~ (l = k /\ g = f)
      BY <1>2, <1>5, <3>2 DEF Now
    <3>3. CASE g \in Range(wire[l][conn[l]])
      <4>1. g \in Range(wire'[l][conn[l]])
        BY <2>3, <3>3, ConnectionIs, RangeOfAppend
      <4> QED
        BY <1>1, <4>1 DEF Now
    <3>4. CASE g \in got[l[2]] \/ InHand(l, g)
      BY <1>1, <3>4 DEF Now, InHand
    <3> QED
      BY <2>4, <3>1, <3>2, <3>3, <3>4 DEF Now
  <2> QED
    BY <2>1, <2>2, <2>4, WholeKept
<1> QED
  BY <1>1, <1>6, JournaledStays

LEMMA EndKeeps ==
  ASSUME GInv, NEW k \in Link, FailResend(k) \/ Leave(k)
  PROVE  Journaled' /\ \A l \in Link : Whole(l)'
<1> USE DEF GInv
<1>1. UNCHANGED <<pos, journal, conn, wire, broken, sending, echoed, got, breaks>>
  BY DEF FailResend, Leave
<1>2. \A l \in Link \ {k} : task'[l] = task[l]
  BY DEF FailResend, Leave, Types
<1>3. ASSUME NEW l \in Link, l # k
      PROVE  Whole(l)'
  <2>1. Sent(l[1])' = Sent(l[1])
    BY <1>1, SentKept, LinkEnds
  <2>2. task'[l] = task[l]
    BY <1>2, <1>3
  <2>3. Working(l)' = Working(l) /\ \A f : Now(l, f)' = Now(l, f)
    BY <1>1, <2>2 DEF Working, Now, InHand
  <2> QED
    BY <2>1, <2>3, WholeKept
<1>4. CASE FailResend(k)
  <2>1. ~ Working(k)'
    BY <1>1, <1>4 DEF FailResend, Working
  <2>2. Whole(k)'
    BY <2>1 DEF Whole
  <2> QED
    BY <1>1, <1>3, <2>2, JournaledStays
<1>5. CASE Leave(k)
  <2>1. task'[k] = NoTask /\ task[k].rest = <<>> /\ task[k].pc # "snapshot"
    BY <1>5 DEF Leave, Types
  <2>2. task'[k].rest = task[k].rest
    BY <2>1 DEF NoTask
  <2>3. Working(k)' => Working(k)
    BY <1>1, <2>1 DEF Working
  <2>4. \A f : Now(k, f)' = Now(k, f)
    BY <1>1, <2>2 DEF Now, InHand
  <2>5. Sent(k[1])' = Sent(k[1])
    BY <1>1, SentKept, LinkEnds
  <2>6. Whole(k)'
    BY <2>3, <2>4, <2>5, WholeKept
  <2> QED
    BY <1>1, <1>3, <2>6, JournaledStays
<1> QED
  BY <1>4, <1>5

LEMMA InitWhole == Init => GInv
<1> SUFFICES ASSUME Init PROVE GInv
  OBVIOUS
<1>1. Types
  BY InitTypes
<1>2. ASSUME NEW n \in Node PROVE Sent(n) = {}
  <2> SUFFICES ASSUME NEW f \in Sent(n) PROVE FALSE
    OBVIOUS
  <2>1. (\A s \in Sid : pos[n][s] = 0) /\ echoed[n] = {}
    BY DEF Init
  <2> QED
    BY <2>1, SentIs
<1> QED
  BY <1>1, <1>2, LinkEnds DEF GInv, Journaled, Whole

Kept == Journaled' /\ \A l \in Link : Whole(l)'

LEMMA NextWhole == GInv /\ [Next]_vars => GInv'
<1> SUFFICES ASSUME GInv, [Next]_vars PROVE GInv'
  OBVIOUS
<1>1. Types'
  BY NextTypes DEF GInv
<1>2. ASSUME NEW n \in Node, NEW s \in Sid, Send(n, s) \/ Retire(n, s)
      PROVE  Kept
  BY <1>2, SendKeeps, RetireKeeps DEF Kept
<1>3. ASSUME NEW n \in Node, Sending(n)
      PROVE  Kept
  BY <1>3, TakeKeeps, WriteKeeps, FailWriteKeeps DEF Sending, Kept
<1>4. ASSUME NEW l \in Link, Reading(l)
      PROVE  Kept
  BY <1>4, ReadKeeps DEF Reading, Kept
<1>5. ASSUME NEW l \in Link, Reconnecting(l)
      PROVE  Kept
  BY <1>5, DialKeeps, SnapshotKeeps, ResendKeeps, EndKeeps DEF Reconnecting, Kept
<1>6. ASSUME NEW l \in Link, NEW c \in 1 .. conn[l], Break(l, c)
      PROVE  Kept
  BY <1>6, BreakKeeps DEF Kept
<1>7. ASSUME UNCHANGED vars
      PROVE  Kept
  <2>1. UNCHANGED <<pos, journal, conn, wire, broken, task, sending, echoed, got>>
    BY <1>7 DEF vars
  <2>2. ASSUME NEW l \in Link PROVE Whole(l)'
    <3>1. Sent(l[1])' = Sent(l[1])
      BY <2>1, SentKept, LinkEnds
    <3>2. Working(l)' = Working(l) /\ Whole(l) /\ \A f : Now(l, f)' = Now(l, f)
      BY <2>1 DEF GInv, Working, Now, InHand
    <3> QED
      BY <3>1, <3>2, WholeKept
  <2>3. Journaled'
    BY <2>1, JournaledStays DEF GInv
  <2> QED
    BY <2>2, <2>3 DEF Kept
<1>8. ASSUME Next
      PROVE  Kept
  <2>1. CASE \E n \in Node, s \in Sid : Send(n, s) \/ Retire(n, s)
    BY <1>2, <2>1
  <2>2. CASE \E n \in Node : Sending(n)
    BY <1>3, <2>2
  <2>3. ASSUME NEW l \in Link, Reading(l) \/ Reconnecting(l) \/ \E c \in 1 .. conn[l] : Break(l, c)
        PROVE  Kept
    BY <1>4, <1>5, <1>6, <2>3
  <2> QED
    BY <1>8, <2>1, <2>2, <2>3 DEF Next
<1>9. Kept
  BY <1>7, <1>8
<1> QED
  BY <1>1, <1>9 DEF GInv, Kept

(* A connection that works misses nothing (NoGap): because a frame is      *)
(* journaled before it is written, and the journal is copied only after    *)
(* the new connection is in the table, a thread that writes to the old     *)
(* connection while it is replaced loses nothing that the resend does not  *)
(* bring (journal_push before send_raw, resend_journal after the table).   *)
THEOREM NoGapTheorem == Spec => []NoGap
<1>1. Spec => []GInv
  BY InitWhole, NextWhole, PTL DEF Spec
<1> QED
  BY <1>1, WholeGivesNoGap, PTL
=============================================================================
