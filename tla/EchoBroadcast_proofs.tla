------------------------- MODULE EchoBroadcast_proofs -------------------------
(***************************************************************************)
(* Proofs about EchoBroadcast, for every set of nodes, threshold, number   *)
(* of rounds and choice of the rounds sent at once.                        *)
(*                                                                         *)
(* The inductive invariant IInv says where each message comes from: what a *)
(* node has processed in the name of an honest one is in that one's log,   *)
(* what it has read or echoed itself it has processed, unless the sender   *)
(* was caught, and two values of a slot are never both there unnoticed.    *)
(* CalmRoundsAgree alone is not inductive: it must be known that a value   *)
(* returned of a faulty sender was echoed by an honest node (a quorum of   *)
(* T - 1 holds one), and that a value returned in a calm round has reached *)
(* every node that can still accept one of its sender.                     *)
(***************************************************************************)
EXTENDS EchoBroadcast, FiniteSetTheorems, SequenceTheorems, TLAPS

-----------------------------------------------------------------------------
(* The invariant *)

InLog(n, x) == \E i \in 1 .. Len(log[n]) : log[n][i] = x

SameSlot(x, y) == x.from = y.from /\ x.round = y.round

(* What honest nodes sign.                                                 *)
LogsSigned ==
  \A n \in Honest : \A i \in 1 .. Len(log[n]) :
    log[n][i].by = n /\ (log[n][i].from \in Honest => log[n][i].value = log[n][i].round)

SeenSigned ==
  \A n \in Honest : \A x \in seen[n] :
    /\ x.by \in Honest => InLog(x.by, x)
    /\ x.from \in Honest => x.value = x.round

(* What has been read, or echoed, was processed.                           *)
Kept(n, x) == x \in seen[n] \/ x.from \in poisoned[n]

ReadKept ==
  \A n, m \in Honest : m # n =>
    read[n][m] <= Len(log[m]) /\ \A i \in 1 .. read[n][m] : Kept(n, log[m][i])

EchoKept ==
  \A n \in Honest : \A i \in 1 .. Len(log[n]) : log[n][i].kind = "echo" => Kept(n, log[n][i])

(* Two values in a slot are never missed.                                  *)
Caught ==
  \A n \in Honest : \A x, y \in seen[n] :
    SameSlot(x, y) /\ x.value # y.value => x.from \in poisoned[n]

SInv == TypeOK /\ LogsSigned /\ SeenSigned /\ ReadKept /\ EchoKept /\ Caught

(* A value returned was signed by its sender, and echoed by an honest node *)
(* if the sender is faulty.                                                *)
ReturnedSigned ==
  \A n, s \in Honest, r \in Round : returned[n][r][s] \in {None, r}

ReturnedEchoed ==
  \A n \in Honest, s \in Faulty, r \in Round :
    returned[n][r][s] # None => \E e \in Honest : InLog(e, Echo(e, r, s, returned[n][r][s]))

(* A value returned in a calm round is known to all that can still accept  *)
(* one of its sender.                                                      *)
Knows(n, r, s, v) ==
  s \in poisoned[n] \/ \E x \in seen[n] : x.from = s /\ x.round = r /\ x.value = v

CalmKnown ==
  \A n, m \in Honest, s \in Faulty : \A r \in calm[n] :
    returned[n][r][s] # None => Knows(m, r, s, returned[n][r][s])

CalmPast == \A n \in Honest : \A r \in calm[n] : r < round[n]

IInv ==
  /\ SInv /\ HonestNeverPoisoned
  /\ ReturnedSigned /\ ReturnedEchoed /\ CalmKnown /\ CalmPast /\ CalmRoundsAgree

-----------------------------------------------------------------------------
(* Types *)

LEMMA ValueType == Value \subseteq Nat \ {0} /\ Round \subseteq Value
  BY RoundsAssumption DEF Value, Round

LEMMA InitType == Init => TypeOK
<1> SUFFICES ASSUME Init PROVE TypeOK
  OBVIOUS
<1>1. log \in [Honest -> Seq(Message)]
  <2>1. \A n \in Honest, r \in 1 .. Upfront : Original(r, n, r) \in Message
    BY RoundsAssumption DEF Original, Message, Honest, Round, Value
  <2>2. ASSUME NEW n \in Honest PROVE [r \in 1 .. Upfront |-> Original(r, n, r)] \in Seq(Message)
    BY <2>1, RoundsAssumption
  <2> QED
    BY <2>2 DEF Init
<1> QED
  BY <1>1, RoundsAssumption DEF Init, TypeOK, Round

(* handle leaves the acceptor and the log well-typed.                      *)
LEMMA HandleType ==
  ASSUME TypeOK, NEW n \in Honest, NEW m \in Message, Handle(n, m)
  PROVE  /\ log' \in [Honest -> Seq(Message)]
         /\ seen' \in [Honest -> SUBSET Message]
         /\ poisoned' \in [Honest -> SUBSET Node]
         /\ echoed' \in [Honest -> SUBSET (Round \X Node)]
<1> DEFINE echo == Echo(n, m.round, m.from, m.value)
<1>1. echo \in Message
  BY DEF Echo, Message, Honest
<1>2. m.round \in Round /\ m.from \in Node
  BY DEF Message
<1> HIDE DEF echo
<1>3. ASSUME NEW e \in SUBSET Message, Process(n, m, e)
      PROVE  seen' \in [Honest -> SUBSET Message] /\ poisoned' \in [Honest -> SUBSET Node]
  <2>1. \/ UNCHANGED <<seen, poisoned>>
        \/ /\ seen' = [seen EXCEPT ![n] = @ \cup {m} \cup e]
           /\ poisoned' = poisoned \/ poisoned' = [poisoned EXCEPT ![n] = @ \cup {m.from}]
    BY <1>3 DEF Process
  <2>2. seen[n] \cup {m} \cup e \in SUBSET Message
    BY DEF TypeOK
  <2>3. poisoned[n] \cup {m.from} \in SUBSET Node
    BY <1>2 DEF TypeOK
  <2> QED
    BY <2>1, <2>2, <2>3, ZenonT(30) DEF TypeOK
<1>4. CASE m.kind = "original" /\ FirstEcho(n, m)
  <2>1. Append(log[n], echo) \in Seq(Message)
    BY <1>1 DEF TypeOK
  <2>2. log' = [log EXCEPT ![n] = Append(@, echo)]
    BY <1>4 DEF Handle, echo
  <2>3. Process(n, m, {echo})
    BY <1>4 DEF Handle, echo
  <2>4. echoed' = [echoed EXCEPT ![n] = @ \cup {<<m.round, m.from>>}]
    BY <1>4 DEF Handle
  <2>5. log' \in [Honest -> Seq(Message)]
    BY <2>1, <2>2 DEF TypeOK
  <2>6. echoed[n] \cup {<<m.round, m.from>>} \in SUBSET (Round \X Node)
    BY <1>2 DEF TypeOK
  <2>7. echoed' \in [Honest -> SUBSET (Round \X Node)]
    BY <2>4, <2>6 DEF TypeOK
  <2>8. {echo} \in SUBSET Message
    BY <1>1
  <2> QED
    BY <1>3, <2>3, <2>5, <2>7, <2>8
<1>5. CASE ~(m.kind = "original" /\ FirstEcho(n, m))
  BY <1>3, <1>5 DEF Handle, TypeOK
<1> QED
  BY <1>4, <1>5

LEMMA NextType == TypeOK /\ [Next]_vars => TypeOK'
<1> SUFFICES ASSUME TypeOK, [Next]_vars PROVE TypeOK'
  OBVIOUS
<1>1. ASSUME NEW n \in Honest, NEW m \in Honest, Deliver(n, m) PROVE TypeOK'
  <2>1. log[m][read[n][m] + 1] \in Message
    BY <1>1 DEF Deliver, TypeOK
  <2>2. read' \in [Honest -> [Honest -> Nat]]
    BY <1>1 DEF Deliver, TypeOK
  <2> QED
    BY <1>1, <2>1, <2>2, HandleType DEF Deliver, TypeOK
<1>2. ASSUME NEW n \in Honest, NEW m \in FaultySigned, Inject(n, m) PROVE TypeOK'
  BY <1>2, HandleType DEF Inject, FaultySigned, TypeOK
<1>3. ASSUME NEW n \in Honest, EndRound(n) PROVE TypeOK'
  <2>1. round' \in [Honest -> 1 .. Rounds + 1] /\ calm' \in [Honest -> SUBSET Round]
    BY <1>3, RoundsAssumption DEF EndRound, Round, TypeOK
  <2>2. log' \in [Honest -> Seq(Message)]
    <3>1. CASE round[n] + 1 \in Upfront + 1 .. Rounds
      <4>1. Original(round[n] + 1, n, round[n] + 1) \in Message
        BY <3>1, RoundsAssumption DEF Original, Message, Round, Value, Honest
      <4> HIDE DEF Original
      <4> QED
        BY <1>3, <3>1, <4>1 DEF EndRound, TypeOK
    <3>2. CASE ~(round[n] + 1 \in Upfront + 1 .. Rounds)
      BY <1>3, <3>2 DEF EndRound, TypeOK
    <3> QED
      BY <3>1, <3>2
  <2>3. returned' \in [Honest -> [Round -> [Node -> Value \cup {None}]]]
    <3> DEFINE set == [s \in Node |-> CHOOSE v \in Value : Accepts(n, round[n], s, v)]
    <3>1. set \in [Node -> Value \cup {None}]
      BY <1>3 DEF EndRound
    <3> HIDE DEF set
    <3>2. returned' = [returned EXCEPT ![n][round[n]] = set]
      BY <1>3 DEF EndRound, set
    <3> QED
      BY <3>1, <3>2 DEF TypeOK
  <2> QED
    BY <1>3, <2>1, <2>2, <2>3 DEF EndRound, TypeOK
<1>4. CASE UNCHANGED vars
  BY <1>4 DEF vars, TypeOK
<1> QED
  BY <1>1, <1>2, <1>3, <1>4 DEF Next

-----------------------------------------------------------------------------
(* What a step leaves and adds *)

LEMMA HandleFacts ==
  ASSUME TypeOK, NEW n \in Honest, NEW m \in Message, Handle(n, m)
  PROVE  /\ \A k \in Honest \ {n} : log'[k] = log[k] /\ seen'[k] = seen[k] /\ poisoned'[k] = poisoned[k]
         /\ seen[n] \subseteq seen'[n] /\ poisoned[n] \subseteq poisoned'[n]
         /\ Kept(n, m)'
         /\ \/ log'[n] = log[n] /\ seen'[n] \subseteq seen[n] \cup {m}
            \/ LET echo == Echo(n, m.round, m.from, m.value) IN
               /\ log'[n] = Append(log[n], echo)
               /\ seen'[n] \subseteq seen[n] \cup {m, echo}
               /\ Kept(n, echo)'
         /\ seen'[n] # seen[n] /\ Conflicts(n, m) => m.from \in poisoned'[n]
         /\ \A p \in poisoned'[n] \ poisoned[n] : p = m.from /\ Conflicts(n, m)
<1> DEFINE echo == Echo(n, m.round, m.from, m.value)
<1>0. echo.from = m.from
  BY DEF Echo
<1> HIDE DEF echo
<1>1. ASSUME NEW e, Process(n, m, e)
      PROVE  /\ \A k \in Honest \ {n} : seen'[k] = seen[k] /\ poisoned'[k] = poisoned[k]
             /\ seen[n] \subseteq seen'[n] /\ poisoned[n] \subseteq poisoned'[n]
             /\ Kept(n, m)'
             /\ m.from \in poisoned'[n] \/ e \subseteq seen'[n]
             /\ seen'[n] \subseteq seen[n] \cup {m} \cup e
             /\ seen'[n] # seen[n] /\ Conflicts(n, m) => m.from \in poisoned'[n]
             /\ \A p \in poisoned'[n] \ poisoned[n] : p = m.from /\ Conflicts(n, m)
  <2>1. CASE m.from \in poisoned[n]
    BY <1>1, <2>1 DEF Process, Kept
  <2>2. CASE m.from \notin poisoned[n]
    <3>1. seen' = [seen EXCEPT ![n] = @ \cup {m} \cup e]
      BY <1>1, <2>2 DEF Process
    <3>2. \/ Conflicts(n, m) /\ poisoned' = [poisoned EXCEPT ![n] = @ \cup {m.from}]
          \/ ~Conflicts(n, m) /\ poisoned' = poisoned
      BY <1>1, <2>2 DEF Process
    <3>3. seen'[n] = seen[n] \cup {m} \cup e /\ \A k \in Honest \ {n} : seen'[k] = seen[k]
      BY <3>1 DEF TypeOK
    <3>4. \/ Conflicts(n, m) /\ poisoned'[n] = poisoned[n] \cup {m.from}
          \/ ~Conflicts(n, m) /\ poisoned'[n] = poisoned[n]
      BY <3>2 DEF TypeOK
    <3>5. \A k \in Honest \ {n} : poisoned'[k] = poisoned[k]
      BY <3>2 DEF TypeOK
    <3> QED
      BY <3>3, <3>4, <3>5 DEF Kept
  <2> QED
    BY <2>1, <2>2
<1>2. CASE m.kind = "original" /\ FirstEcho(n, m)
  <2>1. Process(n, m, {echo}) /\ log' = [log EXCEPT ![n] = Append(@, echo)]
    BY <1>2 DEF Handle, echo
  <2>2. log'[n] = Append(log[n], echo) /\ \A k \in Honest \ {n} : log'[k] = log[k]
    BY <2>1 DEF TypeOK
  <2>3. Kept(n, echo)'
    BY <1>0, <1>1, <2>1 DEF Kept
  <2> QED
    BY <1>1, <2>1, <2>2, <2>3 DEF echo
<1>3. CASE ~(m.kind = "original" /\ FirstEcho(n, m))
  <2>1. Process(n, m, {}) /\ log' = log
    BY <1>3 DEF Handle
  <2> QED
    BY <1>1, <2>1
<1> QED
  BY <1>2, <1>3

(* An action handles a message or ends a round.                            *)
Handles(n, m) ==
  \/ /\ m.by \in Honest \ {n} /\ read[n][m.by] < Len(log[m.by])
     /\ m = log[m.by][read[n][m.by] + 1]
     /\ read' = [read EXCEPT ![n][m.by] = @ + 1]
  \/ /\ m.by \in Faulty
     /\ m.from \in Honest => m.value = m.round
     /\ read' = read

LEMMA NextCases ==
  ASSUME TypeOK, LogsSigned, [Next]_vars
  PROVE  \/ \E n \in Honest, m \in Message :
              Handles(n, m) /\ Handle(n, m) /\ UNCHANGED <<round, returned, calm>>
         \/ \E n \in Honest : EndRound(n)
         \/ UNCHANGED vars
<1>1. ASSUME NEW n \in Honest, NEW m \in Honest, Deliver(n, m)
      PROVE  \E x \in Message : Handles(n, x) /\ Handle(n, x) /\ UNCHANGED <<round, returned, calm>>
  <2> DEFINE x == log[m][read[n][m] + 1]
  <2>1. read[n][m] + 1 \in 1 .. Len(log[m])
    BY <1>1 DEF Deliver, TypeOK
  <2>2. x \in Message /\ x.by = m
    BY <2>1 DEF TypeOK, LogsSigned
  <2> QED
    BY <1>1, <2>2 DEF Deliver, Handles
<1>2. ASSUME NEW n \in Honest, NEW m \in FaultySigned, Inject(n, m)
      PROVE  m \in Message /\ Handles(n, m) /\ Handle(n, m) /\ UNCHANGED <<round, returned, calm>>
  BY <1>2 DEF Inject, Handles, FaultySigned
<1> QED
  BY <1>1, <1>2 DEF Next

(* A log grows by what its node signs, and an echo in it was processed.    *)
LEMMA LogStep ==
  ASSUME TypeOK, LogsSigned, [Next]_vars, NEW k \in Honest
  PROVE  \/ log'[k] = log[k]
         \/ \E x \in Message :
              /\ log'[k] = Append(log[k], x)
              /\ x.by = k /\ (x.from \in Honest => x.value = x.round)
              /\ x.kind = "echo" => Kept(k, x)'
<1>1. ASSUME NEW n \in Honest, NEW m \in Message, Handles(n, m), Handle(n, m)
      PROVE  \/ log'[k] = log[k]
             \/ \E x \in Message :
                  /\ log'[k] = Append(log[k], x)
                  /\ x.by = k /\ (x.from \in Honest => x.value = x.round)
                  /\ x.kind = "echo" => Kept(k, x)'
  <2> DEFINE echo == Echo(n, m.round, m.from, m.value)
  <2>1. m.from \in Honest => m.value = m.round
    <3>1. CASE m.by \in Honest \ {n} /\ read[n][m.by] < Len(log[m.by]) /\ m = log[m.by][read[n][m.by] + 1]
      <4>1. read[n][m.by] + 1 \in 1 .. Len(log[m.by])
        BY <3>1, SMTT(30) DEF TypeOK
      <4> QED
        BY <3>1, <4>1 DEF LogsSigned
    <3> QED
      BY <1>1, <3>1 DEF Handles
  <2>2. /\ echo \in Message /\ echo.by = n
        /\ echo.from = m.from /\ echo.value = m.value /\ echo.round = m.round
    BY DEF Echo, Message, Honest
  <2>3. \/ log'[n] = log[n]
        \/ log'[n] = Append(log[n], echo) /\ Kept(n, echo)'
    BY <1>1, HandleFacts
  <2>4. k # n => log'[k] = log[k]
    BY <1>1, HandleFacts
  <2> HIDE DEF echo
  <2> QED
    BY <2>1, <2>2, <2>3, <2>4
<1>2. ASSUME NEW n \in Honest, EndRound(n)
      PROVE  \/ log'[k] = log[k]
             \/ \E x \in Message :
                  /\ log'[k] = Append(log[k], x)
                  /\ x.by = k /\ (x.from \in Honest => x.value = x.round)
                  /\ x.kind = "echo" => Kept(k, x)'
  <2> DEFINE x == Original(round[n] + 1, n, round[n] + 1)
  <2>1. CASE round[n] + 1 \in Upfront + 1 .. Rounds
    <3>1. x \in Message
      BY <2>1, RoundsAssumption DEF Original, Message, Round, Value, Honest
    <3>2. x.by = n /\ x.value = x.round /\ x.kind # "echo"
      BY DEF Original
    <3> HIDE DEF x
    <3>3. log' = [log EXCEPT ![n] = Append(@, x)]
      BY <1>2, <2>1 DEF EndRound, x
    <3>4. log'[n] = Append(log[n], x) /\ (k # n => log'[k] = log[k])
      BY <3>3 DEF TypeOK
    <3> QED
      BY <3>1, <3>2, <3>4
  <2> QED
    BY <1>2, <2>1 DEF EndRound
<1>3. UNCHANGED vars => log'[k] = log[k]
  BY DEF vars
<1> QED
  BY <1>1, <1>2, <1>3, NextCases

(* Nothing is taken back.                                                  *)
LEMMA Growth ==
  ASSUME TypeOK, LogsSigned, [Next]_vars, NEW k \in Honest
  PROVE  /\ Len(log[k]) \in Nat /\ Len(log'[k]) \in Nat /\ Len(log[k]) <= Len(log'[k])
         /\ \A i \in 1 .. Len(log[k]) : log'[k][i] = log[k][i]
         /\ seen[k] \subseteq seen'[k] /\ poisoned[k] \subseteq poisoned'[k]
<1>1. log[k] \in Seq(Message)
  BY DEF TypeOK
<1>2. /\ Len(log[k]) \in Nat /\ Len(log'[k]) \in Nat /\ Len(log[k]) <= Len(log'[k])
      /\ \A i \in 1 .. Len(log[k]) : log'[k][i] = log[k][i]
  BY <1>1, LogStep
<1>3. ASSUME NEW n \in Honest, NEW m \in Message, Handle(n, m)
      PROVE  seen[k] \subseteq seen'[k] /\ poisoned[k] \subseteq poisoned'[k]
  BY <1>3, HandleFacts
<1>4. ASSUME NEW n \in Honest, EndRound(n)
      PROVE  seen[k] \subseteq seen'[k] /\ poisoned[k] \subseteq poisoned'[k]
  BY <1>4 DEF EndRound
<1>5. CASE UNCHANGED vars
  BY <1>2, <1>5 DEF vars
<1> QED
  BY <1>2, <1>3, <1>4, <1>5, NextCases

LEMMA KeptGrows ==
  ASSUME TypeOK, LogsSigned, [Next]_vars, NEW k \in Honest, NEW x
  PROVE  Kept(k, x) => Kept(k, x)'
  BY Growth DEF Kept

LEMMA InLogGrows ==
  ASSUME TypeOK, LogsSigned, [Next]_vars, NEW k \in Honest, NEW x
  PROVE  InLog(k, x) => InLog(k, x)'
<1> SUFFICES ASSUME NEW i \in 1 .. Len(log[k]), log[k][i] = x PROVE InLog(k, x)'
  BY DEF InLog
<1>1. i \in 1 .. Len(log'[k]) /\ log'[k][i] = x
  BY Growth
<1> QED
  BY <1>1 DEF InLog

-----------------------------------------------------------------------------
(* What is signed, processed and caught *)

LEMMA InitSInv == Init => SInv
<1> SUFFICES ASSUME Init PROVE SInv
  OBVIOUS
<1>1. TypeOK
  BY InitType
<1>2. ASSUME NEW n \in Honest, NEW i \in 1 .. Len(log[n])
      PROVE  log[n][i] = Original(i, n, i)
  <2>1. log[n] = [r \in 1 .. Upfront |-> Original(r, n, r)] /\ Upfront \in Nat
    BY RoundsAssumption DEF Init
  <2>2. Len(log[n]) = Upfront
    BY <2>1
  <2> QED
    BY <2>1, <2>2
<1>3. LogsSigned /\ EchoKept
  <2>1. ASSUME NEW n \in Honest, NEW i \in 1 .. Len(log[n])
        PROVE  /\ log[n][i].by = n /\ log[n][i].value = log[n][i].round
               /\ log[n][i].kind = "original"
    <3>1. log[n][i] = Original(i, n, i)
      BY <1>2, <2>1
    <3>2. LET x == Original(i, n, i)
          IN  x.by = n /\ x.value = x.round /\ x.kind = "original"
      BY DEF Original
    <3> QED
      BY <3>1, <3>2
  <2> QED
    BY <2>1 DEF LogsSigned, EchoKept
<1>4. ReadKept
  <2>1. ASSUME NEW n \in Honest, NEW m \in Honest PROVE read[n][m] = 0 /\ Len(log[m]) \in Nat
    <3>1. log[m] \in Seq(Message)
      BY <1>1 DEF TypeOK
    <3>2. read[n][m] = 0
      BY DEF Init
    <3> QED
      BY <3>1, <3>2
  <2> QED
    BY <2>1 DEF ReadKept
<1>5. SeenSigned /\ Caught
  BY DEF Init, SeenSigned, Caught
<1> QED
  BY <1>1, <1>3, <1>4, <1>5 DEF SInv

LEMMA NextLogs ==
  ASSUME SInv, [Next]_vars
  PROVE  LogsSigned' /\ EchoKept'
<1>0. TypeOK /\ LogsSigned /\ EchoKept
  BY DEF SInv
<1>1. ASSUME NEW n \in Honest, NEW i \in 1 .. Len(log'[n]), NEW x, x = log'[n][i]
      PROVE  /\ x.by = n
             /\ x.from \in Honest => x.value = x.round
             /\ x.kind = "echo" => Kept(n, x)'
  <2>1. CASE i \in 1 .. Len(log[n])
    <3>1. x = log[n][i]
      BY <1>0, <1>1, <2>1, Growth
    <3>2. x.kind = "echo" => Kept(n, x)
      BY <1>0, <2>1, <3>1 DEF EchoKept
    <3>3. Kept(n, x) => Kept(n, x)'
      BY <1>0, KeptGrows
    <3> QED
      BY <1>0, <2>1, <3>1, <3>2, <3>3 DEF LogsSigned
  <2>2. CASE i \notin 1 .. Len(log[n])
    <3>1. PICK y \in Message :
            /\ log'[n] = Append(log[n], y)
            /\ y.by = n /\ (y.from \in Honest => y.value = y.round)
            /\ y.kind = "echo" => Kept(n, y)'
      BY <1>0, <2>2, LogStep
    <3>2. x = y
      <4>1. log[n] \in Seq(Message)
        BY <1>0 DEF TypeOK
      <4> QED
        BY <1>1, <2>2, <3>1, <4>1
    <3> QED
      BY <3>1, <3>2
  <2> QED
    BY <2>1, <2>2
<1>2. LogsSigned'
  BY <1>1 DEF LogsSigned
<1>3. EchoKept'
  BY <1>1 DEF EchoKept, Kept
<1> QED
  BY <1>2, <1>3

LEMMA NextRead ==
  ASSUME SInv, [Next]_vars
  PROVE  ReadKept'
<1>0. TypeOK /\ LogsSigned /\ ReadKept
  BY DEF SInv
<1>1. ASSUME NEW n \in Honest, NEW m \in Honest, m # n
      PROVE  /\ read'[n][m] <= Len(log'[m])
             /\ \A i \in 1 .. read'[n][m] : \A x : x = log'[m][i] => Kept(n, x)'
  <2>1. /\ read[n][m] \in Nat /\ read[n][m] <= Len(log[m])
        /\ Len(log[m]) \in Nat /\ Len(log'[m]) \in Nat /\ Len(log[m]) <= Len(log'[m])
        /\ \A i \in 1 .. Len(log[m]) : log'[m][i] = log[m][i]
    BY <1>0, <1>1, Growth DEF TypeOK, ReadKept
  <2>2. ASSUME NEW i \in 1 .. read[n][m], NEW x, x = log'[m][i] PROVE Kept(n, x)'
    <3>1. x = log[m][i]
      BY <2>1, <2>2
    <3>2. Kept(n, x)
      BY <1>0, <1>1, <3>1 DEF ReadKept
    <3> QED
      BY <1>0, <3>2, KeptGrows
  <2>3. CASE read'[n][m] = read[n][m]
    BY <2>1, <2>2, <2>3
  <2>4. ASSUME NEW k \in Honest, NEW x \in Message, Handles(k, x), Handle(k, x),
               read'[n][m] # read[n][m]
        PROVE  /\ read'[n][m] <= Len(log'[m])
               /\ \A i \in 1 .. read'[n][m] : \A y : y = log'[m][i] => Kept(n, y)'
    <3>1. /\ x.by \in Honest \ {k} /\ read[k][x.by] < Len(log[x.by])
          /\ x = log[x.by][read[k][x.by] + 1]
          /\ read' = [read EXCEPT ![k][x.by] = @ + 1]
      BY <2>4 DEF Handles
    <3>2. k = n /\ x.by = m /\ read'[n][m] = read[n][m] + 1
      BY <1>0, <2>4, <3>1 DEF TypeOK
    <3>3. Kept(n, x)'
      BY <2>4, <1>0, <3>2, HandleFacts
    <3>4. read[n][m] + 1 \in 1 .. Len(log[m]) /\ log'[m][read[n][m] + 1] = x
      BY <2>1, <3>1, <3>2
    <3> QED
      BY <2>1, <2>2, <3>2, <3>3, <3>4
  <2>5. (\E k \in Honest : EndRound(k)) \/ UNCHANGED vars => read'[n][m] = read[n][m]
    BY DEF EndRound, vars
  <2> QED
    BY <1>0, <2>3, <2>4, <2>5, NextCases
<1> QED
  BY <1>1 DEF ReadKept, Kept

LEMMA NextSeen ==
  ASSUME SInv, [Next]_vars
  PROVE  SeenSigned'
<1>0. TypeOK /\ LogsSigned /\ SeenSigned
  BY DEF SInv
<1> SUFFICES ASSUME NEW n \in Honest, NEW x \in seen'[n]
             PROVE  /\ x.by \in Honest => InLog(x.by, x)'
                    /\ x.from \in Honest => x.value = x.round
  BY DEF SeenSigned
<1>1. CASE x \in seen[n]
  BY <1>0, <1>1, InLogGrows DEF SeenSigned
<1>2. CASE x \notin seen[n]
  <2>1. ASSUME NEW k \in Honest, NEW m \in Message, Handles(k, m), Handle(k, m)
        PROVE  /\ x.by \in Honest => InLog(x.by, x)'
               /\ x.from \in Honest => x.value = x.round
    <3> DEFINE echo == Echo(k, m.round, m.from, m.value)
    <3>1. echo.by = k /\ echo.from = m.from /\ echo.value = m.value /\ echo.round = m.round
      BY DEF Echo
    <3>2. echo \in Message
      BY DEF Echo, Message, Honest
    <3>3. k = n
      BY <1>0, <1>2, <2>1, HandleFacts
    <3>4. \/ seen'[n] \subseteq seen[n] \cup {m}
          \/ log'[n] = Append(log[n], echo) /\ seen'[n] \subseteq seen[n] \cup {m, echo}
      BY <1>0, <2>1, <3>3, HandleFacts
    <3> HIDE DEF echo
    <3>5. /\ m.by \in Honest => InLog(m.by, m)
          /\ m.from \in Honest => m.value = m.round
      <4>1. CASE m.by \in Honest \ {k} /\ read[k][m.by] < Len(log[m.by]) /\ m = log[m.by][read[k][m.by] + 1]
        <5>1. read[k][m.by] + 1 \in 1 .. Len(log[m.by])
          BY <1>0, <4>1, SMTT(30) DEF TypeOK
        <5> QED
          BY <1>0, <4>1, <5>1 DEF LogsSigned, InLog
      <4>2. CASE m.by \in Faulty /\ (m.from \in Honest => m.value = m.round)
        BY <4>2 DEF Honest
      <4> QED
        BY <2>1, <4>1, <4>2 DEF Handles
    <3>6. CASE x = m
      BY <1>0, <3>5, <3>6, InLogGrows
    <3>7. CASE x = echo /\ log'[n] = Append(log[n], echo)
      <4>1. Len(log[n]) + 1 \in 1 .. Len(log'[n]) /\ log'[n][Len(log[n]) + 1] = echo
        BY <1>0, <3>2, <3>7 DEF TypeOK
      <4>2. InLog(n, x)'
        BY <3>7, <4>1 DEF InLog
      <4> QED
        BY <3>1, <3>3, <3>5, <3>7, <4>2
    <3> QED
      BY <1>2, <3>4, <3>6, <3>7
  <2>2. (\E k \in Honest : EndRound(k)) \/ UNCHANGED vars => seen' = seen
    BY DEF EndRound, vars
  <2> QED
    BY <1>0, <1>2, <2>1, <2>2, NextCases
<1> QED
  BY <1>1, <1>2

LEMMA NextCaught ==
  ASSUME SInv, [Next]_vars
  PROVE  Caught'
<1>0. TypeOK /\ LogsSigned /\ Caught
  BY DEF SInv
<1> SUFFICES ASSUME NEW n \in Honest, NEW x \in seen'[n], NEW y \in seen'[n],
                    SameSlot(x, y), x.value # y.value
             PROVE  x.from \in poisoned'[n]
  BY DEF Caught, SameSlot
<1>1. CASE x \in seen[n] /\ y \in seen[n]
  BY <1>0, <1>1, Growth DEF Caught
<1>2. ASSUME NEW k \in Honest, NEW m \in Message, Handles(k, m), Handle(k, m),
             ~(x \in seen[n] /\ y \in seen[n])
      PROVE  x.from \in poisoned'[n]
  <2> DEFINE echo == Echo(k, m.round, m.from, m.value)
  <2>1. echo.from = m.from /\ echo.value = m.value /\ echo.round = m.round
    BY DEF Echo
  <2>2. k = n
    BY <1>0, <1>2, HandleFacts
  <2>3. seen'[n] \subseteq seen[n] \cup {m, echo}
    BY <1>0, <1>2, <2>2, HandleFacts
  <2>4. Conflicts(n, m) => m.from \in poisoned'[n]
    BY <1>0, <1>2, <2>2, HandleFacts
  <2> HIDE DEF echo
  <2> QED
    BY <1>2, <2>1, <2>3, <2>4 DEF SameSlot, Conflicts
<1>3. (\E k \in Honest : EndRound(k)) \/ UNCHANGED vars => seen' = seen
  BY DEF EndRound, vars
<1> QED
  BY <1>0, <1>1, <1>2, <1>3, NextCases

LEMMA NextSInv == SInv /\ [Next]_vars => SInv'
  BY NextType, NextLogs, NextRead, NextSeen, NextCaught DEF SInv

LEMMA NextPoisoned ==
  ASSUME SInv, [Next]_vars, HonestNeverPoisoned
  PROVE  HonestNeverPoisoned'
<1>0. TypeOK /\ LogsSigned /\ SeenSigned
  BY DEF SInv
<1> SUFFICES ASSUME NEW n \in Honest, NEW p \in poisoned'[n] PROVE p \in Faulty
  BY DEF HonestNeverPoisoned
<1>1. CASE p \in poisoned[n]
  BY <1>1 DEF HonestNeverPoisoned
<1>2. ASSUME NEW k \in Honest, NEW m \in Message, Handles(k, m), Handle(k, m), p \notin poisoned[n]
      PROVE  p \in Faulty
  <2>1. k = n /\ p = m.from /\ Conflicts(n, m)
    BY <1>0, <1>2, HandleFacts
  <2>2. m.from \in Honest => m.value = m.round
    <3>1. CASE m.by \in Honest \ {k} /\ read[k][m.by] < Len(log[m.by]) /\ m = log[m.by][read[k][m.by] + 1]
      <4>1. read[k][m.by] + 1 \in 1 .. Len(log[m.by])
        BY <1>0, <3>1, SMTT(30) DEF TypeOK
      <4> QED
        BY <1>0, <3>1, <4>1 DEF LogsSigned
    <3> QED
      BY <1>2, <3>1 DEF Handles
  <2>3. m.from \notin Honest
    BY <1>0, <2>1, <2>2 DEF Conflicts, SeenSigned
  <2> QED
    BY <2>1, <2>3 DEF Honest, Message
<1>3. (\E k \in Honest : EndRound(k)) \/ UNCHANGED vars => poisoned' = poisoned
  BY DEF EndRound, vars
<1> QED
  BY <1>0, <1>1, <1>2, <1>3, NextCases

-----------------------------------------------------------------------------
(* What is returned *)

(* T - 1 echoes of a faulty sender's value hold one of an honest node.     *)
LEMMA HonestEchoer ==
  ASSUME NEW n \in Honest, NEW r, NEW s \in Faulty, NEW v, Accepts(n, r, s, v)
  PROVE  \E e \in Honest : Echo(e, r, s, v) \in seen[n]
<1> SUFFICES ASSUME \A e \in Honest : Echo(e, r, s, v) \notin seen[n] PROVE FALSE
  OBVIOUS
<1>1. Echoers(n, r, s, v) \subseteq Faulty \ {s}
  BY DEF Echoers, Honest
<1>2. IsFiniteSet(Faulty)
  BY NodeAssumption, FS_Subset
<1>3. IsFiniteSet(Faulty \ {s}) /\ Cardinality(Faulty \ {s}) = Cardinality(Faulty) - 1
  BY <1>2, FS_RemoveElement
<1>4. Cardinality(Echoers(n, r, s, v)) <= Cardinality(Faulty \ {s})
  BY <1>1, <1>3, FS_Subset
<1>5. Cardinality(Echoers(n, r, s, v)) \in Nat /\ Cardinality(Faulty) \in Nat
  BY <1>1, <1>2, <1>3, FS_Subset, FS_CardinalityType
<1>6. Cardinality(Echoers(n, r, s, v)) >= T - 1
  BY DEF Accepts, EchoQuorum
<1> QED
  BY <1>3, <1>4, <1>5, <1>6, ThresholdAssumption

(* What an honest node has echoed has reached everyone in a settled state. *)
LEMMA SettledKept ==
  ASSUME SInv, Settled, NEW n \in Honest, NEW e \in Honest, NEW x, InLog(e, x), x.kind = "echo"
  PROVE  Kept(n, x)
<1>1. PICK i \in 1 .. Len(log[e]) : log[e][i] = x
  BY DEF InLog
<1>2. CASE n = e
  BY <1>1, <1>2 DEF SInv, EchoKept
<1>3. CASE n # e
  BY <1>1, <1>3 DEF SInv, Settled, ReadKept
<1> QED
  BY <1>2, <1>3

LEMMA SettledKnows ==
  ASSUME SInv, Settled, NEW n \in Honest, NEW m \in Honest, NEW r, NEW s \in Faulty, NEW v,
         Accepts(n, r, s, v)
  PROVE  Knows(m, r, s, v)
<1>1. PICK e \in Honest : Echo(e, r, s, v) \in seen[n]
  BY HonestEchoer
<1> DEFINE x == Echo(e, r, s, v)
<1>2. x.by = e /\ x.kind = "echo" /\ x.from = s /\ x.round = r /\ x.value = v
  BY DEF Echo
<1> HIDE DEF x
<1>3. InLog(e, x)
  BY <1>1, <1>2 DEF SInv, SeenSigned, x
<1>4. Kept(m, x)
  BY <1>2, <1>3, SettledKept
<1> QED
  BY <1>2, <1>4 DEF Kept, Knows

(* A node that knows one value of a slot accepts no other.                 *)
LEMMA KnownAgrees ==
  ASSUME SInv, NEW m \in Honest, NEW r, NEW s, NEW v, NEW w, Knows(m, r, s, v), Accepts(m, r, s, w)
  PROVE  v = w
<1>1. PICK x \in seen[m] : x.from = s /\ x.round = r /\ x.value = v
  BY DEF Accepts, Knows
<1>2. PICK y \in seen[m] : y.from = s /\ y.round = r /\ y.value = w
  BY DEF Accepts
<1> QED
  BY <1>1, <1>2 DEF SInv, Caught, SameSlot, Accepts

LEMMA ReturnStep ==
  ASSUME TypeOK, NEW n \in Honest, EndRound(n)
  PROVE  /\ round[n] \in Round
         /\ \A s \in Node : Accepts(n, round[n], s, returned'[n][round[n]][s])
         /\ \A k \in Honest, r \in Round, s \in Node :
              k # n \/ r # round[n] => returned'[k][r][s] = returned[k][r][s]
         /\ \A k \in Honest \ {n} : calm'[k] = calm[k] /\ round'[k] = round[k]
         /\ calm'[n] = calm[n] \/ (Settled /\ calm'[n] = calm[n] \cup {round[n]})
         /\ round'[n] = round[n] + 1
<1> DEFINE set == [s \in Node |-> CHOOSE v \in Value : Accepts(n, round[n], s, v)]
<1>0. round[n] \in Round
  BY DEF EndRound
<1>1. \A s \in Node : Accepts(n, round[n], s, set[s])
  BY DEF EndRound
<1> HIDE DEF set
<1>2. returned' = [returned EXCEPT ![n][round[n]] = set]
  BY DEF EndRound, set
<1>3. returned'[n][round[n]] = set
  BY <1>0, <1>2 DEF TypeOK
<1>4. \A k \in Honest, r \in Round, s \in Node :
        k # n \/ r # round[n] => returned'[k][r][s] = returned[k][r][s]
  BY <1>0, <1>2 DEF TypeOK
<1>5. \/ Settled /\ calm' = [calm EXCEPT ![n] = @ \cup {round[n]}]
      \/ calm' = calm
  <2>1. calm' = [calm EXCEPT ![n] = IF Settled THEN @ \cup {round[n]} ELSE @]
    BY DEF EndRound
  <2> QED
    BY <2>1 DEF TypeOK
<1>6. \A k \in Honest \ {n} : calm'[k] = calm[k]
  BY <1>5 DEF TypeOK
<1>7. calm'[n] = calm[n] \/ (Settled /\ calm'[n] = calm[n] \cup {round[n]})
  BY <1>5 DEF TypeOK
<1>8. round'[n] = round[n] + 1 /\ \A k \in Honest \ {n} : round'[k] = round[k]
  BY DEF EndRound, TypeOK
<1> QED
  BY <1>0, <1>1, <1>3, <1>4, <1>6, <1>7, <1>8

LEMMA OtherSteps ==
  ASSUME SInv, [Next]_vars, \A n \in Honest : ~EndRound(n)
  PROVE  UNCHANGED <<round, returned, calm>>
BY NextCases DEF SInv, vars

LEMMA NextReturned ==
  ASSUME SInv, [Next]_vars, ReturnedSigned, ReturnedEchoed
  PROVE  ReturnedSigned' /\ ReturnedEchoed'
<1>0. TypeOK /\ LogsSigned /\ SeenSigned
  BY DEF SInv
<1>1. ASSUME NEW n \in Honest, NEW s \in Node, NEW r, NEW v, Accepts(n, r, s, v)
      PROVE  /\ s \in Honest => v = r
             /\ s \in Faulty => \E e \in Honest : InLog(e, Echo(e, r, s, v))
  <2>1. ASSUME s \in Honest PROVE v = r
    BY <1>0, <1>1, <2>1 DEF Accepts, SeenSigned
  <2>2. ASSUME s \in Faulty PROVE \E e \in Honest : InLog(e, Echo(e, r, s, v))
    <3>1. PICK e \in Honest : Echo(e, r, s, v) \in seen[n]
      BY <1>1, <2>2, HonestEchoer
    <3>2. Echo(e, r, s, v).by = e
      BY DEF Echo
    <3> QED
      BY <1>0, <3>1, <3>2 DEF SeenSigned
  <2> QED
    BY <2>1, <2>2
<1>2. ASSUME NEW n \in Honest, NEW s \in Node, NEW r \in Round, NEW v, v = returned'[n][r][s], v # None
      PROVE  /\ s \in Honest => v = r
             /\ s \in Faulty => \E e \in Honest : InLog(e, Echo(e, r, s, v))
  <2>1. CASE returned'[n][r][s] = returned[n][r][s]
    <3>1. s \in Honest => v = r
      BY <1>2, <2>1 DEF ReturnedSigned
    <3>2. s \in Faulty => \E e \in Honest : InLog(e, Echo(e, r, s, v))
      BY <1>2, <2>1 DEF ReturnedEchoed
    <3> QED
      BY <3>1, <3>2
  <2>2. ASSUME NEW k \in Honest, EndRound(k), returned'[n][r][s] # returned[n][r][s]
        PROVE  Accepts(n, r, s, v)
    <3>1. k = n /\ r = round[n]
      BY <1>0, <2>2, ReturnStep
    <3> QED
      BY <1>0, <1>2, <2>2, <3>1, ReturnStep
  <2>3. (\A k \in Honest : ~EndRound(k)) => returned' = returned
    BY OtherSteps
  <2> QED
    BY <1>1, <2>1, <2>2, <2>3
<1>3. ReturnedSigned'
  <2>1. \A n \in Honest : n \in Node
    BY DEF Honest
  <2> QED
    BY <1>2, <2>1 DEF ReturnedSigned
<1>4. ReturnedEchoed'
  <2> SUFFICES ASSUME NEW n \in Honest, NEW s \in Faulty, NEW r \in Round, NEW v,
                      v = returned'[n][r][s], v # None
               PROVE  \E e \in Honest : InLog(e, Echo(e, r, s, v))'
    BY DEF ReturnedEchoed, InLog
  <2>1. PICK e \in Honest : InLog(e, Echo(e, r, s, v))
    BY <1>2, NodeAssumption
  <2> DEFINE x == Echo(e, r, s, v)
  <2>2. InLog(e, x)'
    <3> HIDE DEF x
    <3> QED
      BY <1>0, <2>1, InLogGrows DEF x
  <2> QED
    BY <2>2
<1> QED
  BY <1>3, <1>4

-----------------------------------------------------------------------------
(* Agreement *)

LEMMA KnowsGrows ==
  ASSUME SInv, [Next]_vars, NEW m \in Honest, NEW r, NEW s, NEW v, Knows(m, r, s, v)
  PROVE  Knows(m, r, s, v)'
BY Growth DEF Knows, SInv

(* A round that ends calm: what a step adds to calm.                       *)
LEMMA CalmStep ==
  ASSUME SInv, [Next]_vars, CalmPast, NEW n \in Honest, NEW r \in calm'[n]
  PROVE  /\ r \in Round
         /\ \/ r \in calm[n] /\ \A s \in Node : returned'[n][r][s] = returned[n][r][s]
            \/ EndRound(n) /\ Settled /\ r = round[n]
<1>0. TypeOK
  BY DEF SInv
<1>1. ASSUME NEW k \in Honest, EndRound(k)
      PROVE  /\ r \in Round
             /\ \/ r \in calm[n] /\ \A s \in Node : returned'[n][r][s] = returned[n][r][s]
                \/ EndRound(n) /\ Settled /\ r = round[n]
  <2>1. CASE r \in calm[n]
    <3>1. r \in Round /\ r < round[n] /\ round[n] \in Nat
      BY <1>0, <2>1, RoundsAssumption DEF TypeOK, CalmPast, Round
    <3>2. k # n \/ r # round[k]
      BY <3>1
    <3> QED
      BY <1>0, <1>1, <2>1, <3>1, <3>2, ReturnStep
  <2>2. CASE r \notin calm[n]
    <3>1. k = n
      BY <1>0, <1>1, <2>2, ReturnStep
    <3> QED
      BY <1>0, <1>1, <2>2, <3>1, ReturnStep
  <2> QED
    BY <2>1, <2>2
<1>2. CASE \A k \in Honest : ~EndRound(k)
  BY <1>0, <1>2, OtherSteps DEF TypeOK
<1> QED
  BY <1>1, <1>2

LEMMA NextCalm ==
  ASSUME SInv, [Next]_vars, CalmPast, CalmKnown
  PROVE  CalmPast' /\ CalmKnown'
<1>0. TypeOK
  BY DEF SInv
<1>1. CalmPast'
  <2> SUFFICES ASSUME NEW n \in Honest, NEW r \in calm'[n] PROVE r < round'[n]
    BY DEF CalmPast
  <2>1. round[n] \in Int /\ (round'[n] = round[n] \/ round'[n] = round[n] + 1)
    BY <1>0, ReturnStep, OtherSteps DEF TypeOK
  <2>2. CASE r \in calm[n]
    BY <1>0, <2>1, <2>2 DEF CalmPast, TypeOK, Round
  <2>3. CASE EndRound(n) /\ r = round[n]
    BY <1>0, <2>1, <2>3, ReturnStep
  <2> QED
    BY <2>2, <2>3, CalmStep
<1>2. ASSUME NEW n \in Honest, NEW m \in Honest, NEW s \in Faulty, NEW r \in calm'[n], NEW v,
             v = returned'[n][r][s], v # None
      PROVE  Knows(m, r, s, v)'
  <2>1. CASE r \in calm[n] /\ returned'[n][r][s] = returned[n][r][s]
    BY <1>2, <2>1, KnowsGrows DEF CalmKnown
  <2>2. CASE EndRound(n) /\ Settled /\ r = round[n]
    <3>1. Accepts(n, r, s, v)
      BY <1>0, <1>2, <2>2, NodeAssumption, ReturnStep
    <3>2. Knows(m, r, s, v)
      BY <2>2, <3>1, SettledKnows
    <3> QED
      BY <3>2, KnowsGrows
  <2> QED
    BY <2>1, <2>2, CalmStep, NodeAssumption
<1>3. CalmKnown'
  BY <1>2 DEF CalmKnown, Knows
<1> QED
  BY <1>1, <1>3

LEMMA NextAgree ==
  ASSUME SInv, SInv', [Next]_vars, CalmPast, CalmKnown, ReturnedEchoed, CalmRoundsAgree, ReturnedSigned'
  PROVE  CalmRoundsAgree'
<1>0. TypeOK
  BY DEF SInv
<1> SUFFICES ASSUME NEW n \in Honest, NEW m \in Honest, NEW s \in Node, NEW r \in calm'[n],
                    NEW v, v = returned'[n][r][s], v # None,
                    NEW w, w = returned'[m][r][s], w # None
             PROVE  v = w
  BY DEF CalmRoundsAgree, Differ
<1>1. r \in Round
  BY CalmStep
<1>2. CASE s \in Honest
  BY <1>1, <1>2 DEF ReturnedSigned
<1>3. CASE s \notin Honest /\ n # m
  <2>0. s \in Faulty
    BY <1>3 DEF Honest
  <2>1. CASE EndRound(n) /\ Settled /\ r = round[n]
    <3>1. Accepts(n, r, s, v)
      BY <1>0, <2>1, ReturnStep
    <3>2. w = returned[m][r][s]
      BY <1>0, <1>1, <1>3, <2>1, ReturnStep
    <3>3. PICK e \in Honest : InLog(e, Echo(e, r, s, w))
      BY <1>1, <2>0, <3>2 DEF ReturnedEchoed
    <3> DEFINE x == Echo(e, r, s, w)
    <3>4. x.kind = "echo" /\ x.from = s /\ x.round = r /\ x.value = w
      BY DEF Echo
    <3> HIDE DEF x
    <3>5. InLog(e, x)
      BY <3>3 DEF x
    <3>6. Kept(n, x)
      BY <2>1, <3>4, <3>5, SettledKept
    <3>7. Knows(n, r, s, w)
      BY <3>4, <3>6 DEF Kept, Knows
    <3> QED
      BY <3>1, <3>7, KnownAgrees
  <2>2. CASE r \in calm[n] /\ v = returned[n][r][s]
    <3>1. CASE w = returned[m][r][s]
      BY <2>2, <3>1 DEF CalmRoundsAgree, Differ
    <3>2. CASE EndRound(m) /\ r = round[m]
      <4>1. Accepts(m, r, s, w)
        BY <1>0, <3>2, ReturnStep
      <4>2. Knows(m, r, s, v)
        BY <2>0, <2>2 DEF CalmKnown
      <4> QED
        BY <4>1, <4>2, KnownAgrees
    <3>3. w = returned[m][r][s] \/ (EndRound(m) /\ r = round[m])
      <4>1. ASSUME NEW k \in Honest, EndRound(k), ~(EndRound(m) /\ r = round[m])
            PROVE  w = returned[m][r][s]
        <5>1. k # m \/ r # round[k]
          BY <4>1
        <5> QED
          BY <1>0, <1>1, <4>1, <5>1, ReturnStep
      <4> QED
        BY <4>1, OtherSteps
    <3> QED
      BY <3>1, <3>2, <3>3
  <2> QED
    BY <2>1, <2>2, CalmStep
<1> QED
  BY <1>2, <1>3

LEMMA InitInv == Init => IInv
<1> SUFFICES ASSUME Init PROVE IInv
  OBVIOUS
<1>1. \A n \in Honest : poisoned[n] = {} /\ calm[n] = {}
  BY DEF Init
<1>2. \A n \in Honest, r \in Round, s \in Node : returned[n][r][s] = None
  BY DEF Init
<1>3. ReturnedSigned /\ ReturnedEchoed
  BY <1>2, NodeAssumption DEF ReturnedSigned, ReturnedEchoed, Honest
<1> QED
  BY <1>1, <1>3, InitSInv DEF IInv, HonestNeverPoisoned, CalmKnown, CalmPast, CalmRoundsAgree

LEMMA NextInv == IInv /\ [Next]_vars => IInv'
<1> SUFFICES ASSUME IInv, [Next]_vars PROVE IInv'
  OBVIOUS
<1>1. SInv' /\ HonestNeverPoisoned'
  BY NextSInv, NextPoisoned DEF IInv
<1>2. ReturnedSigned' /\ ReturnedEchoed'
  BY NextReturned DEF IInv
<1>3. CalmPast' /\ CalmKnown'
  BY NextCalm DEF IInv
<1>4. CalmRoundsAgree'
  BY <1>1, <1>2, NextAgree DEF IInv
<1> QED
  BY <1>1, <1>2, <1>3, <1>4 DEF IInv

LEMMA Invariance == Spec => []IInv
<1> QED
  BY InitInv, NextInv, PTL DEF Spec

-----------------------------------------------------------------------------
(* Theorems *)

(* The variables of the mesh, the acceptor and the driver keep their types,*)
(* whatever faulty nodes sign: handle and Acceptor::process only ever keep *)
(* verified messages of the session.                                       *)
THEOREM TypeCorrect == Spec => []TypeOK
<1>1. IInv => TypeOK
  BY DEF IInv, SInv
<1> QED
  BY <1>1, Invariance, PTL

(* insert_candidate never records evidence against an honest sender: in    *)
(* whatever order originals and echoes come, and whoever passes them on,   *)
(* it holds at most one value of each of its slots.                        *)
THEOREM NoFalseEvidence == Spec => []HonestNeverPoisoned
<1>1. IInv => HonestNeverPoisoned
  BY DEF IInv
<1> QED
  BY <1>1, Invariance, PTL

(* A round that a node ends (accepted_broadcasts_over returns) with nothing*)
(* under way between honest nodes binds every other honest node, for good: *)
(* none ever returns another value of any sender for that round.           *)
THEOREM CalmAgreement == Spec => []CalmRoundsAgree
<1>1. IInv => CalmRoundsAgree
  BY DEF IInv
<1> QED
  BY <1>1, Invariance, PTL

(* The safety half of SplitsAreExposed, and more: once the peers have been *)
(* read to the end, a sender of whom two honest nodes returned different   *)
(* values is caught at every honest node.                                  *)
SettledSplitsShow ==
  Settled => \A n, m \in Honest, r \in Round, s \in Node :
               Differ(n, m, r, s) => \A k \in Honest : s \in poisoned[k]

LEMMA SettledCaught ==
  ASSUME IInv, Settled, NEW k \in Honest, NEW n \in Honest, NEW m \in Honest,
         NEW r \in Round, NEW s \in Node, Differ(n, m, r, s)
  PROVE  s \in poisoned[k]
<1>0. s \in Faulty
  BY DEF IInv, ReturnedSigned, Differ, Honest
<1>1. ASSUME NEW l \in Honest, returned[l][r][s] # None
      PROVE  s \in poisoned[k] \/ \E x \in seen[k] :
               x.from = s /\ x.round = r /\ x.value = returned[l][r][s]
  <2>1. PICK e \in Honest : InLog(e, Echo(e, r, s, returned[l][r][s]))
    BY <1>0, <1>1 DEF IInv, ReturnedEchoed
  <2> DEFINE x == Echo(e, r, s, returned[l][r][s])
  <2>2. x.kind = "echo" /\ x.from = s /\ x.round = r /\ x.value = returned[l][r][s]
    BY DEF Echo
  <2> HIDE DEF x
  <2>3. InLog(e, x)
    BY <2>1 DEF x
  <2>4. Kept(k, x)
    BY <2>2, <2>3, SettledKept DEF IInv
  <2> QED
    BY <2>2, <2>4 DEF Kept
<1> QED
  BY <1>1 DEF IInv, SInv, Caught, SameSlot, Differ

(* A split needs no luck to come out: the echoes that handle sends of every*)
(* original carry the evidence to every honest node, split or not.         *)
THEOREM SplitsShow == Spec => []SettledSplitsShow
<1>1. IInv => SettledSplitsShow
  BY SettledCaught DEF SettledSplitsShow
<1> QED
  BY <1>1, Invariance, PTL
=============================================================================
