----------------------------- MODULE Pool_proofs -----------------------------
(***************************************************************************)
(* Proofs about Pool, for every committee, every target, TTL and threshold *)
(* and both kinds of driver.                                               *)
(*                                                                         *)
(* IInv is for any faults: ids are live, gone or spent and below next_id,  *)
(* so a production is always of a new id (IdsBelow, OnePlace), and who     *)
(* produces has room for the record (RoomLeft).  AInv is for a committee   *)
(* without kills, failures and expiry, where late shares are still         *)
(* allowed: every pool holds exactly the ids between the next message and  *)
(* the next production.                                                    *)
(***************************************************************************)
EXTENDS Pool, FiniteSetTheorems, TLAPS

(* A non-empty set of natural numbers has a least element.                 *)
LEMMA LeastExists ==
  ASSUME NEW S \in SUBSET Nat, S # {}
  PROVE  \E x \in S : \A y \in S : x <= y
<1>1. PICK x \in S : \A y \in S : <<y, x>> \notin OpToRel(<, Nat)
  BY NatLessThanWellFounded, WFMin
<1>2. \A y \in S : ~(y < x)
  BY <1>1 DEF OpToRel
<1> QED
  BY <1>2

(* ... and, if it is bounded, a greatest one.                              *)
LEMMA GreatestExists ==
  ASSUME NEW k \in Nat, NEW S \in SUBSET (0 .. k), S # {}
  PROVE  \E x \in S : \A y \in S : x >= y
<1> DEFINE D == {k - x : x \in S}
<1>0. \A x \in S : k - x \in Nat
  OBVIOUS
<1>1. D \in SUBSET Nat /\ D # {}
  <2>1. \A d \in D : d \in Nat
    BY <1>0
  <2> QED
    BY <2>1
<1>2. PICK d \in D : \A e \in D : d <= e
  BY <1>1, LeastExists
<1>3. PICK x \in S : d = k - x
  OBVIOUS
<1>4. \A y \in S : k - x <= k - y
  BY <1>2, <1>3
<1> QED
  BY <1>4

-----------------------------------------------------------------------------
(* The invariant *)

LoopHolds ==
  \A n \in Node : loop[n] \in {"picked", "signing"} => msg[n] \in Msg /\ pick[n] \in Id

IdsBelow ==
  \A n \in Node :
    /\ \A id \in Known(n) : id < next[n]
    /\ mgr[n] \in Producing => Current(n) \in Id /\ \A id \in Known(n) : id < Current(n)

OnePlace ==
  \A n \in Node : live[n] \cap gone[n] = {} /\ (live[n] \cup gone[n]) \cap Spent(n) = {}

RoomLeft ==
  \A n \in Node :
    /\ Cardinality(live[n]) <= Target
    /\ mgr[n] \in Producing => Cardinality(live[n]) < Target

IInv == TypeOK /\ LoopHolds /\ IdsBelow /\ OnePlace /\ RoomLeft

-----------------------------------------------------------------------------
LEMMA InitInv == Init => IInv
<1> SUFFICES ASSUME Init PROVE IInv
  OBVIOUS
<1> USE ConfigAssumption
<1>1. TypeOK
  BY DEF Init, TypeOK, Id, Msg
<1>2. \A n \in Node : Known(n) = {}
  BY DEF Init, Known, Spent
<1>3. LoopHolds /\ IdsBelow
  BY <1>2 DEF Init, LoopHolds, IdsBelow, Producing
<1>4. OnePlace
  BY DEF Init, OnePlace, Spent
<1>5. RoomLeft
  BY FS_EmptySet DEF Init, RoomLeft, Producing
<1> QED
  BY <1>1, <1>3, <1>4, <1>5 DEF IInv

-----------------------------------------------------------------------------
(* Types *)

LEMMA ResumeType ==
  ASSUME TypeOK, NEW n \in Node
  PROVE  /\ MaxSeenId(n) \in 0 .. MaxId
         /\ \A id \in Known(n) : id <= MaxSeenId(n)
<1> DEFINE S == {0} \cup Known(n)
<1>1. S \in SUBSET (0 .. MaxId) /\ S # {}
  BY ConfigAssumption DEF TypeOK, Known, Spent, Id
<1>2. \E x \in S : \A y \in S : x >= y
  BY <1>1, GreatestExists, ConfigAssumption
<1>3. MaxSeenId(n) \in S /\ \A y \in S : MaxSeenId(n) >= y
  BY <1>2 DEF MaxSeenId, Max
<1> QED
  BY <1>1, <1>3

LEMMA OldestType ==
  ASSUME TypeOK, NEW n \in Node, live[n] # {}
  PROVE  OldestLiveId(n) \in live[n] /\ \A id \in live[n] : OldestLiveId(n) <= id
<1>1. live[n] \in SUBSET Nat
  BY ConfigAssumption DEF TypeOK, Id
<1>2. \E x \in live[n] : \A y \in live[n] : x <= y
  BY <1>1, LeastExists
<1> QED
  BY <1>2 DEF OldestLiveId, Min

LEMMA NextType == IInv /\ [Next]_vars => TypeOK'
<1> SUFFICES ASSUME IInv, [Next]_vars PROVE TypeOK'
  OBVIOUS
<1> USE ConfigAssumption DEF IInv
<1>1. ASSUME NEW n \in Node, Tick(n) PROVE TypeOK'
  BY <1>1 DEF Tick, TypeOK, clockVars, store, signing, Producing
<1>2. ASSUME NEW n \in Node, NEW id \in Id, Expire(n, id) PROVE TypeOK'
  BY <1>2 DEF Expire, Erased, TypeOK, clockVars, signing
<1>3. ASSUME NEW n \in Node, Refill(n) PROVE TypeOK'
  <2>1. next[n] + 1 \in 1 .. MaxId + 1
    BY <1>3 DEF Refill, Id
  <2> QED
    BY <1>3, <2>1 DEF Refill, TypeOK, clockVars, store, signing, Producing
<1>4. ASSUME NEW n \in Node, Rest(n) PROVE TypeOK'
  BY <1>4 DEF Rest, TypeOK, clockVars, store, signing
<1>5. ASSUME NEW n \in Node, Begin(n) PROVE TypeOK'
  BY <1>5 DEF Begin, TypeOK, clockVars, store, signing, Producing
<1>6. ASSUME NEW n \in Node, Finish(n) PROVE TypeOK'
  BY <1>6 DEF Finish, TypeOK, clockVars, store, signing, Producing
<1>7. ASSUME NEW n \in Node, Insert(n) PROVE TypeOK'
  <2>1. Current(n) \in Id
    BY <1>7 DEF Insert, IdsBelow, Producing
  <2> QED
    BY <1>7, <2>1 DEF Insert, TypeOK, clockVars, signing
<1>8. ASSUME NEW n \in Node, Fail(n) PROVE TypeOK'
  <2>1. Current(n) \in Id
    BY <1>8 DEF Fail, IdsBelow
  <2>2. mgr' \in [Node -> {"idle", "expire", "dead"} \cup Producing]
    BY <1>8 DEF Fail, TypeOK
  <2>3. gone' \in [Node -> SUBSET Id]
    <3>1. gone[n] \cup ({Current(n)} \ Known(n)) \in SUBSET Id
      BY <2>1 DEF TypeOK
    <3>2. \/ gone' = [gone EXCEPT ![n] = @ \cup ({Current(n)} \ Known(n))]
          \/ gone' = gone
      BY <1>8 DEF Fail
    <3> QED
      BY <3>1, <3>2 DEF TypeOK
  <2> QED
    BY <1>8, <2>2, <2>3 DEF Fail, TypeOK, clockVars, signing
<1>9. ASSUME NEW n \in Node, Pick(n) PROVE TypeOK'
  <2>1. OldestLiveId(n) \in live[n]
    BY <1>9, OldestType DEF Pick
  <2>2. OldestLiveId(n) \in 0 .. MaxId
    BY <2>1 DEF TypeOK, Id
  <2> QED
    BY <1>9, <2>2 DEF Pick, TypeOK, clockVars, store, manager
<1>10. ASSUME NEW n \in Node, Consume(n) PROVE TypeOK'
  <2>1. pick[n] \in Id /\ msg[n] \in Msg
    BY <1>10 DEF Consume, LoopHolds
  <2> QED
    BY <1>10, <2>1 DEF Consume, Taken, TypeOK, clockVars, manager, Msg
<1>11. ASSUME NEW n \in Node, NEW delivered \in BOOLEAN,
              msg[n] \in Msg, Answer(n, delivered)
       PROVE  /\ msg' \in [Node -> 1 .. MaxMsg + 1]
              /\ loop' \in [Node -> {"wait", "picked", "signing", "stopped"}]
              /\ pick' \in [Node -> 0 .. MaxId]
  BY <1>11 DEF Answer, TypeOK, Msg
<1>12. ASSUME NEW n \in Node, ConsumeFails(n) PROVE TypeOK'
  BY <1>11, <1>12 DEF ConsumeFails, LoopHolds, TypeOK, clockVars, store, manager
<1>13. ASSUME NEW n \in Node, Combine(n) PROVE TypeOK'
  <2>1. PICK shares \in SUBSET Signers(pick[n]) :
          LET valid == {m \in shares : signed[m][pick[n]] = msg[n]} IN
          /\ Answer(n, Cardinality(valid) >= T)
          /\ blamed' = IF Cardinality(valid) >= T THEN blamed \cup (shares \ valid) ELSE blamed
    BY <1>13 DEF Combine
  <2> DEFINE valid == {m \in shares : signed[m][pick[n]] = msg[n]}
             delivered == Cardinality(valid) >= T
  <2>2. blamed' \subseteq Node
    BY <2>1 DEF Signers, TypeOK
  <2>3. Answer(n, delivered) /\ delivered \in BOOLEAN
    BY <2>1
  <2>4. msg[n] \in Msg
    BY <1>13 DEF Combine, LoopHolds
  <2> HIDE DEF delivered
  <2>5. /\ msg' \in [Node -> 1 .. MaxMsg + 1]
        /\ loop' \in [Node -> {"wait", "picked", "signing", "stopped"}]
        /\ pick' \in [Node -> 0 .. MaxId]
    BY <1>11, <2>3, <2>4
  <2> QED
    BY <1>13, <2>2, <2>5 DEF Combine, TypeOK, clockVars, store, manager
<1>14. ASSUME NEW n \in Node, Kill(n) PROVE TypeOK'
  <2>1. ResumeId(n) \in 1 .. MaxId + 1
    BY ResumeType DEF ResumeId
  <2> QED
    BY <1>14, <2>1 DEF Kill, TypeOK, store
<1>15. CASE Clock
  BY <1>15 DEF Clock, TypeOK, store, manager, signing
<1>16. CASE UNCHANGED vars
  BY <1>16 DEF vars, TypeOK
<1> QED
  BY <1>1, <1>2, <1>3, <1>4, <1>5, <1>6, <1>7, <1>8, <1>9, <1>10, <1>12, <1>13, <1>14,
     <1>15, <1>16 DEF Next, ManagerStep, LoopStep

-----------------------------------------------------------------------------
(* The signing loop works on a message and a record *)

LEMMA NextLoop == IInv /\ [Next]_vars => LoopHolds'
<1> SUFFICES ASSUME IInv, [Next]_vars PROVE LoopHolds'
  OBVIOUS
<1> USE DEF IInv
<1>1. CASE UNCHANGED signing
  BY <1>1 DEF LoopHolds, signing
<1>2. ASSUME NEW n \in Node, Pick(n) PROVE LoopHolds'
  <2>1. pick'[n] \in Id
    <3>1. OldestLiveId(n) \in live[n]
      BY <1>2, OldestType DEF Pick
    <3> QED
      BY <1>2, <3>1 DEF Pick, TypeOK
  <2> QED
    BY <1>2, <2>1 DEF Pick, LoopHolds, TypeOK
<1>3. ASSUME NEW n \in Node, Consume(n) PROVE LoopHolds'
  BY <1>3 DEF Consume, LoopHolds, TypeOK
<1>4. ASSUME NEW n \in Node, NEW delivered, Answer(n, delivered) PROVE LoopHolds'
  BY <1>4 DEF Answer, LoopHolds, TypeOK
<1>5. ASSUME NEW n \in Node, Kill(n) PROVE LoopHolds'
  BY <1>5 DEF Kill, LoopHolds, TypeOK
<1>6. ASSUME NEW n \in Node, ManagerStep(n) \/ Fail(n) PROVE UNCHANGED signing
  BY <1>6 DEF ManagerStep, Tick, Expire, Refill, Rest, Begin, Finish, Insert, Fail
<1>7. ASSUME NEW n \in Node, ConsumeFails(n) \/ Combine(n) PROVE LoopHolds'
  BY <1>4, <1>7 DEF ConsumeFails, Combine
<1>8. Clock \/ UNCHANGED vars => UNCHANGED signing
  BY DEF Clock, vars, signing
<1> QED
  BY <1>1, <1>2, <1>3, <1>5, <1>6, <1>7, <1>8 DEF Next, LoopStep

-----------------------------------------------------------------------------
(* Ids: none is live, expired and spent at once, and a manager starts no   *)
(* production of an id that is already known.                              *)

LEMMA NextOnePlace == IInv /\ [Next]_vars => OnePlace'
<1> SUFFICES ASSUME IInv, [Next]_vars PROVE OnePlace'
  OBVIOUS
<1> USE DEF IInv
<1>1. CASE UNCHANGED store
  BY <1>1 DEF OnePlace, store, Spent
<1>2. ASSUME NEW n \in Node, NEW id \in Id, Expire(n, id) PROVE OnePlace'
  BY <1>2 DEF Expire, Erased, OnePlace, Spent, TypeOK
<1>3. ASSUME NEW n \in Node, Insert(n) PROVE OnePlace'
  BY <1>3 DEF Insert, OnePlace, Known, Spent, TypeOK
<1>4. ASSUME NEW n \in Node, Fail(n) PROVE OnePlace'
  <2>1. \/ gone' = [gone EXCEPT ![n] = @ \cup ({Current(n)} \ Known(n))]
        \/ gone' = gone
    BY <1>4 DEF Fail
  <2>2. \A m \in Node : gone'[m] \subseteq gone[m] \cup ({Current(n)} \ Known(m))
    BY <2>1 DEF TypeOK
  <2>3. \A m \in Node : live'[m] = live[m] /\ Spent(m)' = Spent(m)
    BY <1>4 DEF Fail, Spent
  <2> QED
    BY <2>2, <2>3 DEF OnePlace, Known
<1>5. ASSUME NEW n \in Node, Consume(n) PROVE OnePlace'
  BY <1>5 DEF Consume, Taken, OnePlace, Spent, TypeOK
<1>6. ASSUME NEW n \in Node, Tick(n) \/ Refill(n) \/ Rest(n) \/ Begin(n) \/ Finish(n) PROVE UNCHANGED store
  BY <1>6 DEF Tick, Refill, Rest, Begin, Finish
<1>7. ASSUME NEW n \in Node, Pick(n) \/ ConsumeFails(n) \/ Combine(n) \/ Kill(n) PROVE UNCHANGED store
  BY <1>7 DEF Pick, ConsumeFails, Combine, Kill
<1>8. Clock \/ UNCHANGED vars => UNCHANGED store
  BY DEF Clock, vars, store
<1> QED
  BY <1>1, <1>2, <1>3, <1>4, <1>5, <1>6, <1>7, <1>8 DEF Next, ManagerStep, LoopStep

LEMMA NextIdsBelow == IInv /\ [Next]_vars => IdsBelow'
<1> SUFFICES ASSUME IInv, [Next]_vars PROVE IdsBelow'
  OBVIOUS
<1> USE DEF IInv
<1>0. UNCHANGED <<live, gone, signed>> => \A n \in Node : Known(n)' = Known(n)
  BY DEF Known, Spent
<1>1. CASE UNCHANGED <<store, next>> /\ \A n \in Node : mgr'[n] \in Producing => mgr[n] \in Producing
  BY <1>0, <1>1 DEF IdsBelow, store, Current
<1>2. ASSUME NEW n \in Node, NEW id \in Id, Expire(n, id) PROVE IdsBelow'
  <2>1. \A m \in Node : Known(m)' \subseteq Known(m)
    BY <1>2 DEF Expire, Erased, Known, Spent, TypeOK
  <2> QED
    BY <1>2, <2>1 DEF Expire, IdsBelow, Current
<1>3. ASSUME NEW n \in Node, Refill(n) PROVE IdsBelow'
  <2>1. \A m \in Node : Known(m)' = Known(m)
    BY <1>0, <1>3 DEF Refill, store
  <2>2. next[n] \in Id /\ next'[n] = next[n] + 1 /\ Current(n)' = next[n]
    BY <1>3 DEF Refill, TypeOK, Current, Id
  <2>3. \A m \in Node \ {n} : next'[m] = next[m] /\ mgr'[m] = mgr[m] /\ Current(m)' = Current(m)
    BY <1>3 DEF Refill, TypeOK, Current
  <2>4. \A id \in Known(n) : id \in Nat /\ id < next[n]
    BY DEF IdsBelow, TypeOK, Known, Spent, Id
  <2>5. next[n] < next'[n]
    BY <2>2 DEF TypeOK
  <2>6. \A id \in Known(n)' : id < next'[n] /\ id < Current(n)'
    BY <2>1, <2>2, <2>4, <2>5 DEF TypeOK
  <2> QED
    BY <2>1, <2>2, <2>3, <2>6 DEF IdsBelow
<1>4. ASSUME NEW n \in Node, Insert(n) PROVE IdsBelow'
  <2>1. \A m \in Node : Known(m)' \subseteq IF m = n THEN Known(m) \cup {Current(n)} ELSE Known(m)
    BY <1>4 DEF Insert, Known, Spent, TypeOK
  <2>2. Current(n) < next[n]
    BY DEF Current, TypeOK
  <2> QED
    BY <1>4, <2>1, <2>2 DEF Insert, IdsBelow, TypeOK, Current, Producing
<1>5. ASSUME NEW n \in Node, Fail(n) PROVE IdsBelow'
  <2>1. \/ gone' = [gone EXCEPT ![n] = @ \cup ({Current(n)} \ Known(n))]
        \/ gone' = gone
    BY <1>5 DEF Fail
  <2>2. \A m \in Node : Known(m)' \subseteq IF m = n THEN Known(m) \cup {Current(n)} ELSE Known(m)
    BY <1>5, <2>1 DEF Fail, Known, Spent, TypeOK
  <2>3. Current(n) < next[n]
    BY DEF Current, TypeOK
  <2>4. \A m \in Node : mgr'[m] = IF m = n THEN mgr'[n] ELSE mgr[m]
    BY <1>5 DEF Fail, TypeOK
  <2>5. mgr'[n] \notin Producing /\ UNCHANGED next
    BY <1>5 DEF Fail, TypeOK, Producing
  <2> QED
    BY <2>2, <2>3, <2>4, <2>5 DEF IdsBelow, Current
<1>6. ASSUME NEW n \in Node, Consume(n) PROVE IdsBelow'
  <2>1. \A m \in Node : Known(m)' \subseteq Known(m)
    BY <1>6 DEF Consume, Taken, Known, Spent, TypeOK
  <2> QED
    BY <1>6, <2>1 DEF Consume, IdsBelow, Current, manager
<1>7. ASSUME NEW n \in Node, Kill(n) PROVE IdsBelow'
  <2>1. \A m \in Node : Known(m)' = Known(m)
    BY <1>0, <1>7 DEF Kill, store
  <2>2. \A id \in Known(n) : id < ResumeId(n)
    <3>1. \A id \in Known(n) : id \in Nat
      BY ConfigAssumption DEF Known, Spent, TypeOK, Id
    <3> QED
      BY <3>1, ResumeType DEF ResumeId
  <2> QED
    BY <1>7, <2>1, <2>2 DEF Kill, IdsBelow, TypeOK, Current, Producing
<1>8. ASSUME NEW n \in Node, Tick(n) \/ Rest(n) \/ Begin(n) \/ Finish(n)
      PROVE  UNCHANGED <<store, next>> /\ \A m \in Node : mgr'[m] \in Producing => mgr[m] \in Producing
  BY <1>8 DEF Tick, Rest, Begin, Finish, TypeOK, Producing
<1>9. ASSUME NEW n \in Node, Pick(n) \/ ConsumeFails(n) \/ Combine(n) PROVE UNCHANGED <<store, next, mgr>>
  BY <1>9 DEF Pick, ConsumeFails, Combine, manager
<1>10. Clock \/ UNCHANGED vars => UNCHANGED <<store, next, mgr>>
  BY DEF Clock, vars, store, manager
<1> QED
  BY <1>1, <1>2, <1>3, <1>4, <1>5, <1>6, <1>7, <1>8, <1>9, <1>10 DEF Next, ManagerStep, LoopStep

-----------------------------------------------------------------------------
(* The level: who produces has room for one more record.                   *)

LEMMA LevelType ==
  ASSUME TypeOK, NEW n \in Node
  PROVE  IsFiniteSet(live[n]) /\ Cardinality(live[n]) \in Nat
<1>1. IsFiniteSet(Id)
  BY ConfigAssumption, FS_Interval DEF Id
<1>2. live[n] \in SUBSET Id
  BY DEF TypeOK
<1> QED
  BY <1>1, <1>2, FS_Subset, FS_CardinalityType

LEMMA FewerFit ==
  ASSUME IInv, NEW m \in Node, live'[m] \subseteq live[m],
         mgr'[m] \in Producing => mgr[m] \in Producing
  PROVE  /\ Cardinality(live'[m]) <= Target
         /\ mgr'[m] \in Producing => Cardinality(live'[m]) < Target
<1>1. Cardinality(live'[m]) \in Nat /\ Cardinality(live'[m]) <= Cardinality(live[m])
  BY LevelType, FS_Subset, FS_CardinalityType DEF IInv
<1>2. Cardinality(live[m]) \in Nat
  BY LevelType DEF IInv
<1> QED
  BY <1>1, <1>2, ConfigAssumption DEF IInv, RoomLeft

LEMMA NextRoom == IInv /\ [Next]_vars => RoomLeft'
<1> SUFFICES ASSUME IInv, [Next]_vars PROVE RoomLeft'
  OBVIOUS
<1> USE DEF IInv
<1>1. CASE \A m \in Node : live'[m] \subseteq live[m] /\ (mgr'[m] \in Producing => mgr[m] \in Producing)
  BY <1>1, FewerFit DEF RoomLeft
<1>2. ASSUME NEW n \in Node, Refill(n) PROVE RoomLeft'
  <2>1. \A m \in Node : live'[m] = live[m] /\ (m # n => mgr'[m] = mgr[m])
    BY <1>2 DEF Refill, store, TypeOK
  <2>2. Cardinality(live[n]) < Target
    BY <1>2 DEF Refill, BelowTarget
  <2> QED
    BY <2>1, <2>2 DEF RoomLeft
<1>3. ASSUME NEW n \in Node, Insert(n) PROVE RoomLeft'
  <2>1. \A m \in Node \ {n} : live'[m] = live[m] /\ mgr'[m] = mgr[m]
    BY <1>3 DEF Insert, TypeOK
  <2>2. live'[n] = live[n] \cup {Current(n)}
    <3>1. Current(n) \in Id /\ \A id \in Known(n) : id < Current(n)
      BY <1>3 DEF Insert, IdsBelow, Producing
    <3>2. Current(n) \notin Known(n)
      BY <3>1 DEF Id
    <3> QED
      BY <1>3, <3>2 DEF Insert, TypeOK
  <2>3. Cardinality(live'[n]) <= Cardinality(live[n]) + 1
    <3>1. IsFiniteSet(live[n]) /\ Cardinality(live[n]) \in Nat
      BY LevelType
    <3>2. Cardinality(live[n] \cup {Current(n)}) =
            IF Current(n) \in live[n] THEN Cardinality(live[n]) ELSE Cardinality(live[n]) + 1
      BY <3>1, FS_AddElement
    <3> QED
      BY <2>2, <3>1, <3>2
  <2>4. Cardinality(live[n]) < Target
    BY <1>3 DEF Insert, RoomLeft, Producing
  <2>5. mgr'[n] \notin Producing
    BY <1>3 DEF Insert, TypeOK, Producing
  <2>6. Cardinality(live'[n]) \in Nat
    BY <2>2, LevelType, FS_AddElement, FS_CardinalityType
  <2>7. Cardinality(live'[n]) <= Target
    BY <2>3, <2>4, <2>6, LevelType, ConfigAssumption
  <2> QED
    BY <2>1, <2>5, <2>7 DEF RoomLeft
<1>4. ASSUME NEW n \in Node, Tick(n) \/ Rest(n) \/ Begin(n) \/ Finish(n) \/ Fail(n) \/ Kill(n)
      PROVE  UNCHANGED live /\ \A m \in Node : mgr'[m] \in Producing => mgr[m] \in Producing
  <2>1. UNCHANGED live
    BY <1>4 DEF Tick, Rest, Begin, Finish, Fail, Kill, store
  <2>2. CASE Tick(n) \/ Rest(n) \/ Begin(n) \/ Finish(n) \/ Kill(n)
    BY <2>1, <2>2 DEF Tick, Rest, Begin, Finish, Kill, TypeOK, Producing
  <2>3. CASE Fail(n)
    <3>1. \A m \in Node \ {n} : mgr'[m] = mgr[m]
      BY <2>3 DEF Fail, TypeOK
    <3>2. mgr[n] \in Producing
      BY <2>3 DEF Fail
    <3> QED
      BY <2>1, <3>1, <3>2
  <2> QED
    BY <1>4, <2>2, <2>3
<1>5. ASSUME NEW n \in Node, NEW id \in Id, Expire(n, id)
      PROVE  UNCHANGED mgr /\ \A m \in Node : live'[m] \subseteq live[m]
  BY <1>5 DEF Expire, TypeOK
<1>6. ASSUME NEW n \in Node, Pick(n) \/ ConsumeFails(n) \/ Combine(n) PROVE UNCHANGED <<live, mgr>>
  BY <1>6 DEF Pick, ConsumeFails, Combine, manager, store
<1>7. Clock \/ UNCHANGED vars => UNCHANGED <<live, mgr>>
  BY DEF Clock, vars, store, manager
<1>8. ASSUME NEW n \in Node, Consume(n) PROVE UNCHANGED mgr /\ \A m \in Node : live'[m] \subseteq live[m]
  BY <1>8 DEF Consume, Taken, manager, TypeOK
<1> QED
  BY <1>1, <1>2, <1>3, <1>4, <1>5, <1>6, <1>7, <1>8 DEF Next, ManagerStep, LoopStep

-----------------------------------------------------------------------------
LEMMA Invariance == Spec => []IInv
<1>1. IInv /\ [Next]_vars => IInv'
  BY NextType, NextLoop, NextIdsBelow, NextOnePlace, NextRoom DEF IInv
<1> QED
  BY <1>1, InitInv, PTL DEF Spec

(* The variables have the types that the bounds give them.                 *)
THEOREM TypeCorrect == Spec => []TypeOK
<1>1. IInv => TypeOK
  BY DEF IInv
<1> QED
  BY <1>1, Invariance, PTL

(* PoolManager never holds more than its target, whatever is killed,       *)
(* expires or fails while it produces.                                     *)
THEOREM BoundTheorem == Spec => []PoolBounded
<1>1. IInv => PoolBounded
  BY DEF IInv, RoomLeft, PoolBounded
<1> QED
  BY <1>1, Invariance, PTL

(* After any number of restarts, a manager starts no production of an id   *)
(* that its store has seen: next_id stays above max_seen_id.               *)
THEOREM NeverRemadeTheorem == Spec => []NeverRemade
<1>1. IInv => NeverRemade
  BY DEF IInv, IdsBelow, TypeOK, Current, NeverRemade
<1> QED
  BY <1>1, Invariance, PTL

(* expire_aged and consume share the store: what was expired or burned is  *)
(* neither live nor spent.                                                 *)
THEOREM ExpiryTheorem == Spec => []ExpiredNeverServed
<1>1. IInv => ExpiredNeverServed
  BY DEF IInv, OnePlace, ExpiredNeverServed
<1> QED
  BY <1>1, Invariance, PTL

-----------------------------------------------------------------------------
(* Without kills, failed productions and expiry the pools are aligned:     *)
(* every node has produced the records from 1 on and spends record number  *)
(* k on message number k.                                                  *)

OnlyLate == Faults \subseteq {"late"} /\ Ttl = 0

FirstUnspent(n) == IF loop[n] = "signing" THEN msg[n] + 1 ELSE msg[n]
FirstUnmade(n) == IF mgr[n] \in Producing THEN Current(n) ELSE next[n]

Aligned ==
  \A n \in Node :
    /\ FirstUnspent(n) <= FirstUnmade(n)
    /\ live[n] = {id \in Id : FirstUnspent(n) <= id /\ id < FirstUnmade(n)}
    /\ \A id \in Id : signed[n][id] = IF id < FirstUnspent(n) THEN id ELSE 0
    /\ aged[n] = {}
    /\ loop[n] \in {"picked", "signing"} => pick[n] = msg[n]
    /\ loop[n] = "picked" => pick[n] \in live[n]

AInv == Aligned /\ HonestBlameless

LEMMA InitAligned == Init => AInv
<1> SUFFICES ASSUME Init PROVE AInv
  OBVIOUS
<1>1. \A n \in Node : FirstUnspent(n) = 1 /\ FirstUnmade(n) = 1
  BY DEF Init, FirstUnspent, FirstUnmade, Producing
<1> QED
  BY <1>1, ConfigAssumption DEF Init, AInv, Aligned, HonestBlameless, Id

LEMMA NextAligned ==
  ASSUME OnlyLate, IInv, AInv, [Next]_vars
  PROVE  AInv'
<1> USE ConfigAssumption DEF IInv, AInv, OnlyLate
<1>0. ASSUME UNCHANGED <<live, signed, aged, loop, msg, pick, blamed>>,
             \A m \in Node : FirstUnmade(m)' = FirstUnmade(m)
      PROVE  AInv'
  BY <1>0 DEF Aligned, HonestBlameless, FirstUnspent
<1>1. ASSUME NEW n \in Node, Tick(n) PROVE AInv'
  BY <1>0, <1>1 DEF Tick, store, signing, Aligned, FirstUnmade, Producing, Current, TypeOK
<1>2. ASSUME NEW n \in Node, NEW id \in Id, Expire(n, id) PROVE FALSE
  BY <1>2 DEF Expire, Aligned
<1>3. ASSUME NEW n \in Node, Refill(n) PROVE AInv'
  <2>1. \A m \in Node : FirstUnmade(m)' = FirstUnmade(m)
    BY <1>3 DEF Refill, FirstUnmade, Producing, Current, TypeOK
  <2> QED
    BY <1>0, <1>3, <2>1 DEF Refill, store, signing
<1>4. ASSUME NEW n \in Node, Rest(n) \/ Begin(n) \/ Finish(n) PROVE AInv'
  <2>1. \A m \in Node : FirstUnmade(m)' = FirstUnmade(m)
    BY <1>4 DEF Rest, Begin, Finish, FirstUnmade, Producing, Current, TypeOK
  <2> QED
    BY <1>0, <1>4, <2>1 DEF Rest, Begin, Finish, store, signing
<1>5. ASSUME NEW n \in Node, Insert(n) PROVE AInv'
  <2>1. Current(n) \in Id /\ \A id \in Known(n) : id < Current(n)
    BY <1>5 DEF Insert, IdsBelow, Producing
  <2>2. FirstUnmade(n) = Current(n) /\ FirstUnmade(n)' = Current(n) + 1
    BY <1>5 DEF Insert, FirstUnmade, Producing, Current, TypeOK
  <2>3. \A m \in Node \ {n} : FirstUnmade(m)' = FirstUnmade(m) /\ live'[m] = live[m]
    BY <1>5 DEF Insert, FirstUnmade, Current, TypeOK
  <2>4. \A m \in Node : FirstUnspent(m)' = FirstUnspent(m) /\ FirstUnspent(m) \in Nat
    BY <1>5 DEF Insert, FirstUnspent, signing, TypeOK
  <2>5. live'[n] = live[n] \cup {Current(n)}
    <3>1. Current(n) \notin Known(n)
      BY <2>1 DEF Id
    <3> QED
      BY <1>5, <3>1 DEF Insert, TypeOK
  <2>6. live'[n] = {id \in Id : FirstUnspent(n)' <= id /\ id < FirstUnmade(n)'}
    BY <2>1, <2>2, <2>4, <2>5 DEF Aligned, Id
  <2>7. UNCHANGED <<signed, aged, loop, msg, pick, blamed>>
    BY <1>5 DEF Insert, signing
  <2>8. FirstUnspent(n)' <= FirstUnmade(n)'
    BY <2>1, <2>2, <2>4 DEF Aligned, Id
  <2> QED
    BY <2>3, <2>4, <2>5, <2>6, <2>7, <2>8 DEF Aligned, HonestBlameless
<1>6. ASSUME NEW n \in Node, Fail(n) \/ Kill(n) PROVE FALSE
  BY <1>6 DEF Fail, Kill
<1>7. ASSUME NEW n \in Node, Pick(n) PROVE AInv'
  <2>1. OldestLiveId(n) \in live[n] /\ \A id \in live[n] : OldestLiveId(n) <= id
    BY <1>7, OldestType DEF Pick
  <2>2. FirstUnspent(n) = msg[n] /\ msg[n] \in Nat \ {0}
    BY <1>7 DEF Pick, FirstUnspent, TypeOK
  <2>3. msg[n] \in live[n]
    <3>1. FirstUnmade(n) \in Nat
      BY DEF FirstUnmade, Current, TypeOK, IdsBelow, Id
    <3> QED
      BY <2>1, <2>2, <3>1 DEF Aligned, Id
  <2>4. OldestLiveId(n) = msg[n]
    BY <2>1, <2>2, <2>3 DEF Aligned, Id
  <2>5. pick'[n] = msg[n] /\ \A m \in Node \ {n} : pick'[m] = pick[m] /\ loop'[m] = loop[m]
    BY <1>7, <2>4 DEF Pick, TypeOK
  <2>6. UNCHANGED <<live, signed, aged, msg, blamed, mgr, next>>
    BY <1>7 DEF Pick, store, manager
  <2>7. \A m \in Node : FirstUnspent(m)' = FirstUnspent(m) /\ FirstUnmade(m)' = FirstUnmade(m)
    BY <1>7, <2>6 DEF Pick, FirstUnspent, FirstUnmade, Current, TypeOK
  <2> QED
    BY <2>3, <2>5, <2>6, <2>7 DEF Aligned, HonestBlameless
<1>8. ASSUME NEW n \in Node, Consume(n) PROVE AInv'
  <2>1. loop[n] = "picked" /\ pick[n] = msg[n] /\ msg[n] \in Id /\ pick[n] \in live[n]
    BY <1>8 DEF Consume, Aligned, TypeOK
  <2>2. FirstUnspent(n) = msg[n] /\ FirstUnspent(n)' = msg[n] + 1
    BY <1>8, <2>1 DEF Consume, FirstUnspent, TypeOK
  <2>3. \A m \in Node \ {n} : FirstUnspent(m)' = FirstUnspent(m)
    BY <1>8 DEF Consume, FirstUnspent, TypeOK
  <2>4. \A m \in Node : FirstUnmade(m)' = FirstUnmade(m) /\ FirstUnmade(m) \in Nat
    <3>1. UNCHANGED <<mgr, next>>
      BY <1>8 DEF Consume, manager
    <3>2. \A m \in Node : FirstUnmade(m) \in Nat
      BY DEF FirstUnmade, Current, TypeOK, IdsBelow, Id
    <3> QED
      BY <3>1, <3>2 DEF FirstUnmade, Current
  <2>5. live'[n] = live[n] \ {msg[n]} /\ \A m \in Node \ {n} : live'[m] = live[m]
    BY <1>8, <2>1 DEF Consume, Taken, TypeOK
  <2>6. /\ \A id \in Id : signed'[n][id] = IF id = msg[n] THEN msg[n] ELSE signed[n][id]
        /\ \A m \in Node \ {n} : signed'[m] = signed[m]
    BY <1>8, <2>1 DEF Consume, TypeOK
  <2>7. loop'[n] = "signing" /\ \A m \in Node \ {n} : loop'[m] = loop[m]
    BY <1>8 DEF Consume, TypeOK
  <2>8. UNCHANGED <<aged, msg, pick, blamed>>
    BY <1>8 DEF Consume, manager
  <2>9. FirstUnspent(n)' <= FirstUnmade(n)'
    BY <2>1, <2>2, <2>4 DEF Aligned, Id
  <2>10. live'[n] = {id \in Id : FirstUnspent(n)' <= id /\ id < FirstUnmade(n)'}
    BY <2>1, <2>2, <2>4, <2>5 DEF Aligned, Id
  <2>11. \A id \in Id : signed'[n][id] = IF id < FirstUnspent(n)' THEN id ELSE 0
    BY <2>1, <2>2, <2>6 DEF Aligned, Id
  <2> QED
    BY <2>1, <2>3, <2>4, <2>5, <2>6, <2>7, <2>8, <2>9, <2>10, <2>11 DEF Aligned, HonestBlameless
<1>9. ASSUME NEW n \in Node, ConsumeFails(n) PROVE FALSE
  BY <1>9 DEF ConsumeFails, Aligned
<1>10. ASSUME NEW n \in Node, Combine(n) PROVE AInv'
  <2>1. PICK shares \in SUBSET Signers(pick[n]) :
          LET valid == {m \in shares : signed[m][pick[n]] = msg[n]} IN
          /\ Answer(n, Cardinality(valid) >= T)
          /\ blamed' = IF Cardinality(valid) >= T THEN blamed \cup (shares \ valid) ELSE blamed
    BY <1>10 DEF Combine
  <2> DEFINE valid == {m \in shares : signed[m][pick[n]] = msg[n]}
             delivered == Cardinality(valid) >= T
  <2>2. pick[n] = msg[n] /\ pick[n] \in Id
    BY <1>10 DEF Combine, Aligned, LoopHolds
  <2>3. valid = shares
    BY <2>2 DEF Signers, Aligned
  <2>4. HonestBlameless'
    BY <2>1, <2>3 DEF HonestBlameless
  <2>5. Answer(n, delivered)
    BY <2>1
  <2> HIDE DEF delivered
  <2>6. /\ msg'[n] = msg[n] + 1 /\ loop'[n] \in {"wait", "stopped"}
        /\ \A m \in Node \ {n} : msg'[m] = msg[m] /\ loop'[m] = loop[m] /\ pick'[m] = pick[m]
    BY <2>5 DEF Answer, TypeOK
  <2>7. \A m \in Node : FirstUnspent(m)' = FirstUnspent(m)
    BY <1>10, <2>6 DEF Combine, FirstUnspent
  <2>8. UNCHANGED <<live, signed, aged, mgr, next>>
    BY <1>10 DEF Combine, store, manager
  <2>9. \A m \in Node : FirstUnmade(m)' = FirstUnmade(m)
    BY <2>8 DEF FirstUnmade, Current
  <2> QED
    BY <2>4, <2>6, <2>7, <2>8, <2>9 DEF Aligned
<1>11. Clock => FALSE
  BY DEF Clock
<1>12. CASE UNCHANGED vars
  BY <1>0, <1>12 DEF vars, FirstUnmade, Current
<1> QED
  BY <1>1, <1>2, <1>3, <1>4, <1>5, <1>6, <1>7, <1>8, <1>9, <1>10, <1>11, <1>12
     DEF Next, ManagerStep, LoopStep

(* run_factory_demo and soak_sign agree on nothing but the order of their  *)
(* queues; without kills, failed productions and expiry this is enough for *)
(* all nodes to sign one message with a record, even if shares come late.  *)
THEOREM OneMessageTheorem ==
  ASSUME OnlyLate
  PROVE  Spec => []OneMessagePerRecord
<1>1. IInv /\ AInv /\ [Next]_vars => AInv'
  BY NextAligned
<1>2. AInv => OneMessagePerRecord
  BY DEF AInv, Aligned, OneMessagePerRecord
<1> QED
  BY <1>1, <1>2, InitAligned, Invariance, PTL DEF Spec

(* ... and then combine_robust blames nobody.                              *)
THEOREM BlamelessTheorem ==
  ASSUME OnlyLate
  PROVE  Spec => []HonestBlameless
<1>1. IInv /\ AInv /\ [Next]_vars => AInv'
  BY NextAligned
<1>2. AInv => HonestBlameless
  BY DEF AInv
<1> QED
  BY <1>1, <1>2, InitAligned, Invariance, PTL DEF Spec
=============================================================================
