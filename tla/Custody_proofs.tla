---------------------------- MODULE Custody_proofs ----------------------------
(***************************************************************************)
(* Proofs about Custody, for every committee, field and generator of       *)
(* coins, every presigning driver and any number of records and epochs:    *)
(* the shares of the key and of the records are good for what they are     *)
(* kept for, no holder uses its share of a record twice, and what a record *)
(* signs verifies.                                                         *)
(*                                                                         *)
(* The invariant CInv has four parts. The committee holds shares that fit  *)
(* the commitment of the key that was generated (KeyHeld). A record is a   *)
(* sharing of the inverse of its nonce and, if it is bound, of that times  *)
(* the key (RecordsHeld). Those who used a record were holders of it and   *)
(* have it in their stores no more (Spent): whoever uses it for another    *)
(* request is none of them (Apart), even if some stores were emptied or    *)
(* left half consumed by calls that failed. Two quorums that have nobody   *)
(* in common are only in a set of twice as many (NonceOnce). What a call   *)
(* returns, RInv, follows from CInv before the call: a signature verifies, *)
(* a failure has a cause, and nobody is blamed that did not deviate. What  *)
(* the drivers compute and whom they blame is proved in Signing_proofs.    *)
(***************************************************************************)
EXTENDS Custody, Signing_proofs

(* Who may share a key.                                                    *)
Eligible(C) ==
  /\ C.ids \subseteq Parties /\ C.ids \subseteq 1..(Q - 1) /\ C.ids # {}
  /\ {"ids", "t"} \subseteq DOMAIN C /\ C.t = T /\ Cardinality(C.ids) >= 2 * T - 1

(* The committee holds fitting shares of the key that was generated.       *)
KeyHeld ==
  /\ Eligible(committee)
  /\ key = NoKey => committee = FullCommittee(N, T)
  /\ key # NoKey => Held(key, committee.ids, T) /\ key.com[1] = pub

(* A record of the shares of some of its makers: a sharing of the inverse  *)
(* of its nonce and, if it is bound, of that times the secret key of X.    *)
Fit(r, X) ==
  LET S == DOMAIN r.u.sh
  IN  /\ DOMAIN r = {"at", "quorum", "R", "r", "u", "z", "kind", "ids"}
      /\ S \subseteq r.ids /\ r.at \in Scalar /\ r.quorum \in Nat /\ r.quorum > 0
      /\ Cardinality(r.ids) >= 2 * r.quorum - 1
      /\ IF r.kind = "packed" THEN r.quorum = T + B - 1 ELSE r.quorum = T /\ r.at = 0
      /\ r.r = XCoord(r.R) /\ r.r # 0
      /\ InverseOf(r.u, r.R, S, r.quorum, r.at) /\ Held(r.z, S, r.quorum)
      /\ r.kind # "free" => BoundTo(r.u, r.z, X, S, r.quorum, r.at)

RecordsHeld ==
  /\ recs \in Seq(Range(recs))
  /\ key = NoKey => recs = <<>>
  /\ \A id \in DOMAIN recs : Fit(recs[id], pub)
  /\ \A id \in DOMAIN recs : recs[id].ids \subseteq Parties
  /\ DOMAIN store = Parties
  /\ \A p \in Parties : \A id \in store[p] : id \in DOMAIN recs /\ p \in DOMAIN recs[id].u.sh

(* Who used the record held it and has given it away.                      *)
Spent ==
  \A w \in used :
    /\ w[1] \in DOMAIN recs
    /\ w[2] \subseteq DOMAIN recs[w[1]].u.sh
    /\ \A p \in w[2] : w[1] \notin store[p]

(* Nobody used a record for two requests.                                  *)
Apart == \A v, w \in used : v[1] = w[1] /\ v # w => v[2] \intersect w[2] = {}

CInv == KeyHeld /\ RecordsHeld /\ Spent /\ Apart /\ epochs \in 0..MaxEpochs

-----------------------------------------------------------------------------
(* Sets and sequences *)

(* The parties are finitely many natural numbers.                          *)
LEMMA PartiesFinite == IsFiniteSet(Parties) /\ Parties \subseteq Nat
<1>1. N \in Nat /\ Q \in Nat /\ NewIds \subseteq 1..(Q - 1)
  BY CustodyAssumption, FieldAssumption
<1>2. IsFiniteSet(1..N) /\ IsFiniteSet(1..(Q - 1))
  BY <1>1, FS_Interval
<1>3. IsFiniteSet(NewIds)
  BY <1>1, <1>2, FS_Subset
<1>4. IsFiniteSet(1..N \union NewIds)
  BY <1>2, <1>3, FS_Union
<1> QED
  BY <1>1, <1>4 DEF Parties

-----------------------------------------------------------------------------
(* Records *)

LEMMA HoldersAreParties ==
  ASSUME CInv, NEW id \in DOMAIN recs
  PROVE  DOMAIN recs[id].u.sh \subseteq Parties
BY DEF CInv, RecordsHeld, Fit

(* n records made by the committee are kept: they are new.                 *)
LEMMA KeepInv ==
  ASSUME CInv, NEW n \in Nat, NEW made, DOMAIN made = 1..n, made \in Seq(Range(made)),
         \A b \in 1..n : made[b].ids = committee.ids /\ Fit(made[b], pub), key # NoKey, Keep(made),
         UNCHANGED <<committee, key, pub, used, epochs>>
  PROVE  CInv'
<1> DEFINE U == Range(recs) \union Range(made)
<1>1. recs \in Seq(U) /\ made \in Seq(U)
  BY SeqMonotonic DEF CInv, RecordsHeld
<1>2. Len(recs) \in Nat /\ DOMAIN recs = 1..Len(recs) /\ Len(made) = n
  BY <1>1, LenProperties
<1>3. /\ recs \o made \in Seq(U)
      /\ Len(recs \o made) = Len(recs) + n
      /\ \A i \in 1..(Len(recs) + n) :
           (recs \o made)[i] = IF i <= Len(recs) THEN recs[i] ELSE made[i - Len(recs)]
  BY <1>1, <1>2, ConcatProperties
<1>4. recs' = recs \o made
  BY DEF Keep
<1>5. recs' \in Seq(Range(recs'))
  BY <1>3, <1>4, SeqOfRange
<1>6. DOMAIN recs' = 1..(Len(recs) + n)
  BY <1>3, <1>4, LenProperties
<1>7. \A id \in DOMAIN recs : id \in DOMAIN recs' /\ recs'[id] = recs[id]
  BY <1>2, <1>3, <1>4, <1>6
<1>8. \A id \in (Len(recs) + 1)..(Len(recs) + n) :
        id \in DOMAIN recs' /\ id \notin DOMAIN recs /\ recs'[id] = made[id - Len(recs)]
                            /\ id - Len(recs) \in 1..n
  BY <1>2, <1>3, <1>4, <1>6
<1>9. \A id \in DOMAIN recs' : id \in DOMAIN recs \/ id \in (Len(recs) + 1)..(Len(recs) + n)
  BY <1>2, <1>6
<1>10. store' = [p \in Parties |-> store[p] \union
         {id \in (Len(recs) + 1)..(Len(recs) + n) : p \in DOMAIN made[id - Len(recs)].u.sh}]
  BY <1>2 DEF Keep
<1>11. KeyHeld'
  BY DEF CInv, KeyHeld
<1>12. RecordsHeld'
  <2>1. \A id \in DOMAIN recs' : recs'[id].ids \subseteq Parties
    BY <1>7, <1>8, <1>9 DEF CInv, RecordsHeld, KeyHeld, Eligible
  <2>3. \A id \in DOMAIN recs' : Fit(recs'[id], pub')
    BY <1>7, <1>8, <1>9 DEF CInv, RecordsHeld
  <2>2. ASSUME NEW p \in Parties, NEW id \in store'[p]
        PROVE  id \in DOMAIN recs' /\ p \in DOMAIN recs'[id].u.sh
    <3>1. CASE id \in store[p]
      BY <1>7, <3>1 DEF CInv, RecordsHeld
    <3>2. CASE id \notin store[p]
      BY <1>8, <1>10, <2>2, <3>2
    <3> QED
      BY <3>1, <3>2
  <2> QED
    BY <1>5, <1>10, <2>1, <2>2, <2>3 DEF RecordsHeld
<1>13. Spent'
  <2> SUFFICES ASSUME NEW w \in used
               PROVE  /\ w[1] \in DOMAIN recs'
                      /\ w[2] \subseteq DOMAIN recs'[w[1]].u.sh
                      /\ \A p \in w[2] : w[1] \notin store'[p]
    BY DEF Spent
  <2>1. /\ w[1] \in DOMAIN recs /\ w[2] \subseteq DOMAIN recs[w[1]].u.sh
        /\ \A p \in w[2] : w[1] \notin store[p]
    BY DEF CInv, Spent
  <2>2. w[2] \subseteq Parties
    BY <2>1, HoldersAreParties
  <2>3. w[1] \notin (Len(recs) + 1)..(Len(recs) + n)
    BY <1>8, <2>1
  <2> QED
    BY <1>7, <1>10, <2>1, <2>2, <2>3
<1> QED
  BY <1>11, <1>12, <1>13 DEF CInv, Apart

(* A signing call on record id with the parties of S: if it gets to use    *)
(* the record, nobody did before.                                          *)
LEMMA SpendInv ==
  ASSUME CInv, NEW id \in DOMAIN recs, NEW S \in SignerSets, NEW q, Spend(S, id, q)
  PROVE  CInv'
<1>1. /\ S \subseteq Parties
      /\ store' = [p \in Parties |-> IF p \in Reached(S, id) THEN store[p] \ {id} ELSE store[p]]
      /\ UNCHANGED <<committee, key, pub, recs, epochs>>
  BY CustodyAssumption DEF Spend
<1>2. KeyHeld' /\ epochs' \in 0..MaxEpochs
  BY <1>1 DEF CInv, KeyHeld
<1>3. RecordsHeld'
  BY <1>1 DEF CInv, RecordsHeld
<1>4. \A p \in Parties : store'[p] \subseteq store[p]
  BY <1>1
<1>5. ASSUME NEW w \in used
      PROVE  /\ w[1] \in DOMAIN recs
             /\ w[2] \subseteq DOMAIN recs[w[1]].u.sh
             /\ w[2] \subseteq Parties /\ \A p \in w[2] : w[1] \notin store[p] /\ w[1] \notin store'[p]
  BY <1>4, HoldersAreParties DEF CInv, Spent
<1>6. CASE Missing(S, id) # {}
  <2>1. used' = used
    BY <1>6 DEF Spend
  <2> QED
    BY <1>1, <1>2, <1>3, <1>5, <2>1 DEF CInv, Spent, Apart
<1>7. CASE Missing(S, id) = {}
  <2>1. used' = used \union {<<id, S, q>>}
    BY <1>7 DEF Spend
  <2>2. \A p \in S : id \in store[p] /\ p \in Reached(S, id) /\ p \in DOMAIN recs[id].u.sh
    BY <1>1, <1>7 DEF Missing, Reached, CInv, RecordsHeld
  <2>3. \A p \in S : id \notin store'[p]
    BY <1>1, <2>2
  <2>4. ASSUME NEW w \in used, w[1] = id PROVE w[2] \intersect S = {}
    BY <1>5, <2>2, <2>4
  <2>5. Apart'
    <3> SUFFICES ASSUME NEW v \in used', NEW w \in used', v[1] = w[1], v # w
                 PROVE  v[2] \intersect w[2] = {}
      BY DEF Apart
    <3>1. <<id, S, q>>[1] = id /\ <<id, S, q>>[2] = S
      OBVIOUS
    <3>2. CASE v \in used /\ w \in used
      BY <3>2 DEF CInv, Apart
    <3>3. CASE v = <<id, S, q>> /\ w \in used
      BY <2>4, <3>1, <3>3
    <3>4. CASE v \in used /\ w = <<id, S, q>>
      BY <2>4, <3>1, <3>4
    <3> QED
      BY <2>1, <3>2, <3>3, <3>4
  <2>6. Spent'
    <3> SUFFICES ASSUME NEW w \in used'
                 PROVE  /\ w[1] \in DOMAIN recs
                        /\ w[2] \subseteq DOMAIN recs[w[1]].u.sh
                        /\ \A p \in w[2] : w[1] \notin store'[p]
      BY <1>1 DEF Spent
    <3>1. CASE w \in used
      BY <1>5, <3>1
    <3>2. CASE w = <<id, S, q>>
      BY <2>2, <2>3, <3>2
    <3> QED
      BY <2>1, <3>1, <3>2
  <2> QED
    BY <1>2, <1>3, <2>5, <2>6 DEF CInv
<1> QED
  BY <1>6, <1>7

-----------------------------------------------------------------------------
(* Calls *)

(* Whoever signs spends a record, as a whole or in part.                   *)
LEMMA SignSpends ==
  ASSUME Sign \/ SignRobust \/ SignRerand \/ SignPacked \/ SignKi
  PROVE  \E id \in DOMAIN recs, S \in SignerSets, q \in Requests : Spend(S, id, q)
<1>1. CASE Sign
  BY <1>1, Zenon DEF Sign, SignStored
<1>2. CASE SignRobust
  BY <1>2, Zenon DEF SignRobust, SignStored
<1>3. CASE SignRerand
  BY <1>3, Zenon DEF SignRerand, SignStored
<1>4. CASE SignPacked
  BY <1>4, Zenon DEF SignPacked, SignStored
<1>5. CASE SignKi
  BY <1>5, Zenon DEF SignKi, SignStored
<1> QED
  BY <1>1, <1>2, <1>3, <1>4, <1>5

(* A record carries who made it.                                           *)
LEMMA KeptIds ==
  ASSUME NEW r, NEW kind
  PROVE  Kept(r, kind).ids = committee.ids
BY DEF Kept, With

(* The places of a committee.                                              *)
LEMMA EligiblePlaces ==
  ASSUME NEW C, Eligible(C)
  PROVE  /\ Places(C.ids) /\ C.ids \in SUBSET Scalar /\ C.ids \in SUBSET Nat
         /\ C.t = T /\ T \in Nat /\ T > 0
         /\ IsFiniteSet(C.ids) /\ Cardinality(C.ids) \in Nat /\ Cardinality(C.ids) >= T
<1>1. Q \in Nat /\ T \in Nat /\ T > 0
  BY FieldAssumption, CustodyAssumption
<1>2. C.ids \in SUBSET Scalar /\ C.ids \in SUBSET Nat /\ C.ids # {}
  BY <1>1 DEF Eligible, Scalar
<1>3. IsFiniteSet(C.ids) /\ Cardinality(C.ids) \in Nat
  BY <1>2, ScalarsFinite
<1>4. Cardinality(C.ids) >= T
  BY <1>1, <1>3 DEF Eligible
<1> QED
  BY <1>1, <1>2, <1>3, <1>4 DEF Places, Eligible

(* What a driver returned, with who made it.                               *)
Returned(r, kind, S, n, s) ==
  /\ kind \in {"bound", "free", "packed"}
  /\ IF kind = "packed" THEN n = T + B - 1 ELSE n = T /\ s = 0
  /\ SoundRecord(r, S, n, s) /\ (kind # "free" => BoundTo(r.u, r.z, pub, S, n, s))

LEMMA KeptFit ==
  ASSUME NEW S \in SUBSET committee.ids, NEW n \in Nat, n > 0, NEW s \in Scalar,
         Cardinality(committee.ids) >= 2 * n - 1,
         NEW r, NEW kind, Returned(r, kind, S, n, s), NEW k, k = Kept(r, kind)
  PROVE  k.ids = committee.ids /\ Fit(k, pub)
<1>1. SoundRecord(r, S, n, s)
  BY DEF Returned
<1>2. PICK more : more = [kind |-> kind, ids |-> committee.ids]
  OBVIOUS
<1>3. DOMAIN more = {"kind", "ids"} /\ more.kind = kind /\ more.ids = committee.ids
  BY <1>2
<1>4. k = With(more, r)
  BY <1>2 DEF Kept
<1>5. DOMAIN r = {"at", "quorum", "R", "r", "u", "z"}
  BY <1>1 DEF SoundRecord
<1>6. /\ DOMAIN k = {"at", "quorum", "R", "r", "u", "z", "kind", "ids"}
      /\ k.kind = kind /\ k.ids = committee.ids
      /\ k.at = r.at /\ k.quorum = r.quorum /\ k.R = r.R /\ k.r = r.r /\ k.u = r.u /\ k.z = r.z
  BY <1>3, <1>4, <1>5 DEF With
<1>7. DOMAIN k.u.sh = S
  BY <1>1, <1>6 DEF SoundRecord, InverseOf, Held
<1>8. k.at = s /\ k.quorum = n
  BY <1>1, <1>6 DEF SoundRecord
<1>9. IF k.kind = "packed" THEN k.quorum = T + B - 1 ELSE k.quorum = T /\ k.at = 0
  BY <1>6, <1>8 DEF Returned
<1>10. /\ k.r = XCoord(k.R) /\ k.r # 0
       /\ InverseOf(k.u, k.R, S, k.quorum, k.at) /\ Held(k.z, S, k.quorum)
  BY <1>1, <1>6 DEF SoundRecord
<1>11. k.kind # "free" => BoundTo(k.u, k.z, pub, S, k.quorum, k.at)
  BY <1>6, <1>8 DEF Returned
<1>12. k.at \in Scalar /\ k.quorum \in Nat /\ k.quorum > 0 /\ Cardinality(k.ids) >= 2 * k.quorum - 1
  BY <1>6, <1>8
<1> QED
  BY <1>6, <1>7, <1>9, <1>10, <1>11, <1>12 DEF Fit

LEMMA KeepOne ==
  ASSUME CInv, key # NoKey, NEW r, NEW kind, kind \in {"bound", "free"},
         NEW S \in SUBSET committee.ids, Returned(r, kind, S, T, 0),
         Keep(<< Kept(r, kind) >>), UNCHANGED <<committee, key, pub, used, epochs>>
  PROVE  CInv'
<1>1. PICK k : k = Kept(r, kind)
  OBVIOUS
<1>2. k.ids = committee.ids /\ Fit(k, pub)
  <2>1. PICK s \in Scalar, n \in Nat : s = 0 /\ n = T
    BY ScalarInt, CustodyAssumption
  <2>2. n > 0 /\ Cardinality(committee.ids) >= 2 * n - 1
    BY <2>1, CustodyAssumption DEF CInv, KeyHeld, Eligible
  <2>3. Returned(r, kind, S, n, s)
    BY <2>1
  <2> QED
    BY <1>1, <2>2, <2>3, KeptFit
<1>3. PICK made : made = << k >>
  OBVIOUS
<1>4. DOMAIN made = 1..1 /\ made[1] = k /\ made \in Seq({k})
  BY <1>3
<1>5. made \in Seq(Range(made))
  BY <1>4, SeqOfRange
<1>6. \A b \in 1..1 : made[b].ids = committee.ids /\ Fit(made[b], pub)
  BY <1>2, <1>4
<1>7. Keep(made)
  BY <1>1, <1>3
<1> QED
  BY <1>4, <1>5, <1>6, <1>7, KeepInv

LEMMA KeepMany ==
  ASSUME CInv, key # NoKey, NEW rs, NEW kind,
         \A b \in 1..B : \E k : k = Kept(rs[b], kind) /\ Fit(k, pub),
         Keep([b \in 1..B |-> Kept(rs[b], kind)]), UNCHANGED <<committee, key, pub, used, epochs>>
  PROVE  CInv'
<1>1. PICK made : made = [b \in 1..B |-> Kept(rs[b], kind)]
  OBVIOUS
<1>2. PICK n : n = B /\ n \in Nat
  BY CustodyAssumption
<1>3. DOMAIN made = 1..n /\ \A b \in 1..n : made[b].ids = committee.ids /\ Fit(made[b], pub)
  BY <1>1, <1>2, KeptIds
<1>4. PICK R : R = Range(made)
  OBVIOUS
<1>5. made \in [1..n -> R]
  BY <1>1, <1>2, <1>4 DEF Range
<1>6. made \in Seq(R)
  BY <1>2, <1>5, FunctionIsSeq
<1>7. Keep(made)
  BY <1>1
<1> QED
  BY <1>2, <1>3, <1>4, <1>6, <1>7, KeepInv

LEMMA KeepNone ==
  ASSUME CInv, key # NoKey, UNCHANGED <<recs, store>> \/ Keep(<<>>),
         UNCHANGED <<committee, key, pub, used, epochs>>
  PROVE  CInv'
<1>1. CASE Keep(<<>>)
  <2>1. PICK made : made = <<>>
    OBVIOUS
  <2>2. PICK n \in Nat : n = 0
    OBVIOUS
  <2>3. DOMAIN made = 1..n /\ made \in Seq({})
        /\ \A b \in 1..n : made[b].ids = committee.ids /\ Fit(made[b], pub)
    BY <2>1, <2>2
  <2>4. made \in Seq(Range(made))
    BY <2>3, SeqOfRange
  <2> QED
    BY <1>1, <2>1, <2>3, <2>4, KeepInv
<1>2. CASE UNCHANGED <<recs, store>>
  BY <1>2 DEF CInv, KeyHeld, RecordsHeld, Spent, Apart
<1> QED
  BY <1>1, <1>2

(* The committee of a key makes records for it.                            *)
LEMMA KeyMakers ==
  ASSUME CInv, key # NoKey
  PROVE  /\ Places(committee.ids) /\ committee.ids \in SUBSET Scalar /\ committee.t \in Nat /\ committee.t > 0
         /\ committee.t = T /\ T \in Nat
         /\ Cardinality(committee.ids) >= 2 * committee.t - 1 /\ {"ids", "t"} \subseteq DOMAIN committee
         /\ Held(key, committee.ids, committee.t) /\ key.com[1] = pub
BY EligiblePlaces DEF CInv, KeyHeld, Eligible

LEMMA BoundReturned ==
  ASSUME NEW r, NEW S, NEW n, NEW s, BoundRecord(r, pub, S, n, s), NEW kind,
         (kind = "bound" /\ n = T /\ s = 0) \/ (kind = "packed" /\ n = T + B - 1)
  PROVE  Returned(r, kind, S, n, s)
BY DEF BoundRecord, Returned

LEMMA MakeBatchInv ==
  ASSUME CInv, MakeBatch
  PROVE  CInv'
<1>1. PICK cheat, out : /\ out = PresignBatch(committee, key, Seed(5), B, cheat)
                        /\ key # NoKey
                        /\ IF out.ok THEN Keep([b \in 1..B |-> Kept(out.val[b], "bound")])
                           ELSE UNCHANGED <<recs, store>>
                        /\ UNCHANGED <<tape, committee, key, pub, used, epochs>>
  BY ZenonT(40) DEF MakeBatch, Made, Keyed
<1>2. ASSUME out.ok, NEW b \in 1..B
      PROVE  \E k : k = Kept(out.val[b], "bound") /\ Fit(k, pub)
  <2>1. B \in Nat
    BY CustodyAssumption
  <2>2. BoundRecord(out.val[b], pub, committee.ids, committee.t, 0)
    BY <1>1, <1>2, <2>1, KeyMakers, PresignBatchSound
  <2>3. PICK s \in Scalar, n \in Nat : s = 0 /\ n = T
    BY ScalarInt, CustodyAssumption
  <2>4. Returned(out.val[b], "bound", committee.ids, n, s)
    BY <1>1, <2>2, <2>3, KeyMakers, BoundReturned
  <2>5. n > 0 /\ Cardinality(committee.ids) >= 2 * n - 1
    BY <1>1, <2>3, KeyMakers
  <2> QED
    BY <2>4, <2>5, KeptFit
<1> QED
  BY <1>1, <1>2, KeepMany, KeepNone

LEMMA MakePackedInv ==
  ASSUME CInv, MakePacked
  PROVE  CInv'
<1>1. PICK cheat, out : /\ out = PresignPacked(committee, key, Seed(6), B, cheat)
                        /\ key # NoKey
                        /\ IF out.ok THEN Keep([b \in 1..B |-> Kept(out.val[b], "packed")])
                           ELSE UNCHANGED <<recs, store>>
                        /\ UNCHANGED <<tape, committee, key, pub, used, epochs>>
  BY ZenonT(40) DEF MakePacked, Made, Keyed
<1>2. ASSUME out.ok, NEW b \in 1..B
      PROVE  \E k : k = Kept(out.val[b], "packed") /\ Fit(k, pub)
  <2>1. B \in Nat /\ T \in Nat /\ T > 0
    BY CustodyAssumption
  <2>2. PICK n : n = PackedDegree(committee, B) + 1
    OBVIOUS
  <2>3. n = T + B - 1
    BY <1>1, <2>1, <2>2, KeyMakers DEF PackedDegree
  <2>4. /\ B > 0 /\ Cardinality(committee.ids) >= 2 * n - 1
        /\ BoundRecord(out.val[b], pub, committee.ids, n, Slots(B)[b])
    <3>1. /\ B > 0 /\ Cardinality(committee.ids) >= 2 * n - 1
          /\ \A i \in 1..B : BoundRecord(out.val[i], key.com[1], committee.ids, n, Slots(B)[i])
      BY <1>1, <1>2, <2>1, <2>2, KeyMakers, PresignPackedSound
    <3> QED
      BY <1>1, <3>1, KeyMakers
  <2>5. n \in Nat /\ n > 0
    BY <2>1, <2>3, <2>4
  <2>6. PICK s \in Scalar : s = Slots(B)[b]
    BY <2>1, SlotsTyped
  <2>7. Returned(out.val[b], "packed", committee.ids, n, s)
    BY <2>3, <2>4, <2>6, BoundReturned
  <2> QED
    BY <2>4, <2>5, <2>7, KeptFit
<1> QED
  BY <1>1, <1>2, KeepMany, KeepNone

(* A presigning driver keeps what it made, or changes nothing.             *)
LEMMA MakeInv ==
  ASSUME CInv, MakeOne \/ MakeWithRestart \/ MakeKi \/ MakeBatch \/ MakePacked \/ MakeTriple
  PROVE  CInv'
<1>1. CASE MakeOne
  <2>1. PICK cheat, out : /\ out = Presign(committee, key, Seed(2), cheat)
                          /\ key # NoKey
                          /\ IF out.ok THEN Keep(<< Kept(out.val, "bound") >>) ELSE UNCHANGED <<recs, store>>
                          /\ UNCHANGED <<tape, committee, key, pub, used, epochs>>
    BY <1>1, Zenon DEF MakeOne, Made, Keyed
  <2>2. ASSUME out.ok PROVE Returned(out.val, "bound", committee.ids, T, 0)
    <3>1. BoundRecord(out.val, pub, committee.ids, T, 0)
      BY <2>1, <2>2, KeyMakers, PresignSound
    <3> QED
      BY <3>1, BoundReturned
  <2> QED
    BY <2>1, <2>2, KeepOne, KeepNone
<1>2. CASE MakeWithRestart
  <2>1. PICK cheat, out : /\ out = RunPresignWithRestart(committee, key, Len(recs) + 1, Seed(3), cheat)
                          /\ key # NoKey
                          /\ IF out.ok THEN Keep(<< Kept(out.val.val, "bound") >>)
                             ELSE UNCHANGED <<recs, store>>
                          /\ UNCHANGED <<tape, committee, key, pub, used, epochs>>
    BY <1>2, Zenon DEF MakeWithRestart, Made, Keyed
  <2>2. ASSUME out.ok PROVE \E A \in SUBSET committee.ids : Returned(out.val.val, "bound", A, T, 0)
    <3>1. PICK A \in SUBSET committee.ids : BoundRecord(out.val.val, pub, A, T, 0)
      BY <2>1, <2>2, KeyMakers, PresignRestartSound
    <3> QED
      BY <3>1, BoundReturned
  <2> QED
    BY <2>1, <2>2, KeepOne, KeepNone
<1>3. CASE MakeKi
  <2>1. PICK cheat, out : /\ out = PresignKi(committee, Seed(4), cheat)
                          /\ key # NoKey
                          /\ IF out.ok THEN Keep(<< Kept(out.val, "free") >>) ELSE UNCHANGED <<recs, store>>
                          /\ UNCHANGED <<tape, committee, key, pub, used, epochs>>
    BY <1>3, Zenon DEF MakeKi, Made, Keyed
  <2>2. ASSUME out.ok PROVE Returned(out.val, "free", committee.ids, T, 0)
    <3>1. SoundRecord(out.val, committee.ids, T, 0)
      BY <2>1, <2>2, KeyMakers, PresignKiSound
    <3> QED
      BY <3>1 DEF Returned
  <2> QED
    BY <2>1, <2>2, KeepOne, KeepNone
<1>4. CASE MakeBatch
  BY <1>4, MakeBatchInv
<1>5. CASE MakePacked
  BY <1>5, MakePackedInv
<1>6. CASE MakeTriple
  BY <1>6, KeepNone, Zenon DEF MakeTriple, Made, Keyed
<1> QED
  BY <1>1, <1>2, <1>3, <1>4, <1>5, <1>6

-----------------------------------------------------------------------------
(* Who holds the key *)

(* One attempt of a key generation.                                        *)
Generated(v, n) == DOMAIN v = {"val", "blamed"} /\ v.blamed = {} /\ Held(v.val, 1..n, T)

LEMMA AttemptHeld ==
  ASSUME NEW n \in Nat, n > 0, n < Q, NEW seed, NEW cheat,
         NEW dkg, dkg = DriveDkg(FullCommittee(n, T), seed, cheat),
         NEW out, out = IF dkg.ok THEN Ok([val |-> dkg.val, blamed |-> {}]) ELSE dkg,
         out.ok
  PROVE  Generated(out.val, n)
<1>1. PICK v : v = [val |-> dkg.val, blamed |-> {}]
  OBVIOUS
<1>2. out = IF dkg.ok THEN Ok(v) ELSE dkg
  BY <1>1
<1>3. dkg.ok /\ out.val = v
  BY <1>2, Results
<1>4. PICK C : C = FullCommittee(n, T)
  OBVIOUS
<1>5. C.ids = 1..n /\ C.t = T /\ T \in Nat
  BY <1>4, CustodyAssumption DEF FullCommittee
<1>6. Places(C.ids)
  <2>1. Q \in Nat /\ 1 \in 1..n
    BY FieldAssumption
  <2>2. 1..n \subseteq 0..(Q - 1)
    BY <2>1
  <2> QED
    BY <1>5, <2>1, <2>2 DEF Places, Scalar
<1>7. Held(dkg.val, C.ids, T)
  BY <1>3, <1>4, <1>5, <1>6, DkgSound
<1>8. DOMAIN v = {"val", "blamed"} /\ v.val = dkg.val /\ v.blamed = {}
  BY <1>1
<1> QED
  BY <1>3, <1>5, <1>7, <1>8 DEF Generated

(* A restarted key generation is held by those it does not blame.          *)
LEMMA KeygenHeld ==
  ASSUME NEW seed, NEW cheat, NEW out, out = RunKeygenWithRestart(N, T, seed, cheat), out.ok
  PROVE  \E n \in Nat : /\ n = Cardinality((1..N) \ out.val.blamed)
                        /\ n > 0 /\ n <= N /\ n >= 2 * T - 1
                        /\ Held(out.val.val, 1..n, T)
<1>1. PICK all : all = 1..N
  OBVIOUS
<1>2. /\ IsFiniteSet(all) /\ Cardinality(all) = N /\ N > 0 /\ N \in Nat /\ T \in Nat /\ T > 0
      /\ N >= 2 * T - 1 /\ N < Q /\ Q \in Nat
  <2>1. N \in Nat /\ T \in Nat /\ T > 0 /\ N >= 2 * T - 1 /\ N < Q /\ Q \in Nat
    BY CustodyAssumption, FieldAssumption
  <2>2. N > 0
    BY <2>1
  <2> QED
    BY <1>1, <2>1, <2>2, FS_Interval
<1>3. PICK dkg : dkg = DriveDkg(FullCommittee(Cardinality(all), T), Fork(seed, 0), At(0, cheat))
  OBVIOUS
<1>4. PICK first : first = IF dkg.ok THEN Ok([val |-> dkg.val, blamed |-> {}]) ELSE dkg
  OBVIOUS
<1>5. PICK left : left = all \ first.blamed
  OBVIOUS
<1>6. PICK again : again = DriveDkg(FullCommittee(Cardinality(left), T), Fork(seed, 1), At(1, cheat))
  OBVIOUS
<1>7. PICK second : second = IF again.ok THEN Ok([val |-> again.val, blamed |-> {}]) ELSE again
  OBVIOUS
<1>8. out = IF ~first.ok /\ first.err = "abort" /\ RestartAllowed(left, T)
            THEN IF second.ok
                 THEN Ok([second.val EXCEPT !.blamed = second.val.blamed \union first.blamed])
                 ELSE second
            ELSE first
  BY <1>1, <1>3, <1>4, <1>5, <1>6, <1>7 DEF RunKeygenWithRestart, WithRestart, Then
<1>9. CASE first.ok
  <2>1. out = first
    BY <1>8, <1>9
  <2>2. dkg = DriveDkg(FullCommittee(N, T), Fork(seed, 0), At(0, cheat))
    BY <1>2, <1>3
  <2>3. Generated(first.val, N)
    BY <1>2, <1>4, <1>9, <2>2, AttemptHeld
  <2>4. (1..N) \ out.val.blamed = all /\ Held(out.val.val, 1..N, T)
    BY <1>1, <2>1, <2>3 DEF Generated
  <2>5. PICK n \in Nat : n = N
    BY <1>2
  <2>6. n = Cardinality((1..N) \ out.val.blamed) /\ Held(out.val.val, 1..n, T)
    BY <1>2, <2>4, <2>5
  <2>7. n > 0 /\ n <= N /\ n >= 2 * T - 1
    BY <1>2, <2>5
  <2> QED
    BY <2>6, <2>7
<1>10. CASE ~first.ok
  <2>1. RestartAllowed(left, T) /\ second.ok
        /\ out.val = [second.val EXCEPT !.blamed = second.val.blamed \union first.blamed]
    BY <1>8, <1>10, Results
  <2>2. IsFiniteSet(left) /\ Cardinality(left) <= N
    BY <1>2, <1>5, FS_Subset
  <2>3. PICK n \in Nat : n = Cardinality(left)
    BY <2>2, FS_CardinalityType
  <2>4. n >= 2 * T - 1
    BY <2>1, <2>3 DEF RestartAllowed
  <2>5. n > 0 /\ n <= N /\ n < Q
    BY <1>2, <2>2, <2>3, <2>4
  <2>6. again = DriveDkg(FullCommittee(n, T), Fork(seed, 1), At(1, cheat))
    BY <1>6, <2>3
  <2>7. Generated(second.val, n)
    BY <1>7, <2>1, <2>5, <2>6, AttemptHeld
  <2>8. out.val.val = second.val.val /\ out.val.blamed = first.blamed
    BY <2>1, <2>7 DEF Generated
  <2>9. (1..N) \ out.val.blamed = left /\ Held(out.val.val, 1..n, T)
    BY <1>1, <1>5, <2>7, <2>8 DEF Generated
  <2> QED
    BY <2>3, <2>4, <2>5, <2>9
<1> QED
  BY <1>9, <1>10

(* The call that gave the key away left everything else as it was.         *)
LEMMA HeldInv ==
  ASSUME CInv, KeyHeld', epochs' \in 0..MaxEpochs, UNCHANGED <<recs, store, used>>,
         key # NoKey => pub' = pub, key' = NoKey => key = NoKey
  PROVE  CInv'
BY DEF CInv, RecordsHeld, Spent, Apart

(* Nobody holds the shares of no key.                                      *)
LEMMA SomeKey ==
  ASSUME NEW ids, ids # {}, NEW k, Held(k, ids, T)
  PROVE  k # NoKey /\ DOMAIN k.sh = ids
<1>1. SUFFICES ASSUME k = NoKey PROVE FALSE
  BY DEF Held
<1>2. k.sh = <<>> /\ DOMAIN k.sh = ids
  BY <1>1 DEF NoKey, Held
<1> QED
  BY <1>2

LEMMA KeygenInv ==
  ASSUME CInv, Keygen
  PROVE  CInv'
<1>1. PICK cheat, o : /\ o = RunKeygenWithRestart(N, T, Seed(1), cheat)
                      /\ key = NoKey
                      /\ IF o.ok
                         THEN /\ key' = o.val.val /\ pub' = o.val.val.com[1]
                              /\ committee' = FullCommittee(Cardinality(committee.ids \ o.val.blamed), T)
                         ELSE UNCHANGED <<key, pub, committee>>
                      /\ UNCHANGED <<recs, store, used, epochs>>
  BY ZenonT(40) DEF Keygen
<1>2. CASE ~o.ok
  BY <1>1, <1>2, HeldInv DEF CInv, KeyHeld
<1>3. CASE o.ok
  <2>1. committee.ids = 1..N
    BY <1>1 DEF CInv, KeyHeld, FullCommittee
  <2>2. PICK n \in Nat : /\ n = Cardinality((1..N) \ o.val.blamed)
                         /\ n > 0 /\ n <= N /\ n >= 2 * T - 1
                         /\ Held(o.val.val, 1..n, T)
    BY <1>1, <1>3, KeygenHeld
  <2>3. committee' = [ids |-> 1..n, t |-> T] /\ key' = o.val.val /\ pub' = key'.com[1]
    BY <1>1, <1>3, <2>1, <2>2 DEF FullCommittee
  <2>4. committee'.ids = 1..n /\ committee'.t = T /\ Held(key', committee'.ids, T)
        /\ {"ids", "t"} \subseteq DOMAIN committee'
    BY <2>2, <2>3
  <2>5. N \in Nat /\ Q \in Nat /\ N < Q
    BY CustodyAssumption, FieldAssumption
  <2>6. Cardinality(1..n) = n /\ 1..n # {} /\ 1..n \subseteq 1..(Q - 1) /\ 1..n \subseteq Parties
    <3>a. n > 0 /\ n <= N
      BY <2>2
    <3>1. 1 \in 1..n /\ 1..n \subseteq 1..(Q - 1) /\ 1..n \subseteq 1..N
      BY <2>5, <3>a
    <3>2. 1 \in Int /\ n \in Int
      OBVIOUS
    <3>3. Cardinality(1..n) = n
      BY <2>2, <3>2, FS_Interval
    <3> QED
      BY <3>1, <3>3 DEF Parties
  <2>7. Eligible(committee')
    BY <2>2, <2>4, <2>6 DEF Eligible
  <2>8. key' # NoKey
    BY <2>4, <2>6, SomeKey
  <2>9. KeyHeld'
    BY <2>3, <2>4, <2>7, <2>8 DEF KeyHeld
  <2> QED
    BY <1>1, <2>9, HeldInv DEF CInv
<1> QED
  BY <1>2, <1>3

LEMMA KeygenSignedInv ==
  ASSUME CInv, KeygenSigned
  PROVE  CInv'
<1>1. PICK cheat, o : /\ o = DriveDkgSigned(committee, Fork(Seed(1), 0), cheat)
                      /\ key = NoKey
                      /\ IF o.ok THEN key' = o.val /\ pub' = o.val.com[1] ELSE UNCHANGED <<key, pub>>
                      /\ UNCHANGED <<committee, recs, store, used, epochs>>
  BY ZenonT(40) DEF KeygenSigned
<1>2. CASE ~o.ok
  BY <1>1, <1>2, HeldInv DEF CInv, KeyHeld
<1>3. CASE o.ok
  <2>1. Places(committee.ids) /\ committee.t = T /\ T \in Nat /\ committee.ids # {}
    BY EligiblePlaces DEF CInv, KeyHeld, Eligible
  <2>2. Held(o.val, committee.ids, T)
    BY <1>1, <1>3, <2>1, SignedSound
  <2>3. key' = o.val /\ pub' = key'.com[1] /\ key' # NoKey
    BY <1>1, <1>3, <2>1, <2>2, SomeKey
  <2>4. KeyHeld'
    BY <1>1, <2>2, <2>3 DEF CInv, KeyHeld
  <2> QED
    BY <1>1, <2>4, HeldInv DEF CInv
<1> QED
  BY <1>2, <1>3

(* At the end of an epoch the next committee holds the same key.           *)
LEMMA RotateInv ==
  ASSUME CInv, NEW op, NEW cheat, NEW out, NEW next, Rotate(op, cheat, out, next), Eligible(next),
         out.ok => Held(out.val, next.ids, T) /\ out.val.com[1] = key.com[1]
  PROVE  CInv'
<1>1. key # NoKey /\ epochs < MaxEpochs /\ UNCHANGED <<pub, recs, store, used>>
  BY DEF Rotate, Keyed
<1>2. CASE ~out.ok
  BY <1>1, <1>2, HeldInv DEF Rotate, CInv, KeyHeld
<1>3. CASE out.ok
  <2>1. key' = out.val /\ committee' = next /\ epochs' = epochs + 1
    BY <1>3 DEF Rotate
  <2>2. key' # NoKey
    BY <1>3, <2>1, SomeKey DEF Eligible
  <2>3. epochs' \in 0..MaxEpochs
    BY <1>1, <2>1, CustodyAssumption DEF CInv
  <2>4. key'.com[1] = pub'
    BY <1>1, <1>3, <2>1 DEF CInv, KeyHeld
  <2>5. KeyHeld'
    BY <1>3, <2>1, <2>2, <2>4 DEF KeyHeld
  <2> QED
    BY <1>1, <2>2, <2>3, <2>5, HeldInv
<1> QED
  BY <1>2, <1>3

LEMMA RefreshInv ==
  ASSUME CInv, RefreshKey
  PROVE  CInv'
<1>1. PICK cheat, out : /\ out = Refresh(committee, key, Seed(8), cheat)
                        /\ Rotate("failfast", cheat, out, committee)
  BY ZenonT(40) DEF RefreshKey
<1>2. Eligible(committee) /\ Held(key, committee.ids, T)
  BY <1>1 DEF CInv, KeyHeld, Rotate, Keyed
<1>3. Places(committee.ids) /\ committee.t = T /\ T \in Nat /\ T > 0
  BY <1>2, EligiblePlaces
<1>4. out.ok => Held(out.val, committee.ids, T) /\ out.val.com[1] = key.com[1]
  BY <1>1, <1>2, <1>3, RefreshSound
<1> QED
  BY <1>1, <1>2, <1>4, RotateInv

(* The committee of a hand-over can share a key.                           *)
LEMMA NewPlaces ==
  ASSUME NEW new, new = [ids |-> NewIds, t |-> T]
  PROVE  Eligible(new) /\ new.t = T /\ Places(new.ids) /\ T \in Nat /\ T > 0
<1>1. new.ids = NewIds /\ new.t = T /\ {"ids", "t"} \subseteq DOMAIN new
  OBVIOUS
<1>2. NewIds # {}
  <2>1. Cardinality(NewIds) >= 2 * T - 1 /\ T \in Nat /\ T > 0
    BY CustodyAssumption
  <2>2. Cardinality({}) = 0
    BY FS_EmptySet
  <2> QED
    BY <2>1, <2>2
<1>3. Eligible(new)
  BY <1>1, <1>2, CustodyAssumption DEF Eligible, Parties
<1> QED
  BY <1>1, <1>3, EligiblePlaces

LEMMA ReshareInv ==
  ASSUME CInv, ReshareKey
  PROVE  CInv'
<1>1. PICK new : new = [ids |-> NewIds, t |-> T]
  OBVIOUS
<1>2. PICK cheat, out : /\ out = Reshare(committee, new, key, Seed(9), cheat)
                        /\ Rotate("failfast", cheat, out, new)
  BY <1>1, Zenon DEF ReshareKey
<1>3. new.ids = NewIds /\ new.t = T
  BY <1>1
<1>4. Eligible(new) /\ Places(new.ids) /\ T \in Nat /\ T > 0
  BY <1>1, NewPlaces
<1>5. Eligible(committee) /\ Held(key, committee.ids, T)
  BY <1>2 DEF CInv, KeyHeld, Rotate, Keyed
<1>7. Places(committee.ids) /\ Cardinality(committee.ids) >= T
  BY <1>5, EligiblePlaces
<1>8. out.ok => Held(out.val, new.ids, T) /\ out.val.com[1] = key.com[1]
  BY <1>2, <1>3, <1>4, <1>5, <1>7, ReshareSound
<1> QED
  BY <1>2, <1>4, <1>8, RotateInv

-----------------------------------------------------------------------------
(* The invariant *)

LEMMA InitCInv == Init => CInv
<1> SUFFICES ASSUME Init PROVE CInv
  OBVIOUS
<1>1. KeyHeld
  <2>1. committee = [ids |-> 1..N, t |-> T] /\ committee.ids = 1..N /\ committee.t = T
    BY DEF Init, FullCommittee
  <2>2. N \in Nat /\ T \in Nat /\ N >= 2 * T - 1 /\ N < Q /\ Q \in Nat /\ 1 \in 1..N
    BY CustodyAssumption, FieldAssumption
  <2>3. Cardinality(1..N) = N /\ 1..N \subseteq 1..(Q - 1)
    BY <2>2, FS_Interval
  <2>4. Eligible(committee)
    BY <2>1, <2>2, <2>3 DEF Eligible, Parties
  <2> QED
    BY <2>4 DEF Init, KeyHeld
<1>2. RecordsHeld
  <2>1. recs = <<>> /\ recs \in Seq({})
    BY DEF Init
  <2>2. recs \in Seq(Range(recs))
    BY <2>1, SeqOfRange
  <2> QED
    BY <2>1, <2>2 DEF Init, RecordsHeld
<1>3. Spent /\ Apart
  BY DEF Init, Spent, Apart
<1>4. epochs \in 0..MaxEpochs
  BY CustodyAssumption DEF Init
<1> QED
  BY <1>1, <1>2, <1>3, <1>4 DEF CInv

LEMMA NextCInv == CInv /\ [Next]_vars => CInv'
<1> SUFFICES ASSUME CInv, [Next]_vars PROVE CInv'
  OBVIOUS
<1>1. CASE Keygen
  BY <1>1, KeygenInv
<1>2. CASE KeygenSigned
  BY <1>2, KeygenSignedInv
<1>3. CASE MakeOne \/ MakeWithRestart \/ MakeKi \/ MakeBatch \/ MakePacked \/ MakeTriple
  BY <1>3, MakeInv
<1>4. CASE RefreshKey
  BY <1>4, RefreshInv
<1>5. CASE ReshareKey
  BY <1>5, ReshareInv
<1>6. CASE ClearStore
  <2>1. /\ UNCHANGED <<committee, key, pub, recs, used, epochs>> /\ DOMAIN store' = DOMAIN store
        /\ \A p \in Parties : store'[p] \subseteq store[p]
    BY <1>6 DEF ClearStore, CInv, RecordsHeld
  <2>2. KeyHeld' /\ RecordsHeld'
    BY <2>1 DEF CInv, KeyHeld, RecordsHeld
  <2>3. Spent'
    <3>1. ASSUME NEW w \in used
          PROVE  /\ w[1] \in DOMAIN recs /\ w[2] \subseteq DOMAIN recs[w[1]].u.sh
                 /\ \A p \in w[2] : w[1] \notin store[p] /\ p \in Parties
      BY HoldersAreParties DEF CInv, Spent
    <3> QED
      BY <2>1, <3>1 DEF Spent
  <2> QED
    BY <2>1, <2>2, <2>3 DEF CInv, Apart
<1>7. CASE Sign \/ SignRobust \/ SignRerand \/ SignPacked \/ SignKi
  BY <1>7, SignSpends, SpendInv
<1>8. CASE Return \/ UNCHANGED vars
  BY <1>8 DEF Return, vars, CInv, KeyHeld, RecordsHeld, Spent, Apart
<1> QED
  BY <1>1, <1>2, <1>3, <1>4, <1>5, <1>6, <1>7, <1>8 DEF Next

LEMMA AlwaysCInv == Spec => []CInv
BY InitCInv, NextCInv, PTL DEF Spec

(* Two requests that both had a quorum used up twice as many holders.      *)
LEMMA ApartOnce == CInv => NonceOnce
<1> SUFFICES ASSUME CInv, NEW v \in used, NEW w \in used, v[1] = w[1], v # w,
                    NEW r, r = recs[v[1]], NEW M, M = DOMAIN r.u.sh
             PROVE  /\ v[2] \intersect w[2] = {}
                    /\ Cardinality(v[2]) >= r.quorum /\ Cardinality(w[2]) >= r.quorum =>
                          Cardinality(M) >= 2 * r.quorum
  BY DEF NonceOnce
<1>1. v[2] \intersect w[2] = {}
  BY DEF CInv, Apart
<1>2. v[1] \in DOMAIN recs /\ v[2] \subseteq M /\ w[2] \subseteq M
  BY DEF CInv, Spent
<1>3. PICK n \in Nat : n = r.quorum
  BY <1>2 DEF CInv, RecordsHeld, Fit
<1>4. IsFiniteSet(M)
  BY <1>2, HoldersAreParties, PartiesFinite, FS_Subset
<1>5. PICK a \in Nat, b \in Nat, c \in Nat :
        a = Cardinality(v[2]) /\ b = Cardinality(w[2]) /\ c = Cardinality(M)
  BY <1>2, <1>4, FS_Subset, FS_CardinalityType
<1>6. ~(a + b > c)
  BY <1>1, <1>2, <1>4, <1>5, FS_MajoritiesIntersect
<1> QED
  BY <1>1, <1>3, <1>5, <1>6

-----------------------------------------------------------------------------
(* What the key and the records are good for *)

(* The shares of a key that is held make its secret, any T of them.        *)
LEMMA HeldIntact ==
  ASSUME CInv
  PROVE  KeyIntact
<1> SUFFICES ASSUME key # NoKey PROVE KeyIntact
  BY DEF KeyIntact
<1>1. Held(key, committee.ids, T) /\ key.com[1] = pub /\ Eligible(committee)
  BY DEF CInv, KeyHeld
<1>2. /\ committee.ids \in SUBSET Scalar /\ T \in Nat /\ T > 0
  BY <1>1, EligiblePlaces
<1>3. BadShares(key) = {}
  BY <1>1, <1>2, HeldNoneBad
<1>4. key.com \in Com(T) /\ Len(key.com) = T /\ EvalCom(key.com, 0) = pub /\ pub \in Scalar
  <2>1. key.com \in Com(T)
    BY <1>1 DEF Held
  <2> QED
    BY <1>1, <1>2, <2>1, ComTyped, AtZeroIsFirst
<1>5. ASSUME NEW S \in kSubset(T, committee.ids)
      PROVE  (Gen * Interpolate(0, Restrict(key.sh, S))) % Q = pub
  <2>1. S \subseteq committee.ids /\ S \in SUBSET Scalar /\ Cardinality(S) = T
    BY <1>2 DEF kSubset
  <2>2. PICK f : f = Restrict(key.sh, S)
    OBVIOUS
  <2>3. DOMAIN f = S /\ \A j \in S : f[j] \in Int /\ EvalCom(key.com, j) \cong Gen * f[j]
    BY <1>1, <2>1, <2>2, ScalarInt DEF Held, Restrict
  <2>4. PICK z \in Int, n \in Nat : z = 0 /\ n = T
    BY <1>2
  <2>5. Cardinality(S) >= n /\ key.com \in Com(n)
    BY <1>4, <2>1, <2>4
  <2>6. z \in Int
    OBVIOUS
  <2>7. Interpolate(z, f) \in Scalar /\ EvalCom(key.com, z) \cong Gen * Interpolate(z, f)
    BY <2>1, <2>3, <2>5, <2>6, InterpolateSound
  <2>8. PICK v \in Int : v = Interpolate(0, f)
    BY <2>4, <2>7, ScalarInt
  <2>9. pub \cong Gen * v
    BY <1>4, <2>4, <2>7, <2>8
  <2>10. Gen * v \in Int /\ pub % Q = pub
    BY <1>4, ScalarInt, Reduce
  <2> QED
    BY <2>2, <2>8, <2>9, <2>10 DEF \cong
<1> QED
  BY <1>1, <1>3, <1>4, <1>5 DEF KeyIntact

(* The public key and the parties are of the field.                        *)
LEMMA PubTyped ==
  ASSUME CInv, key # NoKey
  PROVE  pub \in Scalar /\ pub \in Int
<1>1. key.com \in Com(T) /\ T \in Nat /\ T > 0 /\ key.com[1] = pub
  BY CustodyAssumption DEF CInv, KeyHeld, Held
<1> QED
  BY <1>1, AtZeroIsFirst, ScalarInt

LEMMA PartiesScalar == Parties \in SUBSET Scalar
BY CustodyAssumption, FieldAssumption DEF Parties, Scalar

(* A record that fits is one that any quorum can read.                     *)
LEMMA FitSound ==
  ASSUME CInv
  PROVE  RecordsSound
<1> SUFFICES ASSUME NEW id \in DOMAIN recs, NEW r, r = recs[id]
             PROVE  /\ r.r = XCoord(r.R) /\ r.r # 0
                    /\ BadShares(r.u) = {} /\ BadShares(r.z) = {}
                    /\ \A S \in kSubset(r.quorum, DOMAIN r.u.sh) :
                         /\ (r.R * Interpolate(r.at, Restrict(r.u.sh, S))) % Q = Gen
                         /\ r.kind # "free" => (pub * Interpolate(r.at, Restrict(r.u.sh, S))) % Q
                                             = (Gen * Interpolate(r.at, Restrict(r.z.sh, S))) % Q
  BY DEF RecordsSound
<1>1. Fit(r, pub) /\ r.ids \subseteq Parties
  BY DEF CInv, RecordsHeld
<1>2. key # NoKey
  <2>1. recs # <<>>
    OBVIOUS
  <2> QED
    BY <2>1 DEF CInv, RecordsHeld
<1>3. PICK M : M = DOMAIN r.u.sh
  OBVIOUS
<1>4. M \in SUBSET Scalar
  BY <1>1, <1>3, PartiesScalar DEF Fit
<1>5. PICK s \in Int, n \in Nat : s = r.at /\ n = r.quorum
  BY <1>1, ScalarInt DEF Fit
<1>6. /\ InverseOf(r.u, r.R, M, n, s) /\ Held(r.u, M, n) /\ Held(r.z, M, n)
      /\ r.kind # "free" => BoundTo(r.u, r.z, pub, M, n, s)
  BY <1>1, <1>3, <1>5 DEF Fit, InverseOf
<1>7. BadShares(r.u) = {} /\ BadShares(r.z) = {}
  BY <1>4, <1>6, HeldNoneBad
<1>8. ASSUME NEW S \in kSubset(r.quorum, DOMAIN r.u.sh)
      PROVE  /\ (r.R * Interpolate(r.at, Restrict(r.u.sh, S))) % Q = Gen
             /\ r.kind # "free" => (pub * Interpolate(r.at, Restrict(r.u.sh, S))) % Q
                                 = (Gen * Interpolate(r.at, Restrict(r.z.sh, S))) % Q
  <2>1. S \subseteq M /\ Cardinality(S) >= n
    BY <1>3, <1>5 DEF kSubset
  <2>2. PICK v, w : v = Interpolate(s, Restrict(r.u.sh, S)) /\ w = Interpolate(s, Restrict(r.z.sh, S))
    OBVIOUS
  <2>3. v \in Int /\ w \in Int /\ EvalCom(r.u.com, s) \cong Gen * v /\ EvalCom(r.z.com, s) \cong Gen * w
    BY <1>4, <1>6, <2>1, <2>2, ReadSound
  <2>4. (r.R * v) % Q = Gen
    BY <1>4, <1>6, <2>3, ReadInverse
  <2>5. r.kind # "free" => (pub * v) % Q = (Gen * w) % Q
    BY <1>2, <1>4, <1>6, <2>3, PubTyped, ReadBound
  <2> QED
    BY <1>5, <2>2, <2>4, <2>5
<1> QED
  BY <1>1, <1>7, <1>8 DEF Fit

-----------------------------------------------------------------------------
(* What a signing call returns *)

(* A record rec that the signers of S hold with all of M.                  *)
Usable(rec, M, S, n, s) ==
  /\ {"u", "r", "z", "R"} \subseteq DOMAIN rec
  /\ rec.r = XCoord(rec.R) /\ InverseOf(rec.u, rec.R, M, n, s)
  /\ rec.kind # "free" => Signs(rec, rec.R, pub, M, n, s)
  /\ S \subseteq M /\ S # {} /\ n = rec.quorum
  /\ IF rec.kind = "packed" THEN n = T + B - 1 /\ s = rec.at ELSE n = T /\ s = 0

LEMMA ConsumedUsable ==
  ASSUME CInv, NEW id \in DOMAIN recs, NEW S \in SignerSets, Missing(S, id) = {},
         NEW rec, rec = recs[id]
  PROVE  /\ Copies(Consumed(S, id), rec, S) /\ key # NoKey /\ rec.R \in Scalar
         /\ \E n \in Nat, s \in Scalar, M \in SUBSET Scalar : n > 0 /\ Usable(rec, M, S, n, s)
<1>1. S # {} /\ S \subseteq Parties /\ Fit(rec, pub) /\ rec.ids \subseteq Parties
  BY CustodyAssumption DEF CInv, RecordsHeld
<1>2. key # NoKey
  <2>1. recs # <<>>
    OBVIOUS
  <2> QED
    BY <2>1 DEF CInv, RecordsHeld
<1>3. Copies(Consumed(S, id), rec, S)
  <2>1. Consumed(S, id) = [p \in S |-> rec]
    BY TabulateIs DEF Consumed
  <2> QED
    BY <2>1 DEF Copies
<1>4. PICK M : M = DOMAIN rec.u.sh
  OBVIOUS
<1>5. M \in SUBSET Scalar /\ S \subseteq M
  <2>1. M \in SUBSET Scalar
    BY <1>1, <1>4, PartiesScalar DEF Fit
  <2>2. ASSUME NEW p \in S PROVE p \in M
    BY <1>1, <1>4 DEF Missing, CInv, RecordsHeld
  <2> QED
    BY <2>1, <2>2
<1>6. PICK n \in Nat, s \in Scalar : n = rec.quorum /\ s = rec.at /\ n > 0
  BY <1>1 DEF Fit
<1>7. rec.r = XCoord(rec.R) /\ InverseOf(rec.u, rec.R, M, n, s) /\ rec.R \in Scalar
      /\ {"u", "r", "z", "R"} \subseteq DOMAIN rec
  BY <1>1, <1>4, <1>6 DEF Fit, InverseOf
<1>8. rec.kind # "free" => Signs(rec, rec.R, pub, M, n, s)
  BY <1>1, <1>2, <1>4, <1>6, <1>7, PubTyped DEF Fit, Signs
<1>9. IF rec.kind = "packed" THEN n = T + B - 1 /\ s = rec.at ELSE n = T /\ s = 0
  BY <1>1, <1>6 DEF Fit
<1> QED
  BY <1>1, <1>2, <1>3, <1>5, <1>6, <1>7, <1>8, <1>9 DEF Usable

(* The tweaked copies are copies of the tweaked record.                    *)
LEMMA TweakedUsable ==
  ASSUME NEW q \in Requests, NEW n \in Nat, NEW s \in Int, NEW M \in SUBSET Scalar, NEW S, NEW rec,
         Usable(rec, M, S, n, s), rec.kind # "free", NEW pre, Copies(pre, rec, S)
  PROVE  \E new : /\ Copies(Tweaked(pre, q), new, S)
                  /\ Signs(new, rec.R, (pub + Gen * q.tau) % Q, M, n, s)
<1>1. q.tau \in Int
  BY CustodyAssumption, ScalarInt
<1>2. PICK new : new = ApplyTweak(rec, q.tau)
  OBVIOUS
<1>3. Signs(rec, rec.R, pub, M, n, s) /\ {"r", "u", "z"} \subseteq DOMAIN rec
  BY DEF Usable
<1>4. Signs(new, rec.R, (pub + Gen * q.tau) % Q, M, n, s)
  BY <1>1, <1>2, <1>3, TweakSigns
<1>5. Copies(Tweaked(pre, q), new, S)
  BY <1>2 DEF Copies, Tweaked
<1> QED
  BY <1>4, <1>5

(* What a call may answer that signs with the nonce point R under X.       *)
Judged(op, out, R, X, m, cheat, S, n) ==
  IF op = "deliver" THEN n = T /\ AnswerRobust(out, R, X, m, cheat, S, n)
  ELSE Answer(out, R, X, m, cheat, S, n)

RInv == SignaturesVerify /\ FailsForCause /\ OnlyCulpritsBlamed

(* A call names nobody but the party that deviated.                        *)
Rightly(op, cheat, out) ==
  Blames(out, Culprits(cheat)) /\ (op \in GoesOn => Expels(out, Culprits(cheat)))

LEMMA RightlyHolds ==
  ASSUME NEW op, NEW cheat, NEW out, Rightly(op, cheat, out),
         result'.op = op, result'.cheat = cheat, result'.out = out
  PROVE  OnlyCulpritsBlamed'
<1>1. PICK W : W = Culprits(cheat)
  OBVIOUS
<1>2. \A V : V # {} /\ V \subseteq W => V = W
  <2>1. W = {} \/ \E p : W = {p}
    BY <1>1 DEF Culprits
  <2> QED
    BY <2>1
<1>3. ~out.ok /\ out.err = "abort" => out.blamed # {} /\ out.blamed = W
  BY <1>1, <1>2 DEF Rightly, Blames
<1>4. out.ok /\ op \in GoesOn => out.val.blamed \subseteq W
  BY <1>1 DEF Rightly, Expels
<1> QED
  BY <1>1, <1>3, <1>4 DEF OnlyCulpritsBlamed

(* The call spends the record for the request and returns what run gives.  *)
Answers(op, cheat, id, S, q, run) ==
  /\ Spend(S, id, q)
  /\ result' = [op |-> op, cheat |-> cheat, out |-> IF Missing(S, id) = {} THEN run ELSE Fail("store"),
                id |-> id, S |-> S, q |-> q]

LEMMA JudgedHolds ==
  ASSUME CInv, NEW id \in DOMAIN recs, NEW S \in SignerSets, NEW q \in Requests, NEW op \in SigningCalls,
         NEW cheat, NEW run, Answers(op, cheat, id, S, q, run),
         Missing(S, id) = {} =>
            Judged(op, run, (recs[id].R * IF op = "rerand" THEN q.gamma ELSE 1) % Q,
                   IF op = "bind" THEN pub ELSE (pub + Gen * q.tau) % Q, q.m, cheat, S, recs[id].quorum)
  PROVE  RInv'
<1>0. PICK out : out = IF Missing(S, id) = {} THEN run ELSE Fail("store")
  OBVIOUS
<1>1. /\ result'.op = op /\ result'.cheat = cheat /\ result'.out = out
      /\ result'.id = id /\ result'.S = S /\ result'.q = q
  BY <1>0 DEF Answers
<1>2. Spend(S, id, q) /\ recs' = recs /\ pub' = pub
  BY DEF Spend, Answers
<1>3. PICK R, X : /\ R = (recs[id].R * IF op = "rerand" THEN q.gamma ELSE 1) % Q
                  /\ X = IF op = "bind" THEN pub ELSE (pub + Gen * q.tau) % Q
  OBVIOUS
<1>4. NonceFor(q)' = R /\ KeyFor(q)' = X
  BY <1>1, <1>2, <1>3 DEF NonceFor, KeyFor
<1>5. CASE Missing(S, id) # {}
  <2>1. out = Fail("store") /\ ~out.ok /\ out.err = "store"
    BY <1>0, <1>5, Results
  <2>2. PICK p \in S : id \notin store[p] /\ p \in Parties
    BY <1>5, CustodyAssumption DEF Missing
  <2>3. id \notin store'[p]
    BY <1>2, <2>2 DEF Spend
  <2>4. Rightly(op, cheat, out)
    BY <2>1 DEF Rightly, Expels, Blames
  <2>5. OnlyCulpritsBlamed'
    BY <1>1, <2>4, RightlyHolds
  <2> QED
    BY <1>1, <2>1, <2>2, <2>3, <2>5 DEF RInv, SignaturesVerify, FailsForCause, Signed
<1>6. CASE Missing(S, id) = {}
  <2>1. Judged(op, out, R, X, q.m, cheat, S, recs[id].quorum)
    BY <1>0, <1>3, <1>6
  <2>2. SignaturesVerify'
    <3>1. SUFFICES ASSUME out.ok
                   PROVE  LET sig == IF op = "deliver" THEN out.val.sig ELSE out.val
                          IN  Verifies(X, q.m, sig) /\ sig.r = XCoord(R) /\ 2 * sig.s <= Q
      BY <1>1, <1>4 DEF SignaturesVerify
    <3> QED
      BY <2>1, <3>1 DEF Judged, Answer, AnswerRobust, Signature
  <2>3. FailsForCause'
    <3>1. SUFFICES ASSUME ~out.ok
                   PROVE  CASE out.err = "abort" -> cheat # Honest
                            [] out.err = "zero"  -> XCoord(R) = 0 \/ (Gen * q.m + XCoord(R) * X) % Q = 0
                            [] out.err = "few"   ->
                                 \/ Cardinality(S) < recs[id].quorum
                                 \/ op = "deliver" /\ cheat # Honest /\ Cardinality(S) <= T
                            [] out.err = "store" -> \E p \in S : id \notin store'[p]
                            [] OTHER             -> FALSE
      BY <1>1, <1>2, <1>4 DEF FailsForCause
    <3>2. \/ out.err = "abort" /\ cheat # Honest
          \/ /\ out.err = "few"
             /\ \/ Cardinality(S) < recs[id].quorum
                \/ op = "deliver" /\ cheat # Honest /\ Cardinality(S) <= T
          \/ out.err = "zero" /\ ZeroScalars(R, X, q.m)
      BY <2>1, <3>1 DEF Judged, Answer, AnswerRobust
    <3> QED
      BY <3>2 DEF ZeroScalars
  <2>4. Rightly(op, cheat, out)
    <3>1. CASE op = "deliver"
      BY <2>1, <3>1 DEF Judged, AnswerRobust, Rightly, Expels
    <3>2. CASE op # "deliver"
      <4>1. op \notin GoesOn
        BY <3>2 DEF SigningCalls, GoesOn
      <4> QED
        BY <2>1, <3>2, <4>1 DEF Judged, Answer, Rightly
    <3> QED
      BY <3>1, <3>2
  <2>5. OnlyCulpritsBlamed'
    BY <1>1, <2>4, RightlyHolds
  <2> QED
    BY <2>2, <2>3, <2>5 DEF RInv
<1> QED
  BY <1>5, <1>6

LEMMA AskedTyped ==
  ASSUME NEW q \in Requests
  PROVE  q.m \in Int /\ q.tau \in Int /\ q.gamma \in Scalar \ {0}
<1>1. q.m \in Scalar /\ q.tau \in Scalar /\ q.gamma \in Scalar \ {0}
  BY CustodyAssumption
<1> QED
  BY <1>1, ScalarInt

(* The nonce point is not scaled.                                          *)
LEMMA SamePoint == \A R \in Scalar : (R * 1) % Q = R
<1> SUFFICES ASSUME NEW R \in Scalar PROVE (R * 1) % Q = R
  OBVIOUS
<1>1. R \in Int /\ R * 1 = R
  BY ScalarInt
<1> QED
  BY <1>1, Reduce

LEMMA SignJudged ==
  ASSUME CInv, NEW id \in DOMAIN recs, recs[id].kind = "bound", NEW S \in SignerSets, NEW q \in Requests,
         NEW cheat, Missing(S, id) = {},
         NEW out, out = RunSign(T, Tweaked(Consumed(S, id), q), q.m, cheat)
  PROVE  Answer(out, recs[id].R, (pub + Gen * q.tau) % Q, q.m, cheat, S, recs[id].quorum)
<1>1. PICK rec, pre : rec = recs[id] /\ pre = Consumed(S, id)
  OBVIOUS
<1>2. PICK n \in Nat, s \in Scalar, M \in SUBSET Scalar :
        n > 0 /\ Usable(rec, M, S, n, s) /\ Copies(pre, rec, S)
  BY <1>1, ConsumedUsable
<1>3. n = T /\ s = 0 /\ rec.kind # "free" /\ S \in SUBSET M /\ S # {} /\ n = rec.quorum /\ s \in Int
  BY <1>1, <1>2, ScalarInt DEF Usable
<1>4. PICK new, X : /\ Copies(Tweaked(pre, q), new, S) /\ X = (pub + Gen * q.tau) % Q
                    /\ Signs(new, rec.R, X, M, n, s)
  BY <1>2, <1>3, TweakedUsable
<1>5. PICK p, com : p = Tweaked(pre, q) /\ com = CombineAt(s, n, p, q.m, cheat)
  OBVIOUS
<1>6. out = IF com.ok THEN FromScalars(com.val) ELSE com
  BY <1>1, <1>3, <1>5 DEF RunSign, Combine, Then
<1>7. q.m \in Int
  BY AskedTyped
<1>8. Answer(out, rec.R, X, q.m, cheat, S, n)
  BY <1>2, <1>3, <1>4, <1>5, <1>6, <1>7, RunAtSound
<1> QED
  BY <1>1, <1>3, <1>4, <1>8

LEMMA SignRobustJudged ==
  ASSUME CInv, NEW id \in DOMAIN recs, recs[id].kind = "bound", NEW S \in SignerSets, NEW q \in Requests,
         NEW cheat, Missing(S, id) = {},
         NEW out, out = RunSignRobust(T, Tweaked(Consumed(S, id), q), q.m, cheat)
  PROVE  AnswerRobust(out, recs[id].R, (pub + Gen * q.tau) % Q, q.m, cheat, S, recs[id].quorum)
<1>1. PICK rec, pre : rec = recs[id] /\ pre = Consumed(S, id)
  OBVIOUS
<1>2. PICK n \in Nat, s \in Scalar, M \in SUBSET Scalar :
        n > 0 /\ Usable(rec, M, S, n, s) /\ Copies(pre, rec, S)
  BY <1>1, ConsumedUsable
<1>3. n = T /\ s = 0 /\ rec.kind # "free" /\ S \in SUBSET M /\ S # {} /\ n = rec.quorum /\ s \in Int
  BY <1>1, <1>2, ScalarInt DEF Usable
<1>4. PICK new, X : /\ Copies(Tweaked(pre, q), new, S) /\ X = (pub + Gen * q.tau) % Q
                    /\ Signs(new, rec.R, X, M, n, s)
  BY <1>2, <1>3, TweakedUsable
<1>5. PICK p : p = Tweaked(pre, q)
  OBVIOUS
<1>6. out = RunSignRobust(n, p, q.m, cheat)
  BY <1>1, <1>3, <1>5
<1>7. q.m \in Int
  BY AskedTyped
<1>8. Signs(new, rec.R, X, M, n, 0)
  BY <1>3, <1>4
<1>9. AnswerRobust(out, rec.R, X, q.m, cheat, S, n)
  BY <1>2, <1>3, <1>4, <1>5, <1>6, <1>7, <1>8, RunRobustSound
<1> QED
  BY <1>1, <1>3, <1>4, <1>9

LEMMA SignRerandJudged ==
  ASSUME CInv, NEW id \in DOMAIN recs, recs[id].kind = "bound", NEW S \in SignerSets, NEW q \in Requests,
         NEW cheat, Missing(S, id) = {},
         NEW out, out = RunSignRerand(T, Consumed(S, id), q.m, q.gamma, q.tau, cheat)
  PROVE  Answer(out, (recs[id].R * q.gamma) % Q, (pub + Gen * q.tau) % Q, q.m, cheat, S, recs[id].quorum)
<1>1. PICK rec, pre : rec = recs[id] /\ pre = Consumed(S, id)
  OBVIOUS
<1>2. PICK n \in Nat, s \in Scalar, M \in SUBSET Scalar :
        n > 0 /\ Usable(rec, M, S, n, s) /\ Copies(pre, rec, S) /\ rec.R \in Scalar
  BY <1>1, ConsumedUsable
<1>3. n = T /\ s = 0 /\ rec.kind # "free" /\ S \in SUBSET M /\ S # {} /\ n = rec.quorum /\ s \in Int
  BY <1>1, <1>2, ScalarInt DEF Usable
<1>4. PICK new, R, X : /\ new = Rerandomised(rec, q.gamma, q.tau)
                       /\ R = (rec.R * q.gamma) % Q /\ X = (pub + Gen * q.tau) % Q
  OBVIOUS
<1>5. q.m \in Int /\ q.tau \in Int /\ q.gamma \in Scalar \ {0}
  BY AskedTyped
<1>6. Signs(new, R, X, M, n, s)
  <2>1. Signs(rec, rec.R, pub, M, n, s) /\ {"r", "u", "z", "R"} \subseteq DOMAIN rec
    BY <1>2, <1>3 DEF Usable
  <2> QED
    BY <1>2, <1>3, <1>4, <1>5, <2>1, RerandSigns
<1>7. PICK p, com : /\ p = [j \in DOMAIN pre |-> Rerandomised(pre[j], q.gamma, q.tau)]
                    /\ com = CombineAt(s, n, p, q.m, cheat)
  OBVIOUS
<1>8. Copies(p, new, S)
  BY <1>2, <1>4, <1>7 DEF Copies
<1>9. out = IF com.ok THEN FromScalars(com.val) ELSE com
  BY <1>1, <1>3, <1>7 DEF RunSignRerand, CombineRerand, Combine, Then
<1>10. Answer(out, R, X, q.m, cheat, S, n)
  BY <1>2, <1>3, <1>5, <1>6, <1>7, <1>8, <1>9, RunAtSound
<1> QED
  BY <1>1, <1>3, <1>4, <1>10

LEMMA SignPackedJudged ==
  ASSUME CInv, NEW id \in DOMAIN recs, recs[id].kind = "packed", NEW S \in SignerSets, NEW q \in Requests,
         NEW cheat, Missing(S, id) = {}, NEW pre, pre = Consumed(S, id),
         NEW out, out = RunSignPacked(T, B, (Q - Meta(pre).at) % Q, Tweaked(pre, q), q.m, cheat)
  PROVE  Answer(out, recs[id].R, (pub + Gen * q.tau) % Q, q.m, cheat, S, recs[id].quorum)
<1>1. PICK rec : rec = recs[id]
  OBVIOUS
<1>2. PICK n \in Nat, s \in Scalar, M \in SUBSET Scalar :
        n > 0 /\ Usable(rec, M, S, n, s) /\ Copies(pre, rec, S)
  BY <1>1, ConsumedUsable
<1>3. /\ n = T + B - 1 /\ s = rec.at /\ rec.kind # "free" /\ s \in Int
      /\ S \in SUBSET M /\ S \in SUBSET Scalar /\ S # {} /\ n = rec.quorum
  BY <1>1, <1>2, ScalarInt DEF Usable
<1>4. PICK new, X : /\ Copies(Tweaked(pre, q), new, S) /\ X = (pub + Gen * q.tau) % Q
                    /\ Signs(new, rec.R, X, M, n, s)
  BY <1>2, <1>3, TweakedUsable
<1>5. Meta(pre) = rec
  BY <1>2, <1>3, MetaIs
<1>6. SlotPoint((Q - s) % Q) = s
  BY FieldAssumption DEF SlotPoint, Scalar
<1>7. PICK p, com : p = Tweaked(pre, q) /\ com = CombineAt(s, n, p, q.m, cheat)
  OBVIOUS
<1>8. out = IF com.ok THEN FromScalars(com.val) ELSE com
  BY <1>3, <1>5, <1>6, <1>7 DEF RunSignPacked, Then
<1>9. q.m \in Int
  BY AskedTyped
<1>10. Answer(out, rec.R, X, q.m, cheat, S, n)
  BY <1>2, <1>3, <1>4, <1>7, <1>8, <1>9, RunAtSound
<1> QED
  BY <1>1, <1>3, <1>4, <1>10

LEMMA SignKiJudged ==
  ASSUME CInv, NEW id \in DOMAIN recs, recs[id].kind = "free", NEW S \in SignerSets, NEW q \in Requests,
         NEW cheat, Missing(S, id) = {}, S \subseteq committee.ids, S = 1..Cardinality(S),
         NEW pre, pre = Consumed(S, id), NEW seed,
         NEW out, out = RunSignKi(committee, Among(DOMAIN pre, key), pre, q.m, seed, cheat)
  PROVE  Answer(out, recs[id].R, pub, q.m, cheat, S, recs[id].quorum)
<1>1. PICK rec, R : rec = recs[id] /\ R = rec.R
  OBVIOUS
<1>2. PICK n \in Nat, s \in Scalar, M \in SUBSET Scalar :
        n > 0 /\ Usable(rec, M, S, n, s) /\ Copies(pre, rec, S) /\ key # NoKey
  BY <1>1, ConsumedUsable
<1>3. /\ n = T /\ s = 0 /\ S \subseteq M /\ S # {} /\ n = rec.quorum
      /\ {"u", "r", "z", "R"} \subseteq DOMAIN rec /\ rec.r = XCoord(R)
      /\ InverseOf(rec.u, R, M, n, 0)
  BY <1>1, <1>2 DEF Usable
<1>4. /\ Places(committee.ids) /\ committee.ids \subseteq 1..(Q - 1) /\ committee.t = n
      /\ Cardinality(committee.ids) >= 2 * committee.t - 1
      /\ Held(key, committee.ids, committee.t) /\ key.com[1] = pub
  BY <1>2, <1>3, KeyMakers DEF CInv, KeyHeld, Eligible
<1>5. PICK C : C = committee
  OBVIOUS
<1>6. PICK c \in Nat : Numbered(S, c)
  <2>1. S \in SUBSET Scalar
    BY <1>2, <1>3
  <2>2. Cardinality(S) \in Nat
    BY <2>1, ScalarsFinite
  <2> QED
    BY <2>2 DEF Numbered
<1>7. PICK m \in Int : m = q.m
  BY AskedTyped
<1>8. out = RunSignKi(C, Among(S, key), pre, m, seed, cheat)
  BY <1>2, <1>5, <1>7 DEF Copies
<1>9. /\ Places(C.ids) /\ C.ids \subseteq 1..(Q - 1) /\ C.t \in Nat /\ C.t > 0
      /\ Cardinality(C.ids) >= 2 * C.t - 1 /\ Held(key, C.ids, C.t) /\ S \in SUBSET C.ids
      /\ C.t = rec.quorum /\ InverseOf(rec.u, R, M, C.t, 0)
  BY <1>2, <1>3, <1>4, <1>5
<1>10. Answer(out, R, key.com[1], m, cheat, S, C.t)
  BY <1>2, <1>3, <1>6, <1>8, <1>9, RunSignKiSound
<1> QED
  BY <1>1, <1>4, <1>7, <1>9, <1>10

PackedAnswer(pre, q, cheat) ==
  RunSignPacked(T, B, (Q - Meta(pre).at) % Q, Tweaked(pre, q), q.m, cheat)

KiAnswer(pre, q, cheat) ==
  RunSignKi(committee, Among(DOMAIN pre, key), pre, q.m, Seed(10), cheat)

LEMMA SignResult ==
  ASSUME CInv, Sign
  PROVE  RInv'
<1>1. PICK cheat : \E id \in DOMAIN recs, S \in SignerSets, q \in Requests :
        /\ recs[id].kind \in {"bound"}
        /\ Answers("sign", cheat, id, S, q,
                  RunSign(T, Tweaked(Consumed(S, id), q), q.m, cheat))
  BY ZenonT(40) DEF Sign, SignStored, Answers
<1>2. PICK id \in DOMAIN recs, S \in SignerSets, q \in Requests :
        /\ recs[id].kind = "bound"
        /\ Answers("sign", cheat, id, S, q,
                  RunSign(T, Tweaked(Consumed(S, id), q), q.m, cheat))
  BY <1>1
<1>3. PICK op, out : op = "sign" /\ out = RunSign(T, Tweaked(Consumed(S, id), q), q.m, cheat)
  OBVIOUS
<1>4. op \in SigningCalls /\ Answers(op, cheat, id, S, q, out)
  BY <1>2, <1>3 DEF SigningCalls, Answers
<1>5. ASSUME Missing(S, id) = {}
      PROVE  Judged(op, out, (recs[id].R * IF op = "rerand" THEN q.gamma ELSE 1) % Q,
                    IF op = "bind" THEN pub ELSE (pub + Gen * q.tau) % Q, q.m, cheat, S, recs[id].quorum)
  <2>1. Answer(out, recs[id].R, (pub + Gen * q.tau) % Q, q.m, cheat, S, recs[id].quorum)
    BY <1>2, <1>3, <1>4, <1>5, SignJudged
  <2>2. recs[id].R \in Scalar
    BY <1>4, <1>5, ConsumedUsable
  <2> QED
    BY <1>3, <2>1, <2>2, SamePoint DEF Judged
<1> QED
  BY <1>4, <1>5, JudgedHolds

LEMMA SignRobustResult ==
  ASSUME CInv, SignRobust
  PROVE  RInv'
<1>1. PICK cheat : \E id \in DOMAIN recs, S \in SignerSets, q \in Requests :
        /\ recs[id].kind \in {"bound"}
        /\ Answers("deliver", cheat, id, S, q,
                  RunSignRobust(T, Tweaked(Consumed(S, id), q), q.m, cheat))
  BY ZenonT(40) DEF SignRobust, SignStored, Answers
<1>2. PICK id \in DOMAIN recs, S \in SignerSets, q \in Requests :
        /\ recs[id].kind = "bound"
        /\ Answers("deliver", cheat, id, S, q,
                  RunSignRobust(T, Tweaked(Consumed(S, id), q), q.m, cheat))
  BY <1>1
<1>3. PICK op, out : op = "deliver" /\ out = RunSignRobust(T, Tweaked(Consumed(S, id), q), q.m, cheat)
  OBVIOUS
<1>4. op \in SigningCalls /\ Answers(op, cheat, id, S, q, out)
  BY <1>2, <1>3 DEF SigningCalls, Answers
<1>5. ASSUME Missing(S, id) = {}
      PROVE  Judged(op, out, (recs[id].R * IF op = "rerand" THEN q.gamma ELSE 1) % Q,
                    IF op = "bind" THEN pub ELSE (pub + Gen * q.tau) % Q, q.m, cheat, S, recs[id].quorum)
  <2>1. AnswerRobust(out, recs[id].R, (pub + Gen * q.tau) % Q, q.m, cheat, S, recs[id].quorum)
    BY <1>2, <1>3, <1>4, <1>5, SignRobustJudged
  <2>2. recs[id].R \in Scalar
    BY <1>4, <1>5, ConsumedUsable
  <2>3. recs[id].quorum = T
    BY <1>2 DEF CInv, RecordsHeld, Fit
  <2> QED
    BY <1>3, <2>1, <2>2, <2>3, SamePoint DEF Judged
<1> QED
  BY <1>4, <1>5, JudgedHolds

LEMMA SignRerandResult ==
  ASSUME CInv, SignRerand
  PROVE  RInv'
<1>1. PICK cheat : \E id \in DOMAIN recs, S \in SignerSets, q \in Requests :
        /\ recs[id].kind \in {"bound"}
        /\ Answers("rerand", cheat, id, S, q,
                  RunSignRerand(T, Consumed(S, id), q.m, q.gamma, q.tau, cheat))
  BY ZenonT(40) DEF SignRerand, SignStored, Answers
<1>2. PICK id \in DOMAIN recs, S \in SignerSets, q \in Requests :
        /\ recs[id].kind = "bound"
        /\ Answers("rerand", cheat, id, S, q,
                  RunSignRerand(T, Consumed(S, id), q.m, q.gamma, q.tau, cheat))
  BY <1>1
<1>3. PICK op, out : op = "rerand" /\ out = RunSignRerand(T, Consumed(S, id), q.m, q.gamma, q.tau, cheat)
  OBVIOUS
<1>4. op \in SigningCalls /\ Answers(op, cheat, id, S, q, out)
  BY <1>2, <1>3 DEF SigningCalls, Answers
<1>5. ASSUME Missing(S, id) = {}
      PROVE  Judged(op, out, (recs[id].R * IF op = "rerand" THEN q.gamma ELSE 1) % Q,
                    IF op = "bind" THEN pub ELSE (pub + Gen * q.tau) % Q, q.m, cheat, S, recs[id].quorum)
  <2>1. Answer(out, (recs[id].R * q.gamma) % Q, (pub + Gen * q.tau) % Q, q.m, cheat, S, recs[id].quorum)
    BY <1>2, <1>3, <1>4, <1>5, SignRerandJudged
  <2>2. recs[id].R \in Scalar
    BY <1>4, <1>5, ConsumedUsable
  <2> QED
    BY <1>3, <2>1, <2>2, SamePoint DEF Judged
<1> QED
  BY <1>4, <1>5, JudgedHolds

LEMMA SignPackedResult ==
  ASSUME CInv, SignPacked
  PROVE  RInv'
<1>1. PICK cheat : \E id \in DOMAIN recs, S \in SignerSets, q \in Requests :
        /\ recs[id].kind \in {"packed"}
        /\ Answers("packed", cheat, id, S, q,
                  PackedAnswer(Consumed(S, id), q, cheat))
  BY ZenonT(40) DEF SignPacked, SignStored, Answers, PackedAnswer
<1>2. PICK id \in DOMAIN recs, S \in SignerSets, q \in Requests :
        /\ recs[id].kind = "packed"
        /\ Answers("packed", cheat, id, S, q,
                  PackedAnswer(Consumed(S, id), q, cheat))
  BY <1>1
<1>3. PICK op, out : op = "packed" /\ out = PackedAnswer(Consumed(S, id), q, cheat)
  OBVIOUS
<1>4. op \in SigningCalls /\ Answers(op, cheat, id, S, q, out)
  BY <1>2, <1>3 DEF SigningCalls, Answers
<1>5. ASSUME Missing(S, id) = {}
      PROVE  Judged(op, out, (recs[id].R * IF op = "rerand" THEN q.gamma ELSE 1) % Q,
                    IF op = "bind" THEN pub ELSE (pub + Gen * q.tau) % Q, q.m, cheat, S, recs[id].quorum)
  <2>1. Answer(out, recs[id].R, (pub + Gen * q.tau) % Q, q.m, cheat, S, recs[id].quorum)
    BY <1>2, <1>3, <1>4, <1>5, SignPackedJudged DEF PackedAnswer
  <2>2. recs[id].R \in Scalar
    BY <1>4, <1>5, ConsumedUsable
  <2> QED
    BY <1>3, <2>1, <2>2, SamePoint DEF Judged
<1> QED
  BY <1>4, <1>5, JudgedHolds

LEMMA SignKiResult ==
  ASSUME CInv, SignKi
  PROVE  RInv'
<1>1. PICK cheat : \E id \in DOMAIN recs, S \in SignerSets, q \in Requests :
        /\ recs[id].kind \in {"free"}
        /\ S \subseteq committee.ids /\ S = 1..Cardinality(S)
        /\ Answers("bind", cheat, id, S, q,
                  KiAnswer(Consumed(S, id), q, cheat))
  BY ZenonT(40) DEF SignKi, SignStored, Answers, KiAnswer
<1>2. PICK id \in DOMAIN recs, S \in SignerSets, q \in Requests :
        /\ recs[id].kind = "free"
        /\ S \subseteq committee.ids /\ S = 1..Cardinality(S)
        /\ Answers("bind", cheat, id, S, q,
                  KiAnswer(Consumed(S, id), q, cheat))
  BY <1>1
<1>3. PICK op, out : op = "bind" /\ out = KiAnswer(Consumed(S, id), q, cheat)
  OBVIOUS
<1>4. op \in SigningCalls /\ Answers(op, cheat, id, S, q, out)
  BY <1>2, <1>3 DEF SigningCalls, Answers
<1>5. ASSUME Missing(S, id) = {}
      PROVE  Judged(op, out, (recs[id].R * IF op = "rerand" THEN q.gamma ELSE 1) % Q,
                    IF op = "bind" THEN pub ELSE (pub + Gen * q.tau) % Q, q.m, cheat, S, recs[id].quorum)
  <2>1. Answer(out, recs[id].R, pub, q.m, cheat, S, recs[id].quorum)
    BY <1>2, <1>3, <1>4, <1>5, SignKiJudged DEF KiAnswer
  <2>2. recs[id].R \in Scalar
    BY <1>4, <1>5, ConsumedUsable
  <2> QED
    BY <1>3, <2>1, <2>2, SamePoint DEF Judged
<1> QED
  BY <1>4, <1>5, JudgedHolds

(* The call that returned is not one that signs, and names only the party  *)
(* that deviated.                                                          *)
Reported ==
  \E op \in {"keygen", "signed", "failfast", "robust"} : \E cheat, out :
    Outcome(op, cheat, out) /\ Rightly(op, cheat, out)

LEMMA Stops ==
  ASSUME NEW op \in {"signed", "failfast"}, NEW cheat, NEW out, Outcome(op, cheat, out),
         Blames(out, Culprits(cheat))
  PROVE  Reported
<1>1. op \notin GoesOn /\ op \in {"keygen", "signed", "failfast", "robust"}
  BY DEF GoesOn
<1>2. Rightly(op, cheat, out)
  BY <1>1 DEF Rightly
<1> QED
  BY <1>1, <1>2, Zenon DEF Reported

LEMMA GoesOnWithout ==
  ASSUME NEW op \in {"keygen", "robust"}, NEW cheat, NEW out, Outcome(op, cheat, out),
         Expels(out, Culprits(cheat))
  PROVE  Reported
<1>1. Rightly(op, cheat, out)
  BY DEF Rightly, Expels
<1>2. op \in {"keygen", "signed", "failfast", "robust"}
  OBVIOUS
<1> QED
  BY <1>1, <1>2, Zenon DEF Reported

(* The committee is one the drivers can run with.                          *)
LEMMA CommitteeRuns ==
  ASSUME CInv
  PROVE  /\ Places(committee.ids) /\ committee.t = T /\ T \in Nat /\ T > 0
         /\ Cardinality(committee.ids) \in Nat /\ Cardinality(committee.ids) > 0
         /\ Cardinality(committee.ids) < Q /\ Cardinality(committee.ids) >= 2 * T - 1
         /\ N \in Nat /\ N > 0 /\ N < Q /\ B \in Nat
<1>1. Eligible(committee)
  BY DEF CInv, KeyHeld
<1>2. PICK S : S = committee.ids
  OBVIOUS
<1>3. Places(S) /\ committee.t = T /\ T \in Nat /\ T > 0 /\ Cardinality(S) \in Nat /\ Cardinality(S) >= T
  BY <1>1, <1>2, EligiblePlaces
<1>4. Cardinality(S) < Q
  <2>1. Q \in Nat /\ Q > 0
    BY FieldAssumption
  <2>2. PICK all : all = 1..(Q - 1)
    OBVIOUS
  <2>3. IsFiniteSet(all) /\ Cardinality(all) = Q - 1
    BY <2>1, <2>2, FS_Interval
  <2>4. S \subseteq all
    BY <1>1, <1>2, <2>2 DEF Eligible
  <2>5. Cardinality(S) <= Cardinality(all)
    BY <2>3, <2>4, FS_Subset
  <2> QED
    BY <1>3, <2>1, <2>3, <2>5
<1>5. Cardinality(S) > 0
  BY <1>3
<1>6. Cardinality(S) >= 2 * T - 1
  BY <1>1, <1>2 DEF Eligible
<1>7. N \in Nat /\ N > 0 /\ N < Q /\ B \in Nat
  BY CustodyAssumption
<1> QED
  BY <1>2, <1>3, <1>4, <1>5, <1>6, <1>7

LEMMA KeygenReported ==
  ASSUME CInv, Keygen \/ KeygenSigned
  PROVE  Reported
<1>1. CASE Keygen
  <2>1. PICK cheat, out : /\ out = RunKeygenWithRestart(N, T, Seed(1), cheat)
                          /\ Outcome("keygen", cheat, out)
    BY <1>1, ZenonT(40) DEF Keygen
  <2>2. Expels(out, Culprits(cheat))
    BY <2>1, CommitteeRuns, KeygenRestartBlames
  <2> QED
    BY <2>1, <2>2, GoesOnWithout
<1>2. CASE KeygenSigned
  <2>1. PICK cheat, out : /\ out = DriveDkgSigned(committee, Fork(Seed(1), 0), cheat)
                          /\ Outcome("signed", cheat, out)
    BY <1>2, ZenonT(40) DEF KeygenSigned
  <2>2. Blames(out, Culprits(cheat))
    BY <2>1, CommitteeRuns, DkgSignedBlames
  <2> QED
    BY <2>1, <2>2, Stops
<1> QED
  BY <1>1, <1>2

LEMMA MakeReported ==
  ASSUME CInv, MakeOne \/ MakeWithRestart \/ MakeKi \/ MakeBatch \/ MakePacked \/ MakeTriple
  PROVE  Reported
<1>1. CASE MakeOne
  <2>1. PICK cheat, out : /\ out = Presign(committee, key, Seed(2), cheat)
                          /\ key # NoKey /\ Outcome("failfast", cheat, out)
    BY <1>1, ZenonT(40) DEF MakeOne, Made, Keyed
  <2>2. Blames(out, Culprits(cheat))
    BY <2>1, KeyMakers, PresignBlames
  <2> QED
    BY <2>1, <2>2, Stops
<1>2. CASE MakeWithRestart
  <2>1. PICK cheat, out : /\ out = RunPresignWithRestart(committee, key, Len(recs) + 1, Seed(3), cheat)
                          /\ key # NoKey /\ Outcome("robust", cheat, out)
    BY <1>2, ZenonT(40) DEF MakeWithRestart, Made, Keyed
  <2>2. Expels(out, Culprits(cheat))
    BY <2>1, KeyMakers, PresignRestartBlames
  <2> QED
    BY <2>1, <2>2, GoesOnWithout
<1>3. CASE MakeKi
  <2>1. PICK cheat, out : /\ out = PresignKi(committee, Seed(4), cheat)
                          /\ key # NoKey /\ Outcome("failfast", cheat, out)
    BY <1>3, ZenonT(40) DEF MakeKi, Made, Keyed
  <2>2. Blames(out, Culprits(cheat))
    BY <2>1, KeyMakers, PresignKiBlames
  <2> QED
    BY <2>1, <2>2, Stops
<1>4. CASE MakeBatch
  <2>1. PICK cheat, out : /\ out = PresignBatch(committee, key, Seed(5), B, cheat)
                          /\ key # NoKey /\ Outcome("failfast", cheat, out)
    BY <1>4, ZenonT(40) DEF MakeBatch, Made, Keyed
  <2>2. Blames(out, Culprits(cheat))
    BY <2>1, KeyMakers, CommitteeRuns, PresignBatchBlames
  <2> QED
    BY <2>1, <2>2, Stops
<1>5. CASE MakePacked
  <2>1. PICK cheat, out : /\ out = PresignPacked(committee, key, Seed(6), B, cheat)
                          /\ key # NoKey /\ Outcome("failfast", cheat, out)
    BY <1>5, ZenonT(40) DEF MakePacked, Made, Keyed
  <2>2. Blames(out, Culprits(cheat))
    BY <2>1, KeyMakers, CommitteeRuns, PresignPackedBlames
  <2> QED
    BY <2>1, <2>2, Stops
<1>6. CASE MakeTriple
  <2>1. PICK cheat, out : /\ out = RunTriplesWithRestart(Cardinality(committee.ids), T, Seed(7), cheat)
                          /\ Outcome("robust", cheat, out)
    BY <1>6, ZenonT(40) DEF MakeTriple, Made
  <2>2. PICK n \in Nat : n = Cardinality(committee.ids) /\ n > 0 /\ n < Q
    BY CommitteeRuns
  <2>3. out = RunTriplesWithRestart(n, T, Seed(7), cheat)
    BY <2>1, <2>2
  <2>4. Expels(out, Culprits(cheat))
    BY <2>2, <2>3, CommitteeRuns, TriplesRestartBlames
  <2> QED
    BY <2>1, <2>4, GoesOnWithout
<1> QED
  BY <1>1, <1>2, <1>3, <1>4, <1>5, <1>6

LEMMA RotateReported ==
  ASSUME CInv, RefreshKey \/ ReshareKey
  PROVE  Reported
<1>1. CASE RefreshKey
  <2>1. PICK cheat, out : /\ out = Refresh(committee, key, Seed(8), cheat)
                          /\ key # NoKey /\ Outcome("failfast", cheat, out)
    BY <1>1, ZenonT(40) DEF RefreshKey, Rotate, Keyed
  <2>2. Blames(out, Culprits(cheat))
    BY <2>1, KeyMakers, RefreshBlames
  <2> QED
    BY <2>1, <2>2, Stops
<1>2. CASE ReshareKey
  <2>1. PICK new : new = [ids |-> NewIds, t |-> T]
    OBVIOUS
  <2>2. PICK cheat, out : /\ out = Reshare(committee, new, key, Seed(9), cheat)
                          /\ key # NoKey /\ Outcome("failfast", cheat, out)
    BY <1>2, <2>1, ZenonT(40) DEF ReshareKey, Rotate, Keyed
  <2>3. Places(new.ids) /\ new.t \in Nat /\ new.t > 0
    BY <2>1, NewPlaces
  <2>4. PICK n \in Nat : n = committee.t
    BY CommitteeRuns
  <2>5. Places(committee.ids) /\ Held(key, committee.ids, n)
    BY <2>2, <2>4, KeyMakers
  <2>6. Blames(out, Culprits(cheat))
    BY <2>2, <2>3, <2>5, ReshareBlames
  <2> QED
    BY <2>2, <2>6, Stops
<1> QED
  BY <1>1, <1>2

LEMMA OtherCalls ==
  ASSUME CInv,
         \/ Keygen \/ KeygenSigned \/ RefreshKey \/ ReshareKey \/ ClearStore \/ Return
         \/ MakeOne \/ MakeWithRestart \/ MakeKi \/ MakeBatch \/ MakePacked \/ MakeTriple
  PROVE  RInv'
<1>1. CASE Return \/ ClearStore
  <2>1. result' = NoResult
    BY <1>1 DEF Return, ClearStore, Idle
  <2> QED
    BY <2>1 DEF RInv, SignaturesVerify, FailsForCause, OnlyCulpritsBlamed, Signed
<1>2. CASE Reported
  <2>0. PICK op \in {"keygen", "signed", "failfast", "robust"} : \E cheat, out :
          Outcome(op, cheat, out) /\ Rightly(op, cheat, out)
    BY <1>2, Zenon DEF Reported
  <2>1. PICK cheat, out : Outcome(op, cheat, out) /\ Rightly(op, cheat, out)
    BY <2>0
  <2>2. result'.op = op /\ result'.cheat = cheat /\ result'.out = out
    BY <2>1 DEF Outcome
  <2>3. ~Signed'
    BY <2>2 DEF Signed, SigningCalls
  <2>4. OnlyCulpritsBlamed'
    BY <2>1, <2>2, RightlyHolds
  <2> QED
    BY <2>3, <2>4 DEF RInv, SignaturesVerify, FailsForCause
<1> QED
  BY <1>1, <1>2, KeygenReported, MakeReported, RotateReported

LEMMA AlwaysRInv == Spec => []RInv
<1>1. Init => RInv
  BY DEF Init, RInv, SignaturesVerify, FailsForCause, OnlyCulpritsBlamed, Signed
<1>2. CInv /\ RInv /\ [Next]_vars => RInv'
  <2> SUFFICES ASSUME CInv, RInv, [Next]_vars PROVE RInv'
    OBVIOUS
  <2>1. CASE Sign \/ SignRobust \/ SignRerand \/ SignPacked \/ SignKi
    BY <2>1, SignResult, SignRobustResult, SignRerandResult, SignPackedResult, SignKiResult
  <2>2. CASE UNCHANGED vars
    BY <2>2 DEF vars, RInv, SignaturesVerify, FailsForCause, OnlyCulpritsBlamed, Signed, KeyFor, NonceFor
  <2>3. CASE Next /\ ~(Sign \/ SignRobust \/ SignRerand \/ SignPacked \/ SignKi)
    BY <2>3, OtherCalls DEF Next
  <2> QED
    BY <2>1, <2>2, <2>3
<1> QED
  BY <1>1, <1>2, AlwaysCInv, PTL DEF Spec

-----------------------------------------------------------------------------
(* Theorems *)

(* No party computes its share of a presignature for two messages, tweaks, *)
(* factors or sets of signers: consume of store.rs removes the record      *)
(* before the share is computed, and a failed call does not put it back,   *)
(* whatever was refreshed, handed over or cleared meanwhile. So a nonce    *)
(* can make two signatures only when two quorums with nobody in common     *)
(* hold it, which a record of fewer than twice a quorum excludes.          *)
THEOREM NonceTheorem == Spec => []NonceOnce
BY AlwaysCInv, ApartOnce, PTL

(* Whatever a dealer deals and whoever refreshes or hands over, the shares *)
(* of the current committee fit the commitment, whose first point is the   *)
(* public key of the generation, and any T of them make its secret: a      *)
(* signature of any epoch is under the key the wallet was opened with.     *)
THEOREM KeyIntactTheorem == Spec => []KeyIntact
BY AlwaysCInv, HeldIntact, PTL

(* Whatever the parties did while a presignature was made, alone, in a     *)
(* batch, packed, after an expulsion or a restart, a record that is kept   *)
(* gives every quorum of its holders the inverse of its nonce and, if it   *)
(* is bound, that times the secret key, also when the key has been         *)
(* refreshed or handed over since.                                         *)
THEOREM RecordsSoundTheorem == Spec => []RecordsSound
BY AlwaysCInv, FitSound, PTL

(* After a key generation, restarted or over signed envelopes, a refresh   *)
(* or a hand-over, exactly the current committee has shares of the key;    *)
(* who stores an id has a share of its record.                             *)
THEOREM TypeCorrect == Spec => []TypeOK
<1>1. CInv => TypeOK
  BY DEF CInv, KeyHeld, Eligible, RecordsHeld, TypeOK, Held
<1> QED
  BY <1>1, AlwaysCInv, PTL

(* The signature a signing driver of sim.rs returns verifies under the     *)
(* derived key of its request, with the nonce the record was made for and  *)
(* s in the lower half, whatever the parties did when the key and the      *)
(* record were made and whoever sends a wrong share now: fast or robust,   *)
(* rerandomised, packed, or with a record that gets its key online.        *)
THEOREM SignaturesVerifyTheorem == Spec => []SignaturesVerify
<1>1. RInv => SignaturesVerify
  BY DEF RInv
<1> QED
  BY <1>1, AlwaysRInv, PTL

(* A signing call aborts only when somebody deviated, runs out of shares   *)
(* only when fewer sign than the record's quorum or a wrong share of       *)
(* exactly T was dropped, fails as degenerate only when r or s is zero     *)
(* (Signature::from_scalars in sim.rs), and for want of a record only when *)
(* the store of a signer has none.                                         *)
THEOREM FailsForCauseTheorem == Spec => []FailsForCause
<1>1. RInv => FailsForCause
  BY DEF RInv
<1> QED
  BY <1>1, AlwaysRInv, PTL

(* Whoever deviates in whatever way the model knows, a key generation, a   *)
(* refresh, a hand-over, a presigning driver or a signing call that aborts *)
(* names exactly that party, and one that goes on without a party (the     *)
(* _with_restart and robust drivers of sim.rs) drops nobody else: no       *)
(* honest party is ever blamed, by a complaint, a defense, a forged        *)
(* envelope, a failed proof, an opening or a signature share.              *)
THEOREM OnlyCulpritsTheorem == Spec => []OnlyCulpritsBlamed
<1>1. RInv => OnlyCulpritsBlamed
  BY DEF RInv
<1> QED
  BY <1>1, AlwaysRInv, PTL

=============================================================================
