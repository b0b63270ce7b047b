----------------------------- MODULE Presigning -----------------------------
(***************************************************************************)
(* Presignatures (src/src/protocol/presign.rs): shared u and z with        *)
(* u = 1/k and z = u * x, and the nonce point R of k, with r from R.       *)
(* They are computed through two triples: v = a * u is opened, k = a / v.  *)
(*                                                                         *)
(* A record is what the parties hold of one presignature together, u and z *)
(* with the shares of the parties that got one. at and quorum say where    *)
(* its values are read and by how many shares: the slot point and t + B -  *)
(* 1 for a packed record, zero and t otherwise.                            *)
(*                                                                         *)
(* A party may deal wrongly in the first triple, broadcast a wrong share   *)
(* of v ("open"), a wrong nonce point ("nonce") or, packed, re-share       *)
(* another value than its key share ("key").                               *)
(***************************************************************************)
EXTENDS Triples

TripleCheats == {"reshare", "proof", "product", "slot"}

\* The parties that send a wrong share in the given round.
WrongIn(kind, cheat) == {j \in {cheat.by} : cheat.kind = kind}

\* Both masked values are opened; the product is a linear map of the triple.
Beaver(tr, d, e) == Shift(Plus(tr.c, Plus(Times(tr.b, d), Times(tr.a, e))), d * e)

\* A sharing of x * y, read at a point.
Product(s, q, tr, x, y) ==
    Then(OpenAt(s, q, Minus(x, tr.a)), LAMBDA d :
    Then(OpenAt(s, q, Minus(y, tr.b)), LAMBDA e : Ok(Beaver(tr, d, e))))

\* P2: open v = a * u and invert it.
InvertMask(s, q, tr, u, a, cheat) ==
    Then(Product(s, q, tr, u, a), LAMBDA v :
    Then(OpenAt(s, q, Spoil(v, WrongIn("open", cheat))), LAMBDA val :
        IF val = 0 THEN Fail("zero") ELSE Ok(Inv(val))))

\* P3: the points the parties send of their shares of k, and the nonce point.
NoncePoints(k, S, cheat) ==
    Tabulate([j \in S |->
        (Gen * k.sh[j] + IF Does(cheat, "nonce", j) THEN Gen ELSE 0) % Q])

NoWrongPoints(k, pts) == {}      \* a mutant of WrongPoints: the points are taken as sent
WrongPoints(k, pts) == {j \in DOMAIN pts : pts[j] # EvalCom(k.com, j)}

FromPoint(R) == IF XCoord(R) = 0 THEN Fail("zero") ELSE Ok([R |-> R, r |-> XCoord(R)])

Nonce(s, k, cheat) ==
    LET pts == NoncePoints(k, DOMAIN k.sh, cheat)
        bad == WrongPoints(k, pts)
    IN  IF bad # {} THEN Abort({Least(bad)}) ELSE FromPoint(Interpolate(s, pts))

Record(s, q, n, u, z) == [at |-> s, quorum |-> q, R |-> n.R, r |-> n.r, u |-> u, z |-> z]

\* The keys are those of the committee, party by party.
KeysMatch(C, key) == DOMAIN key.sh = C.ids

-----------------------------------------------------------------------------
(* One presignature; any failure aborts it.                                *)

TwoTriples(C, seed, cheat, F(_, _)) ==
    Then(Generate(C, Fork(seed, 1), OnlyIf(TripleCheats, cheat)), LAMBDA t1 :
    Then(Generate(C, Fork(seed, 2), Honest), LAMBDA t2 : F(t1, t2)))

Ephemeral(C, seed, F(_, _)) ==
    Then(JointRandom(C, Fork(seed, 3)), LAMBDA u :
    Then(JointRandom(C, Fork(seed, 4)), LAMBDA a : F(u, a)))

Presign(C, key, seed, cheat) ==
    IF ~KeysMatch(C, key) THEN Fail("params") ELSE
    TwoTriples(C, seed, cheat, LAMBDA t1, t2 :
    Ephemeral(C, seed, LAMBDA u, a :
    Then(InvertMask(0, C.t, t1, u, a, cheat), LAMBDA vinv :
    Then(Nonce(0, Times(a, vinv), cheat),     LAMBDA n :
    Then(Product(0, C.t, t2, u, key),         LAMBDA z : Ok(Record(0, C.t, n, u, z)))))))

\* The key-independent record has no z: it is formed when the record is used.
PresignKi(C, seed, cheat) ==
    Then(Generate(C, Fork(seed, 1), OnlyIf(TripleCheats, cheat)), LAMBDA tr :
    Ephemeral(C, seed, LAMBDA u, a :
    Then(InvertMask(0, C.t, tr, u, a, cheat), LAMBDA vinv :
    Then(Nonce(0, Times(a, vinv), cheat),     LAMBDA n : Ok(Record(0, C.t, n, u, u))))))

-----------------------------------------------------------------------------
(* The same in spite of wrong shares and points: their senders are         *)
(* expelled, and the parties left finish.                                  *)

\* P2. Both masked values are opened by everybody, v by those not expelled.
InvertMaskRobust(t, tr, u, a, cheat) ==
    Then(OpenRobust(t, Minus(u, tr.a)), LAMBDA d :
    Then(OpenRobust(t, Minus(a, tr.b)), LAMBDA e :
        LET active == DOMAIN u.sh \ (d.bad \union e.bad)
            v == Spoil(Beaver(tr, d.v, e.v), WrongIn("open", cheat))
        IN  Then(OpenRobust(t, Among(active, v)), LAMBDA val :
            IF val.v = 0 THEN Fail("zero")
            ELSE Ok([vinv |-> Inv(val.v), active |-> active \ val.bad]))))

\* P3, from the right points.
NonceRobust(t, k, cheat) ==
    LET pts  == NoncePoints(k, DOMAIN k.sh, cheat)
        good == DOMAIN pts \ WrongPoints(k, pts)
    IN  IF Cardinality(good) < t THEN Fail("few")
        ELSE Then(FromPoint(Interpolate(0, Restrict(pts, good))),
                  LAMBDA n : Ok([n |-> n, active |-> good]))

\* P4.
ProductRobust(t, tr, x, y, active) ==
    Then(OpenRobust(t, Among(active, Minus(x, tr.a))), LAMBDA d :
    Then(OpenRobust(t, Among(active, Minus(y, tr.b))), LAMBDA e :
        Ok([z |-> Beaver(tr, d.v, e.v), active |-> active \ (d.bad \union e.bad)])))

PresignRobust(C, key, seed, cheat) ==
    IF ~KeysMatch(C, key) THEN Fail("params") ELSE
    TwoTriples(C, seed, cheat, LAMBDA t1, t2 :
    Ephemeral(C, seed, LAMBDA u, a :
    Then(InvertMaskRobust(C.t, t1, u, a, cheat),                       LAMBDA p2 :
    Then(NonceRobust(C.t, Times(Among(p2.active, a), p2.vinv), cheat), LAMBDA p3 :
    Then(ProductRobust(C.t, t2, u, key, p3.active),                    LAMBDA p4 :
        Ok([rec    |-> Record(0, C.t, p3.n, Among(p4.active, u), Among(p4.active, p4.z)),
            blamed |-> C.ids \ p4.active]))))))

-----------------------------------------------------------------------------
(* A batch of count presignatures. The rounds are common to the batch, and *)
(* a deviation hits the first one.                                         *)

AtFirst(b, cheat) == IF b = 1 THEN cheat ELSE Honest

BatchInverses(C, tr, us, as, cheat) == Each(DOMAIN us, LAMBDA b :
    InvertMask(0, C.t, tr[2 * b - 1], us[b], as[b], AtFirst(b, cheat)))

BatchNonces(as, vinv, cheat) == Each(DOMAIN as, LAMBDA b :
    Nonce(0, Times(as[b], vinv[b]), AtFirst(b, cheat)))

BatchRecords(C, key, tr, us, n) == Each(DOMAIN us, LAMBDA b :
    Then(Product(0, C.t, tr[2 * b], us[b], key), LAMBDA z : Ok(Record(0, C.t, n[b], us[b], z))))

PresignBatch(C, key, seed, count, cheat) ==
    IF ~KeysMatch(C, key) \/ count = 0 THEN Fail("params") ELSE
    Then(GenerateBatch(C, Fork(seed, 1), 2 * count, Honest), LAMBDA tr :
    Then(JointRandomBatch(C, Fork(seed, 3), 2 * count),      LAMBDA ua :
    LET us == SubSeq(ua, 1, count)
        as == SubSeq(ua, count + 1, 2 * count)
    IN  Then(BatchInverses(C, tr, us, as, cheat), LAMBDA vinv :
        Then(BatchNonces(as, vinv, cheat),        LAMBDA n : BatchRecords(C, key, tr, us, n)))))

-----------------------------------------------------------------------------
(* B presignatures in sharings of degree t + B - 2, read at the slots. The *)
(* key is of degree t - 1 and is the key at one slot only, so every party  *)
(* re-shares its weighted key share as a constant of all slots.            *)

\* What dealer j should take at every slot.
KeyPart(C, key, j) == (Lagrange(0, C.ids)[j] * key.sh[j]) % Q

PackedDealing(C, key, seed, B, j, cheat) ==
    LET wrong == IF Does(cheat, "key", j) THEN 1 ELSE 0
    IN  RandomPolys(Fork(seed, 3), j, 2, PackedDegree(C, B) + 1)
        \o << PackedPoly(C, Fork(seed, 4), B, (KeyPart(C, key, j) + wrong) % Q, j) >>

\* The third commitment of every dealer must take its part of the key at every slot.
KeyBound(C, key, B, j, com) ==
    SlotsAgree(B, com, (EvalCom(key.com, j) * Lagrange(0, C.ids)[j]) % Q)

PackedShares(C, key, seed, B, cheat) ==
    Then(JointDeal(C, PackedDegree(C, B) + 1,
             Tabulate([j \in C.ids |-> PackedDealing(C, key, seed, B, j, cheat)])), LAMBDA deal :
        LET bad == {j \in C.ids : ~KeyBound(C, key, B, j, deal.coms[j][3])}
        IN  IF bad # {} THEN Abort({Least(bad)}) ELSE Ok(deal.out))

SlotInverses(q, slot, tr, x, cheat) == Each(DOMAIN slot, LAMBDA b :
    InvertMask(slot[b], q, tr[b], x[1], x[2], AtFirst(b, cheat)))

SlotNonces(slot, x, vinv, cheat) == Each(DOMAIN slot, LAMBDA b :
    Nonce(slot[b], Times(x[2], vinv[b]), AtFirst(b, cheat)))

SlotRecords(q, slot, tr, x, n) == Each(DOMAIN slot, LAMBDA b :
    Then(Product(slot[b], q, tr[b], x[1], x[3]),
         LAMBDA z : Ok(Record(slot[b], q, n[b], x[1], z))))

PresignPacked(C, key, seed, B, cheat) ==
    IF ~KeysMatch(C, key) \/ B = 0 \/ ~PackedFits(C, B) THEN Fail("params") ELSE
    LET q == PackedDegree(C, B) + 1
        slot == Slots(B)
    IN  Then(GeneratePacked(C, Fork(seed, 1), B, OnlyIf(TripleCheats, cheat)), LAMBDA t1 :
        Then(GeneratePacked(C, Fork(seed, 2), B, Honest),                      LAMBDA t2 :
        Then(PackedShares(C, key, seed, B, cheat),                             LAMBDA x :
        Then(SlotInverses(q, slot, t1, x, cheat),                              LAMBDA vinv :
        Then(SlotNonces(slot, x, vinv, cheat),                                 LAMBDA n :
             SlotRecords(q, slot, t2, x, n))))))

=============================================================================
