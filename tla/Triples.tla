------------------------------- MODULE Triples -------------------------------
(***************************************************************************)
(* The factory of Beaver triples (src/src/protocol/triples.rs): two random *)
(* sharings, then every party re-shares the product of its two shares      *)
(* under a proof, and the re-sharings are combined with the Lagrange       *)
(* weights of the committee.                                               *)
(*                                                                         *)
(* What a dealer sends is a record of its commitment com, the shares sh by *)
(* receiver and its product proof. A dealer may send a wrong share         *)
(* ("reshare"), an altered proof ("proof"), re-share another value         *)
(* ("product"), or, packed, hold the value at the first slot only          *)
(* ("slot").                                                               *)
(***************************************************************************)
EXTENDS Dealing

\* The re-sharing of one product by the polynomial g.
ReshareProduct(C, j, g, a, b, cheat) ==
    LET p == CASE Does(cheat, "product", j) -> [g EXCEPT ![1] = (g[1] + 1) % Q]
               [] Does(cheat, "slot", j)    -> [g EXCEPT ![2] = (g[2] + 1) % Q]
               [] OTHER                     -> g
        sent(i) == EvalPoly(p, i) + IF Hits(cheat, "reshare", j, i) THEN 1 ELSE 0
    IN  [com   |-> Commit(p),
         sh    |-> Tabulate([i \in C.ids |-> sent(i) % Q]),
         proof |-> [Prove(a.sh[j], EvalCom(b.com, j)) EXCEPT !.sound = ~Does(cheat, "proof", j)]]

ProofBindsFactor(j, a, m) == m.proof.x1 = EvalCom(a.com, j)    \* a mutant of ProofBinds

\* The proof is about this dealer's shares and about the value it commits to.
ProofBinds(j, a, m) == m.proof.x1 = EvalCom(a.com, j) /\ m.proof.x2 = m.com[1]

ProofFails(j, a, b, m) == ~ProofBinds(j, a, m) \/ ~VerifyDleq(EvalCom(b.com, j), m.proof)

\* A dealer has no better defense than the share it delivered.
SharesOrBlame(j, m) ==
    LET bad == BadShares(m)
    IN  IF bad = {} THEN Ok(m)
        ELSE LET i == Least(bad) IN ResolveComplaint(m.com, j, i, m.sh[i])

CheckReshare(j, a, b, m) == IF ProofFails(j, a, b, m) THEN Abort({j}) ELSE SharesOrBlame(j, m)

\* The weighted sum of the re-sharings.
Recombine(C, w, m) ==
    [sh  |-> Tabulate([i \in C.ids |-> SumOf([d \in C.ids |-> w[d] * m[d].sh[i]])]),
     com |-> SumCom([d \in C.ids |-> ScaleCom(m[d].com, w[d])])]

Triple(a, b, c) == [a |-> a, b |-> b, c |-> c]

\* The dealing of the two factors, and what the dealers send for their product.
Factors(C, seed, F(_, _)) ==
    Then(JointRandom(C, Fork(seed, 1)), LAMBDA a :
    Then(JointRandom(C, Fork(seed, 2)), LAMBDA b : F(a, b)))

ProductPoly(C, seed, j, a, b) ==
    RandomPoly((a.sh[j] * b.sh[j]) % Q, [l \in 1..(C.t - 1) |-> Coin(Fork(seed, 3), j, l)])

Reshares(C, seed, a, b, cheat) ==
    Tabulate([j \in C.ids |->
        ReshareProduct(C, j, ProductPoly(C, seed, j, a, b), a, b, cheat)])

-----------------------------------------------------------------------------
(* One triple; the first dealer that fails aborts it. *)

Generate(C, seed, cheat) ==
    Factors(C, seed, LAMBDA a, b :
        LET m == Reshares(C, seed, a, b, cheat)
        IN  Then(Each(C.ids, LAMBDA j : CheckReshare(j, a, b, m[j])),
                 LAMBDA sent : Ok(Triple(a, b, Recombine(C, Lagrange(0, C.ids), m)))))

-----------------------------------------------------------------------------
(* One triple in spite of wrong shares: the polynomial a dealer committed  *)
(* to is rebuilt from t of the shares that fit, and the dealer gets no     *)
(* share of the triple.                                                    *)

Rebuild(C, j, a, b, m) ==
    LET bad  == BadShares(m)
        good == C.ids \ bad
        At(i) == IF i \in bad THEN FromFirst(i, C.t, m, good) ELSE m.sh[i]
    IN  IF ProofFails(j, a, b, m) \/ (bad # {} /\ Cardinality(good) < C.t) THEN Abort({j})
        ELSE Ok([m EXCEPT !.sh = Tabulate([i \in C.ids |-> At(i)])])

GenerateRobust(C, seed, cheat) ==
    Factors(C, seed, LAMBDA a, b :
        LET m == Reshares(C, seed, a, b, cheat)
            blamed == {j \in C.ids : BadShares(m[j]) # {}}
            keep   == C.ids \ blamed
        IN  Then(Each(C.ids, LAMBDA j : Rebuild(C, j, a, b, m[j])),
                 LAMBDA sent :
                    LET c == Recombine(C, Lagrange(0, C.ids), sent)
                    IN  Ok([tr |-> Triple(Among(keep, a), Among(keep, b), Among(keep, c)),
                            blamed |-> blamed])))

-----------------------------------------------------------------------------
(* A batch of triples in one session. A prover's proofs are checked        *)
(* together, and one by one only when that fails.                          *)

CheckBatch(j, as, bs, ms) ==
    LET count == DOMAIN ms
        together == VerifyBatch([k \in count |-> EvalCom(bs[k].com, j)],
                                [k \in count |-> ms[k].proof])
        Verdict(k) ==
            IF \/ ~ProofBinds(j, as[k], ms[k])
               \/ ~together /\ ~VerifyDleq(EvalCom(bs[k].com, j), ms[k].proof)
            THEN Abort({j})
            ELSE SharesOrBlame(j, ms[k])
    IN  Each(count, Verdict)

\* The deviation hits the triple at of the batch.
GenerateBatch(C, seed, count, cheat) ==
    Then(JointRandomBatch(C, Fork(seed, 1), 2 * count), LAMBDA ab :
        LET as == SubSeq(ab, 1, count)
            bs == SubSeq(ab, count + 1, 2 * count)
            w  == Lagrange(0, C.ids)
            m  == Tabulate([k \in 1..count |->
                      Reshares(C, Fork(seed, k), as[k], bs[k], IF cheat.at = k THEN cheat ELSE Honest)])
        IN  Then(Each(C.ids, LAMBDA j : CheckBatch(j, as, bs, [k \in 1..count |-> m[k][j]])),
                 LAMBDA sent : Ok(Tabulate([k \in 1..count |->
                     Triple(as[k], bs[k], Recombine(C, w, m[k]))]))))

-----------------------------------------------------------------------------
(* B triples in one pair of sharings of degree t + B - 2: triple k lives   *)
(* at the k-th slot point. A product is re-shared by a polynomial that     *)
(* takes it at every slot.                                                 *)

PackedDegree(C, B) == C.t + B - 2
PackedFits(C, B)   == Cardinality(C.ids) >= 2 * C.t + 2 * B - 3
Slots(B)           == [b \in 1..B |-> SlotPoint(b - 1)]

PackedPoly(C, seed, B, value, j) ==
    RandomPackedConst(value, B, [l \in 1..(C.t - 1) |-> Coin(seed, j, l)])

SlotsAgree(B, com, value) == \A s \in Range(Slots(B)) : EvalCom(com, s) = value

CheckPacked(j, B, a, b, m) ==
    IF ProofFails(j, a, b, m) \/ ~SlotsAgree(B, m.com, m.com[1])
    THEN Abort({j})
    ELSE SharesOrBlame(j, m)

GeneratePacked(C, seed, B, cheat) ==
    IF ~PackedFits(C, B) THEN Fail("params") ELSE
    Then(JointRandomPacked(C, Fork(seed, 1), 2, PackedDegree(C, B)), LAMBDA ab :
        LET a == ab[1]
            b == ab[2]
            m == Tabulate([j \in C.ids |->
                     ReshareProduct(C, j,
                         PackedPoly(C, Fork(seed, 3), B, (a.sh[j] * b.sh[j]) % Q, j), a, b, cheat)])
        IN  Then(Each(C.ids, LAMBDA j : CheckPacked(j, B, a, b, m[j])),
                 LAMBDA sent : Ok(Tabulate([k \in 1..B |->
                     Triple(a, b, Recombine(C, Lagrange(Slots(B)[k], C.ids), m))]))))

=============================================================================
