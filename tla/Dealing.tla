------------------------------- MODULE Dealing -------------------------------
(***************************************************************************)
(* Commit-then-reveal dealing of random sharings, and its complaints       *)
(* (src/src/protocol/dkg.rs and the drivers of triples.rs and              *)
(* transport.rs that run it for a whole committee).                        *)
(*                                                                         *)
(* A committee is a record of its party ids and its threshold t. A seed    *)
(* stands for what the parties' generators yield in one session: a dealer  *)
(* draws its coefficients from it, and Fork makes the seed of a            *)
(* sub-session. A hash is the value hashed, since it binds it.             *)
(*                                                                         *)
(* cheat says how one party deviates: the kind of deviation, the party by, *)
(* and the party at that it hits.                                          *)
(***************************************************************************)
EXTENDS Sharing

CONSTANTS Fork(_, _),      \* the seed of a sub-session
          Draw(_, _, _)    \* the k-th scalar a party draws in a session

Honest == [kind |-> "none", by |-> 0, at |-> 0]

\* The deviation, where the code injects it at that place only.
OnlyIf(kinds, cheat) == IF cheat.kind \in kinds THEN cheat ELSE Honest

Does(cheat, kind, i) == cheat.kind = kind /\ cheat.by = i
Hits(cheat, kind, i, j) == Does(cheat, kind, i) /\ cheat.at = j

\* Who should be blamed. A share altered in transit is the accuser's problem: the
\* dealer shows a right one.
Culprits(cheat) ==
    CASE cheat = Honest          -> {}
      [] cheat.kind = "transit"  -> {cheat.at}
      [] OTHER                   -> {cheat.by}

Least(S) == CHOOSE i \in S : \A j \in S : i <= j

\* A loop over S that returns at the first error, or all the values.
Each(S, F(_)) ==
    LET verdict == Tabulate([i \in S |-> F(i)])
        bad == {i \in S : ~verdict[i].ok}
    IN  IF bad = {} THEN Ok(Tabulate([i \in S |-> verdict[i].val])) ELSE verdict[Least(bad)]

-----------------------------------------------------------------------------
(* One dealer. *)

\* Whatever a generator yields, a random scalar is an element of the field.
Coin(seed, i, k) == LET c == Draw(seed, i, k) IN IF c \in Scalar THEN c ELSE 0

RandomPolys(seed, i, count, len) ==
    Tabulate([b \in 1..count |-> [l \in 1..len |-> Coin(Fork(seed, b), i, l)]])

\* A cheating dealer computes a wrong share, for the delivery and for its defense.
ShareFor(i, polys, j, cheat) ==
    Tabulate([b \in DOMAIN polys |->
        (EvalPoly(polys[b], j) + IF Hits(cheat, "deal", i, j) THEN 1 ELSE 0) % Q])

Committed(polys) == Tabulate([b \in DOMAIN polys |-> Commit(polys[b])])

\* A cheating dealer reveals a vector other than the one it hashed.
Revealed(i, polys, cheat) ==
    IF Does(cheat, "reveal", i) THEN <<AddConst(Commit(polys[1]), 1)>> ELSE Committed(polys)

\* A share altered in transit: the dealer's defense is the share it computed.
Delivered(i, polys, j, cheat) ==
    LET s == ShareFor(i, polys, j, cheat)
    IN  IF Hits(cheat, "transit", i, j) THEN [s EXCEPT ![1] = (s[1] + 1) % Q] ELSE s

-----------------------------------------------------------------------------
(* One receiver. *)

\* A mutant of ResolveComplaint: the accuser is believed.
BelieveAccuser(com, dealer, accuser, defense) == Abort({dealer})

\* Who is blamed when the accuser rejects a share and the dealer shows defense.
ResolveComplaint(com, dealer, accuser, defense) ==
    Abort({IF VerifyShare(com, accuser, defense) THEN accuser ELSE dealer})

\* What party me concludes from the messages of dealer i.
CheckDealer(len, me, i, hash, coms, shares, defense) ==
    LET bad == {b \in DOMAIN coms : ~VerifyShare(coms[b], me, shares[b])}
    IN  IF (\E b \in DOMAIN coms : Len(coms[b]) # len) \/ coms # hash THEN Abort({i})
        ELSE IF bad = {} THEN Ok(shares)
        ELSE LET b == Least(bad) IN ResolveComplaint(coms[b], i, me, defense[b])

\* The whole session seen by party me: the shares of its outputs.
Finalize(C, len, me, polys, cheat) ==
    Then(Each(C.ids, LAMBDA i :
             CheckDealer(len, me, i, Committed(polys[i]), Revealed(i, polys[i], cheat),
                         Delivered(i, polys[i], me, cheat), ShareFor(i, polys[i], me, cheat))),
         LAMBDA got : Ok(Tabulate([b \in DOMAIN polys[me] |->
                             SumOf([i \in C.ids |-> got[i][b]])])))

-----------------------------------------------------------------------------
(* Whole sessions: the sharings dealt by polys[i][b], or the error of the  *)
(* first party that fails.                                                 *)

DealAll(C, len, polys, cheat) ==
    Then(Each(C.ids, LAMBDA j : Finalize(C, len, j, polys, cheat)),
         LAMBDA outs : Ok(Tabulate([b \in DOMAIN polys[Least(C.ids)] |->
             [sh  |-> Tabulate([j \in C.ids |-> outs[j][b]]),
              com |-> SumCom([i \in C.ids |-> Revealed(i, polys[i], cheat)[b]])]])))

\* The dealt polynomials are given: their revealed commitments are returned too.
JointDeal(C, len, polys) ==
    Then(DealAll(C, len, polys, Honest),
         LAMBDA X : Ok([out |-> X, coms |-> Tabulate([i \in C.ids |-> Committed(polys[i])])]))

JointRandomPacked(C, seed, count, degree) ==
    DealAll(C, degree + 1,
            Tabulate([i \in C.ids |-> RandomPolys(seed, i, count, degree + 1)]), Honest)

JointRandomBatch(C, seed, count) ==
    DealAll(C, C.t, Tabulate([i \in C.ids |-> RandomPolys(seed, i, count, C.t)]), Honest)

JointRandom(C, seed) ==
    Then(DealAll(C, C.t, Tabulate([i \in C.ids |-> RandomPolys(seed, i, 1, C.t)]), Honest),
         LAMBDA X : Ok(X[1]))

\* The key generation: one polynomial per party, over a transport.
DriveDkg(C, seed, cheat) ==
    Then(DealAll(C, C.t, Tabulate([i \in C.ids |-> RandomPolys(seed, i, 1, C.t)]), cheat),
         LAMBDA X : Ok(X[1]))

=============================================================================
