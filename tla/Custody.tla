------------------------------- MODULE Custody -------------------------------
(***************************************************************************)
(* The life of one key under the drivers of src/src/runtime/sim.rs and the *)
(* single-use stores of src/src/runtime/store.rs: it is generated,         *)
(* presignatures are made for it and kept by the parties, it is refreshed  *)
(* or handed to another committee, and records are consumed to sign.       *)
(*                                                                         *)
(* An action is one call of a driver, with its outcome in result; Return   *)
(* ends the call. In every call one party may deviate in the ways the      *)
(* modules above describe. The caller gives every record a new id, and     *)
(* lets any parties sign together.                                         *)
(***************************************************************************)
EXTENDS Maintenance, Evidence

CONSTANTS N, T,          \* the first committee
          B,             \* the size of a batch or a pack
          Tapes,         \* what the generators may yield
          Makers,        \* the presigning drivers that are called
          Pairs,         \* who may deviate, and towards whom
          NewIds,        \* the committee of a hand-over
          SignerSets,    \* the parties that may sign together
          Requests,      \* messages, tweaks and factors: records [m, tau, gamma]
          MaxRecords, MaxEpochs

Parties == 1..N \union NewIds

ASSUME CustodyAssumption ==
    /\ T \in Nat \ {0} /\ N \in Nat /\ N >= 2 * T - 1 /\ N < Q
    /\ B \in Nat /\ MaxEpochs \in Nat
    /\ Cardinality(NewIds) >= 2 * T - 1 /\ NewIds \subseteq 1..(Q - 1)
    /\ \A S \in SignerSets : S # {} /\ S \subseteq Parties
    /\ \A q \in Requests : q.m \in Scalar /\ q.tau \in Scalar /\ q.gamma \in Scalar \ {0}

VARIABLES tape,      \* the seed of all coins
          committee, \* the parties that share the key
          key,       \* the key they share
          pub,       \* history: the public key at its generation
          recs,      \* the presignatures made so far, by id
          store,     \* the ids in the store of each party
          used,      \* history: what the shares of a record were computed for
          epochs,    \* the number of refreshes and hand-overs
          result     \* the call that returned last

vars == <<tape, committee, key, pub, recs, store, used, epochs, result>>

NoKey    == [sh |-> <<>>, com |-> <<>>]
NoResult == [op |-> "none"]

Init ==
    /\ tape \in Tapes
    /\ committee = FullCommittee(N, T)
    /\ key = NoKey /\ pub = 0
    /\ recs = <<>>
    /\ store = [p \in Parties |-> {}]
    /\ used = {} /\ epochs = 0
    /\ result = NoResult

-----------------------------------------------------------------------------
(* Calls. *)

Seed(op) == Fork(Fork(tape, op), Len(recs) + MaxRecords * epochs)

\* The deviations of these kinds by a party of who, towards a party of whom.
Cheats(kinds, who, whom) ==
    {Honest} \union {[kind |-> k, by |-> w[1], at |-> w[2]] :
                     k \in kinds, w \in {v \in Pairs : v[1] \in who /\ v[2] \in whom}}

InCommittee(kinds) == Cheats(kinds, committee.ids, committee.ids)

Idle  == result = NoResult
Keyed == Idle /\ key # NoKey

\* A call that changes nothing but what the action says.
Outcome(op, cheat, out) == result' = [op |-> op, cheat |-> cheat, out |-> out]

Return == result # NoResult /\ result' = NoResult
          /\ UNCHANGED <<tape, committee, key, pub, recs, store, used, epochs>>

Keygen == \E cheat \in InCommittee({"deal", "reveal", "transit"}) :
    LET o == RunKeygenWithRestart(N, T, Seed(1), cheat)
    IN  /\ Idle /\ key = NoKey
        /\ Outcome("keygen", cheat, o)
        /\ IF o.ok
           THEN /\ key' = o.val.val /\ pub' = o.val.val.com[1]
                /\ committee' = FullCommittee(Cardinality(committee.ids \ o.val.blamed), T)
           ELSE UNCHANGED <<key, pub, committee>>
        /\ UNCHANGED <<tape, recs, store, used, epochs>>

\* A mutant of Keep: every party of the committee keeps a record.
KeepForAll(made) ==
    /\ recs' = recs \o made
    /\ store' = [p \in Parties |->
           IF p \in committee.ids THEN store[p] \union {Len(recs) + k : k \in DOMAIN made} ELSE store[p]]

\* The same over signed envelopes: it is not repeated, and may leave a token.
KeygenSigned == \E cheat \in InCommittee({"deal", "reveal", "transit", "forged", "stranger"}) :
    LET o == DriveDkgSigned(committee, Fork(Seed(1), 0), cheat)
    IN  /\ Idle /\ key = NoKey
        /\ Outcome("signed", cheat, o)
        /\ IF o.ok THEN key' = o.val /\ pub' = o.val.com[1] ELSE UNCHANGED <<key, pub>>
        /\ UNCHANGED <<tape, committee, recs, store, used, epochs>>

\* insert: every party that got a share of a record puts it in its store.
Keep(made) ==
    LET first == Len(recs) + 1
        new == first..(Len(recs) + Len(made))
    IN  /\ recs' = recs \o made
        /\ store' = [p \in Parties |->
               store[p] \union {id \in new : p \in DOMAIN made[id - Len(recs)].u.sh}]

\* The records hold who made them and whether they are bound to the key.
Kept(r, kind) == With([kind |-> kind, ids |-> committee.ids], r)

Made(maker, op, cheat, out, F(_)) ==
    /\ Keyed /\ maker \in Makers /\ Len(recs) < MaxRecords
    /\ Outcome(op, cheat, out)
    /\ IF out.ok THEN Keep(F(out.val)) ELSE UNCHANGED <<recs, store>>
    /\ UNCHANGED <<tape, committee, key, pub, used, epochs>>

BuildCheats == {"reshare", "proof", "product", "open", "nonce"}

MakeOne == \E cheat \in InCommittee(BuildCheats) :
    Made("one", "failfast", cheat, Presign(committee, key, Seed(2), cheat),
         LAMBDA r : << Kept(r, "bound") >>)

MakeWithRestart == \E cheat \in InCommittee(BuildCheats) :
    Made("restart", "robust", cheat,
         RunPresignWithRestart(committee, key, Len(recs) + 1, Seed(3), cheat),
         LAMBDA o : << Kept(o.val, "bound") >>)

MakeKi == \E cheat \in InCommittee(BuildCheats) :
    Made("ki", "failfast", cheat, PresignKi(committee, Seed(4), cheat),
         LAMBDA r : << Kept(r, "free") >>)

MakeBatch == \E cheat \in InCommittee({"open", "nonce"}) :
    Made("batch", "failfast", cheat, PresignBatch(committee, key, Seed(5), B, cheat),
         LAMBDA rs : [b \in 1..B |-> Kept(rs[b], "bound")])

MakePacked == \E cheat \in InCommittee(TripleCheats \union {"open", "nonce", "key"}) :
    Made("packed", "failfast", cheat, PresignPacked(committee, key, Seed(6), B, cheat),
         LAMBDA rs : [b \in 1..B |-> Kept(rs[b], "packed")])

\* Triples are made for their own sake: no record comes of them.
MakeTriple == \E cheat \in InCommittee({"reshare", "proof", "product"}) :
    Made("triple", "robust", cheat,
         RunTriplesWithRestart(Cardinality(committee.ids), T, Seed(7), cheat), LAMBDA o : <<>>)

-----------------------------------------------------------------------------
(* The end of an epoch. The caller clears the stores of bound records; the *)
(* pools of key-independent ones are kept.                                 *)

Rotate(op, cheat, out, next) ==
    /\ Keyed /\ epochs < MaxEpochs
    /\ Outcome(op, cheat, out)
    /\ IF out.ok THEN key' = out.val /\ committee' = next /\ epochs' = epochs + 1
       ELSE UNCHANGED <<key, committee, epochs>>
    /\ UNCHANGED <<tape, pub, recs, store, used>>

RefreshKey == \E cheat \in InCommittee({"deal", "reveal", "transit", "shift"}) :
    Rotate("failfast", cheat, Refresh(committee, key, Seed(8), cheat), committee)

ReshareKey == \E cheat \in Cheats({"deal", "unbound"}, committee.ids, NewIds) :
    LET new == [ids |-> NewIds, t |-> T]
    IN  Rotate("failfast", cheat, Reshare(committee, new, key, Seed(9), cheat), new)

ClearStore == \E p \in Parties :
    /\ Idle /\ epochs > 0
    /\ store' = [store EXCEPT ![p] = {id \in @ : recs[id].kind = "free"}]
    /\ UNCHANGED <<tape, committee, key, pub, recs, used, epochs, result>>

-----------------------------------------------------------------------------
(* Signing. The stores are consumed one after the other; at the first that *)
(* has no such record the call fails, and what is consumed stays consumed. *)

Missing(S, id) == {p \in S : id \notin store[p]}

NoneReached(S, id) == {}                    \* a mutant of Reached: records are read, not removed
Reached(S, id) == {p \in S : \A q \in Missing(S, id) : p < q}

\* The records the parties of S hold of an id, each with its own share.
Consumed(S, id) == Tabulate([p \in S |-> recs[id]])

\* What the stores lose, and what the shares are computed for.
Spend(S, id, q) ==
    /\ store' = [p \in Parties |-> IF p \in Reached(S, id) THEN store[p] \ {id} ELSE store[p]]
    /\ used' = IF Missing(S, id) = {} THEN used \union {<<id, S, q>>} ELSE used
    /\ UNCHANGED <<tape, committee, key, pub, recs, epochs>>

SignStored(op, kinds, cheat, Run(_, _)) == \E id \in DOMAIN recs, S \in SignerSets, q \in Requests :
    /\ Keyed /\ recs[id].kind \in kinds
    /\ cheat # Honest => cheat.by \in S
    /\ op = "bind" => S \subseteq committee.ids /\ S = 1..Cardinality(S)
    /\ Spend(S, id, q)
    /\ LET out == IF Missing(S, id) = {} THEN Run(Consumed(S, id), q) ELSE Fail("store")
       IN  result' = [op |-> op, cheat |-> cheat, out |-> out, id |-> id, S |-> S, q |-> q]

\* A derived key: the parties tweak the records they consumed.
Tweaked(presigs, q) == [p \in DOMAIN presigs |-> ApplyTweak(presigs[p], q.tau)]

Sign == \E cheat \in Cheats({"sign"}, Parties, Parties) :
    SignStored("sign", {"bound"}, cheat,
               LAMBDA pre, q : RunSign(T, Tweaked(pre, q), q.m, cheat))

SignRobust == \E cheat \in Cheats({"sign"}, Parties, Parties) :
    SignStored("deliver", {"bound"}, cheat,
               LAMBDA pre, q : RunSignRobust(T, Tweaked(pre, q), q.m, cheat))

SignRerand == \E cheat \in Cheats({"sign"}, Parties, Parties) :
    SignStored("rerand", {"bound"}, cheat,
               LAMBDA pre, q : RunSignRerand(T, pre, q.m, q.gamma, q.tau, cheat))

SignPacked == \E cheat \in Cheats({"sign"}, Parties, Parties) :
    SignStored("packed", {"packed"}, cheat,
               LAMBDA pre, q : RunSignPacked(T, B, (Q - Meta(pre).at) % Q, Tweaked(pre, q), q.m, cheat))

\* The triple is dealt to 1..n and used by position: only signers numbered from
\* one, without a gap, get shares that fit their own points.
SignKi == \E cheat \in Cheats({"mask", "sign"}, Parties, Parties) :
    SignStored("bind", {"free"}, cheat,
               LAMBDA pre, q : RunSignKi(committee, Among(DOMAIN pre, key), pre, q.m, Seed(10), cheat))

Next == \/ Keygen \/ KeygenSigned
        \/ MakeOne \/ MakeWithRestart \/ MakeKi \/ MakeBatch \/ MakePacked \/ MakeTriple
        \/ RefreshKey \/ ReshareKey \/ ClearStore
        \/ Sign \/ SignRobust \/ SignRerand \/ SignPacked \/ SignKi
        \/ Return

Spec == Init /\ [][Next]_vars

-----------------------------------------------------------------------------
(* Properties. *)

\* The parties that hold the key or a record; ids are stored by their holders.
TypeOK ==
    /\ committee.ids \subseteq Parties /\ committee.t = T
    /\ key # NoKey => DOMAIN key.sh = committee.ids
    /\ \A p \in Parties : \A id \in store[p] : id \in DOMAIN recs /\ p \in DOMAIN recs[id].u.sh
    /\ epochs \in 0..MaxEpochs

\* Whatever a party deals, refreshes or hands over, any t shares of the key make
\* the secret of the public key of its generation, and fit the commitment.
KeyIntact == key # NoKey =>
    /\ Len(key.com) = T /\ key.com[1] = pub
    /\ BadShares(key) = {}
    /\ \A S \in kSubset(T, committee.ids) : (Gen * Interpolate(0, Restrict(key.sh, S))) % Q = pub

\* Every record made has the inverse of its nonce in u and, if it is bound, that
\* times the secret key in z, for any quorum of its shares.
RecordsSound == \A id \in DOMAIN recs :
    LET r == recs[id]
        Value(X, S) == Interpolate(r.at, Restrict(X.sh, S))
    IN  /\ r.r = XCoord(r.R) /\ r.r # 0
        /\ BadShares(r.u) = {} /\ BadShares(r.z) = {}
        /\ \A S \in kSubset(r.quorum, DOMAIN r.u.sh) :
              /\ (r.R * Value(r.u, S)) % Q = Gen
              /\ r.kind # "free" => (pub * Value(r.u, S)) % Q = (Gen * Value(r.z, S)) % Q

SigningCalls == {"sign", "deliver", "rerand", "packed", "bind"}
Signed == result # NoResult /\ result.op \in SigningCalls

\* The key a request signs for, and the nonce point it uses.
KeyFor(q) == IF result.op = "bind" THEN pub ELSE (pub + Gen * q.tau) % Q
NonceFor(q) == (recs[result.id].R * IF result.op = "rerand" THEN q.gamma ELSE 1) % Q

\* A signature that is returned verifies, for the derived key, with s in the lower
\* half, whoever deviated and whatever the key went through since the record was made.
SignaturesVerify == Signed /\ result.out.ok =>
    LET sig == IF result.op = "deliver" THEN result.out.val.sig ELSE result.out.val
    IN  /\ Verifies(KeyFor(result.q), result.q.m, sig)
        /\ sig.r = XCoord(NonceFor(result.q))
        /\ 2 * sig.s <= Q

GoesOn == {"keygen", "robust", "deliver"}

\* No driver blames a party that did not deviate: an abort names the one that did,
\* and what a call that goes on drops or expels is that one at most.
OnlyCulpritsBlamed == result # NoResult =>
    LET o == result.out
    IN  /\ o.ok /\ result.op \in GoesOn => o.val.blamed \subseteq Culprits(result.cheat)
        /\ ~o.ok /\ o.err = "abort" => o.blamed = Culprits(result.cheat) /\ o.blamed # {}

\* No deviation goes unnoticed: a call that goes on without the party names it, and
\* a call that cannot succeeds only if nobody deviated.
CulpritsCaught == result # NoResult /\ result.out.ok =>
    IF result.op \in GoesOn THEN Culprits(result.cheat) \subseteq result.out.val.blamed
    ELSE result.cheat = Honest

\* The token an auditor could be handed about dealer i from what i sent to j in the
\* signed key generation that returned: its share as j has it and the commitment i
\* revealed. The commitment of a token is under no signature; this one is i's own.
DealtPolys == Tabulate([i \in committee.ids |-> RandomPolys(Fork(Seed(1), 0), i, 1, T)])
RevealedBy(i) == Reveals(committee, DealtPolys, result.cheat)[i].env.payload[1]
Assembled(i, j) == [given |-> TRUE, blamed |-> {i}, com |-> RevealedBy(i),
    se |-> Received(j, SharesTo(committee, j, DealtPolys, result.cheat), result.cheat)[i]]


\* Signing fails without blame only when a store lacks the record, when r or s would
\* be zero, or when those who signed well are fewer than the record's quorum.
FailsForCause == Signed /\ ~result.out.ok =>
    LET q == result.q
        r == XCoord(NonceFor(q))
    IN  CASE result.out.err = "abort" -> result.cheat # Honest
          [] result.out.err = "zero"  -> r = 0 \/ (Gen * q.m + r * KeyFor(q)) % Q = 0
          [] result.out.err = "few"   ->
                \/ Cardinality(result.S) < recs[result.id].quorum
                \/ result.op = "deliver" /\ result.cheat # Honest /\ Cardinality(result.S) <= T
          [] result.out.err = "store" -> \E p \in result.S : result.id \notin store[p]
          [] OTHER                    -> FALSE

\* No party computes shares of one record for two requests. So two requests both get
\* a quorum of shares of one nonce only when twice a quorum hold the record: the
\* stores are each party's own, and nothing keeps an id from signers that share none.
NonceOnce == \A v, w \in used : v[1] = w[1] /\ v # w =>
    LET r == recs[v[1]]
    IN  /\ v[2] \intersect w[2] = {}
        /\ Cardinality(v[2]) >= r.quorum /\ Cardinality(w[2]) >= r.quorum =>
              Cardinality(DOMAIN r.u.sh) >= 2 * r.quorum

=============================================================================
