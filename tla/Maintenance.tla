----------------------------- MODULE Maintenance -----------------------------
(***************************************************************************)
(* Refreshing the key shares and handing them to another committee         *)
(* (src/src/protocol/refresh.rs), and starting over without the parties    *)
(* that were blamed (src/src/runtime/policy.rs and the _with_restart       *)
(* drivers of src/src/runtime/sim.rs).                                     *)
(*                                                                         *)
(* A dealer of a refresh may deal a constant other than zero ("shift"),    *)
(* and a dealer of a hand-over commit to another value than its share      *)
(* ("unbound") or send a wrong share ("deal").                             *)
(***************************************************************************)
EXTENDS Signing

Masks(seed, i, count) == [l \in 1..count |-> Coin(seed, i, l)]

\* Every party deals a secret of its own through the key generation's rounds.
DealFixedSecrets(C, seed, secret, cheat) ==
    DealAll(C, C.t, Tabulate([i \in C.ids |-> << RandomPoly(secret[i], Masks(seed, i, C.t - 1)) >>]),
            cheat)

\* The dealers that did not deal a zero; a mutant that does not look.
NobodyShifted(C, secret) == {}
Shifted(C, secret) == {i \in C.ids : (Gen * secret[i]) % Q # 0}

\* Zeros are dealt and added to the key.
Refresh(C, key, seed, cheat) ==
    LET secret == Tabulate([i \in C.ids |-> IF Does(cheat, "shift", i) THEN 1 ELSE 0])
        zero   == DealFixedSecrets(C, seed, secret, cheat)
        bad    == Shifted(C, secret)
    IN  IF ~KeysMatch(C, key) THEN Fail("params") ELSE
        Then(zero, LAMBDA z : IF bad # {} THEN Abort({Least(bad)}) ELSE Ok(Plus(key, z[1])))

\* What an old party deals, to the new committee.
ReshareDeal(new, key, j, seed, cheat) ==
    LET p == RandomPoly(key.sh[j], Masks(seed, j, new.t - 1))
    IN  [com |-> IF Does(cheat, "unbound", j) THEN AddConst(Commit(p), 1) ELSE Commit(p),
         sh  |-> Tabulate([m \in new.ids |->
                     (EvalPoly(p, m) + IF Hits(cheat, "deal", j, m) THEN 1 ELSE 0) % Q])]

\* What a new party concludes from the deal of j; j's defense is what it sent.
CheckDeal(key, new, m, j, deal) ==
    IF Len(deal.com) # new.t \/ deal.com[1] # EvalCom(key.com, j) THEN Abort({j})
    ELSE IF VerifyShare(deal.com, m, deal.sh[m]) THEN Ok(deal.sh[m])
    ELSE ResolveComplaint(deal.com, j, m, deal.sh[m])

Reshare(old, new, key, seed, cheat) ==
    LET deal == Tabulate([j \in old.ids |-> ReshareDeal(new, key, j, seed, cheat)])
        w    == Lagrange(0, old.ids)
    IN  IF ~KeysMatch(old, key) THEN Fail("params") ELSE
        Then(Each(new.ids, LAMBDA m :
                 Then(Each(old.ids, LAMBDA j : CheckDeal(key, new, m, j, deal[j])),
                      LAMBDA got : Ok(SumOf([j \in old.ids |-> w[j] * got[j]])))),
             LAMBDA sh : Ok([sh  |-> sh,
                             com |-> SumCom([j \in old.ids |-> ScaleCom(deal[j].com, w[j])])]))

-----------------------------------------------------------------------------
(* Restarts. An attempt is made by the parties ids, and yields a value and *)
(* who it blamed. The deviation is in the first one, so that the second is *)
(* the last.                                                               *)

FullCommittee(n, t) == [ids |-> 1..n, t |-> t]

RestartAllowed(left, t) == t >= 1 /\ Cardinality(left) >= 2 * t - 1

WithRestart(ids, t, Attempt(_, _)) ==
    LET first == Attempt(ids, 0)
        left  == ids \ first.blamed
    IN  IF ~first.ok /\ first.err = "abort" /\ RestartAllowed(left, t)
        THEN Then(Attempt(left, 1),
                  LAMBDA o : Ok([o EXCEPT !.blamed = o.blamed \union first.blamed]))
        ELSE first

At(attempt, cheat) == IF attempt = 0 THEN cheat ELSE Honest

\* Nobody has key shares yet: the survivors are numbered anew.
RunKeygenWithRestart(n, t, seed, cheat) ==
    WithRestart(1..n, t, LAMBDA ids, k :
        Then(DriveDkg(FullCommittee(Cardinality(ids), t), Fork(seed, k), At(k, cheat)),
             LAMBDA key : Ok([val |-> key, blamed |-> {}])))

RunTriplesWithRestart(n, t, seed, cheat) ==
    WithRestart(1..n, t, LAMBDA ids, k :
        Then(GenerateRobust(FullCommittee(Cardinality(ids), t), Fork(seed, k), At(k, cheat)),
             LAMBDA o : Ok([val |-> o.tr, blamed |-> o.blamed])))

\* The key shares live at the survivors' own ids. An attempt takes a new record id.
RunPresignWithRestart(C, key, id, seed, cheat) ==
    WithRestart(C.ids, C.t, LAMBDA ids, k :
        Then(PresignRobust([C EXCEPT !.ids = ids], Among(ids, key), Fork(seed, k), At(k, cheat)),
             LAMBDA o : Ok([val |-> o.rec, blamed |-> o.blamed, id |-> id + k])))

=============================================================================
