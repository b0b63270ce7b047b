------------------------------- MODULE Signing -------------------------------
(***************************************************************************)
(* Online signing (src/src/protocol/sign.rs and the run_sign drivers of    *)
(* src/src/runtime/sim.rs).                                                *)
(*                                                                         *)
(* presigs gives every signing party the record it holds a share of. The   *)
(* shares are checked and combined against the record of the first party,  *)
(* its meta. A party may broadcast a wrong signature share ("sign") or,    *)
(* for a key-independent record, a wrong opening share ("mask").           *)
(***************************************************************************)
EXTENDS Presigning

Meta(presigs) == presigs[Least(DOMAIN presigs)]

SignShare(rec, j, m) == (m * rec.u.sh[j] + rec.r * rec.z.sh[j]) % Q

\* The shares the parties broadcast, under the commitment meta gives.
SignatureOf(presigs, com, m) ==
    [sh  |-> Tabulate([j \in DOMAIN presigs |-> SignShare(presigs[j], j, m)]),
     com |-> com]

ShareCom(u, z, m, r) == AddCom(ScaleCom(u.com, m), ScaleCom(z.com, r))

\* All shares fit and are enough, or an abort.
CombineVerified(s, q, r, X) == Then(OpenAt(s, q, X), LAMBDA val : Ok([r |-> r, s |-> val]))

CombineAt(s, q, presigs, m, cheat) ==
    LET meta == Meta(presigs)
        X == SignatureOf(presigs, ShareCom(meta.u, meta.z, m, meta.r), m)
    IN  CombineVerified(s, q, meta.r, Spoil(X, WrongIn("sign", cheat)))

Combine(t, presigs, m, cheat) == CombineAt(0, t, presigs, m, cheat)

\* The shares that fit, if they are enough.
CombineRobustVerified(t, r, X) ==
    Then(OpenRobust(t, X), LAMBDA o : Ok([sig |-> [r |-> r, s |-> o.v], blamed |-> o.bad]))

CombineRobust(t, presigs, m, cheat) ==
    LET meta == Meta(presigs)
        X == SignatureOf(presigs, ShareCom(meta.u, meta.z, m, meta.r), m)
    IN  CombineRobustVerified(t, meta.r, Spoil(X, WrongIn("sign", cheat)))

-----------------------------------------------------------------------------
(* Derived keys, and the nonce scaled by a public factor.                  *)

\* The record of a child key: x + tau.
ApplyTweak(rec, tau) == [rec EXCEPT !.z = Plus(rec.z, Times(rec.u, tau))]

RerandFactorsOld(R, gamma) == [inv |-> Inv(gamma), r |-> XCoord(R)]    \* a mutant of RerandFactors

\* gamma comes from a hash of the request and is never zero.
RerandFactors(R, gamma) == [inv |-> Inv(gamma), r |-> XCoord((R * gamma) % Q)]

\* The record both the shares and their commitments are scaled to.
Rerandomised(rec, gamma, tau) ==
    LET f == RerandFactors(rec.R, gamma)
    IN  [rec EXCEPT !.u = Times(rec.u, f.inv),
                    !.z = Times(Plus(rec.z, Times(rec.u, tau)), f.inv),
                    !.r = f.r]

CombineRerand(t, presigs, m, gamma, tau, cheat) ==
    Combine(t, [j \in DOMAIN presigs |-> Rerandomised(presigs[j], gamma, tau)], m, cheat)

-----------------------------------------------------------------------------
(* Key-independent records: z is made online with a fresh triple, dealt to *)
(* the parties 1..n and used by position in the list of signers.           *)

Position(S, j) == Cardinality({i \in S : i <= j})

ByPosition(S, X) == [X EXCEPT !.sh = Tabulate([j \in S |-> X.sh[Position(S, j)]])]

KiZ(tr, d, e) == Beaver(tr, d, e)

\* R1: open both masks of z = u * x.
KiBind(t, tr, u, key, cheat) ==
    Then(Open(t, Spoil(Minus(u, tr.a), WrongIn("mask", cheat))), LAMBDA d :
    Then(Open(t, Minus(key, tr.b)), LAMBDA e : Ok(KiZ(tr, d, e))))

CombineKi(t, presigs, z, m, cheat) ==
    Combine(t, [j \in DOMAIN presigs |-> [presigs[j] EXCEPT !.z = z]], m, cheat)

CombineKiRobust(t, presigs, z, m, cheat) ==
    CombineRobust(t, [j \in DOMAIN presigs |-> [presigs[j] EXCEPT !.z = z]], m, cheat)

-----------------------------------------------------------------------------
(* The signature that is returned: r and s not zero, s in the lower half.  *)

FromScalars(sig) ==
    IF sig.r = 0 \/ sig.s = 0 THEN Fail("zero")
    ELSE IF 2 * sig.s > Q THEN Ok([sig EXCEPT !.s = Q - sig.s])
    ELSE Ok(sig)

RunSign(t, presigs, m, cheat) == Then(Combine(t, presigs, m, cheat), FromScalars)

RunSignPacked(t, B, slot, presigs, m, cheat) ==
    Then(CombineAt(SlotPoint(slot), t + B - 1, presigs, m, cheat), FromScalars)

RunSignRobust(t, presigs, m, cheat) ==
    Then(CombineRobust(t, presigs, m, cheat), LAMBDA c :
    Then(FromScalars(c.sig), LAMBDA sig : Ok([sig |-> sig, blamed |-> c.blamed])))

RunSignRerand(t, presigs, m, gamma, tau, cheat) ==
    Then(CombineRerand(t, presigs, m, gamma, tau, cheat), FromScalars)

\* key and presigs are of the same parties; all hold shares of one u.
RunSignKi(C, key, presigs, m, seed, cheat) ==
    LET S == DOMAIN presigs
        full == [ids |-> 1..Cardinality(C.ids), t |-> C.t]
        u == [sh |-> Tabulate([j \in S |-> presigs[j].u.sh[j]]), com |-> Meta(presigs).u.com]
    IN  IF DOMAIN key.sh # S THEN Fail("params") ELSE
        Then(Generate(full, seed, Honest), LAMBDA tr :
        LET own == Triple(ByPosition(S, tr.a), ByPosition(S, tr.b), ByPosition(S, tr.c))
        IN  Then(KiBind(C.t, own, u, key, cheat), LAMBDA z :
            Then(CombineKi(C.t, presigs, z, m, cheat), FromScalars)))

\* ECDSA's verification, for a public key X.
Verifies(X, m, sig) ==
    LET w == Inv(sig.s)
        R == (Gen * m * w + sig.r * w * X) % Q
    IN  /\ sig.r # 0 /\ sig.s # 0
        /\ XCoord(R) = sig.r

=============================================================================
