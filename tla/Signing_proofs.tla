---------------------------- MODULE Signing_proofs ----------------------------
(***************************************************************************)
(* Proofs about what the drivers return: every sharing a session deals is  *)
(* fit for its commitment, a refresh or a hand-over keeps the committed    *)
(* key, a triple is a product, a presignature holds the inverse of its     *)
(* nonce and that times the key, a signature verifies, and whoever is      *)
(* blamed did deviate.                                                     *)
(*                                                                         *)
(* Everything is said of commitments: a sharing X stands, at x, for the    *)
(* point EvalCom(X.com, x), and Held(X, S, n) says that the shares of the  *)
(* parties of S are the ones committed to.                                 *)
(***************************************************************************)
EXTENDS Maintenance, Evidence, Sharing_proofs, SequenceTheorems

(* The members of a committee are places to interpolate at.                *)
Places(S) == S \in SUBSET Scalar /\ S # {}

(* Any number of dealt polynomials, of any lengths.                        *)
Polys(count) == [1..count -> UNION {[1..n -> Scalar] : n \in Nat}]

(* count sharings by n coefficients, held by the parties of S.             *)
Sharings(v, count, S, n) ==
  DOMAIN v = 1..count /\ \A b \in 1..count : Held(v[b], S, n)

(* An error that blames somebody.                                          *)
Aborted(r) == \E who : r = Abort(who)

-----------------------------------------------------------------------------
(* Loops and results *)

LEMMA LeastIn ==
  ASSUME NEW S \in SUBSET Nat, S # {}
  PROVE  Least(S) \in S
BY LeastOfNat DEF Least

LEMMA Results ==
  /\ \A v : Ok(v).ok /\ Ok(v).val = v
  /\ \A who : ~Abort(who).ok /\ Abort(who).err = "abort" /\ Abort(who).blamed = who
  /\ \A why : ~Fail(why).ok /\ Fail(why).err = why
<1>1. ASSUME NEW v PROVE Ok(v).ok /\ Ok(v).val = v
  BY DEF Ok
<1>2. ASSUME NEW who PROVE ~Abort(who).ok /\ Abort(who).err = "abort" /\ Abort(who).blamed = who
  BY DEF Abort
<1>3. ASSUME NEW why PROVE ~Fail(why).ok /\ Fail(why).err = why
  BY DEF Fail
<1> QED
  BY <1>1, <1>2, <1>3

(* A loop over S with its verdicts in a function.                          *)
Loop(verdict, S) ==
  LET bad == {i \in S : ~verdict[i].ok}
  IN  IF bad = {} THEN Ok(Tabulate([i \in S |-> verdict[i].val])) ELSE verdict[Least(bad)]

(* It ends well when each step does, and with the error of one otherwise.  *)
LEMMA LoopEnds ==
  ASSUME NEW S \in SUBSET Nat, NEW verdict, NEW out, out = Loop(verdict, S)
  PROVE  /\ out.ok => out = Ok([i \in S |-> verdict[i].val]) /\ \A i \in S : verdict[i].ok
         /\ (\A i \in S : verdict[i].ok) => out = Ok([i \in S |-> verdict[i].val])
         /\ ~out.ok => \E i \in S : ~verdict[i].ok /\ out = verdict[i]
<1>1. PICK bad : bad = {i \in S : ~verdict[i].ok}
  OBVIOUS
<1>2. PICK vals : vals = [i \in S |-> verdict[i].val]
  OBVIOUS
<1>3. out = IF bad = {} THEN Ok(vals) ELSE verdict[Least(bad)]
  <2>1. Tabulate([i \in S |-> verdict[i].val]) = vals
    BY <1>2, TabulateIs
  <2> QED
    BY <1>1, <2>1 DEF Loop
<1>4. bad # {} => Least(bad) \in bad
  BY <1>1, LeastIn
<1>5. Ok(vals).ok
  BY DEF Ok
<1> QED
  BY <1>1, <1>2, <1>3, <1>4, <1>5

LEMMA LoopFails ==
  ASSUME NEW S \in SUBSET Nat, NEW verdict, NEW out, out = Loop(verdict, S), ~out.ok
  PROVE  \E i \in S : ~verdict[i].ok /\ out = verdict[i]
BY LoopEnds

-----------------------------------------------------------------------------
(* Who is blamed *)

(* An abort names somebody, and nobody but those of W.                     *)
Blames(r, W) == ~r.ok /\ r.err = "abort" => r.blamed # {} /\ r.blamed \subseteq W

LEMMA BlameRules ==
  /\ \A v, W : Blames(Ok(v), W)
  /\ \A why, W : why # "abort" => Blames(Fail(why), W)
  /\ \A who, W : who # {} /\ who \subseteq W => Blames(Abort(who), W)
  /\ \A r, W : r.ok => Blames(r, W)
BY Results DEF Blames

(* A loop blames as its steps do.                                          *)
LEMMA LoopBlames ==
  ASSUME NEW S \in SUBSET Nat, NEW verdict, NEW W, \A i \in S : Blames(verdict[i], W),
         NEW out, out = Loop(verdict, S)
  PROVE  Blames(out, W)
<1>1. CASE out.ok
  BY <1>1, BlameRules
<1>2. CASE ~out.ok
  <2>1. PICK i \in S : ~verdict[i].ok /\ out = verdict[i]
    BY <1>2, LoopFails
  <2> QED
    BY <2>1
<1> QED
  BY <1>1, <1>2

(* A party that deviates, other than in transit, is the one to blame.      *)
LEMMA DeviatorBlamed ==
  ASSUME NEW cheat, NEW i,
         NEW kind \in {"deal", "reveal", "reshare", "proof", "product", "slot", "open", "nonce", "key",
                       "mask", "sign", "unbound", "shift", "forged", "stranger"}
  PROVE  Does(cheat, kind, i) => i \in Culprits(cheat)
<1> SUFFICES ASSUME Does(cheat, kind, i) PROVE i \in Culprits(cheat)
  OBVIOUS
<1>1. cheat.kind = kind /\ cheat.by = i /\ kind # "transit" /\ kind # "none"
  BY DEF Does
<1>2. Honest.kind = "none"
  BY DEF Honest
<1>3. cheat # Honest
  BY <1>1, <1>2
<1> QED
  BY <1>1, <1>3 DEF Culprits

LEMMA SenderBlamed ==
  ASSUME NEW cheat, NEW kind \in {"open", "nonce", "mask", "sign"}
  PROVE  WrongIn(kind, cheat) \subseteq Culprits(cheat)
<1>1. ASSUME NEW j \in WrongIn(kind, cheat) PROVE j \in Culprits(cheat)
  <2>1. Does(cheat, kind, j)
    BY <1>1 DEF WrongIn, Does
  <2> QED
    BY <2>1, DeviatorBlamed
<1> QED
  BY <1>1

(* One altered in transit is the receiver's to answer for.                 *)
LEMMA TransitBlamed ==
  ASSUME NEW cheat, NEW i, NEW j, Hits(cheat, "transit", i, j)
  PROVE  j \in Culprits(cheat)
<1>1. cheat.kind = "transit" /\ cheat.at = j
  BY DEF Hits, Does
<1>2. Honest.kind = "none"
  BY DEF Honest
<1> QED
  BY <1>1, <1>2 DEF Culprits

LEMMA HonestBlamesNone == Culprits(Honest) = {}
<1>1. Honest.kind # "transit"
  BY DEF Honest
<1> QED
  BY <1>1 DEF Culprits

(* What an honest run cannot blame, nobody is blamed for.                  *)
LEMMA HonestBlames ==
  ASSUME NEW r, Blames(r, Culprits(Honest)), NEW W
  PROVE  Blames(r, W)
BY HonestBlamesNone DEF Blames

LEMMA BlamesMore ==
  ASSUME NEW r, NEW V, NEW W, Blames(r, V), V \subseteq W
  PROVE  Blames(r, W)
BY DEF Blames

(* A driver that goes on expels nobody but those of W.                     *)
Expels(r, W) == Blames(r, W) /\ (r.ok => r.val.blamed \subseteq W)

-----------------------------------------------------------------------------
(* Dealing *)

(* The receiver takes the shares: they fit, and what is revealed is hashed. *)
Takes(v, p, coms, shares, count, len, me) ==
  /\ coms = Committed(p) /\ v.val = shares
  /\ \A b \in 1..count : /\ coms[b] = Commit(p[b]) /\ coms[b] \in Com(len)
                         /\ EvalCom(coms[b], me) \cong Gen * shares[b]

(* What one dealer dealt to one receiver, when the receiver is satisfied.  *)
LEMMA DealerSound ==
  ASSUME NEW count \in Nat, NEW p \in Polys(count), NEW len \in Nat, NEW me \in Scalar, NEW i,
         NEW coms, NEW shares \in [1..count -> Scalar], NEW defense, NEW v,
         v = CheckDealer(len, me, i, Committed(p), coms, shares, defense), v.ok
  PROVE  Takes(v, p, coms, shares, count, len, me)
<1>1. PICK bad : bad = {b \in DOMAIN coms : ~VerifyShare(coms[b], me, shares[b])}
  OBVIOUS
<1>2. PICK who : who = {IF VerifyShare(coms[Least(bad)], me, defense[Least(bad)]) THEN me ELSE i}
  OBVIOUS
<1>3. v = IF (\E b \in DOMAIN coms : Len(coms[b]) # len) \/ coms # Committed(p) THEN Abort({i})
          ELSE IF bad = {} THEN Ok(shares) ELSE Abort(who)
  BY <1>1, <1>2 DEF CheckDealer, ResolveComplaint
<1>4. coms = Committed(p) /\ bad = {} /\ v.val = shares /\ \A b \in DOMAIN coms : Len(coms[b]) = len
  BY <1>3 DEF Ok, Abort
<1>5. Committed(p) = [b \in 1..count |-> Commit(p[b])]
  BY TabulateIs DEF Committed, Polys
<1>6. ASSUME NEW b \in 1..count
      PROVE  /\ coms[b] = Commit(p[b]) /\ coms[b] \in Com(len)
             /\ EvalCom(coms[b], me) \cong Gen * shares[b]
  <2>1. coms[b] = Commit(p[b]) /\ Len(coms[b]) = len /\ VerifyShare(coms[b], me, shares[b])
    BY <1>1, <1>4, <1>5
  <2>2. PICK n \in Nat : p[b] \in [1..n -> Scalar]
    BY DEF Polys
  <2>3. p[b] \in [1..n -> Int]
    BY <2>2, ScalarInt
  <2>4. coms[b] \in Com(n)
    BY <2>1, <2>3, CommitSound
  <2>5. n = len
    BY <2>1, <2>4, ComTyped
  <2>6. me \in Int /\ shares[b] \in Int
    BY ScalarInt
  <2> QED
    BY <2>1, <2>4, <2>5, <2>6, ShareFits
<1> QED
  BY <1>4, <1>6 DEF Takes

(* What the polynomial of a dealer gives to a party, also altered.         *)
LEMMA SharesTyped ==
  ASSUME NEW count \in Nat, NEW p \in Polys(count), NEW i, NEW j \in Scalar, NEW cheat
  PROVE  /\ ShareFor(i, p, j, cheat) \in [1..count -> Scalar]
         /\ Delivered(i, p, j, cheat) \in [1..count -> Scalar]
<1>1. PICK s : s = [b \in 1..count |->
                     (EvalPoly(p[b], j) + IF Hits(cheat, "deal", i, j) THEN 1 ELSE 0) % Q]
  OBVIOUS
<1>2. ShareFor(i, p, j, cheat) = s
  BY <1>1, TabulateIs DEF ShareFor, Polys
<1>3. ASSUME NEW b \in 1..count PROVE s[b] \in Scalar
  <2>1. PICK n \in Nat : p[b] \in [1..n -> Scalar]
    BY DEF Polys
  <2>2. p[b] \in [1..n -> Int] /\ j \in Int
    BY <2>1, ScalarInt
  <2>3. EvalPoly(p[b], j) \in Int
    BY <2>2, CommitSound, ScalarInt
  <2>4. PICK e \in {0, 1} : e = IF Hits(cheat, "deal", i, j) THEN 1 ELSE 0
    OBVIOUS
  <2>5. EvalPoly(p[b], j) + e \in Int
    BY <2>3, <2>4
  <2> QED
    BY <1>1, <2>4, <2>5, Reduce
<1>4. s \in [1..count -> Scalar]
  BY <1>1, <1>3
<1>5. PICK d : d = [s EXCEPT ![1] = (s[1] + 1) % Q]
  OBVIOUS
<1>6. d \in [1..count -> Scalar]
  <2>1. 1 \in 1..count => (s[1] + 1) % Q \in Scalar
    <3> SUFFICES ASSUME 1 \in 1..count PROVE (s[1] + 1) % Q \in Scalar
      OBVIOUS
    <3>1. s[1] \in Int
      BY <1>4, ScalarInt
    <3>2. s[1] + 1 \in Int
      BY <3>1
    <3> QED
      BY <3>2, Reduce
  <2> QED
    BY <1>4, <1>5, <2>1
<1>7. Delivered(i, p, j, cheat) \in {s, d}
  BY <1>2, <1>5 DEF Delivered
<1> QED
  BY <1>2, <1>4, <1>6, <1>7

(* A party that ends the session well holds the sum of shares that fit.    *)
LEMMA FinalizeSound ==
  ASSUME NEW C, Places(C.ids), NEW len \in Nat, NEW count \in Nat, NEW me \in C.ids,
         NEW polys \in [C.ids -> Polys(count)], NEW cheat, NEW v,
         v = Finalize(C, len, me, polys, cheat), v.ok
  PROVE  /\ \A i \in C.ids : Revealed(i, polys[i], cheat) = Committed(polys[i])
         /\ \A i \in C.ids, b \in 1..count : Commit(polys[i][b]) \in Com(len)
         /\ DOMAIN v.val = 1..count
         /\ \A b \in 1..count :
              \E s \in [C.ids -> Scalar] :
                /\ v.val[b] = SumOf(s)
                /\ \A i \in C.ids : EvalCom(Commit(polys[i][b]), me) \cong Gen * s[i]
<1>0. C.ids \in SUBSET Nat /\ me \in Scalar
  BY ScalarInt DEF Places
<1>1. PICK verdict : verdict = Tabulate([i \in C.ids |->
        CheckDealer(len, me, i, Committed(polys[i]), Revealed(i, polys[i], cheat),
                    Delivered(i, polys[i], me, cheat), ShareFor(i, polys[i], me, cheat))])
  OBVIOUS
<1>2. PICK loop : loop = Loop(verdict, C.ids)
  OBVIOUS
<1>3. PICK sums : sums = [b \in DOMAIN polys[me] |-> SumOf([i \in C.ids |-> loop.val[i][b]])]
  OBVIOUS
<1>a. v = IF loop.ok THEN Ok(Tabulate(sums)) ELSE loop
  BY ZenonT(40), <1>1, <1>2, <1>3 DEF Finalize, Then, Each, Loop
<1>4. v = IF loop.ok THEN Ok(sums) ELSE loop
  BY <1>a, TabulateIs
<1>b. \A i \in C.ids : verdict[i] =
        CheckDealer(len, me, i, Committed(polys[i]), Revealed(i, polys[i], cheat),
                    Delivered(i, polys[i], me, cheat), ShareFor(i, polys[i], me, cheat))
  BY <1>1, TabulateIs
<1>5. loop.ok /\ v.val = sums
  BY <1>4 DEF Ok
<1>6. loop.val = [i \in C.ids |-> verdict[i].val] /\ \A i \in C.ids : verdict[i].ok
  <2>1. loop = Ok([i \in C.ids |-> verdict[i].val]) /\ \A i \in C.ids : verdict[i].ok
    BY <1>0, <1>2, <1>5, LoopEnds
  <2> QED
    BY <2>1 DEF Ok
<1>7. ASSUME NEW i \in C.ids
      PROVE  /\ Revealed(i, polys[i], cheat) = Committed(polys[i])
             /\ loop.val[i] \in [1..count -> Scalar]
             /\ \A b \in 1..count : /\ Commit(polys[i][b]) \in Com(len)
                                    /\ EvalCom(Commit(polys[i][b]), me) \cong Gen * loop.val[i][b]
  <2>1. PICK coms, shares, defense : coms = Revealed(i, polys[i], cheat)
          /\ shares = Delivered(i, polys[i], me, cheat) /\ defense = ShareFor(i, polys[i], me, cheat)
    OBVIOUS
  <2>2. verdict[i] = CheckDealer(len, me, i, Committed(polys[i]), coms, shares, defense)
    BY <1>b, <2>1
  <2>3. shares \in [1..count -> Scalar]
    BY <1>0, <2>1, SharesTyped
  <2>4. verdict[i].ok
    BY <1>6
  <2>5. /\ coms = Committed(polys[i]) /\ verdict[i].val = shares
        /\ \A b \in 1..count : /\ coms[b] = Commit(polys[i][b]) /\ coms[b] \in Com(len)
                               /\ EvalCom(coms[b], me) \cong Gen * shares[b]
    BY <1>0, <2>2, <2>3, <2>4, DealerSound DEF Takes
  <2>6. loop.val[i] = shares
    BY <1>6, <2>5
  <2> QED
    BY <2>1, <2>3, <2>5, <2>6
<1>8. DOMAIN sums = 1..count
  BY <1>3 DEF Polys
<1>9. ASSUME NEW b \in 1..count
      PROVE  \E s \in [C.ids -> Scalar] :
                /\ v.val[b] = SumOf(s)
                /\ \A i \in C.ids : EvalCom(Commit(polys[i][b]), me) \cong Gen * s[i]
  <2>1. PICK s : s = [i \in C.ids |-> loop.val[i][b]]
    OBVIOUS
  <2>2. s \in [C.ids -> Scalar]
    BY <1>7, <2>1
  <2>3. v.val[b] = SumOf(s)
    BY <1>3, <1>5, <1>8, <2>1
  <2> QED
    BY <1>7, <2>1, <2>2, <2>3
<1> QED
  BY <1>5, <1>7, <1>8, <1>9

(* The sum of what dealers gave fits the sum of their commitments.         *)
LEMMA SumFits ==
  ASSUME NEW S \in SUBSET Scalar, S # {}, NEW len \in Nat, NEW A \in [S -> Com(len)], NEW j \in Scalar,
         NEW s \in [S -> Int], \A i \in S : EvalCom(A[i], j) \cong Gen * s[i]
  PROVE  SumOf(s) \in Scalar /\ EvalCom(SumCom(A), j) \cong Gen * SumOf(s)
<1>1. PICK e : e = [i \in S |-> EvalCom(A[i], j)]
  OBVIOUS
<1>2. IsFiniteSet(S) /\ j \in Int /\ Gen \in Int
  BY ScalarsFinite, ScalarInt
<1>3. \A i \in S : e[i] \in Int /\ s[i] \in Int /\ e[i] \cong Gen * s[i]
  BY <1>1, <1>2, ComTyped, ScalarInt
<1>4. SumOn(e, S) \cong Gen * SumOn(s, S)
  BY <1>2, <1>3, SumScale
<1>5. SumOf(s) = SumOn(s, S)
  BY SumIsFold
<1>6. SumOn(s, S) \in Scalar
  BY <1>2, <1>3, SumStep
<1>7. EvalCom(SumCom(A), j) \cong SumOn(e, S)
  <2>1. DOMAIN A = S /\ \A i \in S : A[i] \in Com(len)
    OBVIOUS
  <2> QED
    BY <1>1, <1>2, <2>1, SumComSound
<1> QED
  BY <1>4, <1>5, <1>6, <1>7, CongTrans

(* A session that ends well: what it deals fits its commitment, which is   *)
(* the sum of those to the polynomials.                                    *)
LEMMA DealSound ==
  ASSUME NEW C, Places(C.ids), NEW len \in Nat, NEW count \in Nat,
         NEW polys \in [C.ids -> Polys(count)], NEW cheat, NEW out,
         out = DealAll(C, len, polys, cheat), out.ok
  PROVE  /\ Sharings(out.val, count, C.ids, len)
         /\ \A i \in C.ids, b \in 1..count : Commit(polys[i][b]) \in Com(len)
         /\ \A b \in 1..count : out.val[b].com = SumCom([i \in C.ids |-> Commit(polys[i][b])])
<1>0. C.ids \in SUBSET Nat /\ Least(C.ids) \in C.ids
  BY ScalarInt, LeastIn DEF Places
<1>1. PICK verdict : verdict = Tabulate([j \in C.ids |-> Finalize(C, len, j, polys, cheat)])
  OBVIOUS
<1>2. PICK loop : loop = Loop(verdict, C.ids)
  OBVIOUS
<1>3. PICK outs : outs = [b \in DOMAIN polys[Least(C.ids)] |->
        [sh  |-> Tabulate([j \in C.ids |-> loop.val[j][b]]),
         com |-> SumCom([i \in C.ids |-> Revealed(i, polys[i], cheat)[b]])]]
  OBVIOUS
<1>a. out = IF loop.ok THEN Ok(Tabulate(outs)) ELSE loop
  BY <1>1, <1>2, <1>3 DEF DealAll, Then, Each, Loop
<1>4. out = IF loop.ok THEN Ok(outs) ELSE loop
  BY <1>a, TabulateIs
<1>5. loop.ok /\ out.val = outs
  BY <1>4 DEF Ok
<1>6. loop.val = [j \in C.ids |-> verdict[j].val] /\ \A j \in C.ids : verdict[j].ok
  <2>1. loop = Ok([j \in C.ids |-> verdict[j].val]) /\ \A j \in C.ids : verdict[j].ok
    BY <1>0, <1>2, <1>5, LoopEnds
  <2> QED
    BY <2>1 DEF Ok
<1>7. \A j \in C.ids : verdict[j] = Finalize(C, len, j, polys, cheat)
  BY <1>1, TabulateIs
<1>8. /\ \A i \in C.ids : Revealed(i, polys[i], cheat) = Committed(polys[i])
      /\ \A i \in C.ids, b \in 1..count : Commit(polys[i][b]) \in Com(len)
  <2>1. PICK j \in C.ids : j = Least(C.ids)
    BY <1>0
  <2>2. PICK v : v = Finalize(C, len, j, polys, cheat)
    OBVIOUS
  <2>3. v.ok
    BY <1>6, <1>7, <2>1, <2>2
  <2> QED
    BY <2>2, <2>3, FinalizeSound
<1>9. DOMAIN outs = 1..count
  BY <1>0, <1>3 DEF Polys
<1>10. ASSUME NEW b \in 1..count
       PROVE  /\ Held(outs[b], C.ids, len)
              /\ outs[b].com = SumCom([i \in C.ids |-> Commit(polys[i][b])])
  <2>1. PICK A : A = [i \in C.ids |-> Commit(polys[i][b])]
    OBVIOUS
  <2>2. PICK X : X = outs[b]
    OBVIOUS
  <2>3. \A i \in C.ids : Revealed(i, polys[i], cheat)[b] = Commit(polys[i][b])
    <3>1. ASSUME NEW i \in C.ids PROVE Committed(polys[i])[b] = Commit(polys[i][b])
      <4>1. DOMAIN polys[i] = 1..count
        BY DEF Polys
      <4> QED
        BY <4>1, TabulateIs DEF Committed
    <3> QED
      BY <1>8, <3>1
  <2>4. [i \in C.ids |-> Revealed(i, polys[i], cheat)[b]] = A
    BY <2>1, <2>3
  <2>5. DOMAIN X = {"sh", "com"} /\ X.sh = [j \in C.ids |-> verdict[j].val[b]] /\ X.com = SumCom(A)
    <3>1. loop.val = [j \in C.ids |-> verdict[j].val]
      BY <1>6
    <3>2. PICK sh : sh = [j \in C.ids |-> verdict[j].val[b]]
      OBVIOUS
    <3>3. X = [sh |-> Tabulate([j \in C.ids |-> loop.val[j][b]]), com |-> SumCom(A)]
      BY <1>3, <1>9, <2>2, <2>4
    <3>4. [j \in C.ids |-> loop.val[j][b]] = sh
      BY <3>1, <3>2
    <3> QED
      BY <3>2, <3>3, <3>4, TabulateIs
  <2>6. A \in [C.ids -> Com(len)]
    BY <1>8, <2>1
  <2>7. ASSUME NEW j \in C.ids PROVE X.sh[j] \in Scalar /\ EvalCom(X.com, j) \cong Gen * X.sh[j]
    <3>1. PICK s \in [C.ids -> Scalar] : /\ verdict[j].val[b] = SumOf(s)
                                         /\ \A i \in C.ids : EvalCom(Commit(polys[i][b]), j) \cong Gen * s[i]
      <4>1. PICK v : v = verdict[j]
        OBVIOUS
      <4>2. v = Finalize(C, len, j, polys, cheat) /\ v.ok
        BY <1>6, <1>7, <4>1
      <4>3. \E s \in [C.ids -> Scalar] :
              /\ v.val[b] = SumOf(s)
              /\ \A i \in C.ids : EvalCom(Commit(polys[i][b]), j) \cong Gen * s[i]
        BY <4>2, FinalizeSound
      <4> QED
        BY <4>1, <4>3
    <3>2. \A i \in C.ids : EvalCom(A[i], j) \cong Gen * s[i]
      BY <2>1, <3>1
    <3>3. j \in Scalar /\ C.ids \in SUBSET Scalar /\ C.ids # {}
      BY DEF Places
    <3> QED
      <4>1. SumOf(s) \in Scalar /\ EvalCom(SumCom(A), j) \cong Gen * SumOf(s)
        <5>1. s \in [C.ids -> Int]
          BY ScalarInt
        <5> QED
          BY <2>6, <3>2, <3>3, <5>1, SumFits
      <4>2. X.sh[j] = SumOf(s) /\ X.com = SumCom(A)
        BY <2>5, <3>1
      <4> QED
        BY <4>1, <4>2
  <2>8. X.com \in Com(len)
    <3>1. IsFiniteSet(C.ids) /\ C.ids # {}
      BY ScalarsFinite DEF Places
    <3> QED
      BY <2>5, <2>6, <3>1, SumComSound
  <2> QED
    BY <2>1, <2>2, <2>5, <2>7, <2>8 DEF Held
<1> QED
  BY <1>5, <1>8, <1>9, <1>10 DEF Sharings

(* Nobody deviates in an honest session.                                   *)
LEMMA NobodyDoes ==
  \A i, j : \A kind \in {"deal", "reveal", "transit", "reshare", "proof", "product", "slot",
                          "open", "nonce", "key", "mask", "sign", "unbound", "shift"} :
    ~Does(Honest, kind, i) /\ ~Hits(Honest, kind, i, j)
BY DEF Honest, Does, Hits

LEMMA FinalizeHonest ==
  ASSUME NEW C, Places(C.ids), NEW len \in Nat, NEW count \in Nat, NEW me \in C.ids,
         NEW polys \in [C.ids -> [1..count -> [1..len -> Scalar]]], NEW v,
         v = Finalize(C, len, me, polys, Honest)
  PROVE  v.ok
<1>0. C.ids \in SUBSET Nat /\ me \in Scalar /\ me \in Int
  BY ScalarInt DEF Places
<1>1. PICK verdict : verdict = Tabulate([i \in C.ids |->
        CheckDealer(len, me, i, Committed(polys[i]), Revealed(i, polys[i], Honest),
                    Delivered(i, polys[i], me, Honest), ShareFor(i, polys[i], me, Honest))])
  OBVIOUS
<1>2. PICK loop : loop = Loop(verdict, C.ids)
  OBVIOUS
<1>3. PICK sums : sums = [b \in DOMAIN polys[me] |-> SumOf([i \in C.ids |-> loop.val[i][b]])]
  OBVIOUS
<1>4. v = IF loop.ok THEN Ok(Tabulate(sums)) ELSE loop
  BY ZenonT(40), <1>1, <1>2, <1>3 DEF Finalize, Then, Each, Loop
<1>5. ASSUME NEW i \in C.ids PROVE verdict[i].ok
  <2>1. PICK p \in [1..count -> [1..len -> Scalar]] : p = polys[i]
    OBVIOUS
  <2>2. PICK coms : coms = Committed(p)
    OBVIOUS
  <2>3. PICK s : s = ShareFor(i, p, me, Honest)
    OBVIOUS
  <2>4. Revealed(i, p, Honest) = coms /\ Delivered(i, p, me, Honest) = s
    BY <2>2, <2>3, NobodyDoes DEF Revealed, Delivered
  <2>5. coms = [b \in 1..count |-> Commit(p[b])]
    BY <2>2, TabulateIs DEF Committed
  <2>6. \A b \in 1..count : s[b] = (EvalPoly(p[b], me) + 0) % Q
    <3>1. PICK f : f = [b \in DOMAIN p |->
                         (EvalPoly(p[b], me) + IF Hits(Honest, "deal", i, me) THEN 1 ELSE 0) % Q]
      OBVIOUS
    <3>2. s = f
      BY <2>3, <3>1, TabulateIs DEF ShareFor
    <3>3. ~Hits(Honest, "deal", i, me)
      BY NobodyDoes
    <3> QED
      BY <3>1, <3>2, <3>3
  <2>7. ASSUME NEW b \in 1..count PROVE Len(coms[b]) = len /\ VerifyShare(coms[b], me, s[b])
    <3>1. p[b] \in [1..len -> Int]
      BY ScalarInt
    <3>2. /\ coms[b] \in Com(len) /\ EvalPoly(p[b], me) \in Scalar
          /\ EvalCom(coms[b], me) \cong Gen * EvalPoly(p[b], me)
      BY <1>0, <2>5, <3>1, CommitSound
    <3>3. s[b] = EvalPoly(p[b], me)
      <4>1. PICK e \in Scalar : e = EvalPoly(p[b], me)
        BY <3>2
      <4>2. e \in Int /\ e + 0 = e /\ e % Q = e
        BY <4>1, ScalarInt, Reduce
      <4> QED
        BY <2>6, <4>1, <4>2
    <3>4. s[b] \in Int /\ EvalCom(coms[b], me) \cong Gen * s[b]
      BY <3>2, <3>3, ScalarInt
    <3>5. VerifyShare(coms[b], me, s[b])
      BY <1>0, <3>2, <3>4, ShareFits
    <3> QED
      BY <3>2, <3>5, ComTyped
  <2>8. PICK bad : bad = {b \in DOMAIN coms : ~VerifyShare(coms[b], me, s[b])}
    OBVIOUS
  <2>9. bad = {} /\ ~\E b \in DOMAIN coms : Len(coms[b]) # len
    BY <2>5, <2>7, <2>8
  <2>10. CheckDealer(len, me, i, coms, coms, s, s) = Ok(s)
    BY <2>8, <2>9 DEF CheckDealer
  <2>11. verdict[i] = CheckDealer(len, me, i, Committed(p), Revealed(i, p, Honest),
                                  Delivered(i, p, me, Honest), ShareFor(i, p, me, Honest))
    BY <1>1, <2>1, TabulateIs
  <2> QED
    BY <2>2, <2>3, <2>4, <2>10, <2>11 DEF Ok
<1>6. loop.ok
  BY ZenonT(40), <1>0, <1>2, <1>5, LoopEnds DEF Ok
<1> QED
  BY <1>4, <1>6 DEF Ok

LEMMA DealHonest ==
  ASSUME NEW C, Places(C.ids), NEW len \in Nat, NEW count \in Nat,
         NEW polys \in [C.ids -> [1..count -> [1..len -> Scalar]]], NEW out,
         out = DealAll(C, len, polys, Honest)
  PROVE  out.ok
<1>0. C.ids \in SUBSET Nat
  BY ScalarInt DEF Places
<1>1. PICK verdict : verdict = Tabulate([j \in C.ids |-> Finalize(C, len, j, polys, Honest)])
  OBVIOUS
<1>2. PICK loop : loop = Loop(verdict, C.ids)
  OBVIOUS
<1>3. PICK outs : outs = [b \in DOMAIN polys[Least(C.ids)] |->
        [sh  |-> Tabulate([j \in C.ids |-> loop.val[j][b]]),
         com |-> SumCom([i \in C.ids |-> Revealed(i, polys[i], Honest)[b]])]]
  OBVIOUS
<1>4. out = IF loop.ok THEN Ok(Tabulate(outs)) ELSE loop
  BY ZenonT(40), <1>1, <1>2, <1>3 DEF DealAll, Then, Each, Loop
<1>5. \A j \in C.ids : verdict[j] = Finalize(C, len, j, polys, Honest)
  BY <1>1, TabulateIs
<1>6. \A j \in C.ids : verdict[j].ok
  BY <1>5, FinalizeHonest
<1>7. loop.ok
  BY <1>0, <1>2, <1>6, LoopEnds DEF Ok
<1> QED
  BY <1>4, <1>7 DEF Ok

(* Whatever the generators yield, random polynomials are of the field.     *)
LEMMA RandomTyped ==
  /\ \A seed, i, k : Coin(seed, i, k) \in Scalar
  /\ \A seed, i, count, len : RandomPolys(seed, i, count, len) \in [1..count -> [1..len -> Scalar]]
<1>1. ASSUME NEW seed, NEW i, NEW k PROVE Coin(seed, i, k) \in Scalar
  BY ScalarInt DEF Coin
<1>2. ASSUME NEW seed, NEW i, NEW count, NEW len
      PROVE  RandomPolys(seed, i, count, len) \in [1..count -> [1..len -> Scalar]]
  BY <1>1, TabulateIs DEF RandomPolys
<1> QED
  BY <1>1, <1>2

LEMMA PolysOf ==
  ASSUME NEW count, NEW len \in Nat
  PROVE  [1..count -> [1..len -> Scalar]] \subseteq Polys(count)
BY DEF Polys

(* Random sharings over a committee.                                       *)
LEMMA RandomDealt ==
  ASSUME NEW C, Places(C.ids), NEW len \in Nat, NEW count \in Nat,
         NEW polys \in [C.ids -> [1..count -> [1..len -> Scalar]]],
         NEW cheat, NEW out, out = DealAll(C, len, polys, cheat)
  PROVE  /\ cheat = Honest => out.ok
         /\ out.ok => Sharings(out.val, count, C.ids, len)
<1>1. polys \in [C.ids -> Polys(count)]
  BY PolysOf
<1>2. cheat = Honest => out.ok
  BY DealHonest
<1>3. ASSUME out.ok
      PROVE  Sharings(out.val, count, C.ids, len)
  BY <1>1, <1>3, DealSound
<1> QED
  BY <1>2, <1>3

LEMMA JointRandomSound ==
  ASSUME NEW C, Places(C.ids), C.t \in Nat, NEW seed
  PROVE  JointRandom(C, seed).ok /\ Held(JointRandom(C, seed).val, C.ids, C.t)
<1>1. PICK n \in Nat : n = 1
  OBVIOUS
<1>2. PICK polys : polys = Tabulate([i \in C.ids |-> RandomPolys(seed, i, n, C.t)])
  OBVIOUS
<1>a. polys = [i \in C.ids |-> RandomPolys(seed, i, n, C.t)]
  BY <1>2, TabulateIs
<1>b. polys \in [C.ids -> [1..n -> [1..C.t -> Scalar]]]
  BY <1>a, RandomTyped
<1>3. PICK all : all = DealAll(C, C.t, polys, Honest)
  OBVIOUS
<1>4. all.ok /\ Sharings(all.val, n, C.ids, C.t)
  BY <1>b, <1>3, RandomDealt
<1>5. JointRandom(C, seed) = IF all.ok THEN Ok(all.val[1]) ELSE all
  BY <1>1, <1>2, <1>3 DEF JointRandom, Then
<1> QED
  BY <1>1, <1>4, <1>5 DEF Ok, Sharings

LEMMA JointBatchSound ==
  ASSUME NEW C, Places(C.ids), C.t \in Nat, NEW seed, NEW count \in Nat, NEW out,
         out = JointRandomBatch(C, seed, count)
  PROVE  out.ok /\ Sharings(out.val, count, C.ids, C.t)
<1>1. PICK polys : polys = Tabulate([i \in C.ids |-> RandomPolys(seed, i, count, C.t)])
  OBVIOUS
<1>a. polys = [i \in C.ids |-> RandomPolys(seed, i, count, C.t)]
  BY <1>1, TabulateIs
<1>b. polys \in [C.ids -> [1..count -> [1..C.t -> Scalar]]]
  BY <1>a, RandomTyped
<1>2. out = DealAll(C, C.t, polys, Honest)
  BY <1>1 DEF JointRandomBatch
<1> QED
  BY <1>b, <1>2, RandomDealt

LEMMA JointPackedSound ==
  ASSUME NEW C, Places(C.ids), NEW seed, NEW count \in Nat, NEW degree \in Nat, NEW out,
         out = JointRandomPacked(C, seed, count, degree)
  PROVE  out.ok /\ Sharings(out.val, count, C.ids, degree + 1)
<1>1. PICK len \in Nat : len = degree + 1
  OBVIOUS
<1>2. PICK polys : polys = Tabulate([i \in C.ids |-> RandomPolys(seed, i, count, len)])
  OBVIOUS
<1>a. polys = [i \in C.ids |-> RandomPolys(seed, i, count, len)]
  BY <1>2, TabulateIs
<1>b. polys \in [C.ids -> [1..count -> [1..len -> Scalar]]]
  BY <1>a, RandomTyped
<1>3. out = DealAll(C, len, polys, Honest)
  BY <1>1, <1>2 DEF JointRandomPacked
<1> QED
  BY <1>1, <1>b, <1>3, RandomDealt

(* drive_dkg (transport.rs): a key generation that succeeds, whoever       *)
(* deviates, leaves every party with a share that fits the joint           *)
(* commitment.                                                             *)
THEOREM DkgSound ==
  ASSUME NEW C, Places(C.ids), C.t \in Nat, NEW seed, NEW cheat, NEW out,
         out = DriveDkg(C, seed, cheat), out.ok
  PROVE  Held(out.val, C.ids, C.t)
<1>1. PICK n \in Nat : n = 1
  OBVIOUS
<1>2. PICK polys : polys = Tabulate([i \in C.ids |-> RandomPolys(seed, i, n, C.t)])
  OBVIOUS
<1>a. polys = [i \in C.ids |-> RandomPolys(seed, i, n, C.t)]
  BY <1>2, TabulateIs
<1>b. polys \in [C.ids -> [1..n -> [1..C.t -> Scalar]]]
  BY <1>a, RandomTyped
<1>3. PICK all : all = DealAll(C, C.t, polys, cheat)
  OBVIOUS
<1>4. out = IF all.ok THEN Ok(all.val[1]) ELSE all
  BY <1>1, <1>2, <1>3 DEF DriveDkg, Then
<1>5. all.ok /\ out.val = all.val[1]
  BY <1>4 DEF Ok
<1>6. Sharings(all.val, n, C.ids, C.t)
  BY <1>b, <1>3, <1>5, RandomDealt
<1> QED
  BY <1>1, <1>5, <1>6 DEF Sharings

-----------------------------------------------------------------------------
(* Dealing over signed envelopes *)

(* An error stays one, whatever is added to it.                            *)
LEMMA WithFails ==
  ASSUME NEW r, Aborted(r), NEW more
  PROVE  ~With(r, more).ok
<1>1. PICK who : r = Abort(who)
  BY DEF Aborted
<1> QED
  BY <1>1 DEF Abort, With

(* Envelopes pass unchanged, or a signature that fails is an error.        *)
LEMMA VerifyPasses ==
  ASSUME NEW C, NEW envs, NEW S \in SUBSET Nat, DOMAIN envs = S, NEW r, r = VerifyAll(C, envs)
  PROVE  /\ r.ok => r.val = [i \in S |-> envs[i]]
         /\ ~r.ok => Aborted(r)
<1>1. PICK verdict : verdict = Tabulate([i \in S |->
        IF VerifySignature(envs[i], Registry(C)[envs[i].env.from]) THEN Ok(envs[i]) ELSE Abort({i})])
  OBVIOUS
<1>2. r = Loop(verdict, S)
  BY <1>1 DEF VerifyAll, Each, Loop
<1>3. \A i \in S : verdict[i] = Ok(envs[i]) \/ verdict[i] = Abort({i})
  BY <1>1, TabulateIs
<1>4. ASSUME r.ok PROVE r.val = [i \in S |-> envs[i]]
  <2>1. r = Ok([i \in S |-> verdict[i].val]) /\ \A i \in S : verdict[i].ok
    BY <1>2, <1>4, LoopEnds
  <2>2. \A i \in S : verdict[i].val = envs[i]
    BY <1>3, <2>1, Results
  <2>3. PICK f : f = [i \in S |-> verdict[i].val]
    OBVIOUS
  <2>4. r.val = f
    BY <2>1, <2>3, Results
  <2>5. f = [i \in S |-> envs[i]]
    BY <2>2, <2>3
  <2> QED
    BY <2>4, <2>5
<1>5. ASSUME ~r.ok PROVE Aborted(r)
  <2>1. PICK i \in S : ~verdict[i].ok /\ r = verdict[i]
    BY <1>2, <1>5, LoopEnds
  <2>2. r = Abort({i})
    BY <1>3, <2>1, Results
  <2> QED
    BY <2>2 DEF Aborted
<1> QED
  BY <1>4, <1>5

LEMMA VerifyFails ==
  ASSUME NEW C, NEW envs, NEW S \in SUBSET Nat, DOMAIN envs = S, NEW r, r = VerifyAll(C, envs), ~r.ok
  PROVE  Aborted(r)
BY VerifyPasses

(* The shares that arrive are of the field, altered or not. A forged one   *)
(* fails its signature; one that is left alone is the dealer's.            *)
LEMMA EnvelopesTyped ==
  ASSUME NEW C, Places(C.ids), NEW j \in Scalar, NEW polys \in [C.ids -> Polys(1)], NEW cheat,
         NEW sent, sent = SharesTo(C, j, polys, cheat),
         NEW got, got = Received(j, [k \in C.ids |-> sent[k]], cheat)
  PROVE  /\ DOMAIN sent = C.ids
         /\ \A i \in C.ids :
              /\ got[i].env.payload \in Scalar
              /\ sent[i].env.from = i /\ sent[i].by = i
              /\ sent[i].over # sent[i].env <=> Hits(cheat, "forged", i, j)
              /\ \/ Hits(cheat, "forged", i, j) \/ Hits(cheat, "transit", i, j)
                 \/ got[i].env.payload = ShareFor(i, polys[i], j, cheat)[1]
<1>0. PICK all : all = [k \in C.ids |-> sent[k]]
  OBVIOUS
<1>1. DOMAIN sent = C.ids
  <2>1. SharesTo(C, j, polys, cheat) = [i \in C.ids |->
          LET s == SignEnv(2, i, j, ShareFor(i, polys[i], j, cheat)[1], i)
          IN  IF Hits(cheat, "forged", i, j) THEN [s EXCEPT !.env.payload = (@ + 1) % Q] ELSE s]
    BY TabulateIs DEF SharesTo
  <2> QED
    BY <2>1
<1>2. ASSUME NEW i \in C.ids
      PROVE  /\ got[i].env.payload \in Scalar
             /\ sent[i].env.from = i /\ sent[i].by = i
             /\ sent[i].over # sent[i].env <=> Hits(cheat, "forged", i, j)
             /\ \/ Hits(cheat, "forged", i, j) \/ Hits(cheat, "transit", i, j)
                \/ got[i].env.payload = ShareFor(i, polys[i], j, cheat)[1]
  <2>1. PICK p : p = ShareFor(i, polys[i], j, cheat)[1]
    OBVIOUS
  <2>2. p \in Scalar
    <3>1. PICK n \in Nat : n = 1
      OBVIOUS
    <3>2. PICK f : f = ShareFor(i, polys[i], j, cheat)
      OBVIOUS
    <3>3. polys[i] \in Polys(n)
      BY <3>1
    <3>4. f \in [1..n -> Scalar]
      BY <3>2, <3>3, SharesTyped
    <3> QED
      BY <2>1, <3>1, <3>2, <3>4
  <2>3. PICK s : s = SignEnv(2, i, j, p, i)
    OBVIOUS
  <2>4. PICK e : e = [round |-> 2, from |-> i, to |-> j, payload |-> p]
    OBVIOUS
  <2>5. s = [env |-> e, by |-> i, over |-> e]
    BY <2>3, <2>4 DEF SignEnv
  <2>6. sent[i] = IF Hits(cheat, "forged", i, j) THEN [s EXCEPT !.env.payload = (@ + 1) % Q] ELSE s
    <3>1. PICK F : F = [k \in C.ids |->
            LET e0 == SignEnv(2, k, j, ShareFor(k, polys[k], j, cheat)[1], k)
            IN  IF Hits(cheat, "forged", k, j) THEN [e0 EXCEPT !.env.payload = (@ + 1) % Q] ELSE e0]
      OBVIOUS
    <3>2. sent = Tabulate(F)
      BY <3>1 DEF SharesTo
    <3>3. sent[i] = F[i]
      BY <3>2, TabulateIs
    <3> QED
      BY <2>1, <2>3, <3>1, <3>3
  <2>7. \A x \in Scalar : (x + 1) % Q \in Scalar
    <3>1. \A x \in Scalar : x + 1 \in Int
      BY ScalarInt
    <3> QED
      BY <3>1, Reduce
  <2>8. DOMAIN sent[i] = {"env", "by", "over"} /\ DOMAIN sent[i].env = {"round", "from", "to", "payload"}
        /\ sent[i].env.payload \in Scalar
    BY <2>2, <2>4, <2>5, <2>6, <2>7
  <2>9. PICK z : z = sent[i]
    OBVIOUS
  <2>10. got[i] = IF Hits(cheat, "transit", i, j) THEN [z EXCEPT !.env.payload = (@ + 1) % Q] ELSE z
    <3>1. PICK f : f = all
      OBVIOUS
    <3>2. DOMAIN f = C.ids /\ f[i] = z
      BY <1>0, <2>9, <3>1
    <3>3. Received(j, f, cheat) = [k \in DOMAIN f |->
            IF Hits(cheat, "transit", k, j) THEN [f[k] EXCEPT !.env.payload = (@ + 1) % Q] ELSE f[k]]
      BY TabulateIs DEF Received
    <3> QED
      BY <1>0, <3>1, <3>2, <3>3
  <2>11. (p + 1) % Q # p
    <3>1. p \in 0..(Q - 1) /\ Q \in Nat /\ Q > 1
      BY <2>2, FieldAssumption DEF Scalar
    <3> QED
      BY <3>1
  <2>12. sent[i].env.from = i /\ sent[i].by = i /\ (sent[i].over # sent[i].env <=> Hits(cheat, "forged", i, j))
    <3>1. CASE Hits(cheat, "forged", i, j)
      <4>1. sent[i].env.payload = (p + 1) % Q /\ sent[i].over.payload = p /\ sent[i].env.from = i /\ sent[i].by = i
        BY <2>4, <2>5, <2>6, <3>1
      <4> QED
        BY <2>11, <3>1, <4>1
    <3>2. CASE ~Hits(cheat, "forged", i, j)
      BY <2>4, <2>5, <2>6, <3>2
    <3> QED
      BY <3>1, <3>2
  <2>13. got[i].env.payload \in Scalar
    BY <2>7, <2>8, <2>9, <2>10
  <2>14. ~Hits(cheat, "forged", i, j) /\ ~Hits(cheat, "transit", i, j) => got[i].env.payload = p
    BY <2>4, <2>5, <2>6, <2>9, <2>10
  <2> QED
    BY <2>1, <2>12, <2>13, <2>14
<1> QED
  BY <1>1, <1>2

(* A receiver that is not satisfied aborts.                                *)
LEMMA DealerFails ==
  ASSUME NEW len, NEW me, NEW i, NEW hash, NEW coms, NEW shares, NEW defense, NEW v,
         v = CheckDealer(len, me, i, hash, coms, shares, defense), ~v.ok
  PROVE  Aborted(v)
<1>1. PICK bad : bad = {b \in DOMAIN coms : ~VerifyShare(coms[b], me, shares[b])}
  OBVIOUS
<1>2. PICK who : who = {IF VerifyShare(coms[Least(bad)], me, defense[Least(bad)]) THEN me ELSE i}
  OBVIOUS
<1>3. v = IF (\E b \in DOMAIN coms : Len(coms[b]) # len) \/ coms # hash THEN Abort({i})
          ELSE IF bad = {} THEN Ok(shares) ELSE Abort(who)
  BY <1>1, <1>2 DEF CheckDealer, ResolveComplaint
<1> QED
  BY <1>3, Results DEF Aborted

(* One party of the signed session.                                        *)
LEMMA FinalizeSignedSound ==
  ASSUME NEW C, Places(C.ids), C.t \in Nat, NEW me \in C.ids, NEW polys \in [C.ids -> Polys(1)],
         NEW coms, NEW cheat, NEW v, v = FinalizeSigned(C, me, polys, coms, cheat)
  PROVE  /\ v.ok => \E s \in [C.ids -> Scalar] :
                      /\ v.val = SumOf(s)
                      /\ \A i \in C.ids : /\ coms[i] \in Com(C.t)
                                          /\ EvalCom(coms[i], me) \cong Gen * s[i]
<1> SUFFICES ASSUME v.ok
             PROVE  \E s \in [C.ids -> Scalar] :
                      /\ v.val = SumOf(s)
                      /\ \A i \in C.ids : /\ coms[i] \in Com(C.t)
                                          /\ EvalCom(coms[i], me) \cong Gen * s[i]
  OBVIOUS
<1>0. C.ids \in SUBSET Nat /\ me \in Scalar
  BY ScalarInt DEF Places
<1>1. PICK sent : sent = SharesTo(C, me, polys, cheat)
  OBVIOUS
<1>2. PICK accepted : accepted = VerifyAll(C, sent)
  OBVIOUS
<1>3. PICK envs : envs = Received(me, accepted.val, cheat)
  OBVIOUS
<1>4. PICK verdict : verdict = Tabulate([i \in C.ids |->
        CheckDealer(C.t, me, i, Committed(polys[i]), <<coms[i]>>, <<envs[i].env.payload>>,
                    ShareFor(i, polys[i], me, cheat))])
  OBVIOUS
<1>5. PICK sums : sums = Loop(verdict, C.ids)
  OBVIOUS
<1>6. PICK s : s = [i \in C.ids |-> sums.val[i][1]]
  OBVIOUS
<1>7. PICK token : token = [token |-> DealerBlameToken(sums, envs, coms)]
  OBVIOUS
<1>8. v = CASE ~accepted.ok -> With(accepted, [token |-> NoToken])
            [] accepted.ok /\ ~sums.ok -> With(sums, token)
            [] OTHER -> Ok(SumOf(s))
  BY <1>1, <1>2, <1>3, <1>4, <1>5, <1>6, <1>7 DEF FinalizeSigned, Each, Loop
<1>8a. PICK got : got = Received(me, [k \in C.ids |-> sent[k]], cheat)
  OBVIOUS
<1>9. DOMAIN sent = C.ids /\ \A i \in C.ids : got[i].env.payload \in Scalar
  BY <1>0, <1>1, <1>8a, EnvelopesTyped
<1>10. accepted.ok
  <2> SUFFICES ASSUME ~accepted.ok PROVE FALSE
    OBVIOUS
  <2>1. Aborted(accepted)
    BY <1>0, <1>2, <1>9, VerifyFails
  <2>2. v = With(accepted, [token |-> NoToken])
    BY <1>8
  <2> QED
    BY <2>1, <2>2, WithFails
<1>11. \A i \in C.ids : verdict[i] =
         CheckDealer(C.t, me, i, Committed(polys[i]), <<coms[i]>>, <<envs[i].env.payload>>,
                     ShareFor(i, polys[i], me, cheat))
  BY <1>4, TabulateIs
<1>12. sums.ok
  <2> SUFFICES ASSUME ~sums.ok PROVE FALSE
    OBVIOUS
  <2>1. PICK i \in C.ids : ~verdict[i].ok /\ sums = verdict[i]
    BY <1>0, <1>5, LoopFails
  <2>2. Aborted(sums)
    <3>1. PICK coms1, shares1, defense1 :
            coms1 = <<coms[i]>> /\ shares1 = <<envs[i].env.payload>>
            /\ defense1 = ShareFor(i, polys[i], me, cheat)
      OBVIOUS
    <3>2. sums = CheckDealer(C.t, me, i, Committed(polys[i]), coms1, shares1, defense1)
      BY <1>11, <2>1, <3>1
    <3> QED
      BY <2>1, <3>2, DealerFails
  <2>3. v = With(sums, token)
    BY <1>8, <1>10
  <2> QED
    BY <2>2, <2>3, WithFails
<1>13. v = Ok(SumOf(s))
  BY <1>8, <1>10, <1>12
<1>14. \A i \in C.ids : verdict[i].ok /\ sums.val[i] = verdict[i].val
  <2>1. sums = Ok([i \in C.ids |-> verdict[i].val]) /\ \A i \in C.ids : verdict[i].ok
    BY <1>0, <1>5, <1>12, LoopEnds
  <2> QED
    BY <2>1, Results
<1>15. \A i \in C.ids : envs[i].env.payload \in Scalar
  <2>1. accepted.val = [k \in C.ids |-> sent[k]]
    BY <1>0, <1>2, <1>9, <1>10, VerifyPasses
  <2> QED
    BY <1>3, <1>8a, <1>9, <2>1
<1>16. ASSUME NEW i \in C.ids
       PROVE  s[i] \in Scalar /\ coms[i] \in Com(C.t) /\ EvalCom(coms[i], me) \cong Gen * s[i]
  <2>1. PICK n \in Nat : n = 1
    OBVIOUS
  <2>2. PICK vec, shares, defense, vi :
          /\ vec = <<coms[i]>> /\ shares = <<envs[i].env.payload>>
          /\ defense = ShareFor(i, polys[i], me, cheat) /\ vi = verdict[i]
    OBVIOUS
  <2>3. vi = CheckDealer(C.t, me, i, Committed(polys[i]), vec, shares, defense) /\ vi.ok
    BY <1>11, <1>14, <2>2
  <2>4. shares \in [1..n -> Scalar]
    BY <1>15, <2>1, <2>2
  <2>5. polys[i] \in Polys(n)
    BY <2>1
  <2>6. /\ vi.val = shares
        /\ \A b \in 1..n : vec[b] \in Com(C.t) /\ EvalCom(vec[b], me) \cong Gen * shares[b]
    <3>1. PICK len \in Nat, p \in Polys(n) : len = C.t /\ p = polys[i]
      BY <2>5
    <3>2. vi = CheckDealer(len, me, i, Committed(p), vec, shares, defense) /\ vi.ok
      BY <2>3, <3>1
    <3>3. Takes(vi, p, vec, shares, n, len, me)
      BY <1>0, <2>4, <3>2, DealerSound
    <3> QED
      BY <3>1, <3>3 DEF Takes
  <2>7. 1 \in 1..n /\ vec[1] = coms[i] /\ s[i] = shares[1]
    BY <1>6, <1>14, <2>1, <2>2, <2>6
  <2> QED
    BY <2>4, <2>6, <2>7
<1>17. s \in [C.ids -> Scalar]
  BY <1>6, <1>16
<1> QED
  BY <1>13, <1>16, <1>17, Results

(* drive_dkg_signed (transport.rs): the same of the session over signed    *)
(* envelopes, where reveals and shares may be forged, altered or           *)
(* exchanged.                                                              *)
THEOREM SignedSound ==
  ASSUME NEW C, Places(C.ids), C.t \in Nat, NEW seed, NEW cheat, NEW out,
         out = DriveDkgSigned(C, seed, cheat), out.ok
  PROVE  Held(out.val, C.ids, C.t)
<1>0. C.ids \in SUBSET Nat /\ C.ids \in SUBSET Scalar /\ C.ids # {}
  BY ScalarInt DEF Places
<1>1. PICK polys : polys = Tabulate([i \in C.ids |-> RandomPolys(seed, i, 1, C.t)])
  OBVIOUS
<1>2. PICK e1, e2 : e1 = Commits(C, polys, cheat) /\ e2 = Reveals(C, polys, cheat)
  OBVIOUS
<1>3. PICK r1, r2 : r1 = VerifyAll(C, e1) /\ r2 = VerifyAll(C, e2)
  OBVIOUS
<1>4. PICK coms : coms = Tabulate([i \in C.ids |-> r2.val[i].env.payload[1]])
  OBVIOUS
<1>5. PICK verdict : verdict = Tabulate([j \in C.ids |-> FinalizeSigned(C, j, polys, coms, cheat)])
  OBVIOUS
<1>6. PICK sums : sums = Loop(verdict, C.ids)
  OBVIOUS
<1>7. PICK X : X = [sh |-> sums.val, com |-> SumCom(coms)]
  OBVIOUS
<1>8. \/ ~r1.ok /\ out = With(r1, [token |-> NoToken])
      \/ ~r2.ok /\ out = With(r2, [token |-> NoToken])
      \/ out = IF sums.ok THEN Ok(X) ELSE sums
  BY <1>1, <1>2, <1>3, <1>4, <1>5, <1>6, <1>7 DEF DriveDkgSigned, Then, Each, Loop
<1>9. DOMAIN e1 = C.ids /\ DOMAIN e2 = C.ids
  BY <1>2, TabulateIs DEF Commits, Reveals
<1>10. ASSUME NEW r, NEW e, DOMAIN e = C.ids, r = VerifyAll(C, e), ~r.ok
       PROVE  ~With(r, [token |-> NoToken]).ok
  <2>1. Aborted(r)
    BY <1>0, <1>10, VerifyFails
  <2> QED
    BY <2>1, WithFails
<1>11. sums.ok /\ out.val = X
  BY <1>3, <1>8, <1>9, <1>10, Results
<1>12. polys \in [C.ids -> Polys(1)]
  <2>1. polys = [i \in C.ids |-> RandomPolys(seed, i, 1, C.t)]
    BY <1>1, TabulateIs
  <2>2. polys \in [C.ids -> [1..1 -> [1..C.t -> Scalar]]]
    BY <2>1, RandomTyped
  <2> QED
    BY <2>2, PolysOf
<1>13. \A j \in C.ids : verdict[j].ok /\ sums.val[j] = verdict[j].val /\ DOMAIN sums.val = C.ids
                        /\ verdict[j] = FinalizeSigned(C, j, polys, coms, cheat)
  <2>1. sums = Ok([i \in C.ids |-> verdict[i].val]) /\ \A i \in C.ids : verdict[i].ok
    BY <1>0, <1>6, <1>11, LoopEnds
  <2>2. sums.val = [i \in C.ids |-> verdict[i].val]
    BY <2>1, Results
  <2> QED
    BY <1>5, <2>1, <2>2, TabulateIs
<1>14. ASSUME NEW j \in C.ids
       PROVE  \E s \in [C.ids -> Scalar] :
                      /\ sums.val[j] = SumOf(s)
                      /\ \A i \in C.ids : coms[i] \in Com(C.t) /\ EvalCom(coms[i], j) \cong Gen * s[i]
  <2>1. PICK v : v = verdict[j]
    OBVIOUS
  <2>2. v = FinalizeSigned(C, j, polys, coms, cheat) /\ v.ok /\ sums.val[j] = v.val
    BY <1>13, <2>1
  <2>3. \E s \in [C.ids -> Scalar] :
                      /\ v.val = SumOf(s)
                      /\ \A i \in C.ids : coms[i] \in Com(C.t) /\ EvalCom(coms[i], j) \cong Gen * s[i]
    BY <1>12, <2>2, FinalizeSignedSound
  <2> QED
    BY <2>2, <2>3
<1>15. coms \in [C.ids -> Com(C.t)]
  <2>1. coms = [i \in C.ids |-> r2.val[i].env.payload[1]]
    BY <1>4, TabulateIs
  <2>2. \A i \in C.ids : coms[i] \in Com(C.t)
    BY <1>0, <1>14
  <2>3. DOMAIN coms = C.ids /\ coms = [i \in C.ids |-> coms[i]]
    BY <2>1
  <2> QED
    BY <2>2, <2>3
<1>16. ASSUME NEW j \in C.ids PROVE X.sh[j] \in Scalar /\ EvalCom(X.com, j) \cong Gen * X.sh[j]
  <2>1. PICK s \in [C.ids -> Scalar] :
                      /\ sums.val[j] = SumOf(s)
                      /\ \A i \in C.ids : coms[i] \in Com(C.t) /\ EvalCom(coms[i], j) \cong Gen * s[i]
    BY <1>14
  <2>2. SumOf(s) \in Scalar /\ EvalCom(SumCom(coms), j) \cong Gen * SumOf(s)
    <3>1. s \in [C.ids -> Int]
      BY ScalarInt
    <3> QED
      BY <1>0, <1>15, <2>1, <3>1, SumFits
  <2> QED
    BY <1>7, <2>1, <2>2
<1>17. X.com \in Com(C.t)
  BY <1>0, <1>7, <1>15, ScalarsFinite, SumComSound
<1>18. X.sh \in [C.ids -> Scalar] /\ DOMAIN X = {"sh", "com"}
  <2>1. X.sh = sums.val /\ DOMAIN X.sh = C.ids /\ DOMAIN X = {"sh", "com"}
    BY <1>0, <1>7, <1>13
  <2>2. sums = Ok([i \in C.ids |-> verdict[i].val])
    BY <1>0, <1>6, <1>11, LoopEnds
  <2>3. X.sh = [i \in C.ids |-> verdict[i].val]
    BY <2>1, <2>2, Results
  <2>4. X.sh = [i \in C.ids |-> X.sh[i]]
    BY <2>3
  <2> QED
    BY <1>16, <2>1, <2>4
<1> QED
  BY <1>11, <1>16, <1>17, <1>18 DEF Held

-----------------------------------------------------------------------------
(* Weighted sums of sharings *)

(* Re-sharings D, by dealer, combined with weights w for the parties of R. *)
Combination(X, D, w, S, R) ==
  /\ X = [sh |-> [i \in R |-> SumOf([d \in S |-> w[d] * D[d].sh[i]])],
          com |-> SumCom([d \in S |-> ScaleCom(D[d].com, w[d])])]

(* Each of them fits its commitment.                                       *)
Fitting(D, S, R, n) == \A d \in S : D[d].com \in Com(n) /\
  \A i \in R : D[d].sh[i] \in Scalar /\ EvalCom(D[d].com, i) \cong Gen * D[d].sh[i]

(* The commitment is to the weighted sum.                                  *)
SumsUp(X, D, w, S) ==
  \A x \in Int : EvalCom(X.com, x) \cong SumOn([d \in S |-> w[d] * EvalCom(D[d].com, x)], S)

LEMMA CombinationHeld ==
  ASSUME NEW S \in SUBSET Scalar, S # {}, NEW R \in SUBSET Scalar, NEW n \in Nat, NEW w \in [S -> Scalar],
         NEW D, Fitting(D, S, R, n), NEW X, Combination(X, D, w, S, R)
  PROVE  Held(X, R, n) /\ SumsUp(X, D, w, S)
<1>1. PICK A : A = [d \in S |-> ScaleCom(D[d].com, w[d])]
  OBVIOUS
<1>2. \A d \in S : w[d] \in Int /\ D[d].com \in Com(n)
  BY ScalarInt DEF Fitting
<1>3. A \in [S -> Com(n)] /\ \A d \in S, x \in Int : EvalCom(A[d], x) \cong w[d] * EvalCom(D[d].com, x)
  BY <1>1, <1>2, ScaleComSound
<1>4. X = [sh |-> [i \in R |-> SumOf([d \in S |-> w[d] * D[d].sh[i]])], com |-> SumCom(A)]
  BY <1>1 DEF Combination
<1>5. X.sh = [i \in R |-> SumOf([d \in S |-> w[d] * D[d].sh[i]])] /\ X.com = SumCom(A)
      /\ DOMAIN X = {"sh", "com"}
  BY <1>4
<1>6. ASSUME NEW i \in R PROVE X.sh[i] \in Scalar /\ EvalCom(X.com, i) \cong Gen * X.sh[i]
  <2>1. PICK s : s = [d \in S |-> w[d] * D[d].sh[i]]
    OBVIOUS
  <2>2. i \in Int /\ i \in Scalar /\ Gen \in Int
    BY ScalarInt
  <2>3. ASSUME NEW d \in S PROVE s[d] \in Int /\ EvalCom(A[d], i) \cong Gen * s[d]
    <3> DEFINE u == w[d]
               a == D[d].sh[i]
               E == EvalCom(D[d].com, i)
               F == EvalCom(A[d], i)
    <3>1. u \in Int /\ a \in Int /\ E \in Int /\ F \in Int
      BY <1>2, <1>3, <2>2, ComTyped, ScalarInt DEF Fitting
    <3>2. F \cong u * E /\ E \cong Gen * a
      BY <1>3, <2>2 DEF Fitting
    <3>3. s[d] = u * a
      BY <2>1
    <3> HIDE DEF u, a, E, F
    <3>4. u * E \in Int /\ Gen * a \in Int /\ u * (Gen * a) \in Int /\ u * a \in Int
      BY <2>2, <3>1
    <3>5. u * E \cong u * (Gen * a)
      BY <3>1, <3>2, <3>4, CongWith
    <3>6. u * (Gen * a) = Gen * (u * a)
      BY <2>2, <3>1
    <3>7. F \cong Gen * (u * a)
      BY <3>2, <3>5, <3>6, CongTrans
    <3> QED
      BY <3>3, <3>4, <3>7 DEF F
  <2>4. s \in [S -> Int]
    BY <2>1, <2>3
  <2>5. X.sh[i] = SumOf(s)
    BY <1>5, <2>1
  <2> QED
    <3>1. A \in [S -> Com(n)] /\ \A d \in S : EvalCom(A[d], i) \cong Gen * s[d]
      BY <1>3, <2>3
    <3>2. SumOf(s) \in Scalar /\ EvalCom(SumCom(A), i) \cong Gen * SumOf(s)
      BY <2>2, <2>4, <3>1, SumFits
    <3> QED
      BY <1>5, <2>5, <3>2
<1>7. IsFiniteSet(S)
  BY ScalarsFinite
<1>8. X.com \in Com(n)
  BY <1>3, <1>5, <1>7, SumComSound
<1>9. ASSUME NEW x \in Int
      PROVE  EvalCom(X.com, x) \cong SumOn([d \in S |-> w[d] * EvalCom(D[d].com, x)], S)
  <2>1. PICK e, f : e = [d \in S |-> EvalCom(A[d], x)] /\ f = [d \in S |-> w[d] * EvalCom(D[d].com, x)]
    OBVIOUS
  <2>2. EvalCom(X.com, x) \cong SumOn(e, S)
    <3>1. DOMAIN A = S /\ \A d \in S : A[d] \in Com(n)
      BY <1>3
    <3>2. EvalCom(SumCom(A), x) \cong SumOn([d \in S |-> EvalCom(A[d], x)], S)
      BY <1>7, <3>1, SumComSound
    <3> QED
      BY <1>5, <2>1, <3>2
  <2>3. ASSUME NEW d \in S PROVE e[d] \in Int /\ f[d] \in Int /\ e[d] \cong f[d]
    <3>1. EvalCom(D[d].com, x) \in Int /\ EvalCom(A[d], x) \in Int
      BY <1>2, <1>3, ComTyped
    <3> QED
      BY <1>2, <1>3, <2>1, <3>1
  <2>4. SumOn(e, S) \cong SumOn(f, S)
    BY <1>7, <2>3, SumSame
  <2> QED
    BY <2>1, <2>2, <2>4, CongTrans
<1>10. X.sh \in [R -> Scalar]
  BY <1>5, <1>6
<1> QED
  BY <1>5, <1>6, <1>8, <1>9, <1>10 DEF Held, SumsUp

(* The value of X at x, scaled by g.                                       *)
Valued(X, x, g, v) == g * EvalCom(X.com, x) \cong v

(* With the weights of Lagrange the values of a polynomial give the value  *)
(* at the point the weights are for.                                       *)
LEMMA CombinationValue ==
  ASSUME NEW S \in SUBSET Scalar, S # {}, NEW R \in SUBSET Scalar, NEW n \in Nat, NEW s \in Int,
         NEW D, Fitting(D, S, R, n), NEW X, Combination(X, D, Lagrange(s, S), S, R),
         NEW k \in Nat, NEW f \in Interpolated(k), Cardinality(S) >= k,
         NEW g \in Int, NEW x \in Int, \A d \in S : Valued(D[d], x, g, f[d])
  PROVE  Held(X, R, n) /\ Valued(X, x, g, f[s])
<1>1. PICK w : w = Lagrange(s, S)
  OBVIOUS
<1>2. w \in [S -> Scalar] /\ \A d \in S : w[d] = Weight(s, S, d) /\ w[d] \in Int
  <2>1. w = [d \in S |-> Weight(s, S, d)]
    BY <1>1, LagrangeIs
  <2>2. \A d \in S : Weight(s, S, d) \in Scalar /\ Weight(s, S, d) \in Int
    BY WeightInt
  <2> QED
    BY <2>1, <2>2
<1>3. Held(X, R, n) /\ EvalCom(X.com, x) \cong SumOn([d \in S |-> w[d] * EvalCom(D[d].com, x)], S)
  <2>1. Combination(X, D, w, S, R)
    BY <1>1
  <2>2. Held(X, R, n) /\ SumsUp(X, D, w, S)
    BY <1>2, <2>1, CombinationHeld
  <2> QED
    BY <2>2 DEF SumsUp
<1>4. PICK e, h : /\ e = [d \in S |-> w[d] * EvalCom(D[d].com, x)]
                  /\ h = [d \in S |-> w[d] * f[d]]
  OBVIOUS
<1>5. IsFiniteSet(S) /\ f \in [Int -> Int] /\ \A d \in S : d \in Int
  BY ScalarsFinite, ScalarInt DEF Interpolated
<1>6. ASSUME NEW d \in S PROVE e[d] \in Int /\ h[d] \in Int /\ h[d] \cong g * e[d]
  <2> DEFINE u == w[d]
             v == f[d]
             E == EvalCom(D[d].com, x)
  <2>1. u \in Int /\ v \in Int /\ E \in Int /\ g * E \cong v /\ e[d] = u * E /\ h[d] = u * v
    BY <1>2, <1>4, <1>5, ComTyped DEF Fitting, Valued
  <2> HIDE DEF u, v, E
  <2>2. g * E \in Int /\ u * E \in Int /\ u * v \in Int /\ u * (g * E) = g * (u * E) /\ g * (u * E) \in Int
    BY <2>1
  <2>3. u * (g * E) \cong u * v
    BY <2>1, <2>2, CongWith
  <2>4. u * v \cong g * (u * E)
    BY <2>2, <2>3, CongTrans
  <2> QED
    BY <2>1, <2>2, <2>4
<1>7. SumOn(h, S) \cong g * SumOn(e, S)
  BY <1>5, <1>6, SumScale
<1>8. SumOn(h, S) = Interp(s, f, S)
  <2>1. h = [d \in S |-> Weight(s, S, d) * f[d]]
    BY <1>2, <1>4
  <2> QED
    BY <2>1 DEF Interp
<1>9. Interp(s, f, S) \cong f[s]
  BY DEF Interpolated
<1>10. g * EvalCom(X.com, x) \cong g * SumOn(e, S)
  <2>1. EvalCom(X.com, x) \in Int
    BY <1>3, ComTyped DEF Held
  <2>2. SumOn(e, S) \in Int
    BY <1>5, <1>6, SumStep, ScalarInt
  <2>3. EvalCom(X.com, x) \cong SumOn(e, S)
    BY <1>3, <1>4
  <2> QED
    BY <2>1, <2>2, <2>3, CongWith
<1> QED
  BY <1>3, <1>7, <1>8, <1>9, <1>10, CongTrans DEF Valued

-----------------------------------------------------------------------------
(* Refresh and hand-over *)

LEMMA FunctionIsSeq ==
  ASSUME NEW n \in Nat, NEW R, NEW list \in [1..n -> R]
  PROVE  list \in Seq(R) /\ Len(list) = n
BY SeqDef, LenProperties

(* A secret and its random coefficients.                                   *)
LEMMA RandomPolyTyped ==
  ASSUME NEW n \in Nat, n > 0, NEW c \in Scalar, NEW masks \in [1..(n - 1) -> Scalar]
  PROVE  RandomPoly(c, masks) \in [1..n -> Scalar] /\ RandomPoly(c, masks)[1] = c
<1>1. PICK m \in Nat : m = n - 1
  OBVIOUS
<1>2. masks \in Seq(Scalar) /\ Len(masks) = m
  BY <1>1, FunctionIsSeq
<1>3. PICK head : head = <<c>>
  OBVIOUS
<1>4. head \in Seq(Scalar) /\ Len(head) = 1 /\ head[1] = c
  BY <1>3
<1>5. PICK p : p = head \o masks
  OBVIOUS
<1>6. p \in Seq(Scalar) /\ Len(p) = 1 + m
      /\ \A i \in 1..(1 + m) : p[i] = IF i <= 1 THEN head[i] ELSE masks[i - 1]
  <2>1. /\ p \in Seq(Scalar) /\ Len(p) = Len(head) + Len(masks)
        /\ \A i \in 1..(Len(head) + Len(masks)) :
             p[i] = IF i <= Len(head) THEN head[i] ELSE masks[i - Len(head)]
    BY <1>2, <1>4, <1>5, ConcatProperties, Zenon
  <2> QED
    BY <1>2, <1>4, <2>1
<1>7. p \in [1..n -> Scalar]
  <2>1. 1 + m = n
    BY <1>1
  <2>2. p \in [1..Len(p) -> Scalar]
    BY <1>6, LenProperties, ElementOfSeq
  <2> QED
    BY <1>6, <2>1, <2>2
<1>8. p[1] = c
  BY <1>1, <1>4, <1>6
<1> QED
  BY <1>3, <1>5, <1>7, <1>8 DEF RandomPoly

LEMMA MasksTyped ==
  ASSUME NEW seed, NEW i, NEW n
  PROVE  Masks(seed, i, n) \in [1..n -> Scalar]
BY RandomTyped DEF Masks

(* Commitments that vanish add up to one that does.                        *)
LEMMA ZeroSum ==
  ASSUME NEW S \in SUBSET Scalar, S # {}, NEW n \in Nat, NEW A \in [S -> Com(n)], NEW x \in Int,
         \A i \in S : EvalCom(A[i], x) \cong 0
  PROVE  EvalCom(SumCom(A), x) \cong 0
<1>1. IsFiniteSet(S) /\ DOMAIN A = S /\ \A i \in S : A[i] \in Com(n)
  BY ScalarsFinite
<1>2. PICK e : e = [i \in S |-> EvalCom(A[i], x)]
  OBVIOUS
<1>3. EvalCom(SumCom(A), x) \cong SumOn([i \in S |-> EvalCom(A[i], x)], S)
  BY <1>1, SumComSound
<1>4. \A i \in S : e[i] \in Int /\ e[i] \cong 0 * e[i]
  <2> SUFFICES ASSUME NEW i \in S PROVE e[i] \in Int /\ e[i] \cong 0 * e[i]
    OBVIOUS
  <2>1. e[i] \in Int /\ e[i] \cong 0
    BY <1>1, <1>2, ComTyped
  <2> QED
    BY <2>1, IntClosed
<1>5. PICK z \in Int : z = 0
  OBVIOUS
<1>6. SumOn(e, S) \cong z * SumOn(e, S)
  BY <1>1, <1>4, <1>5, SumScale
<1>7. SumOn(e, S) \in Int
  BY <1>1, <1>4, SumStep, ScalarInt
<1>8. z * SumOn(e, S) = 0
  BY <1>5, <1>7, IntClosed
<1> QED
  BY <1>2, <1>3, <1>6, <1>8, CongTrans

(* refresh (refresh.rs): a refresh that succeeds, whoever deviates, gives  *)
(* every party a share that fits the new commitment, and the public key is *)
(* the old one.                                                            *)
THEOREM RefreshSound ==
  ASSUME NEW C, Places(C.ids), C.t \in Nat, C.t > 0, NEW k, Held(k, C.ids, C.t), NEW seed, NEW cheat,
         NEW out, out = Refresh(C, k, seed, cheat), out.ok
  PROVE  Held(out.val, C.ids, C.t) /\ out.val.com[1] = k.com[1]
<1>0. C.ids \in SUBSET Nat /\ C.ids \in SUBSET Scalar /\ C.ids # {}
  BY ScalarInt DEF Places
<1>1. PICK secret : secret = Tabulate([i \in C.ids |-> IF Does(cheat, "shift", i) THEN 1 ELSE 0])
  OBVIOUS
<1>2. PICK zero : zero = DealFixedSecrets(C, seed, secret, cheat)
  OBVIOUS
<1>3. PICK bad : bad = Shifted(C, secret)
  OBVIOUS
<1>4. PICK Z : Z = zero.val[1]
  OBVIOUS
<1>5. out = IF ~KeysMatch(C, k) THEN Fail("params")
            ELSE IF zero.ok THEN (IF bad # {} THEN Abort({Least(bad)}) ELSE Ok(Plus(k, Z))) ELSE zero
  BY <1>1, <1>2, <1>3, <1>4 DEF Refresh, Then
<1>6. zero.ok /\ bad = {} /\ out.val = Plus(k, Z)
  BY <1>5, Results
<1>7. \A i \in C.ids : secret[i] \in Scalar /\ Gen * secret[i] \cong 0
  <2>1. ASSUME NEW i \in C.ids PROVE secret[i] \in Scalar /\ Gen * secret[i] \cong 0
    <3>1. secret[i] = IF Does(cheat, "shift", i) THEN 1 ELSE 0
      BY <1>1, TabulateIs
    <3>2. (Gen * secret[i]) % Q = 0
      BY <1>3, <1>6 DEF Shifted
    <3>3. 0 \in Scalar /\ 1 \in Scalar /\ 0 % Q = 0
      BY ScalarInt, Reduce
    <3> QED
      BY <3>1, <3>2, <3>3 DEF \cong
  <2> QED
    BY <2>1
<1>8. PICK polys : polys = Tabulate([i \in C.ids |-> << RandomPoly(secret[i], Masks(seed, i, C.t - 1)) >>])
  OBVIOUS
<1>9. PICK p : p = [i \in C.ids |-> RandomPoly(secret[i], Masks(seed, i, C.t - 1))]
  OBVIOUS
<1>10. \A i \in C.ids : p[i] \in [1..C.t -> Scalar] /\ p[i][1] = secret[i]
  <2>1. PICK n \in Nat : n = C.t /\ n > 0
    OBVIOUS
  <2>2. \A i \in C.ids : Masks(seed, i, n - 1) \in [1..(n - 1) -> Scalar]
    BY MasksTyped
  <2> QED
    BY <1>7, <1>9, <2>1, <2>2, RandomPolyTyped
<1>11. polys = [i \in C.ids |-> << p[i] >>]
  BY <1>8, <1>9, TabulateIs
<1>12. PICK one \in Nat : one = 1
  OBVIOUS
<1>13. polys \in [C.ids -> Polys(one)]
  <2>1. polys \in [C.ids -> [1..1 -> [1..C.t -> Scalar]]]
    BY <1>10, <1>11
  <2> QED
    BY <1>12, <2>1, PolysOf
<1>14. zero = DealAll(C, C.t, polys, cheat)
  BY <1>2, <1>8 DEF DealFixedSecrets
<1>15. Sharings(zero.val, one, C.ids, C.t)
  BY <1>6, <1>13, <1>14, DealSound
<1>16. Held(Z, C.ids, C.t)
  BY <1>4, <1>12, <1>15 DEF Sharings
<1>17. PICK A : A = [i \in C.ids |-> Commit(p[i])]
  OBVIOUS
<1>18. Z.com = SumCom(A)
  <2>1. \A b \in 1..one : zero.val[b].com = SumCom([i \in C.ids |-> Commit(polys[i][b])])
    BY <1>6, <1>13, <1>14, DealSound
  <2>2. Z.com = SumCom([i \in C.ids |-> Commit(polys[i][1])])
    BY <1>4, <1>12, <2>1
  <2>3. [i \in C.ids |-> Commit(polys[i][1])] = A
    BY <1>11, <1>17
  <2> QED
    BY <2>2, <2>3
<1>19. \A i \in C.ids : A[i] \in Com(C.t) /\ EvalCom(A[i], 0) \cong 0
  <2>1. ASSUME NEW i \in C.ids PROVE A[i] \in Com(C.t) /\ EvalCom(A[i], 0) \cong 0
    <3>1. PICK n \in Nat : n = C.t /\ n > 0
      OBVIOUS
    <3>a. PICK q : q = p[i]
      OBVIOUS
    <3>2. q \in [1..n -> Int] /\ q[1] = secret[i] /\ A[i] = Commit(q)
      BY <1>10, <1>17, <3>1, <3>a, ScalarInt
    <3>3. Commit(q) \in Com(n) /\ \A l \in 1..n : Commit(q)[l] \cong Gen * q[l]
      BY <3>2, CommitSound
    <3>4. 1 \in 1..n /\ EvalCom(Commit(q), 0) = Commit(q)[1]
      BY <3>1, <3>3, AtZeroIsFirst
    <3> QED
      BY <1>7, <3>1, <3>2, <3>3, <3>4, CongTrans
  <2> QED
    BY <2>1
<1>20. EvalCom(Z.com, 0) \cong 0
  <2>1. A \in [C.ids -> Com(C.t)] /\ 0 \in Int
    BY <1>17, <1>19
  <2> QED
    BY <1>0, <1>18, <1>19, <2>1, ZeroSum
<1>21. /\ Held(Plus(k, Z), C.ids, C.t)
       /\ \A x \in Int : EvalCom(Plus(k, Z).com, x) \cong EvalCom(k.com, x) + EvalCom(Z.com, x)
  BY <1>0, <1>16, PlusHeld
<1>22. EvalCom(Plus(k, Z).com, 0) = EvalCom(k.com, 0)
  <2> DEFINE a == EvalCom(k.com, 0)
             b == EvalCom(Z.com, 0)
             c == EvalCom(Plus(k, Z).com, 0)
  <2>1. 0 \in Int /\ k.com \in Com(C.t) /\ Z.com \in Com(C.t) /\ Plus(k, Z).com \in Com(C.t)
    BY <1>16, <1>21 DEF Held
  <2>2. a \in Scalar /\ b \in Int /\ c \in Scalar /\ a \in Int
    BY <2>1, ComTyped, ScalarInt
  <2>3. c \cong a + b /\ b \cong 0
    BY <1>20, <1>21, <2>1
  <2> HIDE DEF a, b, c
  <2>4. a + b \cong a + 0 /\ a + 0 = a
    <3>1. PICK z \in Int : z = 0
      OBVIOUS
    <3>2. b \cong z
      BY <2>3, <3>1
    <3>3. a + b \cong a + z
      BY <2>2, <3>2, CongWith
    <3> QED
      BY <2>2, <3>1, <3>3
  <2>5. c \cong a
    BY <2>3, <2>4, CongTrans
  <2>6. c = a
    BY <2>2, <2>5, ScalarsEqual
  <2> QED
    BY <2>6 DEF a, c
<1>23. Plus(k, Z).com[1] = k.com[1]
  <2>1. k.com \in Com(C.t) /\ Plus(k, Z).com \in Com(C.t)
    BY <1>21 DEF Held
  <2> QED
    BY <1>22, <2>1, AtZeroIsFirst
<1> QED
  BY <1>6, <1>21, <1>23

(* What an old party deals to the new committee is typed.                  *)
LEMMA ReshareDealTyped ==
  ASSUME NEW new, Places(new.ids), new.t \in Nat, new.t > 0, NEW k, NEW j, k.sh[j] \in Scalar,
         NEW seed, NEW cheat, NEW deal, deal = ReshareDeal(new, k, j, seed, cheat)
  PROVE  deal.com \in Com(new.t) /\ \A m \in new.ids : deal.sh[m] \in Scalar
<1>1. PICK p : p = RandomPoly(k.sh[j], Masks(seed, j, new.t - 1))
  OBVIOUS
<1>2. PICK n \in Nat : n = new.t /\ n > 0
  OBVIOUS
<1>3. p \in [1..n -> Scalar] /\ p \in [1..n -> Int]
  <2>1. Masks(seed, j, n - 1) \in [1..(n - 1) -> Scalar]
    BY MasksTyped
  <2>2. p \in [1..n -> Scalar]
    BY <1>1, <1>2, <2>1, RandomPolyTyped
  <2> QED
    BY <2>2, ScalarInt
<1>4. PICK sh : sh = [m \in new.ids |->
        (EvalPoly(p, m) + IF Hits(cheat, "deal", j, m) THEN 1 ELSE 0) % Q]
  OBVIOUS
<1>5. deal.sh = sh /\ deal.com \in {AddConst(Commit(p), 1), Commit(p)}
  <2>1. deal = [com |-> IF Does(cheat, "unbound", j) THEN AddConst(Commit(p), 1) ELSE Commit(p),
                sh |-> Tabulate(sh)]
    BY <1>1, <1>4 DEF ReshareDeal
  <2> QED
    BY <2>1, TabulateIs
<1>6. Commit(p) \in Com(n) /\ AddConst(Commit(p), 1) \in Com(n)
  <2>1. Commit(p) \in Com(n)
    BY <1>3, CommitSound
  <2>2. 1 \in Int
    OBVIOUS
  <2> QED
    BY <1>2, <2>1, <2>2, AddConstSound
<1>7. ASSUME NEW m \in new.ids PROVE sh[m] \in Scalar
  <2>1. m \in Int
    BY ScalarInt DEF Places
  <2>2. EvalPoly(p, m) \in Int
    BY <1>3, <2>1, CommitSound, ScalarInt
  <2>3. PICK e \in {0, 1} : e = IF Hits(cheat, "deal", j, m) THEN 1 ELSE 0
    OBVIOUS
  <2>4. EvalPoly(p, m) + e \in Int
    BY <2>2, <2>3
  <2> QED
    BY <1>4, <2>3, <2>4, Reduce
<1> QED
  BY <1>2, <1>5, <1>6, <1>7

(* A new party takes a deal that continues the key and fits.               *)
TakesDeal(k, j, m, deal, val) ==
  /\ deal.com[1] = EvalCom(k.com, j) /\ val = deal.sh[m]
  /\ EvalCom(deal.com, m) \cong Gen * deal.sh[m]

LEMMA CheckDealSound ==
  ASSUME NEW n \in Nat, NEW k, NEW new, new.t = n, NEW m \in Scalar, NEW j, NEW deal,
         deal.com \in Com(n), deal.sh[m] \in Scalar,
         NEW v, v = CheckDeal(k, new, m, j, deal), v.ok
  PROVE  TakesDeal(k, j, m, deal, v.val)
<1>1. PICK who : ResolveComplaint(deal.com, j, m, deal.sh[m]) = Abort(who)
  BY DEF ResolveComplaint
<1>2. v = IF Len(deal.com) # new.t \/ deal.com[1] # EvalCom(k.com, j) THEN Abort({j})
          ELSE IF VerifyShare(deal.com, m, deal.sh[m]) THEN Ok(deal.sh[m]) ELSE Abort(who)
  BY <1>1 DEF CheckDeal
<1>3. deal.com[1] = EvalCom(k.com, j) /\ VerifyShare(deal.com, m, deal.sh[m]) /\ v.val = deal.sh[m]
  BY <1>2, Results
<1>4. m \in Int /\ deal.sh[m] \in Int
  BY ScalarInt
<1> QED
  BY <1>3, <1>4, ShareFits DEF TakesDeal

(* What a new party makes of the deals.                                    *)
Continues(v, w, k, D, S, m) ==
  /\ v.val = SumOf([j \in S |-> w[j] * D[j].sh[m]])
  /\ \A j \in S : D[j].com[1] = EvalCom(k.com, j) /\ EvalCom(D[j].com, m) \cong Gen * D[j].sh[m]

LEMMA NewShareSound ==
  ASSUME NEW n \in Nat, NEW S \in SUBSET Nat, NEW k, NEW new, new.t = n, NEW m \in Scalar, NEW D,
         \A j \in S : D[j].com \in Com(n) /\ D[j].sh[m] \in Scalar,
         NEW verdict, \A j \in S : verdict[j] = CheckDeal(k, new, m, j, D[j]),
         NEW w, NEW loop, loop = Loop(verdict, S),
         NEW v, v = IF loop.ok THEN Ok(SumOf([j \in S |-> w[j] * loop.val[j]])) ELSE loop, v.ok
  PROVE  Continues(v, w, k, D, S, m)
<1>3. loop.ok /\ v.val = SumOf([j \in S |-> w[j] * loop.val[j]])
  BY Results
<1>4. loop = Ok([j \in S |-> verdict[j].val]) /\ \A j \in S : verdict[j].ok
  BY <1>3, LoopEnds
<1>5. ASSUME NEW j \in S
      PROVE  /\ D[j].com[1] = EvalCom(k.com, j) /\ loop.val[j] = D[j].sh[m]
             /\ EvalCom(D[j].com, m) \cong Gen * D[j].sh[m]
  <2>1. PICK d, u : d = D[j] /\ u = verdict[j]
    OBVIOUS
  <2>2. u = CheckDeal(k, new, m, j, d) /\ u.ok
    BY <1>4, <2>1
  <2>3. d.com \in Com(n) /\ d.sh[m] \in Scalar
    BY <2>1
  <2>4. TakesDeal(k, j, m, d, u.val)
    BY <2>2, <2>3, CheckDealSound
  <2>5. loop.val = [i \in S |-> verdict[i].val]
    BY <1>4, Results
  <2> QED
    BY <2>1, <2>4, <2>5 DEF TakesDeal
<1>6. [j \in S |-> w[j] * loop.val[j]] = [j \in S |-> w[j] * D[j].sh[m]]
  BY <1>5
<1> QED
  BY <1>3, <1>5, <1>6 DEF Continues

(* reshare (refresh.rs): a hand-over that succeeds, whoever deviates,      *)
(* gives the new committee shares of the same key, since every old party   *)
(* is held to the commitment of its own share.                             *)
THEOREM ReshareSound ==
  ASSUME NEW old, Places(old.ids), NEW n \in Nat, n > 0, Cardinality(old.ids) >= n,
         NEW new, Places(new.ids), new.t \in Nat, new.t > 0,
         NEW k, Held(k, old.ids, n), NEW seed, NEW cheat,
         NEW out, out = Reshare(old, new, k, seed, cheat), out.ok
  PROVE  Held(out.val, new.ids, new.t) /\ out.val.com[1] = k.com[1]
<1>0. PICK S, R, t : S = old.ids /\ R = new.ids /\ t = new.t /\ t \in Nat /\ t > 0
  OBVIOUS
<1>a. /\ S \in SUBSET Nat /\ S \in SUBSET Scalar /\ S # {} /\ Cardinality(S) >= n
      /\ R \in SUBSET Nat /\ R \in SUBSET Scalar /\ R # {}
  BY <1>0, ScalarInt DEF Places
<1>1. PICK D : D = Tabulate([j \in old.ids |-> ReshareDeal(new, k, j, seed, cheat)])
  OBVIOUS
<1>2. PICK w : w = Lagrange(0, old.ids)
  OBVIOUS
<1>b. PICK V : V = [m \in new.ids |->
        Loop(Tabulate([j \in old.ids |-> CheckDeal(k, new, m, j, D[j])]), old.ids)]
  OBVIOUS
<1>3. PICK F : F = [m \in new.ids |->
        IF V[m].ok THEN Ok(SumOf([j \in old.ids |-> w[j] * V[m].val[j]])) ELSE V[m]]
  OBVIOUS
<1>4. PICK sums : sums = Loop(Tabulate(F), new.ids)
  OBVIOUS
<1>5. PICK com : com = SumCom([j \in old.ids |-> ScaleCom(D[j].com, w[j])])
  OBVIOUS
<1>6. out = IF ~KeysMatch(old, k) THEN Fail("params")
            ELSE IF sums.ok THEN Ok([sh |-> sums.val, com |-> com]) ELSE sums
  <2>1. F = [m \in new.ids |->
              LET v == Loop(Tabulate([j \in old.ids |-> CheckDeal(k, new, m, j, D[j])]), old.ids)
              IN  IF v.ok THEN Ok(SumOf([j \in old.ids |-> w[j] * v.val[j]])) ELSE v]
    BY <1>b, <1>3
  <2> QED
    BY ZenonT(40), <2>1, <1>1, <1>2, <1>4, <1>5 DEF Reshare, Then, Each, Loop
<1>7. sums.ok /\ out.val = [sh |-> sums.val, com |-> com]
  BY <1>6, Results
<1>8. sums = Ok([m \in R |-> F[m].val]) /\ \A m \in R : F[m].ok
  BY <1>0, <1>a, <1>4, <1>7, LoopEnds, TabulateIs
<1>9. \A j \in S : D[j].com \in Com(t) /\ \A m \in R : D[j].sh[m] \in Scalar
  <2>1. ASSUME NEW j \in S PROVE D[j].com \in Com(t) /\ \A m \in R : D[j].sh[m] \in Scalar
    <3>1. PICK d : d = D[j]
      OBVIOUS
    <3>2. d = ReshareDeal(new, k, j, seed, cheat) /\ k.sh[j] \in Scalar
      BY <1>0, <1>1, <3>1, TabulateIs DEF Held
    <3> QED
      BY <1>0, <3>1, <3>2, ReshareDealTyped
  <2> QED
    BY <2>1
<1>10. ASSUME NEW m \in R
       PROVE  /\ F[m].val = SumOf([j \in S |-> w[j] * D[j].sh[m]])
              /\ \A j \in S : D[j].com[1] = EvalCom(k.com, j) /\ EvalCom(D[j].com, m) \cong Gen * D[j].sh[m]
  <2>0. PICK verdict : verdict = [j \in S |-> CheckDeal(k, new, m, j, D[j])]
    OBVIOUS
  <2>1. PICK loop, v : loop = Loop(verdict, S) /\ v = F[m]
    OBVIOUS
  <2>a. V[m] = loop
    BY <1>0, <1>b, <2>0, <2>1, TabulateIs
  <2>2. v = IF loop.ok THEN Ok(SumOf([j \in S |-> w[j] * loop.val[j]])) ELSE loop
    BY <1>0, <1>3, <2>1, <2>a
  <2>3. v.ok /\ m \in Scalar /\ new.t = t
    BY <1>0, <1>a, <1>8, <2>1
  <2>4. \A j \in S : D[j].com \in Com(t) /\ D[j].sh[m] \in Scalar
    BY <1>9
  <2>b. S \in SUBSET Nat /\ \A j \in S : verdict[j] = CheckDeal(k, new, m, j, D[j])
    BY <1>a, <2>0
  <2>5. Continues(v, w, k, D, S, m)
    BY <2>b, <2>1, <2>2, <2>3, <2>4, NewShareSound
  <2> QED
    BY <2>1, <2>5 DEF Continues
<1>11. Fitting(D, S, R, t)
  BY <1>9, <1>10 DEF Fitting
<1>12. PICK X : X = out.val
  OBVIOUS
<1>13. Combination(X, D, Lagrange(0, S), S, R)
  <2>1. [m \in R |-> F[m].val] = [i \in R |-> SumOf([d \in S |-> w[d] * D[d].sh[i]])]
    BY <1>10
  <2>2. sums.val = [m \in R |-> F[m].val]
    BY <1>8, Results
  <2>3. X = [sh  |-> [i \in R |-> SumOf([d \in S |-> w[d] * D[d].sh[i]])],
             com |-> SumCom([d \in S |-> ScaleCom(D[d].com, w[d])])]
    BY <1>0, <1>5, <1>7, <1>12, <2>1, <2>2
  <2> QED
    BY <1>0, <1>2, <2>3 DEF Combination
<1>14. k.com \in Com(n) /\ k.com \in [1..n -> Int]
  BY ComTyped DEF Held
<1>15. PICK f : f = [x \in Int |-> EvalCom(k.com, x)]
  OBVIOUS
<1>16. f \in Interpolated(n)
  BY <1>14, <1>15, PolynomialInterpolated
<1>17. PICK z \in Int, one \in Int : z = 0 /\ one = 1
  OBVIOUS
<1>18. \A d \in S : Valued(D[d], z, one, f[d])
  <2>1. ASSUME NEW d \in S PROVE Valued(D[d], z, one, f[d])
    <3>1. PICK A, e : A = D[d].com /\ e = EvalCom(A, z)
      OBVIOUS
    <3>2. A \in Com(t) /\ A[1] = EvalCom(k.com, d)
      BY <1>9, <1>10, <1>a, <3>1
    <3>3. e = A[1] /\ e \in Int
      BY <1>0, <1>17, <3>1, <3>2, AtZeroIsFirst, ScalarInt
    <3>4. f[d] = e /\ one * e = e
      BY <1>a, <1>15, <1>17, <3>2, <3>3, ScalarInt
    <3> QED
      BY <3>1, <3>4 DEF Valued, \cong
  <2> QED
    BY <2>1
<1>19. Held(X, R, t) /\ Valued(X, z, one, f[z])
  <2>1. Combination(X, D, Lagrange(z, S), S, R)
    BY <1>13, <1>17
  <2>2. z \in Int /\ one \in Int /\ t \in Nat
    BY <1>0, <1>17
  <2> QED
    BY <1>a, <1>11, <1>16, <1>18, <2>1, <2>2, CombinationValue
<1>20. X.com \in Com(t)
  BY <1>19 DEF Held
<1>21. EvalCom(X.com, z) = EvalCom(k.com, z)
  <2> DEFINE a == EvalCom(X.com, z)
             b == EvalCom(k.com, z)
  <2>1. a \in Scalar /\ b \in Scalar /\ a \in Int
    BY <1>0, <1>14, <1>17, <1>20, ComTyped
  <2>2. one * a \cong b
    BY <1>15, <1>17, <1>19 DEF Valued
  <2> HIDE DEF a, b
  <2>3. one * a = a
    BY <1>17, <2>1
  <2>4. a = b
    BY <2>1, <2>2, <2>3, ScalarsEqual
  <2> QED
    BY <2>4 DEF a, b
<1>22. X.com[1] = k.com[1]
  BY <1>0, <1>14, <1>17, <1>20, <1>21, AtZeroIsFirst
<1> QED
  BY <1>0, <1>12, <1>19, <1>22

-----------------------------------------------------------------------------
(* Identities of the field *)

(* Both points of a product proof have one witness x.                      *)
LEMMA ProofIdentity ==
  ASSUME NEW g \in Int, NEW a \in Int, NEW b \in Int, NEW c \in Int, NEW x \in Int,
         a \cong g * x, c \cong b * x
  PROVE  g * c \cong a * b
<1>0. Q \in Int /\ g * x \in Int /\ b * x \in Int /\ g * c \in Int /\ a * b \in Int
  BY FieldAssumption
<1>1. PICK k1 \in Int : a = (g * x) + Q * k1
  BY <1>0, CongWitness
<1>2. PICK k2 \in Int : c = (b * x) + Q * k2
  BY <1>0, CongWitness
<1>3. (0 - b) * k1 + (g) * k2 \in Int
  BY <1>0, <1>1, <1>2
<1>4. g * c = (a * b) + Q * ((0 - b) * k1 + (g) * k2)
  BY <1>0, <1>1, <1>2
<1> QED
  BY <1>0, <1>3, <1>4, CongWitness

(* Beaver's: a product from a triple and the two masked factors.           *)
BeaverTerms(g, a, b, c, x, y, d, e, z, k, x1, x2, x3, x4) ==
  /\ g \in Int /\ a \in Int /\ b \in Int /\ c \in Int /\ x \in Int /\ y \in Int /\ d \in Int
  /\ e \in Int /\ z \in Int /\ k \in Int /\ x1 \in Int /\ x2 \in Int /\ x3 \in Int /\ x4 \in Int
  /\ g * c \cong a * b /\ x - a \cong g * d /\ y - b \cong g * e /\ x1 \cong d * b /\ x2 \cong e * a
  /\ x3 \cong x1 + x2 /\ x4 \cong c + x3 /\ z \cong x4 + g * k /\ k \cong d * e

LEMMA BeaverIdentity ==
  ASSUME NEW g, NEW a, NEW b, NEW c, NEW x, NEW y, NEW d, NEW e, NEW z, NEW k, NEW x1, NEW x2,
         NEW x3, NEW x4, BeaverTerms(g, a, b, c, x, y, d, e, z, k, x1, x2, x3, x4)
  PROVE  g * z \cong x * y
<1>0. Q \in Int /\ g \in Int /\ a \in Int /\ b \in Int /\ c \in Int /\ x \in Int /\ y \in Int
      /\ d \in Int /\ e \in Int /\ z \in Int /\ k \in Int /\ x1 \in Int /\ x2 \in Int /\ x3 \in Int
      /\ x4 \in Int
  BY FieldAssumption DEF BeaverTerms
<1>t. g * c \in Int /\ a * b \in Int /\ x - a \in Int /\ g * d \in Int /\ y - b \in Int
      /\ g * e \in Int /\ d * b \in Int /\ e * a \in Int /\ x1 + x2 \in Int /\ c + x3 \in Int
      /\ x4 + g * k \in Int /\ d * e \in Int /\ g * z \in Int /\ x * y \in Int
  BY <1>0
<1>1. PICK k1 \in Int : g * c = (a * b) + Q * k1
  BY <1>0, <1>t, CongWitness DEF BeaverTerms
<1>2. PICK k2 \in Int : x - a = (g * d) + Q * k2
  BY <1>0, <1>t, CongWitness DEF BeaverTerms
<1>3. PICK k3 \in Int : y - b = (g * e) + Q * k3
  BY <1>0, <1>t, CongWitness DEF BeaverTerms
<1>4. PICK k4 \in Int : x1 = (d * b) + Q * k4
  BY <1>0, <1>t, CongWitness DEF BeaverTerms
<1>5. PICK k5 \in Int : x2 = (e * a) + Q * k5
  BY <1>0, <1>t, CongWitness DEF BeaverTerms
<1>6. PICK k6 \in Int : x3 = (x1 + x2) + Q * k6
  BY <1>0, <1>t, CongWitness DEF BeaverTerms
<1>7. PICK k7 \in Int : x4 = (c + x3) + Q * k7
  BY <1>0, <1>t, CongWitness DEF BeaverTerms
<1>8. PICK k8 \in Int : z = (x4 + g * k) + Q * k8
  BY <1>0, <1>t, CongWitness DEF BeaverTerms
<1>9. PICK k9 \in Int : k = (d * e) + Q * k9
  BY <1>0, <1>t, CongWitness DEF BeaverTerms
<1>10. k1 + (0 - y) * k2 + (0 - (a + g * d)) * k3 + (g) * k4 + (g) * k5 + (g) * k6 + (g) * k7 +
         (g) * k8 + (g * g) * k9 \in Int
  BY <1>0, <1>1, <1>2, <1>3, <1>4, <1>5, <1>6, <1>7, <1>8, <1>9
<1>11. g * z = (x * y) + Q * (k1 + (0 - y) * k2 + (0 - (a + g * d)) * k3 + (g) * k4 + (g) * k5 +
         (g) * k6 + (g) * k7 + (g) * k8 + (g * g) * k9)
  BY <1>0, <1>1, <1>2, <1>3, <1>4, <1>5, <1>6, <1>7, <1>8, <1>9
<1> QED
  BY <1>0, <1>t, <1>10, <1>11, CongWitness

(* The nonce k = a / v of the mask v = u a is the inverse of u.            *)
LEMMA InverseIdentity ==
  ASSUME NEW g \in Int, NEW u \in Int, NEW a \in Int, NEW v \in Int, NEW val \in Int, NEW i \in Int,
         NEW k \in Int,
         g * v \cong u * a, v \cong g * val, val * i \cong 1, k \cong i * a
  PROVE  k * u \cong g * g
<1>0. Q \in Int /\ g * v \in Int /\ u * a \in Int /\ g * val \in Int /\ val * i \in Int /\ 1 \in Int
      /\ i * a \in Int /\ k * u \in Int /\ g * g \in Int
  BY FieldAssumption
<1>1. PICK k1 \in Int : g * v = (u * a) + Q * k1
  BY <1>0, CongWitness
<1>2. PICK k2 \in Int : v = (g * val) + Q * k2
  BY <1>0, CongWitness
<1>3. PICK k3 \in Int : val * i = (1) + Q * k3
  BY <1>0, CongWitness
<1>4. PICK k4 \in Int : k = (i * a) + Q * k4
  BY <1>0, CongWitness
<1>5. (0 - i) * k1 + (i * g) * k2 + (g * g) * k3 + (u) * k4 \in Int
  BY <1>0, <1>1, <1>2, <1>3, <1>4
<1>6. k * u = (g * g) + Q * ((0 - i) * k1 + (i * g) * k2 + (g * g) * k3 + (u) * k4)
  BY <1>0, <1>1, <1>2, <1>3, <1>4
<1> QED
  BY <1>0, <1>5, <1>6, CongWitness

-----------------------------------------------------------------------------
(* Triples *)

(* What dealer j sends fits, and commits to the product of its shares.     *)
Proved(j, a, b, m, R, n) ==
  /\ m.com \in Com(n)
  /\ \A i \in R : m.sh[i] \in Scalar /\ EvalCom(m.com, i) \cong Gen * m.sh[i]
  /\ Gen * m.com[1] \cong EvalCom(a.com, j) * EvalCom(b.com, j)

(* A sharing c of the product, at s, of what is shared in a and b.         *)
Multiplies(tr, S, n, s) ==
  /\ Held(tr.a, S, n) /\ Held(tr.b, S, n) /\ Held(tr.c, S, n)
  /\ Gen * EvalCom(tr.c.com, s) \cong EvalCom(tr.a.com, s) * EvalCom(tr.b.com, s)

LEMMA ReshareProductTyped ==
  ASSUME NEW C, Places(C.ids), NEW n \in Nat, NEW g \in [1..n -> Scalar], NEW j, NEW a, NEW b, NEW cheat,
         NEW m, m = ReshareProduct(C, j, g, a, b, cheat)
  PROVE  m.com \in Com(n) /\ m.sh \in [C.ids -> Scalar]
<1> DEFINE p == CASE Does(cheat, "product", j) -> [g EXCEPT ![1] = (g[1] + 1) % Q]
                  [] Does(cheat, "slot", j)    -> [g EXCEPT ![2] = (g[2] + 1) % Q]
                  [] OTHER                     -> g
           sent == [i \in C.ids |-> (EvalPoly(p, i) + IF Hits(cheat, "reshare", j, i) THEN 1 ELSE 0) % Q]
<1>1. m.com = Commit(p) /\ m.sh = Tabulate(sent)
  BY DEF ReshareProduct
<1>2. p \in [1..n -> Scalar] /\ p \in [1..n -> Int]
  <2>1. ASSUME NEW l \in 1..n PROVE (g[l] + 1) % Q \in Scalar
    <3>1. g[l] \in Int
      BY ScalarInt
    <3>2. g[l] + 1 \in Int
      BY <3>1
    <3> QED
      BY <3>2, Reduce
  <2>2. [g EXCEPT ![1] = (g[1] + 1) % Q] \in [1..n -> Scalar]
    <3>1. ASSUME 1 \in 1..n PROVE (g[1] + 1) % Q \in Scalar
      BY <2>1, <3>1
    <3> QED
      BY <3>1
  <2>3. [g EXCEPT ![2] = (g[2] + 1) % Q] \in [1..n -> Scalar]
    <3>1. ASSUME 2 \in 1..n PROVE (g[2] + 1) % Q \in Scalar
      BY <2>1, <3>1
    <3> QED
      BY <3>1
  <2>4. p \in [1..n -> Scalar]
    BY <2>2, <2>3 DEF Does
  <2> QED
    BY <2>4, ScalarInt
<1> HIDE DEF p
<1>3. PICK sh : sh = sent
  OBVIOUS
<1> HIDE DEF sent
<1>5. m.com = Commit(p) /\ m.sh = sh
  BY <1>1, <1>3, TabulateIs
<1>6. ASSUME NEW i \in C.ids PROVE sh[i] \in Scalar
  <2>1. i \in Int
    BY ScalarInt DEF Places
  <2>2. EvalPoly(p, i) \in Int
    BY <1>2, <2>1, CommitSound, ScalarInt
  <2>3. PICK e \in {0, 1} : e = IF Hits(cheat, "reshare", j, i) THEN 1 ELSE 0
    OBVIOUS
  <2>4. EvalPoly(p, i) + e \in Int
    BY <2>2, <2>3
  <2> QED
    BY <1>3, <2>3, <2>4, Reduce DEF sent
<1> QED
  BY <1>2, <1>3, <1>5, <1>6, CommitSound DEF sent

(* A proof that verifies is about the dealer's shares of a and b.          *)
LEMMA ProofSound ==
  ASSUME NEW n \in Nat, n > 0, NEW l \in Nat, NEW j \in Scalar, NEW a,
         NEW b, a.com \in Com(l), b.com \in Com(l),
         NEW m, m.com \in Com(n), ~ProofFails(j, a, b, m)
  PROVE  Gen * m.com[1] \cong EvalCom(a.com, j) * EvalCom(b.com, j)
<1>1. PICK x \in Scalar : m.proof.x1 = (Gen * x) % Q /\ m.proof.x2 = (EvalCom(b.com, j) * x) % Q
  BY DEF ProofFails, VerifyDleq
<1>2. m.proof.x1 = EvalCom(a.com, j) /\ m.proof.x2 = m.com[1]
  BY DEF ProofFails, ProofBinds
<1>3. PICK A \in Int, H \in Int, c \in Int, g \in Int, y \in Int :
        A = EvalCom(a.com, j) /\ H = EvalCom(b.com, j) /\ c = m.com[1] /\ g = Gen /\ y = x
  <2>1. j \in Int /\ Gen \in Int /\ x \in Int
    BY ScalarInt
  <2>2. EvalCom(a.com, j) \in Int /\ EvalCom(b.com, j) \in Int
    BY <2>1, ComTyped
  <2>3. m.com[1] \in Int
    BY AtZeroIsFirst, ScalarInt
  <2> QED
    BY <2>1, <2>2, <2>3
<1>4. A = (g * y) % Q /\ c = (H * y) % Q
  BY <1>1, <1>2, <1>3
<1>5. g * y \in Int /\ H * y \in Int
  BY <1>3
<1>6. A \cong g * y /\ c \cong H * y
  BY <1>4, <1>5, Reduce
<1>7. g * c \cong A * H
  BY <1>6, ProofIdentity, Zenon
<1> QED
  BY <1>3, <1>7

(* What everybody checks of a dealer.                                      *)
LEMMA CheckSound ==
  ASSUME NEW R \in SUBSET Scalar, NEW n \in Nat, n > 0, NEW l \in Nat, NEW j \in Scalar,
         NEW a, NEW b, a.com \in Com(l), b.com \in Com(l),
         NEW m, m.com \in Com(n), m.sh \in [R -> Scalar], ~ProofFails(j, a, b, m), SharesOrBlame(j, m).ok
  PROVE  Proved(j, a, b, m, R, n)
<1>1. BadShares(m) = {}
  <2>1. PICK bad : bad = BadShares(m)
    OBVIOUS
  <2>2. PICK who : ResolveComplaint(m.com, j, Least(bad), m.sh[Least(bad)]) = Abort(who)
    BY DEF ResolveComplaint
  <2>3. SharesOrBlame(j, m) = IF bad = {} THEN Ok(m) ELSE Abort(who)
    BY <2>1, <2>2 DEF SharesOrBlame
  <2> QED
    BY <2>1, <2>3, Results
<1>2. ASSUME NEW i \in R PROVE m.sh[i] \in Scalar /\ EvalCom(m.com, i) \cong Gen * m.sh[i]
  <2>1. VerifyShare(m.com, i, m.sh[i])
    BY <1>1 DEF BadShares
  <2>2. i \in Int /\ m.sh[i] \in Int
    BY ScalarInt
  <2> QED
    BY <2>1, <2>2, ShareFits
<1>3. Gen * m.com[1] \cong EvalCom(a.com, j) * EvalCom(b.com, j)
  BY ProofSound
<1> QED
  BY <1>2, <1>3 DEF Proved

(* Re-sharings of products, weighted for a point where each takes the      *)
(* value it was proved for, are a sharing of the product there.            *)
LEMMA RecombineSound ==
  ASSUME NEW C, Places(C.ids), NEW n \in Nat, n > 0, Cardinality(C.ids) >= 2 * n - 1,
         NEW a, NEW b, Held(a, C.ids, n), Held(b, C.ids, n), NEW s \in Int, NEW m,
         \A j \in C.ids : Proved(j, a, b, m[j], C.ids, n) /\ EvalCom(m[j].com, s) = m[j].com[1],
         NEW tr, tr = Triple(a, b, Recombine(C, Lagrange(s, C.ids), m))
  PROVE  Multiplies(tr, C.ids, n, s)
<1>1. PICK S \in SUBSET Scalar, g \in Int, k \in Nat : S = C.ids /\ S # {} /\ g = Gen /\ k = n + n - 1
  BY ScalarInt DEF Places
<1>2. a.com \in Com(n) /\ b.com \in Com(n) /\ a.com \in [1..n -> Int] /\ b.com \in [1..n -> Int]
  BY ComTyped DEF Held
<1>3. PICK fa, fb : fa = [x \in Int |-> EvalCom(a.com, x)] /\ fb = [x \in Int |-> EvalCom(b.com, x)]
  OBVIOUS
<1>4. fb \in Interpolated(n) /\ \A x \in Int : fa[x] \in Int /\ fb[x] \in Int
  BY <1>2, <1>3, PolynomialInterpolated, EvalInt
<1>5. PICK f : f = [x \in Int |-> fa[x] * fb[x]]
  OBVIOUS
<1>6. f \in Interpolated(k)
  <2>1. f \in [Int -> Int]
    BY <1>4, <1>5
  <2>2. \A x \in Int : f[x] \cong EvalCom(a.com, x) * fb[x]
    <3>1. \A x \in Int : f[x] = EvalCom(a.com, x) * fb[x]
      BY <1>3, <1>5
    <3> QED
      BY <3>1 DEF \cong
  <2>3. f \in Interpolated(n + n - 1)
    BY <1>2, <1>4, <2>1, <2>2, ProductInterpolated
  <2> QED
    BY <1>1, <2>3
<1>7. Fitting(m, S, S, n)
  BY <1>1 DEF Fitting, Proved
<1>8. PICK X : X = Recombine(C, Lagrange(s, C.ids), m)
  OBVIOUS
<1>9. Combination(X, m, Lagrange(s, S), S, S)
  <2>1. PICK w : w = Lagrange(s, S)
    OBVIOUS
  <2>2. PICK sh : sh = [i \in S |-> SumOf([d \in S |-> w[d] * m[d].sh[i]])]
    OBVIOUS
  <2>3. X = [sh |-> Tabulate(sh), com |-> SumCom([d \in S |-> ScaleCom(m[d].com, w[d])])]
    BY <1>1, <1>8, <2>1, <2>2 DEF Recombine
  <2>4. X = [sh |-> sh, com |-> SumCom([d \in S |-> ScaleCom(m[d].com, w[d])])]
    BY <2>3, TabulateIs
  <2> QED
    BY <2>1, <2>2, <2>4 DEF Combination
<1>10. \A j \in S : Valued(m[j], s, g, f[j])
  <2>1. ASSUME NEW j \in S PROVE Valued(m[j], s, g, f[j])
    <3>1. j \in Int
      BY ScalarInt
    <3>2. f[j] = EvalCom(a.com, j) * EvalCom(b.com, j)
      BY <1>3, <1>5, <3>1
    <3>3. Gen * m[j].com[1] \cong EvalCom(a.com, j) * EvalCom(b.com, j) /\ EvalCom(m[j].com, s) = m[j].com[1]
      BY <1>1 DEF Proved
    <3> QED
      BY <1>1, <3>2, <3>3 DEF Valued
  <2> QED
    BY <2>1
<1>11. Held(X, S, n) /\ Valued(X, s, g, f[s])
  <2>1. Cardinality(S) >= k
    BY <1>1
  <2>2. S # {}
    BY <1>1
  <2> QED
    BY <1>6, <1>7, <1>9, <1>10, <2>1, <2>2, CombinationValue
<1>12. g * EvalCom(X.com, s) \cong EvalCom(a.com, s) * EvalCom(b.com, s)
  BY <1>3, <1>5, <1>11 DEF Valued
<1>13. tr.a = a /\ tr.b = b /\ tr.c = X
  BY <1>8 DEF Triple
<1> QED
  BY <1>1, <1>11, <1>12, <1>13 DEF Multiplies

(* A loop whose steps end well when F says so.                             *)
LEMMA EachEnds ==
  ASSUME NEW S \in SUBSET Nat, NEW F, NEW out, out = Loop(Tabulate(F), S), out.ok
  PROVE  out = Ok([i \in S |-> F[i].val]) /\ \A i \in S : F[i].ok
BY LoopEnds, TabulateIs

(* Two random factors.                                                     *)
LEMMA FactorsDealt ==
  ASSUME NEW C, Places(C.ids), C.t \in Nat, NEW seed, NEW a, NEW b,
         a = JointRandom(C, Fork(seed, 1)).val, b = JointRandom(C, Fork(seed, 2)).val
  PROVE  /\ JointRandom(C, Fork(seed, 1)).ok /\ JointRandom(C, Fork(seed, 2)).ok
         /\ Held(a, C.ids, C.t) /\ Held(b, C.ids, C.t)
BY JointRandomSound

(* The messages of the dealers.                                            *)
LEMMA ResharesTyped ==
  ASSUME NEW C, Places(C.ids), C.t \in Nat, C.t > 0, NEW seed, NEW a, NEW b, NEW cheat,
         Held(a, C.ids, C.t), Held(b, C.ids, C.t), NEW m, m = Reshares(C, seed, a, b, cheat)
  PROVE  \A j \in C.ids : m[j].com \in Com(C.t) /\ m[j].sh \in [C.ids -> Scalar]
<1> SUFFICES ASSUME NEW j \in C.ids PROVE m[j].com \in Com(C.t) /\ m[j].sh \in [C.ids -> Scalar]
  OBVIOUS
<1>1. PICK n \in Nat : n = C.t /\ n > 0
  OBVIOUS
<1>2. PICK g, mj : g = ProductPoly(C, seed, j, a, b) /\ mj = m[j]
  OBVIOUS
<1>3. g \in [1..n -> Scalar]
  <2>1. PICK c : c = (a.sh[j] * b.sh[j]) % Q
    OBVIOUS
  <2>2. c \in Scalar
    <3>1. a.sh[j] \in Int /\ b.sh[j] \in Int
      BY ScalarInt DEF Held
    <3>2. a.sh[j] * b.sh[j] \in Int
      BY <3>1
    <3> QED
      BY <2>1, <3>2, Reduce
  <2>3. PICK k : k = [l \in 1..(n - 1) |-> Coin(Fork(seed, 3), j, l)]
    OBVIOUS
  <2>4. k \in [1..(n - 1) -> Scalar]
    BY <2>3, RandomTyped
  <2>5. g = RandomPoly(c, k)
    BY <1>1, <1>2, <2>1, <2>3 DEF ProductPoly
  <2> QED
    BY <1>1, <2>2, <2>4, <2>5, RandomPolyTyped
<1>4. mj = ReshareProduct(C, j, g, a, b, cheat)
  BY <1>2, TabulateIs DEF Reshares
<1>5. mj.com \in Com(n) /\ mj.sh \in [C.ids -> Scalar]
  BY <1>3, <1>4, ReshareProductTyped
<1> QED
  BY <1>1, <1>2, <1>5

(* generate (triples.rs): a triple that is returned multiplies, whoever    *)
(* deviates: the committed values of a and b have the committed value of c *)
(* as their product.                                                       *)
THEOREM GenerateSound ==
  ASSUME NEW C, Places(C.ids), C.t \in Nat, C.t > 0, Cardinality(C.ids) >= 2 * C.t - 1,
         NEW seed, NEW cheat, NEW out, out = Generate(C, seed, cheat), out.ok
  PROVE  Multiplies(out.val, C.ids, C.t, 0)
<1>1. PICK A, B : A = JointRandom(C, Fork(seed, 1)) /\ B = JointRandom(C, Fork(seed, 2))
  OBVIOUS
<1>2. PICK a, b : a = A.val /\ b = B.val
  OBVIOUS
<1>3. A.ok /\ B.ok /\ Held(a, C.ids, C.t) /\ Held(b, C.ids, C.t)
  BY <1>1, <1>2, FactorsDealt
<1>4. PICK m : m = Reshares(C, seed, a, b, cheat)
  OBVIOUS
<1>5. PICK F : F = [j \in C.ids |-> CheckReshare(j, a, b, m[j])]
  OBVIOUS
<1>6. PICK sent : sent = Loop(Tabulate(F), C.ids)
  OBVIOUS
<1>7. PICK tr : tr = Triple(a, b, Recombine(C, Lagrange(0, C.ids), m))
  OBVIOUS
<1>8. out = IF sent.ok THEN Ok(tr) ELSE sent
  BY <1>1, <1>2, <1>3, <1>4, <1>5, <1>6, <1>7 DEF Generate, Factors, Then, Each, Loop
<1>9. sent.ok /\ out.val = tr
  BY <1>8, Results
<1>10. C.ids \in SUBSET Nat /\ C.ids \in SUBSET Scalar
  BY ScalarInt DEF Places
<1>11. \A j \in C.ids : F[j].ok
  BY <1>6, <1>9, <1>10, EachEnds
<1>12. PICK n \in Nat, z \in Int : n = C.t /\ z = 0
  OBVIOUS
<1>13. n > 0 /\ Cardinality(C.ids) >= 2 * n - 1
  BY <1>12
<1>14. ASSUME NEW j \in C.ids
       PROVE  Proved(j, a, b, m[j], C.ids, n) /\ EvalCom(m[j].com, z) = m[j].com[1]
  <2>1. PICK mj : mj = m[j]
    OBVIOUS
  <2>2. mj.com \in Com(n) /\ mj.sh \in [C.ids -> Scalar]
    BY <1>3, <1>4, <1>12, <2>1, ResharesTyped
  <2>3. F[j] = IF ProofFails(j, a, b, mj) THEN Abort({j}) ELSE SharesOrBlame(j, mj)
    BY <1>5, <2>1 DEF CheckReshare
  <2>4. ~ProofFails(j, a, b, mj) /\ SharesOrBlame(j, mj).ok
    BY <1>11, <2>3, Results
  <2>5. a.com \in Com(n) /\ b.com \in Com(n)
    BY <1>3, <1>12 DEF Held
  <2>6. j \in Scalar
    BY <1>10
  <2>7. Proved(j, a, b, mj, C.ids, n)
    BY <1>10, <1>13, <2>2, <2>4, <2>5, <2>6, CheckSound
  <2>8. EvalCom(mj.com, z) = mj.com[1]
    BY <1>12, <1>13, <2>2, AtZeroIsFirst
  <2> QED
    BY <2>1, <2>7, <2>8
<1>15. tr = Triple(a, b, Recombine(C, Lagrange(z, C.ids), m)) /\ Held(a, C.ids, n) /\ Held(b, C.ids, n)
  BY <1>3, <1>7, <1>12
<1>16. z \in Int
  OBVIOUS
<1>17. Multiplies(tr, C.ids, n, z)
  BY <1>13, <1>14, <1>15, <1>16, RecombineSound
<1> QED
  BY <1>9, <1>12, <1>17

-----------------------------------------------------------------------------
(* Presignatures *)

(* A sharing of the product, at s, of what is shared in x and y.           *)
Times2(z, x, y, S, n, s) ==
  Held(z, S, n) /\ Gen * EvalCom(z.com, s) \cong EvalCom(x.com, s) * EvalCom(y.com, s)

(* The masked factors that were opened.                                    *)
Masked(x, a, d, s) == d \in Scalar /\ EvalCom(x.com, s) - EvalCom(a.com, s) \cong Gen * d

LEMMA HeldInt ==
  ASSUME NEW S, NEW n \in Nat, NEW X, Held(X, S, n)
  PROVE  X.com \in Com(n) /\ \A s \in Int : EvalCom(X.com, s) \in Scalar /\ EvalCom(X.com, s) \in Int
BY ComTyped DEF Held

LEMMA BeaverSound ==
  ASSUME NEW n \in Nat, n > 0, NEW S \in SUBSET Scalar, NEW s \in Int, NEW tr, Multiplies(tr, S, n, s),
         NEW x, NEW y, x.com \in Com(n), y.com \in Com(n),
         NEW d, Masked(x, tr.a, d, s), NEW e, Masked(y, tr.b, e, s)
  PROVE  Times2(Beaver(tr, d, e), x, y, S, n, s)
<1>1. d \in Int /\ e \in Int /\ Gen \in Int /\ d * e \in Int
  <2>1. d \in Int /\ e \in Int /\ Gen \in Int
    BY ScalarInt DEF Masked
  <2> QED
    BY <2>1
<1>2. Held(tr.a, S, n) /\ Held(tr.b, S, n) /\ Held(tr.c, S, n)
  BY DEF Multiplies
<1>3. PICK X1 : X1 = Times(tr.b, d)
  OBVIOUS
<1>4. Held(X1, S, n) /\ EvalCom(X1.com, s) \cong d * EvalCom(tr.b.com, s)
  BY <1>1, <1>2, <1>3, TimesHeld
<1>5. PICK X2 : X2 = Times(tr.a, e)
  OBVIOUS
<1>6. Held(X2, S, n) /\ EvalCom(X2.com, s) \cong e * EvalCom(tr.a.com, s)
  BY <1>1, <1>2, <1>5, TimesHeld
<1>7. PICK X3 : X3 = Plus(X1, X2)
  OBVIOUS
<1>8. Held(X3, S, n) /\ EvalCom(X3.com, s) \cong EvalCom(X1.com, s) + EvalCom(X2.com, s)
  BY <1>4, <1>6, <1>7, PlusHeld
<1>9. PICK X4 : X4 = Plus(tr.c, X3)
  OBVIOUS
<1>10. Held(X4, S, n) /\ EvalCom(X4.com, s) \cong EvalCom(tr.c.com, s) + EvalCom(X3.com, s)
  BY <1>2, <1>8, <1>9, PlusHeld
<1>11. PICK k \in Int : k = d * e
  BY <1>1
<1>12. PICK Z : Z = Shift(X4, k)
  OBVIOUS
<1>13. Held(Z, S, n) /\ EvalCom(Z.com, s) \cong EvalCom(X4.com, s) + Gen * k
  BY <1>10, <1>12, ShiftHeld
<1>14. Z = Beaver(tr, d, e)
  BY <1>3, <1>5, <1>7, <1>9, <1>11, <1>12 DEF Beaver
<1>15. PICK a \in Int, b \in Int, c \in Int, p \in Int, q \in Int, z \in Int, g \in Int :
         /\ a = EvalCom(tr.a.com, s) /\ b = EvalCom(tr.b.com, s) /\ c = EvalCom(tr.c.com, s)
         /\ p = EvalCom(x.com, s) /\ q = EvalCom(y.com, s) /\ z = EvalCom(Z.com, s) /\ g = Gen
  BY <1>1, <1>2, <1>13, HeldInt, ComTyped
<1>16. PICK x1 \in Int, x2 \in Int, x3 \in Int, x4 \in Int :
         /\ x1 = EvalCom(X1.com, s) /\ x2 = EvalCom(X2.com, s)
         /\ x3 = EvalCom(X3.com, s) /\ x4 = EvalCom(X4.com, s)
  BY <1>4, <1>6, <1>8, <1>10, HeldInt
<1>17. x1 \cong d * b /\ x2 \cong e * a /\ x3 \cong x1 + x2 /\ x4 \cong c + x3 /\ z \cong x4 + g * k
  BY <1>4, <1>6, <1>8, <1>10, <1>13, <1>15, <1>16
<1>18. g * c \cong a * b /\ p - a \cong g * d /\ q - b \cong g * e
  BY <1>15 DEF Multiplies, Masked
<1>20. k \cong d * e
  BY <1>11 DEF \cong
<1>21. BeaverTerms(g, a, b, c, p, q, d, e, z, k, x1, x2, x3, x4)
  BY <1>1, <1>17, <1>18, <1>20 DEF BeaverTerms
<1>19. g * z \cong p * q
  BY <1>21, BeaverIdentity
<1> QED
  BY <1>13, <1>14, <1>15, <1>19 DEF Times2

(* Both factors are masked, opened and multiplied.                         *)
LEMMA ProductSound ==
  ASSUME NEW n \in Nat, n > 0, NEW S \in SUBSET Scalar, NEW s \in Int, NEW tr, Multiplies(tr, S, n, s),
         NEW x, NEW y, Held(x, S, n), Held(y, S, n),
         NEW out, out = Product(s, n, tr, x, y), out.ok
  PROVE  Times2(out.val, x, y, S, n, s)
<1>1. PICK X, Y : X = Minus(x, tr.a) /\ Y = Minus(y, tr.b)
  OBVIOUS
<1>2. Held(tr.a, S, n) /\ Held(tr.b, S, n)
  BY DEF Multiplies
<1>3. /\ Held(X, S, n) /\ EvalCom(X.com, s) \cong EvalCom(x.com, s) - EvalCom(tr.a.com, s)
      /\ Held(Y, S, n) /\ EvalCom(Y.com, s) \cong EvalCom(y.com, s) - EvalCom(tr.b.com, s)
  BY <1>1, <1>2, MinusHeld
<1>4. PICK D, E : D = OpenAt(s, n, X) /\ E = OpenAt(s, n, Y)
  OBVIOUS
<1>5. out = IF D.ok THEN IF E.ok THEN Ok(Beaver(tr, D.val, E.val)) ELSE E ELSE D
  BY <1>1, <1>4 DEF Product, Then
<1>6. D.ok /\ E.ok /\ out.val = Beaver(tr, D.val, E.val)
  BY <1>5, Results
<1>7. PICK d, e : d = D.val /\ e = E.val
  OBVIOUS
<1>8. Openable(X, n) /\ Openable(Y, n) /\ n <= n
  BY <1>3, HeldOpenable
<1>9. /\ d \in Scalar /\ EvalCom(X.com, s) \cong Gen * d
      /\ e \in Scalar /\ EvalCom(Y.com, s) \cong Gen * e
  BY <1>4, <1>6, <1>7, <1>8, OpenSound
<1>10. Masked(x, tr.a, d, s) /\ Masked(y, tr.b, e, s)
  BY <1>3, <1>9, CongTrans DEF Masked
<1>11. x.com \in Com(n) /\ y.com \in Com(n)
  BY DEF Held
<1>12. Times2(Beaver(tr, d, e), x, y, S, n, s)
  BY <1>10, <1>11, BeaverSound
<1> QED
  BY <1>6, <1>7, <1>12

(* Wrong shares may still be opened: they are shares.                      *)
LEMMA SpoilOpenable ==
  ASSUME NEW n \in Nat, NEW X, Openable(X, n), NEW who, NEW Y, Y = Spoil(X, who), "sh" \in DOMAIN X
  PROVE  Openable(Y, n) /\ Y.com = X.com /\ DOMAIN Y.sh = DOMAIN X.sh /\ "sh" \in DOMAIN Y
<1>1. PICK sh : sh = [j \in DOMAIN X.sh |-> IF j \in who THEN (X.sh[j] + 1) % Q ELSE X.sh[j]]
  OBVIOUS
<1>2. Y = [X EXCEPT !.sh = sh]
  BY <1>1 DEF Spoil
<1>3. Y.sh = sh /\ Y.com = X.com /\ DOMAIN Y = DOMAIN X
  BY <1>2
<1>4. ASSUME NEW j \in DOMAIN X.sh PROVE sh[j] \in Scalar
  <2>1. X.sh[j] \in Scalar
    BY DEF Openable
  <2>2. X.sh[j] \in Int
    BY <2>1, ScalarInt
  <2>3. X.sh[j] + 1 \in Int
    BY <2>2
  <2> QED
    BY <1>1, <2>1, <2>3, Reduce
<1> QED
  BY <1>1, <1>3, <1>4 DEF Openable

(* The inverse of the mask.                                                *)
Inverts(i, u, a, s) ==
  i \in Scalar /\ \E v \in Int, val \in Int :
    /\ Gen * v \cong EvalCom(u.com, s) * EvalCom(a.com, s) /\ v \cong Gen * val /\ val * i \cong 1

LEMMA InvertMaskSound ==
  ASSUME NEW n \in Nat, n > 0, NEW S \in SUBSET Scalar, NEW s \in Int, NEW tr, Multiplies(tr, S, n, s),
         NEW u, NEW a, Held(u, S, n), Held(a, S, n), NEW cheat,
         NEW out, out = InvertMask(s, n, tr, u, a, cheat), out.ok
  PROVE  Inverts(out.val, u, a, s)
<1>1. PICK P : P = Product(s, n, tr, u, a)
  OBVIOUS
<1>2. PICK X : X = Spoil(P.val, WrongIn("open", cheat))
  OBVIOUS
<1>3. PICK V : V = OpenAt(s, n, X)
  OBVIOUS
<1>4. out = IF P.ok THEN IF V.ok THEN IF V.val = 0 THEN Fail("zero") ELSE Ok(Inv(V.val)) ELSE V ELSE P
  BY <1>1, <1>2, <1>3 DEF InvertMask, Then
<1>5. P.ok /\ V.ok /\ V.val # 0 /\ out.val = Inv(V.val)
  BY <1>4, Results
<1>6. Times2(P.val, u, a, S, n, s)
  BY <1>1, <1>5, ProductSound
<1>7. PICK p : p = P.val
  OBVIOUS
<1>8. Held(p, S, n) /\ Gen * EvalCom(p.com, s) \cong EvalCom(u.com, s) * EvalCom(a.com, s)
  BY <1>6, <1>7 DEF Times2
<1>9. Openable(p, n) /\ "sh" \in DOMAIN p
  BY <1>8, HeldOpenable DEF Held
<1>10. Openable(X, n) /\ X.com = p.com
  BY <1>2, <1>7, <1>9, SpoilOpenable
<1>11. PICK val : val = V.val
  OBVIOUS
<1>12. val \in Scalar /\ EvalCom(X.com, s) \cong Gen * val
  <2>1. n <= n
    OBVIOUS
  <2> QED
    BY <1>3, <1>5, <1>10, <1>11, <2>1, OpenSound
<1>13. val \in Int /\ ~(val \cong 0)
  <2>1. val \in Int /\ 0 \in Scalar
    BY <1>12, ScalarInt
  <2> QED
    BY <1>5, <1>11, <1>12, <2>1, ScalarsEqual
<1>14. Inv(val) \in Scalar /\ val * Inv(val) \cong 1
  BY <1>13, InverseExists
<1>15. PICK v \in Int : v = EvalCom(p.com, s)
  BY <1>8, HeldInt
<1> QED
  BY <1>5, <1>8, <1>10, <1>11, <1>12, <1>13, <1>14, <1>15 DEF Inverts

(* The nonce point is committed to by k, and r is its abscissa.            *)
NoncePoint(N, k, s) ==
  /\ N.R = EvalCom(k.com, s) /\ N.R \in Scalar /\ N.r = XCoord(N.R) /\ N.r # 0

LEMMA FromPointSound ==
  ASSUME NEW R, NEW out, out = FromPoint(R)
  PROVE  /\ out.ok => out.val.R = R /\ out.val.r = XCoord(R) /\ out.val.r # 0
         /\ ~out.ok => out = Fail("zero")
<1>1. PICK v : v = [R |-> R, r |-> XCoord(R)]
  OBVIOUS
<1>2. out = IF XCoord(R) = 0 THEN Fail("zero") ELSE Ok(v)
  BY <1>1 DEF FromPoint
<1>3. v.R = R /\ v.r = XCoord(R)
  BY <1>1
<1> QED
  BY <1>2, <1>3, Results

(* Points that are the commitment's give the point it takes at s.          *)
LEMMA PointsSound ==
  ASSUME NEW n \in Nat, NEW A \in Com(n), NEW S \in SUBSET Scalar, Cardinality(S) >= n,
         NEW pts, DOMAIN pts = S, \A j \in S : pts[j] = EvalCom(A, j), NEW s \in Int
  PROVE  Interpolate(s, pts) = EvalCom(A, s) /\ EvalCom(A, s) \in Scalar
<1>1. PICK f : f = [x \in Int |-> EvalCom(A, x)]
  OBVIOUS
<1>2. f \in Interpolated(n)
  BY <1>1, ComTyped, PolynomialInterpolated
<1>3. Interp(s, f, S) \cong f[s]
  BY <1>2 DEF Interpolated
<1>4. \A i \in S : f[i] \in Int /\ pts[i] = f[i]
  BY <1>1, ComTyped, ScalarInt
<1>5. Interpolate(s, pts) = Interp(s, f, S)
  BY <1>4, InterpolateIs
<1>6. Interp(s, f, S) \in Scalar
  BY <1>4, InterpInt
<1>7. f[s] = EvalCom(A, s) /\ f[s] \in Scalar
  BY <1>1, ComTyped
<1> QED
  BY <1>3, <1>5, <1>6, <1>7, ScalarsEqual

LEMMA NonceSound ==
  ASSUME NEW n \in Nat, NEW S \in SUBSET Scalar, Cardinality(S) >= n, NEW s \in Int,
         NEW k, Held(k, S, n), NEW cheat, NEW out, out = Nonce(s, k, cheat), out.ok
  PROVE  NoncePoint(out.val, k, s)
<1>1. PICK pts : pts = NoncePoints(k, DOMAIN k.sh, cheat)
  OBVIOUS
<1>2. PICK bad : bad = WrongPoints(k, pts)
  OBVIOUS
<1>3. out = IF bad # {} THEN Abort({Least(bad)}) ELSE FromPoint(Interpolate(s, pts))
  BY <1>1, <1>2 DEF Nonce
<1>4. bad = {} /\ out = FromPoint(Interpolate(s, pts))
  BY <1>3, Results
<1>5. DOMAIN pts = S /\ k.com \in Com(n)
  <2>1. DOMAIN k.sh = S /\ k.com \in Com(n)
    BY DEF Held
  <2> QED
    BY <1>1, <2>1, TabulateIs DEF NoncePoints
<1>6. \A j \in S : pts[j] = EvalCom(k.com, j)
  BY <1>2, <1>4, <1>5 DEF WrongPoints
<1>7. Interpolate(s, pts) = EvalCom(k.com, s) /\ EvalCom(k.com, s) \in Scalar
  BY <1>5, <1>6, PointsSound
<1> QED
  BY <1>4, <1>7, FromPointSound DEF NoncePoint

(* u is the inverse of the nonce whose point is R.                         *)
InverseOf(u, R, S, n, s) ==
  Held(u, S, n) /\ R \in Scalar /\ R * EvalCom(u.com, s) \cong Gen * Gen

(* z is u times the secret key of the public key X.                        *)
BoundTo(u, z, X, S, n, s) ==
  Held(u, S, n) /\ Held(z, S, n) /\ X * EvalCom(u.com, s) \cong Gen * EvalCom(z.com, s)

LEMMA NonceInverse ==
  ASSUME NEW n \in Nat, n > 0, NEW S \in SUBSET Scalar, NEW s \in Int,
         NEW u, NEW a, Held(u, S, n), Held(a, S, n), NEW i, Inverts(i, u, a, s),
         NEW k, k = Times(a, i), NEW p, NoncePoint(p, k, s)
  PROVE  InverseOf(u, p.R, S, n, s)
<1>1. i \in Int /\ i \in Scalar
  BY ScalarInt DEF Inverts
<1>2. PICK v \in Int, val \in Int :
        /\ Gen * v \cong EvalCom(u.com, s) * EvalCom(a.com, s) /\ v \cong Gen * val /\ val * i \cong 1
  BY DEF Inverts
<1>3. PICK U \in Int, A \in Int : U = EvalCom(u.com, s) /\ A = EvalCom(a.com, s)
  BY HeldInt
<1>4. Held(k, S, n) /\ EvalCom(k.com, s) \cong i * A
  BY <1>1, <1>3, TimesHeld
<1>5. PICK K \in Int : K = EvalCom(k.com, s)
  BY <1>4, HeldInt
<1>6. p.R = K /\ p.R \in Scalar
  BY <1>5 DEF NoncePoint
<1>7. PICK g \in Int : g = Gen
  BY ScalarInt
<1>8. g * v \cong U * A /\ v \cong g * val /\ val * i \cong 1 /\ K \cong i * A
  BY <1>2, <1>3, <1>4, <1>5, <1>7
<1>9. K * U \cong g * g
  BY <1>1, <1>8, InverseIdentity
<1> QED
  BY <1>3, <1>6, <1>7, <1>9 DEF InverseOf

(* A record by which n parties may sign at s.                              *)
SoundRecord(r, S, n, s) ==
  /\ DOMAIN r = {"at", "quorum", "R", "r", "u", "z"}
  /\ r.at = s /\ r.quorum = n /\ r.r = XCoord(r.R) /\ r.r # 0
  /\ InverseOf(r.u, r.R, S, n, s) /\ Held(r.z, S, n)

(* It is for the public key X.                                             *)
BoundRecord(r, X, S, n, s) == SoundRecord(r, S, n, s) /\ BoundTo(r.u, r.z, X, S, n, s)

LEMMA RecordSound ==
  ASSUME NEW s, NEW n, NEW S, NEW u, NEW z, NEW p, NEW k, NoncePoint(p, k, s),
         InverseOf(u, p.R, S, n, s), Held(z, S, n), NEW r, r = Record(s, n, p, u, z)
  PROVE  SoundRecord(r, S, n, s) /\ r.u = u /\ r.z = z
<1>1. /\ r.at = s /\ r.quorum = n /\ r.R = p.R /\ r.r = p.r /\ r.u = u /\ r.z = z
      /\ DOMAIN r = {"at", "quorum", "R", "r", "u", "z"}
  BY DEF Record
<1> QED
  BY <1>1 DEF SoundRecord, NoncePoint

(* The key takes its public point at zero.                                 *)
LEMMA ProductBound ==
  ASSUME NEW n \in Nat, n > 0, NEW S \in SUBSET Scalar, NEW u, Held(u, S, n), NEW k, k.com \in Com(n),
         NEW z, Times2(z, u, k, S, n, 0)
  PROVE  BoundTo(u, z, k.com[1], S, n, 0)
<1>1. PICK U \in Int, K \in Int : U = EvalCom(u.com, 0) /\ K = EvalCom(k.com, 0)
  <2>1. ASSUME NEW s \in Int
        PROVE  EvalCom(u.com, s) \in Int /\ EvalCom(k.com, s) \in Int
    BY HeldInt, ComTyped
  <2>2. 0 \in Int
    OBVIOUS
  <2> QED
    BY <2>1, <2>2
<1>2. K = k.com[1]
  BY <1>1, AtZeroIsFirst
<1>3. Held(z, S, n) /\ Gen * EvalCom(z.com, 0) \cong U * K
  BY <1>1 DEF Times2
<1>4. U * K = K * U
  BY <1>1
<1>5. K * U \cong Gen * EvalCom(z.com, 0)
  BY <1>3, <1>4 DEF \cong
<1> QED
  BY <1>1, <1>2, <1>3, <1>5 DEF BoundTo

(* presign (presign.rs): a presignature that is returned, whoever          *)
(* deviates, has shares that fit: u is the inverse of the nonce of R, z is *)
(* u times the key, and r is the x-coordinate of R.                        *)
THEOREM PresignSound ==
  ASSUME NEW C, Places(C.ids), C.t \in Nat, C.t > 0, Cardinality(C.ids) >= 2 * C.t - 1,
         NEW key, Held(key, C.ids, C.t), NEW seed, NEW cheat,
         NEW out, out = Presign(C, key, seed, cheat), out.ok
  PROVE  BoundRecord(out.val, key.com[1], C.ids, C.t, 0)
<1>1. PICK g1, g2 : /\ g1 = Generate(C, Fork(seed, 1), OnlyIf(TripleCheats, cheat))
                    /\ g2 = Generate(C, Fork(seed, 2), Honest)
  OBVIOUS
<1>2. PICK ru, ra : ru = JointRandom(C, Fork(seed, 3)) /\ ra = JointRandom(C, Fork(seed, 4))
  OBVIOUS
<1>3. PICK v : v = InvertMask(0, C.t, g1.val, ru.val, ra.val, cheat)
  OBVIOUS
<1>4. PICK p : p = Nonce(0, Times(ra.val, v.val), cheat)
  OBVIOUS
<1>5. PICK z : z = Product(0, C.t, g2.val, ru.val, key)
  OBVIOUS
<1>6. PICK rec : rec = Record(0, C.t, p.val, ru.val, z.val)
  OBVIOUS
<1>7. out = IF ~KeysMatch(C, key) THEN Fail("params") ELSE
            IF g1.ok THEN IF g2.ok THEN IF ru.ok THEN IF ra.ok THEN IF v.ok THEN IF p.ok THEN
            IF z.ok THEN Ok(rec) ELSE z ELSE p ELSE v ELSE ra ELSE ru ELSE g2 ELSE g1
  BY <1>1, <1>2, <1>3, <1>4, <1>5, <1>6 DEF Presign, TwoTriples, Ephemeral, Then
<1>8. g1.ok /\ g2.ok /\ ru.ok /\ ra.ok /\ v.ok /\ p.ok /\ z.ok /\ out.val = rec
  BY <1>7, Results
<1>9. PICK n \in Nat, s \in Int : n = C.t /\ s = 0
  OBVIOUS
<1>10. n > 0 /\ C.ids \in SUBSET Scalar /\ Cardinality(C.ids) >= n
  <2>1. C.ids \in SUBSET Scalar
    BY DEF Places
  <2>2. Cardinality(C.ids) \in Nat
    BY <2>1, ScalarsFinite
  <2> QED
    BY <1>9, <2>1, <2>2
<1>11. Multiplies(g1.val, C.ids, n, s) /\ Multiplies(g2.val, C.ids, n, s)
  BY <1>1, <1>8, <1>9, GenerateSound
<1>12. Held(ru.val, C.ids, n) /\ Held(ra.val, C.ids, n) /\ Held(key, C.ids, n)
  BY <1>2, <1>9, JointRandomSound
<1>13. v = InvertMask(s, n, g1.val, ru.val, ra.val, cheat) /\ p = Nonce(s, Times(ra.val, v.val), cheat)
       /\ z = Product(s, n, g2.val, ru.val, key) /\ rec = Record(s, n, p.val, ru.val, z.val)
  BY <1>3, <1>4, <1>5, <1>6, <1>9
<1>14. Inverts(v.val, ru.val, ra.val, s)
  BY <1>8, <1>10, <1>11, <1>12, <1>13, InvertMaskSound
<1>15. PICK k : k = Times(ra.val, v.val)
  OBVIOUS
<1>16. Held(k, C.ids, n)
  <2>1. v.val \in Int
    BY <1>14, ScalarInt DEF Inverts
  <2> QED
    BY <1>10, <1>12, <1>15, <2>1, TimesHeld
<1>17. NoncePoint(p.val, k, s)
  BY <1>8, <1>10, <1>13, <1>15, <1>16, NonceSound
<1>18. InverseOf(ru.val, p.val.R, C.ids, n, s)
  BY <1>10, <1>12, <1>14, <1>15, <1>17, NonceInverse
<1>19. Times2(z.val, ru.val, key, C.ids, n, s)
  BY <1>8, <1>10, <1>11, <1>12, <1>13, ProductSound
<1>20. Held(z.val, C.ids, n) /\ key.com \in Com(n)
  BY <1>12, <1>19 DEF Times2, Held
<1>21. SoundRecord(rec, C.ids, n, s) /\ rec.u = ru.val /\ rec.z = z.val
  BY <1>13, <1>17, <1>18, <1>20, RecordSound
<1>22. BoundTo(ru.val, z.val, key.com[1], C.ids, n, 0)
  BY <1>9, <1>10, <1>12, <1>19, <1>20, ProductBound
<1> QED
  BY <1>8, <1>9, <1>21, <1>22 DEF BoundRecord

(* The key-independent one.                                                *)
LEMMA PresignKiSound ==
  ASSUME NEW C, Places(C.ids), C.t \in Nat, C.t > 0, Cardinality(C.ids) >= 2 * C.t - 1,
         NEW seed, NEW cheat, NEW out, out = PresignKi(C, seed, cheat), out.ok
  PROVE  SoundRecord(out.val, C.ids, C.t, 0)
<1>1. PICK g : g = Generate(C, Fork(seed, 1), OnlyIf(TripleCheats, cheat))
  OBVIOUS
<1>2. PICK ru, ra : ru = JointRandom(C, Fork(seed, 3)) /\ ra = JointRandom(C, Fork(seed, 4))
  OBVIOUS
<1>3. PICK v : v = InvertMask(0, C.t, g.val, ru.val, ra.val, cheat)
  OBVIOUS
<1>4. PICK p : p = Nonce(0, Times(ra.val, v.val), cheat)
  OBVIOUS
<1>5. PICK rec : rec = Record(0, C.t, p.val, ru.val, ru.val)
  OBVIOUS
<1>6. out = IF g.ok THEN IF ru.ok THEN IF ra.ok THEN IF v.ok THEN IF p.ok THEN Ok(rec)
            ELSE p ELSE v ELSE ra ELSE ru ELSE g
  BY <1>1, <1>2, <1>3, <1>4, <1>5 DEF PresignKi, Ephemeral, Then
<1>7. g.ok /\ ru.ok /\ ra.ok /\ v.ok /\ p.ok /\ out.val = rec
  BY <1>6, Results
<1>8. PICK n \in Nat, s \in Int : n = C.t /\ s = 0
  OBVIOUS
<1>9. n > 0 /\ C.ids \in SUBSET Scalar /\ Cardinality(C.ids) >= n
  <2>1. C.ids \in SUBSET Scalar
    BY DEF Places
  <2>2. Cardinality(C.ids) \in Nat
    BY <2>1, ScalarsFinite
  <2> QED
    BY <1>8, <2>1, <2>2
<1>10. Multiplies(g.val, C.ids, n, s)
  BY <1>1, <1>7, <1>8, GenerateSound
<1>11. Held(ru.val, C.ids, n) /\ Held(ra.val, C.ids, n)
  BY <1>2, <1>8, JointRandomSound
<1>12. v = InvertMask(s, n, g.val, ru.val, ra.val, cheat) /\ p = Nonce(s, Times(ra.val, v.val), cheat)
       /\ rec = Record(s, n, p.val, ru.val, ru.val)
  BY <1>3, <1>4, <1>5, <1>8
<1>13. Inverts(v.val, ru.val, ra.val, s)
  BY <1>7, <1>9, <1>10, <1>11, <1>12, InvertMaskSound
<1>14. PICK k : k = Times(ra.val, v.val)
  OBVIOUS
<1>15. Held(k, C.ids, n)
  <2>1. v.val \in Int
    BY <1>13, ScalarInt DEF Inverts
  <2> QED
    BY <1>9, <1>11, <1>14, <2>1, TimesHeld
<1>16. NoncePoint(p.val, k, s)
  BY <1>7, <1>9, <1>12, <1>14, <1>15, NonceSound
<1>17. InverseOf(ru.val, p.val.R, C.ids, n, s)
  BY <1>9, <1>11, <1>13, <1>14, <1>16, NonceInverse
<1>18. SoundRecord(rec, C.ids, n, s)
  BY <1>11, <1>12, <1>16, <1>17, RecordSound
<1> QED
  BY <1>7, <1>8, <1>18

-----------------------------------------------------------------------------
(* Presignatures in spite of wrong shares *)

(* Some of the parties that hold a sharing open it to everybody.           *)
LEMMA MaskedRobust ==
  ASSUME NEW n \in Nat, NEW S \in SUBSET Scalar, NEW x, NEW a, Held(x, S, n), Held(a, S, n),
         NEW R \in SUBSET S, NEW X, X = Minus(x, a) \/ X = Among(R, Minus(x, a)),
         NEW out, out = OpenRobust(n, X), out.ok
  PROVE  Masked(x, a, out.val.v, 0)
<1>1. PICK Y : Y = Minus(x, a)
  OBVIOUS
<1>2. ASSUME NEW s \in Int
      PROVE  Held(Y, S, n) /\ EvalCom(Y.com, s) \cong EvalCom(x.com, s) - EvalCom(a.com, s)
  BY <1>1, MinusHeld
<1>3. PICK s \in Int : s = 0
  OBVIOUS
<1>4. Openable(X, n) /\ X.com = Y.com
  <2>1. Held(Y, S, n)
    BY <1>2, <1>3
  <2>2. CASE X = Y
    BY <2>1, <2>2, HeldOpenable
  <2>3. CASE X = Among(R, Y)
    <3>1. Held(X, R, n) /\ X.com = Y.com
      BY <2>1, <2>3, AmongHeld
    <3>2. R \in SUBSET Scalar
      OBVIOUS
    <3> QED
      BY <3>1, <3>2, HeldOpenable
  <2> QED
    BY <1>1, <2>2, <2>3
<1>5. PICK d : d = out.val.v
  OBVIOUS
<1>6. n <= n
  OBVIOUS
<1>7. d \in Scalar /\ EvalCom(X.com, 0) \cong Gen * d
  BY <1>4, <1>5, <1>6, OpenRobustSound
<1>8. EvalCom(Y.com, s) \cong Gen * d
  BY <1>3, <1>4, <1>7
<1>9. EvalCom(Y.com, s) \cong EvalCom(x.com, s) - EvalCom(a.com, s)
  BY <1>2
<1>10. Masked(x, a, d, s)
  BY <1>7, <1>8, <1>9, CongTrans DEF Masked
<1> QED
  BY <1>3, <1>5, <1>10

(* Some of the shares of a product are opened.                             *)
LEMMA SpoilAmongOpenable ==
  ASSUME NEW n \in Nat, NEW S \in SUBSET Scalar, NEW X, Held(X, S, n), NEW who, NEW R \in SUBSET S,
         NEW Y, Y = Among(R, Spoil(X, who))
  PROVE  Openable(Y, n) /\ Y.com = X.com /\ DOMAIN Y.sh = R
<1>1. Openable(X, n) /\ DOMAIN X.sh = S /\ "sh" \in DOMAIN X
  BY HeldOpenable DEF Held
<1>2. PICK Z : Z = Spoil(X, who)
  OBVIOUS
<1>3. Openable(Z, n) /\ Z.com = X.com /\ DOMAIN Z.sh = S /\ "sh" \in DOMAIN Z
  BY <1>1, <1>2, SpoilOpenable
<1>4. PICK f : f = [j \in R |-> Z.sh[j]]
  OBVIOUS
<1>5. f \in [R -> Scalar]
  BY <1>3, <1>4 DEF Openable
<1>6. Y = [Z EXCEPT !.sh = f]
  BY <1>2, <1>4 DEF Among, Restrict
<1>7. Y.sh = f /\ Y.com = Z.com
  BY <1>3, <1>6
<1> QED
  BY <1>3, <1>5, <1>7 DEF Openable

(* The inverse of the mask, when wrong shares of it are dropped.           *)
InvertsRobust(w, u, a, S) == Inverts(w.vinv, u, a, 0) /\ w.active \in SUBSET S

LEMMA InvertMaskRobustSound ==
  ASSUME NEW n \in Nat, n > 0, NEW S \in SUBSET Scalar, NEW tr, Multiplies(tr, S, n, 0),
         NEW u, NEW a, Held(u, S, n), Held(a, S, n), NEW cheat,
         NEW out, out = InvertMaskRobust(n, tr, u, a, cheat), out.ok
  PROVE  InvertsRobust(out.val, u, a, S)
<1>1. PICK D, E : D = OpenRobust(n, Minus(u, tr.a)) /\ E = OpenRobust(n, Minus(a, tr.b))
  OBVIOUS
<1>2. PICK active : active = DOMAIN u.sh \ (D.val.bad \union E.val.bad)
  OBVIOUS
<1>3. PICK p, Y : p = Beaver(tr, D.val.v, E.val.v) /\ Y = Among(active, Spoil(p, WrongIn("open", cheat)))
  OBVIOUS
<1>4. PICK V : V = OpenRobust(n, Y)
  OBVIOUS
<1>5. PICK w : w = [vinv |-> Inv(V.val.v), active |-> active \ V.val.bad]
  OBVIOUS
<1>6. out = IF D.ok THEN IF E.ok THEN IF V.ok THEN IF V.val.v = 0 THEN Fail("zero") ELSE Ok(w)
            ELSE V ELSE E ELSE D
  BY <1>1, <1>2, <1>3, <1>4, <1>5 DEF InvertMaskRobust, Then
<1>7. D.ok /\ E.ok /\ V.ok /\ V.val.v # 0 /\ out.val = w
  BY <1>6, Results
<1>8. DOMAIN u.sh = S /\ u.com \in Com(n) /\ a.com \in Com(n)
  BY DEF Held
<1>9. active \in SUBSET S /\ w.active \in SUBSET S /\ w.vinv = Inv(V.val.v)
  BY <1>2, <1>5, <1>8
<1>10. PICK s \in Int : s = 0
  OBVIOUS
<1>11. Held(tr.a, S, n) /\ Held(tr.b, S, n) /\ Multiplies(tr, S, n, s)
  BY <1>10 DEF Multiplies
<1>12. Masked(u, tr.a, D.val.v, s) /\ Masked(a, tr.b, E.val.v, s)
  <2>1. {} \in SUBSET S
    OBVIOUS
  <2>2. Masked(u, tr.a, D.val.v, 0)
    BY <1>1, <1>7, <1>11, <2>1, MaskedRobust
  <2>3. Masked(a, tr.b, E.val.v, 0)
    BY <1>1, <1>7, <1>11, <2>1, MaskedRobust
  <2> QED
    BY <1>10, <2>2, <2>3
<1>13. Times2(p, u, a, S, n, s)
  BY <1>3, <1>8, <1>11, <1>12, BeaverSound
<1>14. Held(p, S, n) /\ Gen * EvalCom(p.com, s) \cong EvalCom(u.com, s) * EvalCom(a.com, s)
  BY <1>13 DEF Times2
<1>15. Openable(Y, n) /\ Y.com = p.com
  BY <1>3, <1>9, <1>14, SpoilAmongOpenable
<1>16. PICK val : val = V.val.v
  OBVIOUS
<1>17. val \in Scalar /\ EvalCom(Y.com, 0) \cong Gen * val
  <2>1. n <= n
    OBVIOUS
  <2> QED
    BY <1>4, <1>7, <1>15, <1>16, <2>1, OpenRobustSound
<1>18. EvalCom(p.com, s) \cong Gen * val
  BY <1>10, <1>15, <1>17
<1>19. val \in Int /\ ~(val \cong 0)
  <2>1. val \in Int /\ 0 \in Scalar
    BY <1>17, ScalarInt
  <2> QED
    BY <1>7, <1>16, <1>17, <2>1, ScalarsEqual
<1>20. Inv(val) \in Scalar /\ val * Inv(val) \cong 1
  BY <1>19, InverseExists
<1>21. PICK q \in Int : q = EvalCom(p.com, s)
  BY <1>14, HeldInt
<1>22. Inverts(Inv(val), u, a, s)
  BY <1>14, <1>18, <1>19, <1>20, <1>21 DEF Inverts
<1> QED
  BY <1>7, <1>9, <1>10, <1>16, <1>22 DEF InvertsRobust

(* The nonce point from the right points.                                  *)
PointRobust(w, k, S) == NoncePoint(w.n, k, 0) /\ w.active \in SUBSET S

LEMMA NonceRobustSound ==
  ASSUME NEW n \in Nat, NEW S \in SUBSET Scalar, NEW k, Held(k, S, n), NEW cheat,
         NEW out, out = NonceRobust(n, k, cheat), out.ok
  PROVE  PointRobust(out.val, k, S)
<1>1. PICK pts : pts = NoncePoints(k, DOMAIN k.sh, cheat)
  OBVIOUS
<1>2. PICK good : good = DOMAIN pts \ WrongPoints(k, pts)
  OBVIOUS
<1>3. PICK f : f = Restrict(pts, good)
  OBVIOUS
<1>4. PICK P : P = FromPoint(Interpolate(0, f))
  OBVIOUS
<1>5. PICK w : w = [n |-> P.val, active |-> good]
  OBVIOUS
<1>6. out = IF Cardinality(good) < n THEN Fail("few") ELSE IF P.ok THEN Ok(w) ELSE P
  BY <1>1, <1>2, <1>3, <1>4, <1>5 DEF NonceRobust, Then
<1>7. ~(Cardinality(good) < n) /\ P.ok /\ out.val = w
  BY <1>6, Results
<1>8. DOMAIN pts = S /\ k.com \in Com(n)
  <2>1. DOMAIN k.sh = S /\ k.com \in Com(n)
    BY DEF Held
  <2> QED
    BY <1>1, <2>1, TabulateIs DEF NoncePoints
<1>9. good \in SUBSET S /\ good \in SUBSET Scalar /\ Cardinality(good) >= n
  <2>1. good \in SUBSET S /\ good \in SUBSET Scalar
    BY <1>2, <1>8
  <2>2. Cardinality(good) \in Nat
    BY <2>1, ScalarsFinite
  <2> QED
    BY <1>7, <2>1, <2>2
<1>10. DOMAIN f = good /\ \A j \in good : f[j] = EvalCom(k.com, j)
  <2>1. \A j \in good : pts[j] = EvalCom(k.com, j)
    BY <1>2 DEF WrongPoints
  <2>2. f = [j \in good |-> pts[j]]
    BY <1>3 DEF Restrict
  <2> QED
    BY <2>1, <2>2
<1>11. PICK s \in Int : s = 0
  OBVIOUS
<1>12. Interpolate(s, f) = EvalCom(k.com, s) /\ EvalCom(k.com, s) \in Scalar
  BY <1>8, <1>9, <1>10, PointsSound
<1>13. P.val.R = EvalCom(k.com, s) /\ P.val.r = XCoord(P.val.R) /\ P.val.r # 0
  <2>1. P = FromPoint(Interpolate(s, f))
    BY <1>4, <1>11
  <2> QED
    BY <1>7, <1>12, <2>1, FromPointSound
<1>14. NoncePoint(P.val, k, s)
  BY <1>12, <1>13 DEF NoncePoint
<1> QED
  BY <1>5, <1>7, <1>9, <1>11, <1>14 DEF PointRobust

(* A product that the parties of R opened.                                 *)
MultipliesRobust(w, x, y, S, n, R) == Times2(w.z, x, y, S, n, 0) /\ w.active \in SUBSET R

LEMMA ProductRobustSound ==
  ASSUME NEW n \in Nat, n > 0, NEW S \in SUBSET Scalar, NEW tr, Multiplies(tr, S, n, 0),
         NEW x, NEW y, Held(x, S, n), Held(y, S, n), NEW R \in SUBSET S,
         NEW out, out = ProductRobust(n, tr, x, y, R), out.ok
  PROVE  MultipliesRobust(out.val, x, y, S, n, R)
<1>1. PICK D, E : D = OpenRobust(n, Among(R, Minus(x, tr.a))) /\ E = OpenRobust(n, Among(R, Minus(y, tr.b)))
  OBVIOUS
<1>2. PICK w : w = [z |-> Beaver(tr, D.val.v, E.val.v), active |-> R \ (D.val.bad \union E.val.bad)]
  OBVIOUS
<1>3. out = IF D.ok THEN IF E.ok THEN Ok(w) ELSE E ELSE D
  BY <1>1, <1>2 DEF ProductRobust, Then
<1>4. D.ok /\ E.ok /\ out.val = w
  BY <1>3, Results
<1>5. w.active \in SUBSET R /\ w.z = Beaver(tr, D.val.v, E.val.v)
  BY <1>2
<1>6. Held(tr.a, S, n) /\ Held(tr.b, S, n)
  BY DEF Multiplies
<1>7. Masked(x, tr.a, D.val.v, 0) /\ Masked(y, tr.b, E.val.v, 0)
  BY <1>1, <1>4, <1>6, MaskedRobust
<1>8. x.com \in Com(n) /\ y.com \in Com(n)
  BY DEF Held
<1>9. PICK s \in Int : s = 0
  OBVIOUS
<1>10. Times2(w.z, x, y, S, n, s)
  BY <1>5, <1>7, <1>8, <1>9, BeaverSound
<1> QED
  BY <1>4, <1>5, <1>9, <1>10 DEF MultipliesRobust

(* The record of some of the parties.                                      *)
LEMMA AmongBound ==
  ASSUME NEW n \in Nat, NEW S \in SUBSET Scalar, NEW s \in Int, NEW u, NEW R, InverseOf(u, R, S, n, s),
         NEW A \in SUBSET S, NEW v, v = Among(A, u)
  PROVE  /\ InverseOf(v, R, A, n, s)
         /\ \A z, X : BoundTo(u, z, X, S, n, s) => BoundTo(v, Among(A, z), X, A, n, s)
<1>1. Held(u, S, n)
  BY DEF InverseOf
<1>2. Held(v, A, n) /\ v.com = u.com
  BY <1>1, AmongHeld
<1>3. InverseOf(v, R, A, n, s)
  BY <1>2 DEF InverseOf
<1>4. ASSUME NEW z, NEW X, BoundTo(u, z, X, S, n, s) PROVE BoundTo(v, Among(A, z), X, A, n, s)
  <2>1. Held(z, S, n) /\ X * EvalCom(u.com, s) \cong Gen * EvalCom(z.com, s)
    BY <1>4 DEF BoundTo
  <2>2. Held(Among(A, z), A, n) /\ Among(A, z).com = z.com
    BY <2>1, AmongHeld
  <2> QED
    BY <1>2, <2>1, <2>2 DEF BoundTo
<1> QED
  BY <1>3, <1>4

LEMMA PresignRobustSound ==
  ASSUME NEW C, Places(C.ids), C.t \in Nat, C.t > 0, Cardinality(C.ids) >= 2 * C.t - 1,
         NEW key, Held(key, C.ids, C.t), NEW seed, NEW cheat,
         NEW out, out = PresignRobust(C, key, seed, cheat), out.ok
  PROVE  \E A \in SUBSET C.ids : BoundRecord(out.val.rec, key.com[1], A, C.t, 0)
<1>1. PICK g1, g2 : /\ g1 = Generate(C, Fork(seed, 1), OnlyIf(TripleCheats, cheat))
                    /\ g2 = Generate(C, Fork(seed, 2), Honest)
  OBVIOUS
<1>2. PICK ru, ra : ru = JointRandom(C, Fork(seed, 3)) /\ ra = JointRandom(C, Fork(seed, 4))
  OBVIOUS
<1>3. PICK v : v = InvertMaskRobust(C.t, g1.val, ru.val, ra.val, cheat)
  OBVIOUS
<1>4. PICK p : p = NonceRobust(C.t, Times(Among(v.val.active, ra.val), v.val.vinv), cheat)
  OBVIOUS
<1>5. PICK z : z = ProductRobust(C.t, g2.val, ru.val, key, p.val.active)
  OBVIOUS
<1>6. PICK rec : rec = Record(0, C.t, p.val.n, Among(z.val.active, ru.val), Among(z.val.active, z.val.z))
  OBVIOUS
<1>7. PICK w : w = [rec |-> rec, blamed |-> C.ids \ z.val.active]
  OBVIOUS
<1>8. out = IF ~KeysMatch(C, key) THEN Fail("params") ELSE
            IF g1.ok THEN IF g2.ok THEN IF ru.ok THEN IF ra.ok THEN IF v.ok THEN IF p.ok THEN
            IF z.ok THEN Ok(w) ELSE z ELSE p ELSE v ELSE ra ELSE ru ELSE g2 ELSE g1
  BY ZenonT(40), <1>1, <1>2, <1>3, <1>4, <1>5, <1>6, <1>7 DEF PresignRobust, TwoTriples, Ephemeral, Then
<1>9. g1.ok /\ g2.ok /\ ru.ok /\ ra.ok /\ v.ok /\ p.ok /\ z.ok /\ out.val = w
  BY <1>8, Results
<1>10. PICK n \in Nat, s \in Int : n = C.t /\ s = 0
  OBVIOUS
<1>11. n > 0 /\ C.ids \in SUBSET Scalar
  BY <1>10 DEF Places
<1>12. Multiplies(g1.val, C.ids, n, 0) /\ Multiplies(g2.val, C.ids, n, 0)
  BY <1>1, <1>9, <1>10, GenerateSound
<1>13. Held(ru.val, C.ids, n) /\ Held(ra.val, C.ids, n) /\ Held(key, C.ids, n)
  BY <1>2, <1>10, JointRandomSound
<1>14. v = InvertMaskRobust(n, g1.val, ru.val, ra.val, cheat)
       /\ p = NonceRobust(n, Times(Among(v.val.active, ra.val), v.val.vinv), cheat)
       /\ z = ProductRobust(n, g2.val, ru.val, key, p.val.active)
       /\ rec = Record(s, n, p.val.n, Among(z.val.active, ru.val), Among(z.val.active, z.val.z))
  BY <1>3, <1>4, <1>5, <1>6, <1>10
<1>15. Inverts(v.val.vinv, ru.val, ra.val, s) /\ v.val.active \in SUBSET C.ids
  <2>1. v.ok /\ v = InvertMaskRobust(n, g1.val, ru.val, ra.val, cheat)
    BY <1>9, <1>14
  <2>2. InvertsRobust(v.val, ru.val, ra.val, C.ids)
    BY <1>11, <1>12, <1>13, <2>1, InvertMaskRobustSound
  <2> QED
    BY <1>10, <2>2 DEF InvertsRobust
<1>16. PICK L : L = v.val.active
  OBVIOUS
<1>17. PICK k : k = Times(Among(L, ra.val), v.val.vinv)
  OBVIOUS
<1>18. L \in SUBSET C.ids /\ L \in SUBSET Scalar
  BY <1>11, <1>15, <1>16
<1>19. Held(Among(L, ra.val), L, n) /\ Among(L, ra.val).com = ra.val.com
  BY <1>11, <1>13, <1>18, AmongHeld
<1>20. v.val.vinv \in Int
  BY <1>15, ScalarInt DEF Inverts
<1>21. Held(k, L, n)
  BY <1>17, <1>18, <1>19, <1>20, TimesHeld
<1>22. NoncePoint(p.val.n, k, s) /\ p.val.active \in SUBSET L
  <2>1. p.ok /\ p = NonceRobust(n, k, cheat)
    BY <1>9, <1>14, <1>16, <1>17
  <2>2. PointRobust(p.val, k, L)
    BY <1>18, <1>21, <2>1, NonceRobustSound
  <2> QED
    BY <1>10, <2>2 DEF PointRobust
<1>23. k.com = Times(ra.val, v.val.vinv).com
  BY <1>17, <1>19 DEF Times
<1>24. NoncePoint(p.val.n, Times(ra.val, v.val.vinv), s)
  BY <1>22, <1>23 DEF NoncePoint
<1>25. InverseOf(ru.val, p.val.n.R, C.ids, n, s)
  BY <1>11, <1>13, <1>15, <1>24, NonceInverse
<1>26. p.val.active \in SUBSET C.ids
  BY <1>18, <1>22
<1>27. Times2(z.val.z, ru.val, key, C.ids, n, 0) /\ z.val.active \in SUBSET p.val.active
  <2>1. z.ok /\ z = ProductRobust(n, g2.val, ru.val, key, p.val.active)
    BY <1>9, <1>14
  <2>2. MultipliesRobust(z.val, ru.val, key, C.ids, n, p.val.active)
    BY <1>11, <1>12, <1>13, <1>26, <2>1, ProductRobustSound
  <2> QED
    BY <2>2 DEF MultipliesRobust
<1>28. key.com \in Com(n)
  BY <1>13 DEF Held
<1>29. BoundTo(ru.val, z.val.z, key.com[1], C.ids, n, s)
  BY <1>10, <1>11, <1>13, <1>27, <1>28, ProductBound
<1>30. PICK A, u, y : A = z.val.active /\ u = Among(A, ru.val) /\ y = Among(A, z.val.z)
  OBVIOUS
<1>31. A \in SUBSET C.ids
  BY <1>26, <1>27, <1>30
<1>32. InverseOf(u, p.val.n.R, A, n, s) /\ BoundTo(u, y, key.com[1], A, n, s)
  BY <1>11, <1>25, <1>29, <1>30, <1>31, AmongBound
<1>33. SoundRecord(rec, A, n, s) /\ rec.u = u /\ rec.z = y
  <2>1. Held(y, A, n)
    BY <1>32 DEF BoundTo
  <2>2. rec = Record(s, n, p.val.n, u, y)
    BY <1>14, <1>30
  <2>3. PICK m : m = p.val.n
    OBVIOUS
  <2>4. PICK a : a = Times(ra.val, v.val.vinv)
    OBVIOUS
  <2>5. NoncePoint(m, a, s) /\ InverseOf(u, m.R, A, n, s) /\ rec = Record(s, n, m, u, y)
    BY <1>24, <1>32, <2>2, <2>3, <2>4
  <2> QED
    BY SMTT(40), <2>1, <2>5, RecordSound
<1>34. BoundRecord(rec, key.com[1], A, n, s)
  BY <1>32, <1>33 DEF BoundRecord
<1>35. w.rec = rec
  BY <1>7
<1> QED
  BY <1>9, <1>10, <1>31, <1>34, <1>35

(* One attempt at a presignature, by the parties that are left.            *)
Attempted(o, X, S, n) ==
  DOMAIN o = {"val", "blamed", "id"} /\ \E A \in SUBSET S : BoundRecord(o.val, X, A, n, 0)

LEMMA AttemptSound ==
  ASSUME NEW C, {"ids", "t"} \subseteq DOMAIN C, C.ids \in SUBSET Scalar, C.t \in Nat, C.t > 0,
         NEW key, Held(key, C.ids, C.t), NEW R \in SUBSET C.ids, Cardinality(R) >= 2 * C.t - 1,
         NEW i, NEW seed, NEW cheat,
         NEW pr, pr = PresignRobust([C EXCEPT !.ids = R], Among(R, key), seed, cheat),
         NEW out, out = IF pr.ok THEN Ok([val |-> pr.val.rec, blamed |-> pr.val.blamed, id |-> i]) ELSE pr,
         out.ok
  PROVE  Attempted(out.val, key.com[1], C.ids, C.t)
<1>1. PICK n \in Nat : n = C.t
  OBVIOUS
<1>2. n > 0 /\ R \in SUBSET Scalar /\ Cardinality(R) >= 2 * n - 1 /\ Held(key, C.ids, n)
  BY <1>1
<1>3. R # {}
  <2>1. CASE R = {}
    <3>1. Cardinality(R) = 0
      BY <2>1, FS_EmptySet
    <3> QED
      BY <1>2, <3>1
  <2> QED
    BY <2>1
<1>4. PICK D : D = [C EXCEPT !.ids = R]
  OBVIOUS
<1>5. D.ids = R /\ D.t = n
  BY <1>1, <1>4
<1>6. PICK k : k = Among(R, key)
  OBVIOUS
<1>7. Held(k, R, n) /\ k.com = key.com
  BY <1>2, <1>6, AmongHeld
<1>8. PICK w : w = [val |-> pr.val.rec, blamed |-> pr.val.blamed, id |-> i]
  OBVIOUS
<1>9. out = IF pr.ok THEN Ok(w) ELSE pr
  BY <1>8
<1>10. pr.ok /\ out.val = w
  BY <1>9, Results
<1>11. pr = PresignRobust(D, k, seed, cheat) /\ Places(D.ids)
  BY <1>2, <1>3, <1>4, <1>5, <1>6 DEF Places
<1>12. D.t \in Nat /\ D.t > 0 /\ Cardinality(D.ids) >= 2 * D.t - 1 /\ Held(k, D.ids, D.t)
  BY <1>2, <1>5, <1>7
<1>13. PICK A \in SUBSET D.ids : BoundRecord(pr.val.rec, k.com[1], A, D.t, 0)
  BY <1>10, <1>11, <1>12, PresignRobustSound
<1>14. A \in SUBSET C.ids /\ BoundRecord(w.val, key.com[1], A, C.t, 0)
  BY <1>1, <1>5, <1>7, <1>8, <1>13
<1>15. DOMAIN w = {"val", "blamed", "id"}
  BY <1>8
<1> QED
  BY <1>10, <1>14, <1>15 DEF Attempted

(* A presignature with a restart.                                          *)
LEMMA PresignRestartSound ==
  ASSUME NEW C, {"ids", "t"} \subseteq DOMAIN C, C.ids \in SUBSET Scalar, C.t \in Nat, C.t > 0,
         Cardinality(C.ids) >= 2 * C.t - 1, NEW key, Held(key, C.ids, C.t), NEW id, NEW seed, NEW cheat,
         NEW out, out = RunPresignWithRestart(C, key, id, seed, cheat), out.ok
  PROVE  \E A \in SUBSET C.ids : BoundRecord(out.val.val, key.com[1], A, C.t, 0)
<1>1. PICK pr : pr = PresignRobust([C EXCEPT !.ids = C.ids], Among(C.ids, key), Fork(seed, 0), At(0, cheat))
  OBVIOUS
<1>2. PICK first : first = IF pr.ok
                           THEN Ok([val |-> pr.val.rec, blamed |-> pr.val.blamed, id |-> id + 0]) ELSE pr
  OBVIOUS
<1>3. PICK left : left = C.ids \ first.blamed
  OBVIOUS
<1>4. PICK again :
        again = PresignRobust([C EXCEPT !.ids = left], Among(left, key), Fork(seed, 1), At(1, cheat))
  OBVIOUS
<1>5. PICK second : second = IF again.ok
                             THEN Ok([val |-> again.val.rec, blamed |-> again.val.blamed, id |-> id + 1])
                             ELSE again
  OBVIOUS
<1>6. out = IF ~first.ok /\ first.err = "abort" /\ RestartAllowed(left, C.t)
            THEN IF second.ok
                 THEN Ok([second.val EXCEPT !.blamed = second.val.blamed \union first.blamed])
                 ELSE second
            ELSE first
  <2> DEFINE Attempt(ids, k) ==
        Then(PresignRobust([C EXCEPT !.ids = ids], Among(ids, key), Fork(seed, k), At(k, cheat)),
             LAMBDA o : Ok([val |-> o.rec, blamed |-> o.blamed, id |-> id + k]))
  <2>1. first = Attempt(C.ids, 0)
    BY <1>1, <1>2 DEF Then
  <2>2. second = Attempt(left, 1)
    BY <1>4, <1>5 DEF Then
  <2>3. out = WithRestart(C.ids, C.t, Attempt)
    BY DEF RunPresignWithRestart
  <2> HIDE DEF Attempt
  <2> QED
    BY <1>3, <2>1, <2>2, <2>3 DEF WithRestart, Then
<1>7. CASE first.ok
  <2>1. out = first
    BY <1>6, <1>7
  <2>2. C.ids \in SUBSET C.ids
    OBVIOUS
  <2>3. Attempted(first.val, key.com[1], C.ids, C.t)
    BY <1>1, <1>2, <1>7, <2>2, AttemptSound
  <2> QED
    BY <2>1, <2>3 DEF Attempted
<1>8. CASE ~first.ok
  <2>1. RestartAllowed(left, C.t) /\ second.ok
        /\ out.val = [second.val EXCEPT !.blamed = second.val.blamed \union first.blamed]
    BY <1>6, <1>8, Results
  <2>2. left \in SUBSET C.ids /\ Cardinality(left) >= 2 * C.t - 1
    BY <1>3, <2>1 DEF RestartAllowed
  <2>3. Attempted(second.val, key.com[1], C.ids, C.t)
    BY <1>4, <1>5, <2>1, <2>2, AttemptSound
  <2>4. out.val.val = second.val.val
    BY <2>1, <2>3 DEF Attempted
  <2> QED
    BY <2>3, <2>4 DEF Attempted
<1> QED
  BY <1>7, <1>8

-----------------------------------------------------------------------------
(* Batches *)

(* The first and the second half of a batch of sharings.                   *)
LEMMA Halves ==
  ASSUME NEW c \in Nat, NEW S, NEW n, NEW ab, Sharings(ab, 2 * c, S, n)
  PROVE  Sharings(SubSeq(ab, 1, c), c, S, n) /\ Sharings(SubSeq(ab, c + 1, 2 * c), c, S, n)
<1> DEFINE R == {ab[i] : i \in 1..(2 * c)}
<1>1. 1 \in Int /\ c \in Int /\ c + 1 \in Int /\ 2 * c \in Int
  OBVIOUS
<1>2. \A i \in 1..c : i \in 1..(2 * c) /\ ab[i] \in R
  OBVIOUS
<1>3. \A i \in (c + 1)..(2 * c) : i \in 1..(2 * c) /\ ab[i] \in R
  OBVIOUS
<1> HIDE DEF R
<1>4. PICK a, b : a = SubSeq(ab, 1, c) /\ b = SubSeq(ab, c + 1, 2 * c)
  OBVIOUS
<1>5. /\ a \in Seq(R) /\ Len(a) = IF 1 <= c THEN c - 1 + 1 ELSE 0
      /\ \A i \in 1..(c - 1 + 1) : a[i] = ab[1 + i - 1]
  BY <1>1, <1>2, <1>4, SubSeqProperties
<1>6. /\ b \in Seq(R) /\ Len(b) = IF c + 1 <= 2 * c THEN 2 * c - (c + 1) + 1 ELSE 0
      /\ \A i \in 1..(2 * c - (c + 1) + 1) : b[i] = ab[c + 1 + i - 1]
  BY <1>1, <1>3, <1>4, SubSeqProperties
<1>7. DOMAIN a = 1..c /\ \A i \in 1..c : a[i] = ab[i]
  BY <1>5
<1>8. DOMAIN b = 1..c /\ \A i \in 1..c : b[i] = ab[c + i] /\ c + i \in 1..(2 * c)
  <2>1. Len(b) = c /\ 2 * c - (c + 1) + 1 = c
    BY <1>6
  <2>2. ASSUME NEW i \in 1..c PROVE b[i] = ab[c + i] /\ c + i \in 1..(2 * c)
    <3>1. b[i] = ab[c + 1 + i - 1]
      BY <1>6, <2>1
    <3>2. c + 1 + i - 1 = c + i /\ c + i \in 1..(2 * c)
      OBVIOUS
    <3> QED
      BY <3>1, <3>2
  <2> QED
    BY <1>6, <2>1, <2>2
<1>9. \A i \in 1..(2 * c) : Held(ab[i], S, n)
  BY DEF Sharings
<1> QED
  BY <1>2, <1>4, <1>7, <1>8, <1>9 DEF Sharings

(* What everybody checks of one dealer's products.                         *)
LEMMA CheckBatchSound ==
  ASSUME NEW j, NEW as, NEW bs, NEW ms, DOMAIN ms \in SUBSET Nat,
         NEW out, out = CheckBatch(j, as, bs, ms), out.ok
  PROVE  \A k \in DOMAIN ms : ~ProofFails(j, as[k], bs[k], ms[k]) /\ SharesOrBlame(j, ms[k]).ok
<1> DEFINE together == VerifyBatch([k \in DOMAIN ms |-> EvalCom(bs[k].com, j)],
                                   [k \in DOMAIN ms |-> ms[k].proof])
           F == [k \in DOMAIN ms |->
                  IF \/ ~ProofBinds(j, as[k], ms[k])
                     \/ ~together /\ ~VerifyDleq(EvalCom(bs[k].com, j), ms[k].proof)
                  THEN Abort({j})
                  ELSE SharesOrBlame(j, ms[k])]
<1>1. out = Loop(Tabulate(F), DOMAIN ms)
  BY DEF CheckBatch, Each, Loop
<1>2. PICK f, tg : f = F /\ tg = together
  OBVIOUS
<1>3. \A k \in DOMAIN ms :
        f[k] = IF ~ProofBinds(j, as[k], ms[k]) \/ (~tg /\ ~VerifyDleq(EvalCom(bs[k].com, j), ms[k].proof))
               THEN Abort({j}) ELSE SharesOrBlame(j, ms[k])
  BY <1>2
<1>4. out = Loop(Tabulate(f), DOMAIN ms)
  BY <1>1, <1>2
<1>5. tg => \A k \in DOMAIN ms : VerifyDleq(EvalCom(bs[k].com, j), ms[k].proof)
  BY <1>2 DEF VerifyBatch
<1> HIDE DEF F, together
<1>6. \A k \in DOMAIN ms : f[k].ok
  BY <1>4, EachEnds
<1>7. ASSUME NEW k \in DOMAIN ms
      PROVE  ~ProofFails(j, as[k], bs[k], ms[k]) /\ SharesOrBlame(j, ms[k]).ok
  <2>1. f[k] # Abort({j})
    BY <1>6, Results
  <2>2. ProofBinds(j, as[k], ms[k]) /\ (tg \/ VerifyDleq(EvalCom(bs[k].com, j), ms[k].proof))
        /\ f[k] = SharesOrBlame(j, ms[k])
    BY <1>3, <2>1
  <2> QED
    BY <1>5, <1>6, <2>2 DEF ProofFails
<1> QED
  BY <1>7

(* count triples.                                                          *)
TripleList(v, count, S, n) == DOMAIN v = 1..count /\ \A k \in 1..count : Multiplies(v[k], S, n, 0)

LEMMA GenerateBatchSound ==
  ASSUME NEW C, Places(C.ids), C.t \in Nat, C.t > 0, Cardinality(C.ids) >= 2 * C.t - 1,
         NEW seed, NEW count \in Nat, NEW cheat,
         NEW out, out = GenerateBatch(C, seed, count, cheat), out.ok
  PROVE  TripleList(out.val, count, C.ids, C.t)
<1>1. PICK A : A = JointRandomBatch(C, Fork(seed, 1), 2 * count)
  OBVIOUS
<1>2. PICK as, bs : as = SubSeq(A.val, 1, count) /\ bs = SubSeq(A.val, count + 1, 2 * count)
  OBVIOUS
<1>3. PICK m : m = Tabulate([k \in 1..count |->
         Reshares(C, Fork(seed, k), as[k], bs[k], IF cheat.at = k THEN cheat ELSE Honest)])
  OBVIOUS
<1>4. PICK F : F = [j \in C.ids |-> CheckBatch(j, as, bs, [k \in 1..count |-> m[k][j]])]
  OBVIOUS
<1>5. PICK sent : sent = Loop(Tabulate(F), C.ids)
  OBVIOUS
<1>6. PICK trs : trs = [k \in 1..count |-> Triple(as[k], bs[k], Recombine(C, Lagrange(0, C.ids), m[k]))]
  OBVIOUS
<1>7. out = IF A.ok THEN IF sent.ok THEN Ok(Tabulate(trs)) ELSE sent ELSE A
  BY <1>1, <1>2, <1>3, <1>4, <1>5, <1>6 DEF GenerateBatch, Then, Each, Loop
<1>8. sent.ok /\ out.val = trs
  BY <1>7, Results, TabulateIs
<1>9. PICK n \in Nat, z \in Int : n = C.t /\ z = 0
  OBVIOUS
<1>10. n > 0 /\ C.ids \in SUBSET Nat /\ C.ids \in SUBSET Scalar /\ Cardinality(C.ids) >= 2 * n - 1
  BY <1>9, ScalarInt DEF Places
<1>11. Sharings(as, count, C.ids, n) /\ Sharings(bs, count, C.ids, n)
  <2>1. 2 * count \in Nat
    OBVIOUS
  <2>2. Sharings(A.val, 2 * count, C.ids, n)
    BY <1>1, <1>9, <2>1, JointBatchSound
  <2> QED
    BY <1>2, <2>2, Halves
<1>12. \A j \in C.ids : F[j].ok
  BY <1>5, <1>8, <1>10, EachEnds
<1>13. ASSUME NEW k \in 1..count PROVE Multiplies(trs[k], C.ids, n, z)
  <2>1. PICK a, b, mk : a = as[k] /\ b = bs[k] /\ mk = m[k]
    OBVIOUS
  <2>2. Held(a, C.ids, n) /\ Held(b, C.ids, n)
    BY <1>11, <2>1 DEF Sharings
  <2>3. PICK ck : mk = Reshares(C, Fork(seed, k), a, b, ck)
    <3>1. m[k] = Reshares(C, Fork(seed, k), as[k], bs[k], IF cheat.at = k THEN cheat ELSE Honest)
      <4>1. PICK g : g = [i \in 1..count |->
              Reshares(C, Fork(seed, i), as[i], bs[i], IF cheat.at = i THEN cheat ELSE Honest)]
        OBVIOUS
      <4>2. m = Tabulate(g)
        BY <1>3, <4>1
      <4>3. m = g
        BY <4>2, TabulateIs
      <4> QED
        BY <4>1, <4>3
    <3> QED
      BY <2>1, <3>1
  <2>4. ASSUME NEW j \in C.ids
        PROVE  Proved(j, a, b, mk[j], C.ids, n) /\ EvalCom(mk[j].com, z) = mk[j].com[1]
    <3>1. PICK ms : ms = [i \in 1..count |-> m[i][j]]
      OBVIOUS
    <3>2. DOMAIN ms = 1..count /\ ms[k] = mk[j] /\ F[j] = CheckBatch(j, as, bs, ms)
      BY <1>4, <2>1, <3>1
    <3>3. PICK mj : mj = mk[j]
      OBVIOUS
    <3>4. DOMAIN ms \in SUBSET Nat
      BY <3>2
    <3>5. ~ProofFails(j, a, b, mj) /\ SharesOrBlame(j, mj).ok
      BY <1>12, <2>1, <3>2, <3>3, <3>4, CheckBatchSound
    <3>6. mj.com \in Com(n) /\ mj.sh \in [C.ids -> Scalar]
      BY <1>9, <2>2, <2>3, <3>3, ResharesTyped
    <3>7. a.com \in Com(n) /\ b.com \in Com(n) /\ j \in Scalar
      BY <1>10, <2>2 DEF Held
    <3>8. Proved(j, a, b, mj, C.ids, n)
      BY <1>10, <3>5, <3>6, <3>7, CheckSound
    <3>9. EvalCom(mj.com, z) = mj.com[1]
      BY <1>9, <1>10, <3>6, AtZeroIsFirst
    <3> QED
      BY <3>3, <3>8, <3>9
  <2>5. trs[k] = Triple(a, b, Recombine(C, Lagrange(z, C.ids), mk))
    BY <1>6, <1>9, <2>1
  <2>6. z \in Int
    OBVIOUS
  <2> QED
    BY <1>10, <2>2, <2>4, <2>5, <2>6, RecombineSound
<1>14. DOMAIN trs = 1..count
  BY <1>6
<1> QED
  BY <1>8, <1>9, <1>13, <1>14 DEF TripleList

(* The rounds of a batch.                                                  *)
LEMMA BatchInversesSound ==
  ASSUME NEW C, C.ids \in SUBSET Scalar, C.t \in Nat, C.t > 0, NEW count \in Nat,
         NEW tr, TripleList(tr, 2 * count, C.ids, C.t),
         NEW us, NEW as, Sharings(us, count, C.ids, C.t), Sharings(as, count, C.ids, C.t),
         NEW cheat, NEW out, out = BatchInverses(C, tr, us, as, cheat), out.ok
  PROVE  \A b \in 1..count : Inverts(out.val[b], us[b], as[b], 0)
<1>1. PICK F : F = [b \in DOMAIN us |-> InvertMask(0, C.t, tr[2 * b - 1], us[b], as[b], AtFirst(b, cheat))]
  OBVIOUS
<1>2. out = Loop(Tabulate(F), DOMAIN us)
  BY <1>1 DEF BatchInverses, Each, Loop
<1>3. DOMAIN us = 1..count /\ DOMAIN us \in SUBSET Nat
  BY DEF Sharings
<1>4. out = Ok([b \in DOMAIN us |-> F[b].val]) /\ \A b \in DOMAIN us : F[b].ok
  BY <1>2, <1>3, EachEnds
<1>5. ASSUME NEW b \in 1..count PROVE Inverts(out.val[b], us[b], as[b], 0)
  <2>1. PICK n \in Nat, s \in Int : n = C.t /\ s = 0
    OBVIOUS
  <2>2. PICK t, u, a, v : t = tr[2 * b - 1] /\ u = us[b] /\ a = as[b] /\ v = F[b]
    OBVIOUS
  <2>3. v = InvertMask(s, n, t, u, a, AtFirst(b, cheat)) /\ v.ok /\ out.val[b] = v.val
    <3>1. v = F[b] /\ v.ok /\ out.val = [i \in DOMAIN us |-> F[i].val]
      BY <1>3, <1>4, <2>2, Results
    <3>2. out.val[b] = v.val
      BY <1>3, <3>1
    <3>3. v = InvertMask(s, n, t, u, a, AtFirst(b, cheat))
      BY <1>1, <1>3, <2>1, <2>2
    <3> QED
      BY <3>1, <3>2, <3>3
  <2>4. Held(u, C.ids, n) /\ Held(a, C.ids, n)
    BY <2>1, <2>2 DEF Sharings
  <2>5. 2 * b - 1 \in 1..(2 * count)
    OBVIOUS
  <2>6. Multiplies(t, C.ids, n, s)
    BY <2>1, <2>2, <2>5 DEF TripleList
  <2>7. n > 0
    BY <2>1
  <2>8. Inverts(v.val, u, a, s)
    BY <2>3, <2>4, <2>6, <2>7, InvertMaskSound
  <2> QED
    BY <2>1, <2>2, <2>3, <2>8
<1> QED
  BY <1>5

LEMMA BatchNoncesSound ==
  ASSUME NEW C, C.ids \in SUBSET Scalar, C.t \in Nat, C.t > 0, Cardinality(C.ids) >= C.t, NEW count \in Nat,
         NEW us, NEW as, Sharings(us, count, C.ids, C.t), Sharings(as, count, C.ids, C.t),
         NEW vinv, \A b \in 1..count : Inverts(vinv[b], us[b], as[b], 0),
         NEW cheat, NEW out, out = BatchNonces(as, vinv, cheat), out.ok
  PROVE  \A b \in 1..count :
           NoncePoint(out.val[b], Times(as[b], vinv[b]), 0) /\ InverseOf(us[b], out.val[b].R, C.ids, C.t, 0)
<1>1. PICK F : F = [b \in DOMAIN as |-> Nonce(0, Times(as[b], vinv[b]), AtFirst(b, cheat))]
  OBVIOUS
<1>2. out = Loop(Tabulate(F), DOMAIN as)
  BY <1>1 DEF BatchNonces, Each, Loop
<1>3. DOMAIN as = 1..count /\ DOMAIN as \in SUBSET Nat
  BY DEF Sharings
<1>4. out = Ok([b \in DOMAIN as |-> F[b].val]) /\ \A b \in DOMAIN as : F[b].ok
  BY <1>2, <1>3, EachEnds
<1>5. ASSUME NEW b \in 1..count
      PROVE  NoncePoint(out.val[b], Times(as[b], vinv[b]), 0) /\ InverseOf(us[b], out.val[b].R, C.ids, C.t, 0)
  <2>1. PICK n \in Nat, s \in Int : n = C.t /\ s = 0
    OBVIOUS
  <2>2. PICK u, a, v, i, k : u = us[b] /\ a = as[b] /\ v = F[b] /\ i = vinv[b] /\ k = Times(a, i)
    OBVIOUS
  <2>3. v = Nonce(s, k, AtFirst(b, cheat)) /\ v.ok /\ out.val[b] = v.val
    <3>1. v = F[b] /\ v.ok /\ out.val = [l \in DOMAIN as |-> F[l].val]
      BY <1>3, <1>4, <2>2, Results
    <3>2. out.val[b] = v.val
      BY <1>3, <3>1
    <3>3. v = Nonce(s, k, AtFirst(b, cheat))
      BY <1>1, <1>3, <2>1, <2>2
    <3> QED
      BY <3>1, <3>2, <3>3
  <2>4. Held(u, C.ids, n) /\ Held(a, C.ids, n)
    BY <2>1, <2>2 DEF Sharings
  <2>5. Inverts(i, u, a, s)
    BY <2>1, <2>2
  <2>6. n > 0 /\ Cardinality(C.ids) >= n /\ i \in Int
    BY <2>1, <2>5, ScalarInt DEF Inverts
  <2>7. Held(k, C.ids, n)
    BY <2>2, <2>4, <2>6, TimesHeld
  <2>8. NoncePoint(v.val, k, s)
    BY <2>3, <2>6, <2>7, NonceSound
  <2>9. InverseOf(u, v.val.R, C.ids, n, s)
    BY <2>2, <2>4, <2>5, <2>6, <2>8, NonceInverse
  <2> QED
    BY <2>1, <2>2, <2>3, <2>8, <2>9
<1> QED
  BY <1>5

LEMMA BatchRecordsSound ==
  ASSUME NEW C, C.ids \in SUBSET Scalar, C.t \in Nat, C.t > 0, NEW count \in Nat,
         NEW tr, TripleList(tr, 2 * count, C.ids, C.t), NEW us, Sharings(us, count, C.ids, C.t),
         NEW key, Held(key, C.ids, C.t),
         NEW p, NEW ks, \A b \in 1..count : /\ NoncePoint(p[b], ks[b], 0)
                                            /\ InverseOf(us[b], p[b].R, C.ids, C.t, 0),
         NEW out, out = BatchRecords(C, key, tr, us, p), out.ok
  PROVE  \A b \in 1..count : BoundRecord(out.val[b], key.com[1], C.ids, C.t, 0)
<1>1. PICK P : P = [b \in DOMAIN us |-> Product(0, C.t, tr[2 * b], us[b], key)]
  OBVIOUS
<1>2. PICK F : F = [b \in DOMAIN us |->
                      IF P[b].ok THEN Ok(Record(0, C.t, p[b], us[b], P[b].val)) ELSE P[b]]
  OBVIOUS
<1>3. out = Loop(Tabulate(F), DOMAIN us)
  <2>1. F = [b \in DOMAIN us |-> Then(Product(0, C.t, tr[2 * b], us[b], key),
                                      LAMBDA z : Ok(Record(0, C.t, p[b], us[b], z)))]
    BY <1>1, <1>2 DEF Then
  <2> QED
    BY <2>1 DEF BatchRecords, Each, Loop
<1>4. DOMAIN us = 1..count /\ DOMAIN us \in SUBSET Nat
  BY DEF Sharings
<1>5. out = Ok([b \in DOMAIN us |-> F[b].val]) /\ \A b \in DOMAIN us : F[b].ok
  BY <1>3, <1>4, EachEnds
<1>6. ASSUME NEW b \in 1..count PROVE BoundRecord(out.val[b], key.com[1], C.ids, C.t, 0)
  <2>1. PICK n \in Nat, s \in Int : n = C.t /\ s = 0
    OBVIOUS
  <2>2. PICK t, u, q, k, z, r : /\ t = tr[2 * b] /\ u = us[b] /\ q = p[b] /\ k = ks[b] /\ z = P[b]
                                /\ r = Record(s, n, q, u, z.val)
    OBVIOUS
  <2>3. F[b] = IF z.ok THEN Ok(r) ELSE z
    BY <1>2, <1>4, <2>1, <2>2
  <2>4. z.ok /\ F[b].val = r
    BY <1>4, <1>5, <2>3, Results
  <2>5. out.val[b] = r
    BY <1>4, <1>5, <2>4, Results
  <2>6. z = Product(s, n, t, u, key)
    BY <1>1, <1>4, <2>1, <2>2
  <2>7. Held(u, C.ids, n) /\ Held(key, C.ids, n) /\ key.com \in Com(n)
    BY <2>1, <2>2 DEF Sharings, Held
  <2>8. 2 * b \in 1..(2 * count)
    OBVIOUS
  <2>9. Multiplies(t, C.ids, n, s)
    BY <2>1, <2>2, <2>8 DEF TripleList
  <2>10. n > 0
    BY <2>1
  <2>11. Times2(z.val, u, key, C.ids, n, s)
    BY <2>4, <2>6, <2>7, <2>9, <2>10, ProductSound
  <2>12. Held(z.val, C.ids, n)
    BY <2>11 DEF Times2
  <2>13. NoncePoint(q, k, s) /\ InverseOf(u, q.R, C.ids, n, s)
    BY <2>1, <2>2
  <2>14. SoundRecord(r, C.ids, n, s) /\ r.u = u /\ r.z = z.val
    <3>1. PICK y : y = z.val
      OBVIOUS
    <3>2. r = Record(s, n, q, u, y)
      BY <2>2, <3>1
    <3> QED
      BY <2>12, <2>13, <3>1, <3>2, RecordSound
  <2>15. BoundTo(u, z.val, key.com[1], C.ids, n, 0)
    BY <2>1, <2>7, <2>10, <2>11, ProductBound
  <2> QED
    BY <2>1, <2>5, <2>14, <2>15 DEF BoundRecord
<1> QED
  BY <1>6

LEMMA PresignBatchSound ==
  ASSUME NEW C, Places(C.ids), C.t \in Nat, C.t > 0, Cardinality(C.ids) >= 2 * C.t - 1,
         NEW key, Held(key, C.ids, C.t), NEW seed, NEW count \in Nat, NEW cheat,
         NEW out, out = PresignBatch(C, key, seed, count, cheat), out.ok
  PROVE  \A b \in 1..count : BoundRecord(out.val[b], key.com[1], C.ids, C.t, 0)
<1>1. PICK g, A : g = GenerateBatch(C, Fork(seed, 1), 2 * count, Honest)
                  /\ A = JointRandomBatch(C, Fork(seed, 3), 2 * count)
  OBVIOUS
<1>2. PICK us, as : us = SubSeq(A.val, 1, count) /\ as = SubSeq(A.val, count + 1, 2 * count)
  OBVIOUS
<1>3. PICK v : v = BatchInverses(C, g.val, us, as, cheat)
  OBVIOUS
<1>4. PICK p : p = BatchNonces(as, v.val, cheat)
  OBVIOUS
<1>5. PICK r : r = BatchRecords(C, key, g.val, us, p.val)
  OBVIOUS
<1>6. out = IF ~KeysMatch(C, key) \/ count = 0 THEN Fail("params") ELSE
            IF g.ok THEN IF A.ok THEN IF v.ok THEN IF p.ok THEN r ELSE p ELSE v ELSE A ELSE g
  BY <1>1, <1>2, <1>3, <1>4, <1>5 DEF PresignBatch, Then
<1>7. g.ok /\ A.ok /\ v.ok /\ p.ok /\ r.ok /\ out = r
  BY <1>6, Results
<1>8. 2 * count \in Nat /\ C.ids \in SUBSET Scalar
  BY DEF Places
<1>9. TripleList(g.val, 2 * count, C.ids, C.t)
  BY <1>1, <1>7, <1>8, GenerateBatchSound
<1>10. Sharings(us, count, C.ids, C.t) /\ Sharings(as, count, C.ids, C.t)
  <2>1. Sharings(A.val, 2 * count, C.ids, C.t)
    BY <1>1, <1>8, JointBatchSound
  <2> QED
    BY <1>2, <2>1, Halves
<1>11. \A b \in 1..count : Inverts(v.val[b], us[b], as[b], 0)
  BY <1>3, <1>7, <1>8, <1>9, <1>10, BatchInversesSound
<1>12. Cardinality(C.ids) >= C.t
  BY <1>8, ScalarsFinite
<1>13. \A b \in 1..count :
         NoncePoint(p.val[b], Times(as[b], v.val[b]), 0) /\ InverseOf(us[b], p.val[b].R, C.ids, C.t, 0)
  BY <1>4, <1>7, <1>8, <1>10, <1>11, <1>12, BatchNoncesSound
<1>14. PICK ks : ks = [b \in 1..count |-> Times(as[b], v.val[b])]
  OBVIOUS
<1>15. \A b \in 1..count : NoncePoint(p.val[b], ks[b], 0) /\ InverseOf(us[b], p.val[b].R, C.ids, C.t, 0)
  BY <1>13, <1>14
<1>16. PICK q : q = p.val
  OBVIOUS
<1>17. \A b \in 1..count : NoncePoint(q[b], ks[b], 0) /\ InverseOf(us[b], q[b].R, C.ids, C.t, 0)
  BY <1>15, <1>16
<1>18. r = BatchRecords(C, key, g.val, us, q)
  BY <1>5, <1>16
<1> QED
  BY <1>7, <1>8, <1>9, <1>10, <1>17, <1>18, BatchRecordsSound

-----------------------------------------------------------------------------
(* Packed sharings *)

LEMMA MulPolyTyped ==
  ASSUME NEW a \in Nat, NEW c \in Nat, NEW p \in [1..a -> Int], NEW r \in [1..c -> Int]
  PROVE  MulPoly(p, r) \in [1..(a + c - 1) -> Scalar]
<1>1. Len(p) = a /\ Len(r) = c /\ DOMAIN p = 1..a /\ DOMAIN r = 1..c
  BY FunctionIsSeq
<1>2. PICK g : g = [l \in 1..(a + c - 1) |->
                      SumOf([i \in {i \in DOMAIN p : l - i + 1 \in DOMAIN r} |-> p[i] * r[l - i + 1]])]
  OBVIOUS
<1>3. MulPoly(p, r) = g
  BY <1>1, <1>2, TabulateIs DEF MulPoly
<1>4. ASSUME NEW l \in 1..(a + c - 1) PROVE g[l] \in Scalar
  <2>1. PICK S : S = {i \in DOMAIN p : l - i + 1 \in DOMAIN r}
    OBVIOUS
  <2>2. PICK f : f = [i \in S |-> p[i] * r[l - i + 1]]
    OBVIOUS
  <2>3. g[l] = SumOf(f) /\ DOMAIN f = S
    BY <1>2, <2>1, <2>2
  <2>4. S \subseteq 1..a /\ IsFiniteSet(S)
    BY <1>1, <2>1, FS_Interval, FS_Subset
  <2>5. \A i \in S : f[i] \in Int
    <3>1. ASSUME NEW i \in S PROVE f[i] \in Int
      <4>1. i \in 1..a /\ l - i + 1 \in 1..c
        BY <1>1, <2>1
      <4>2. p[i] \in Int /\ r[l - i + 1] \in Int
        BY <4>1
      <4> QED
        BY <2>2, <4>2
    <3> QED
      BY <3>1
  <2>6. SumOn(f, S) \in Scalar
    BY <2>4, <2>5, SumStep
  <2> QED
    BY <2>3, <2>6, SumIsFold
<1> QED
  BY <1>2, <1>3, <1>4

(* At every point the product takes the product of the values.             *)
LEMMA MulPolySound ==
  ASSUME NEW a \in Nat, a > 0, NEW c \in Nat, NEW p \in [1..a -> Int], NEW r \in [1..c -> Int], NEW x \in Int
  PROVE  EvalCom(MulPoly(p, r), x) \cong EvalCom(p, x) * EvalCom(r, x)
<1>1. Len(p) = a /\ Len(r) = c /\ DOMAIN p = 1..a /\ DOMAIN r = 1..c
  BY FunctionIsSeq
<1>2. PICK n \in Nat : n = a + c - 1
  OBVIOUS
<1>4. PICK m : m = [l \in 1..n |-> SumOf([i \in {i \in DOMAIN p : l - i + 1 \in DOMAIN r} |-> p[i] * r[l - i + 1]])]
  OBVIOUS
<1>5. MulPoly(p, r) = m
  BY <1>1, <1>2, <1>4, TabulateIs DEF MulPoly
<1>6. m \in [1..n -> Int]
  <2>1. MulPoly(p, r) \in [1..n -> Scalar]
    BY <1>2, MulPolyTyped
  <2> QED
    BY <1>5, <2>1, ScalarInt
<1>7. \A l \in 1..n : m[l] = SumOf([i \in Terms(l, a, c) |-> p[i] * r[l - i + 1]])
  <2> SUFFICES ASSUME NEW l \in 1..n
               PROVE  m[l] = SumOf([i \in Terms(l, a, c) |-> p[i] * r[l - i + 1]])
    OBVIOUS
  <2>2. {i \in DOMAIN p : l - i + 1 \in DOMAIN r} = Terms(l, a, c)
    BY <1>1 DEF Terms
  <2> QED
    BY <1>4, <2>2
<1>8. EvalCom(m, x) \cong EvalCom(p, x) * EvalCom(r, x)
  BY <1>2, <1>6, <1>7, EvalMul, Zenon
<1> QED
  BY <1>5, <1>8

Top(s) == CHOOSE x \in s : \A y \in s : x >= y

IsVanishing(h, list, S) ==
  h = [s \in SUBSET S |-> IF s = {} THEN <<1>> ELSE MulPoly(h[s \ {Top(s)}], <<list[Top(s)], 1>>)]

LEMMA VanishingIsFold ==
  ASSUME NEW B
  PROVE  LET list == [b \in 1..B |-> b - 1]
         IN  Vanishing(B) = (CHOOSE h : IsVanishing(h, list, DOMAIN list))[DOMAIN list]
BY Zenon DEF Vanishing, IsVanishing, Top, FoldLeft, MapThenFoldSet, Max

LEMMA TopIn ==
  ASSUME NEW B \in Nat, NEW s \in SUBSET (1..B), s # {}
  PROVE  Top(s) \in s
<1>1. PICK S : S = {B - x : x \in s}
  OBVIOUS
<1>2. S \in SUBSET Nat /\ S # {}
  <2>1. \A x \in s : B - x \in Nat
    OBVIOUS
  <2> QED
    BY <1>1, <2>1
<1>3. PICK m \in S : \A y \in S : m <= y
  BY <1>2, LeastOfNat
<1>4. PICK x \in s : m = B - x
  BY <1>1, <1>3
<1>5. \A y \in s : x >= y
  <2>1. ASSUME NEW y \in s PROVE x >= y
    <3>1. B - x <= B - y
      BY <1>1, <1>3, <1>4
    <3> QED
      BY <3>1
  <2> QED
    BY <2>1
<1> QED
  BY <1>5 DEF Top

LEMMA PairTyped ==
  ASSUME NEW x \in Int, NEW y \in Int
  PROVE  <<x, y>> \in [1..2 -> Int]
OBVIOUS

(* The factor for a place is zero there.                                   *)
LEMMA FactorZero ==
  ASSUME NEW y \in Int, NEW x \in Int, x + y \cong 0
  PROVE  EvalCom(<<y, 1>>, x) \cong 0
<1>1. PICK p : p = <<y, 1>>
  OBVIOUS
<1>2. PICK q : q = <<0, 1>>
  OBVIOUS
<1>3. PICK e : e = <<1, 0>>
  OBVIOUS
<1>4. p \in [1..2 -> Int] /\ q \in [1..2 -> Int] /\ e \in [1..2 -> Int]
  BY <1>1, <1>2, <1>3, PairTyped
<1>5. EvalCom(e, x) \cong 1
  <2>1. e[1] = 1 /\ \A l \in 2..2 : e[l] = 0
    BY <1>3
  <2>2. 2 \in Nat /\ 2 > 0
    OBVIOUS
  <2> QED
    BY <1>4, <2>1, <2>2, EvalUnit, Zenon
<1>6. EvalCom(q, x) \cong EvalCom(e, x) * x
  <2>1. e \in [1..(1 + 1) -> Int] /\ q \in [1..(1 + 1) -> Int]
    BY <1>4
  <2>2. e[1 + 1] = 0 /\ q[1] = 0 /\ \A l \in 1..1 : q[l + 1] = e[l]
    BY <1>2, <1>3
  <2>3. 1 \in Nat
    OBVIOUS
  <2> QED
    BY <2>1, <2>2, <2>3, EvalShift, Zenon
<1>7. EvalCom(p, x) \cong EvalCom(q, x) + y
  <2>1. p[1] \cong q[1] + y /\ \A l \in 2..2 : p[l] = q[l]
    BY <1>1, <1>2 DEF \cong
  <2>2. 2 \in Nat /\ 2 > 0
    OBVIOUS
  <2> QED
    BY <1>4, <2>1, <2>2, EvalAddConst
<1>8. PICK a \in Int, b \in Int : a = EvalCom(e, x) /\ b = EvalCom(q, x)
  BY <1>4, EvalInt
<1>9. a * x \cong 1 * x /\ 1 * x = x
  <2>1. 1 \in Int /\ 1 * x = x
    OBVIOUS
  <2>2. a * x \cong 1 * x
    BY <1>5, <1>8, <2>1, CongWith, Zenon
  <2> QED
    BY <2>1, <2>2
<1>10. b \cong x
  BY <1>6, <1>8, <1>9, CongTrans
<1>11. b + y \cong x + y
  BY <1>8, <1>10, CongWith
<1> QED
  BY <1>1, <1>7, <1>8, <1>11, CongTrans

(* The polynomial that vanishes at the slots has B + 1 coefficients.       *)
LEMMA VanishingSound ==
  ASSUME NEW B \in Nat
  PROVE  /\ Vanishing(B) \in [1..(B + 1) -> Int]
         /\ \A b \in 1..B : EvalCom(Vanishing(B), Slots(B)[b]) \cong 0
<1>1. PICK S, list : S = 1..B /\ list = [b \in 1..B |-> b - 1]
  OBVIOUS
<1>2. DOMAIN list = S /\ \A b \in S : list[b] \in Int
  BY <1>1
<1>22. \A b \in S : Slots(B)[b] \in Int /\ Slots(B)[b] + list[b] \cong 0
  <2> SUFFICES ASSUME NEW b \in S PROVE Slots(B)[b] \in Int /\ Slots(B)[b] + list[b] \cong 0
    OBVIOUS
  <2>1. PICK c \in Int : c = b - 1
    BY <1>1
  <2>2. Slots(B)[b] = (-c) % Q /\ list[b] = c
    BY <1>1, <2>1 DEF Slots, SlotPoint
  <2>3. -c \in Int /\ (-c) + c = 0
    OBVIOUS
  <2>4. (-c) % Q \in Int /\ (-c) % Q \cong -c
    BY <2>3, Reduce, ScalarInt
  <2>5. ((-c) % Q) + c \cong (-c) + c
    BY <2>3, <2>4, CongWith
  <2> QED
    BY <2>2, <2>3, <2>4, <2>5
<1>3. Vanishing(B) = (CHOOSE h : IsVanishing(h, list, S))[S]
  BY <1>1, <1>2, VanishingIsFold
<1>4. IsFiniteSet(S) /\ Cardinality(S) = B
  BY <1>1, FS_Interval
<1> DEFINE V == UNION {[1..n -> Int] : n \in Nat}
           F(i, v) == MulPoly(v, <<list[i], 1>>)
<1>5. ASSUME NEW n \in Nat, NEW v \in [1..n -> Int], NEW i \in S
      PROVE  F(i, v) \in [1..(n + 1) -> Int]
  <2>1. PICK r : r = <<list[i], 1>>
    OBVIOUS
  <2>2. r \in [1..2 -> Int]
    BY <1>2, <2>1, PairTyped
  <2>3. MulPoly(v, r) \in [1..(n + 2 - 1) -> Scalar]
    BY <2>2, MulPolyTyped
  <2>4. n + 2 - 1 = n + 1
    OBVIOUS
  <2> QED
    BY <2>1, <2>3, <2>4, ScalarInt
<1>6. \A i \in S, v \in V : F(i, v) \in V
  <2> SUFFICES ASSUME NEW i \in S, NEW v \in V PROVE F(i, v) \in V
    OBVIOUS
  <2>1. PICK n \in Nat : v \in [1..n -> Int]
    OBVIOUS
  <2>2. F(i, v) \in [1..(n + 1) -> Int] /\ n + 1 \in Nat
    BY <1>5, <2>1
  <2> HIDE DEF F
  <2> QED
    BY <2>2
<1> HIDE DEF F, V
<1>7. PICK step : step = [q \in S \X V |-> F(q[1], q[2])]
  OBVIOUS
<1>8. step \in [S \X V -> V] /\ \A i \in S, v \in V : step[<<i, v>>] = F(i, v)
  BY <1>6, <1>7
<1>9. PICK ch : ch = [s \in SUBSET S |-> Top(s)]
  OBVIOUS
<1>10. Chooses(ch, S) /\ \A s \in SUBSET S : s # {} => ch[s] = Top(s) /\ Top(s) \in s
  BY <1>1, <1>9, TopIn DEF Chooses
<1>11. PICK one : one = <<1>>
  OBVIOUS
<1>12. one \in [1..1 -> Int]
  BY <1>11
<1>13. one \in V
  <2>1. 1 \in Nat
    OBVIOUS
  <2> QED
    BY <1>12, <2>1 DEF V
<1>14. PICK g \in [SUBSET S -> V] : FoldsBy(g, step, one, ch, S)
  BY <1>4, <1>8, <1>10, <1>13, FoldExists, Zenon
<1>15. \A s \in SUBSET S : g[s] = IF s = {} THEN <<1>> ELSE MulPoly(g[s \ {Top(s)}], <<list[Top(s)], 1>>)
  <2> SUFFICES ASSUME NEW s \in SUBSET S
               PROVE  g[s] = IF s = {} THEN <<1>> ELSE MulPoly(g[s \ {Top(s)}], <<list[Top(s)], 1>>)
    OBVIOUS
  <2>1. s = {} => g[s] = one
    BY <1>14 DEF FoldsBy
  <2>2. ASSUME s # {} PROVE g[s] = F(Top(s), g[s \ {Top(s)}])
    <3>1. PICK i \in S : i = Top(s) /\ i = ch[s]
      BY <1>10, <2>2
    <3>2. g[s \ {i}] \in V
      OBVIOUS
    <3>3. g[s] = step[<<i, g[s \ {i}]>>]
      BY <1>14, <2>2, <3>1 DEF FoldsBy
    <3> QED
      BY <1>8, <3>1, <3>2, <3>3
  <2> QED
    BY <1>11, <2>1, <2>2 DEF F
<1>16. IsVanishing(g, list, S)
  BY <1>15 DEF IsVanishing
<1>17. PICK h : h = (CHOOSE k : IsVanishing(k, list, S)) /\ IsVanishing(h, list, S)
  BY <1>16
<1>18. \A s \in SUBSET S : h[s] = IF s = {} THEN <<1>> ELSE MulPoly(h[s \ {Top(s)}], <<list[Top(s)], 1>>)
  BY <1>17 DEF IsVanishing
<1>23. ASSUME NEW k \in Nat, k > 0, NEW v \in [1..k -> Int], NEW i \in S, NEW b \in S,
              b # i => EvalCom(v, Slots(B)[b]) \cong 0
       PROVE  EvalCom(F(i, v), Slots(B)[b]) \cong 0
  <2>1. PICK x \in Int, y \in Int : x = Slots(B)[b] /\ y = list[i]
    BY <1>2, <1>22
  <2>2. PICK r : r = <<y, 1>>
    OBVIOUS
  <2>3. r \in [1..2 -> Int]
    BY <2>2, PairTyped
  <2>4. EvalCom(F(i, v), x) \cong EvalCom(v, x) * EvalCom(r, x)
    <3>1. 2 \in Nat
      OBVIOUS
    <3>2. EvalCom(MulPoly(v, r), x) \cong EvalCom(v, x) * EvalCom(r, x)
      BY <1>23, <2>3, <3>1, MulPolySound, Zenon
    <3> QED
      BY <2>1, <2>2, <3>2 DEF F
  <2>5. EvalCom(v, x) \in Int /\ EvalCom(r, x) \in Int
    <3>1. 2 \in Nat
      OBVIOUS
    <3> QED
      BY <2>3, <3>1, EvalInt, Zenon
  <2>6. EvalCom(v, x) \cong 0 \/ EvalCom(r, x) \cong 0
    <3>1. CASE b = i
      <4>1. x + y \cong 0
        BY <1>22, <2>1, <3>1
      <4> QED
        BY <2>2, <4>1, FactorZero
    <3>2. CASE b # i
      BY <1>23, <2>1, <3>2
    <3> QED
      BY <3>1, <3>2
  <2>7. EvalCom(v, x) * EvalCom(r, x) \cong 0
    BY <2>5, <2>6, ZeroIdeal
  <2> QED
    BY <2>1, <2>4, <2>7, CongTrans
<1> DEFINE G == {s \in SUBSET S : /\ h[s] \in [1..(Cardinality(s) + 1) -> Int]
                                  /\ \A b \in s : EvalCom(h[s], Slots(B)[b]) \cong 0}
<1>19. ASSUME NEW s \in SUBSET S, \A i \in s : s \ {i} \in G PROVE s \in G
  <2>1. CASE s = {}
    <3>1. h[s] = one
      BY <1>11, <1>18, <2>1
    <3>2. Cardinality(s) = 0
      BY <2>1, FS_EmptySet
    <3>3. h[s] \in [1..(Cardinality(s) + 1) -> Int]
      BY <1>12, <3>1, <3>2
    <3>4. \A b \in s : EvalCom(h[s], Slots(B)[b]) \cong 0
      BY <2>1
    <3> QED
      BY <3>3, <3>4
  <2>2. CASE s # {}
    <3>1. PICK i \in S : i = Top(s) /\ i \in s
      BY <1>10, <2>2
    <3>2. PICK n \in Nat : n = Cardinality(s \ {i})
      BY <1>4, FS_Subset, FS_CardinalityType
    <3>3. Cardinality(s) = n + 1
      <4>1. IsFiniteSet(s) /\ Cardinality(s) \in Nat
        BY <1>4, FS_Subset, FS_CardinalityType
      <4>2. n = Cardinality(s) - 1
        BY <3>1, <3>2, <4>1, FS_RemoveElement
      <4> QED
        BY <4>1, <4>2
    <3>4. PICK k \in Nat : k = n + 1
      OBVIOUS
    <3>5. h[s \ {i}] \in [1..k -> Int]
      BY <1>19, <3>1, <3>2, <3>4
    <3>6. h[s] = F(i, h[s \ {i}])
      BY <1>18, <2>2, <3>1 DEF F
    <3>7. h[s] \in [1..(k + 1) -> Int]
      <4>1. PICK v \in [1..k -> Int] : v = h[s \ {i}]
        BY <3>5
      <4>2. F(i, v) \in [1..(k + 1) -> Int]
        BY <1>5
      <4> QED
        BY <3>6, <4>1, <4>2
    <3>8. \A b \in s : EvalCom(h[s], Slots(B)[b]) \cong 0
      <4> SUFFICES ASSUME NEW b \in s PROVE EvalCom(h[s], Slots(B)[b]) \cong 0
        OBVIOUS
      <4>1. PICK v \in [1..k -> Int] : v = h[s \ {i}]
        BY <3>5
      <4>2. b # i => EvalCom(v, Slots(B)[b]) \cong 0
        BY <1>19, <3>1, <4>1
      <4>3. b \in S /\ k > 0
        BY <3>4
      <4>4. EvalCom(F(i, v), Slots(B)[b]) \cong 0
        BY <1>23, <4>2, <4>3
      <4> QED
        BY <3>6, <4>1, <4>4
    <3> QED
      BY <3>3, <3>4, <3>7, <3>8
  <2> QED
    BY <2>1, <2>2
<1>20. G \in SUBSET SUBSET S
  OBVIOUS
<1> HIDE DEF G
<1>21. S \in G
  BY <1>4, <1>19, <1>20, SetInduct
<1> QED
  BY <1>1, <1>3, <1>4, <1>17, <1>21 DEF G

LEMMA SlotsTyped ==
  ASSUME NEW B \in Nat
  PROVE  DOMAIN Slots(B) = 1..B /\ \A b \in 1..B : Slots(B)[b] \in Scalar /\ Slots(B)[b] \in Range(Slots(B))
<1>1. DOMAIN Slots(B) = 1..B
  BY DEF Slots
<1>2. ASSUME NEW b \in 1..B PROVE Slots(B)[b] \in Scalar
  <2>1. PICK x \in Int : x = -(b - 1)
    OBVIOUS
  <2>2. Slots(B)[b] = x % Q
    BY <2>1 DEF Slots, SlotPoint
  <2> QED
    BY <2>2, Reduce
<1> QED
  BY <1>1, <1>2 DEF Range

(* Whatever is drawn, a packed polynomial has as many coefficients as      *)
(* PackedDegree says.                                                      *)
LEMMA PackedPolySound ==
  ASSUME NEW C, C.t \in Nat, C.t > 0, NEW B \in Nat, B > 0, NEW n, n = PackedDegree(C, B) + 1,
         NEW seed, NEW value \in Int, NEW j, NEW p, p = PackedPoly(C, seed, B, value, j)
  PROVE  /\ n \in Nat /\ n > 0 /\ p \in [1..n -> Scalar]
         /\ \A b \in 1..B : EvalCom(p, Slots(B)[b]) \cong value
         /\ p[1] \cong value
<1>1. n \in Nat /\ n > 0 /\ n = C.t + B - 1
  BY DEF PackedDegree
<1>2. PICK k \in Nat : k = C.t - 1
  OBVIOUS
<1>3. PICK mask : mask = [l \in 1..k |-> Coin(seed, j, l)]
  OBVIOUS
<1>4. mask \in [1..k -> Scalar] /\ mask \in [1..k -> Int]
  BY <1>3, RandomTyped, ScalarInt
<1>5. PICK v : v = IF mask = <<>> THEN [l \in 1..B |-> 0] ELSE MulPoly(Vanishing(B), mask)
  OBVIOUS
<1>6. p = [v EXCEPT ![1] = (v[1] + value) % Q]
  BY <1>2, <1>3, <1>5 DEF PackedPoly, RandomPackedConst
<1>7. v \in [1..n -> Scalar]
  <2>1. CASE mask = <<>>
    <3>1. k = 0
      <4>1. DOMAIN mask = {} /\ DOMAIN mask = 1..k
        BY <1>4, <2>1
      <4> QED
        BY <4>1
    <3>2. n = B
      BY <1>1, <1>2, <3>1
    <3> QED
      BY <1>5, <2>1, <3>2, ScalarInt
  <2>2. CASE mask # <<>>
    <3>1. PICK b \in Nat : b = B + 1
      OBVIOUS
    <3>2. Vanishing(B) \in [1..b -> Int]
      BY <3>1, VanishingSound
    <3>3. MulPoly(Vanishing(B), mask) \in [1..(b + k - 1) -> Scalar]
      BY <1>4, <3>2, MulPolyTyped
    <3>4. b + k - 1 = n
      BY <1>1, <1>2, <3>1
    <3> QED
      BY <1>5, <2>2, <3>3, <3>4
  <2> QED
    BY <2>1, <2>2
<1>8. (v[1] + value) % Q \in Scalar
  <2>1. v[1] \in Int
    <3>1. 1 \in 1..n
      BY <1>1
    <3> QED
      BY <1>7, <3>1, ScalarInt
  <2>2. v[1] + value \in Int
    BY <2>1
  <2> QED
    BY <2>2, Reduce
<1>9. p \in [1..n -> Scalar]
  BY <1>1, <1>6, <1>7, <1>8
<1>10. \A b \in 1..B : EvalCom(v, Slots(B)[b]) \cong 0
  <2> SUFFICES ASSUME NEW b \in 1..B PROVE EvalCom(v, Slots(B)[b]) \cong 0
    OBVIOUS
  <2>0. PICK x \in Int : x = Slots(B)[b]
    BY SlotsTyped, ScalarInt
  <2>1. CASE mask = <<>>
    <3>1. \A l \in 1..n : v[l] = 0
      <4>1. DOMAIN v = 1..n /\ v = [l \in 1..B |-> 0]
        BY <1>5, <1>7, <2>1
      <4> QED
        BY <4>1
    <3>2. v \in [1..n -> Int] /\ 0 \in Int /\ \A l \in 1..n : v[l] \cong 0 * v[l]
      BY <1>7, <3>1, ScalarInt DEF \cong
    <3>3. EvalCom(v, x) \cong 0 * EvalCom(v, x)
      BY <1>1, <3>2, EvalScale, Zenon
    <3>4. 0 * EvalCom(v, x) = 0
      <4>1. EvalCom(v, x) \in Int
        BY <1>1, <3>2, EvalInt
      <4> QED
        BY <4>1
    <3> QED
      BY <2>0, <3>3, <3>4
  <2>2. CASE mask # <<>>
    <3>1. PICK c \in Nat : c = B + 1 /\ c > 0
      OBVIOUS
    <3>2. PICK w \in [1..c -> Int] : w = Vanishing(B) /\ EvalCom(w, x) \cong 0
      BY <2>0, <3>1, VanishingSound
    <3>3. EvalCom(MulPoly(w, mask), x) \cong EvalCom(w, x) * EvalCom(mask, x)
      BY <1>4, <3>1, MulPolySound, Zenon
    <3>4. EvalCom(w, x) * EvalCom(mask, x) \cong 0
      BY <1>4, <3>2, EvalInt, ZeroIdeal
    <3> QED
      BY <1>5, <2>0, <2>2, <3>2, <3>3, <3>4, CongTrans
  <2> QED
    BY <2>1, <2>2
<1>11. p[1] \cong v[1] + value /\ \A l \in 2..n : p[l] = v[l]
  <2>1. v[1] \in Int /\ 1 \in DOMAIN v
    <3>1. 1 \in 1..n
      BY <1>1
    <3> QED
      BY <1>7, <3>1, ScalarInt
  <2>2. (v[1] + value) % Q \cong v[1] + value
    <3>1. v[1] + value \in Int
      BY <2>1
    <3> QED
      BY <3>1, Reduce
  <2>3. p[1] = (v[1] + value) % Q
    BY <1>6, <2>1
  <2>4. \A l \in 2..n : p[l] = v[l]
    <3>1. \A l \in 2..n : l \in 1..n /\ l # 1
      OBVIOUS
    <3> QED
      BY <1>6, <1>7, <3>1
  <2> QED
    BY <2>2, <2>3, <2>4
<1>12. \A b \in 1..B : EvalCom(p, Slots(B)[b]) \cong value
  <2> SUFFICES ASSUME NEW b \in 1..B PROVE EvalCom(p, Slots(B)[b]) \cong value
    OBVIOUS
  <2>1. PICK x \in Int : x = Slots(B)[b]
    BY SlotsTyped, ScalarInt
  <2>2. p \in [1..n -> Int] /\ v \in [1..n -> Int]
    BY <1>7, <1>9, ScalarInt
  <2>3. EvalCom(p, x) \cong EvalCom(v, x) + value
    BY <1>1, <1>11, <2>2, EvalAddConst
  <2>4. EvalCom(v, x) \in Int /\ EvalCom(v, x) \cong 0
    BY <1>1, <1>10, <2>1, <2>2, EvalInt
  <2>5. EvalCom(v, x) + value \cong 0 + value /\ 0 + value = value
    <3>1. 0 \in Int /\ 0 + value = value
      OBVIOUS
    <3>2. EvalCom(v, x) + value \cong 0 + value
      BY <2>4, <3>1, CongWith, Zenon
    <3> QED
      BY <3>1, <3>2
  <2> QED
    BY <2>1, <2>3, <2>5, CongTrans
<1>13. p[1] \cong value
  <2>1. 1 \in 1..B /\ Slots(B)[1] = 0
    <3>1. Slots(B)[1] = SlotPoint(1 - 1) /\ 1 \in 1..B
      BY DEF Slots
    <3>2. PICK c \in Int : c = 1 - 1
      OBVIOUS
    <3>3. PICK y \in Int : y = -c /\ y + c = 0
      OBVIOUS
    <3>4. y = 0
      <4>1. c = 0 /\ y + c = 0
        BY <3>2, <3>3
      <4> QED
        BY <4>1
    <3>5. 0 % Q = 0
      BY ScalarInt, Reduce
    <3> QED
      BY <3>1, <3>2, <3>3, <3>4, <3>5 DEF SlotPoint
  <2>2. EvalCom(p, 0) \cong value
    BY <1>12, <2>1
  <2>3. EvalCom(p, 0) \cong p[1]
    BY <1>1, <1>9, ScalarInt, EvalAtZero
  <2> QED
    BY <2>2, <2>3, CongTrans
<1> QED
  BY <1>1, <1>9, <1>12, <1>13

(* B triples in one pair of sharings.                                      *)
PackedTriples(v, B, S, n) ==
  DOMAIN v = 1..B /\ \A k \in 1..B : Multiplies(v[k], S, n, Slots(B)[k])

LEMMA GeneratePackedSound ==
  ASSUME NEW C, Places(C.ids), C.t \in Nat, C.t > 0, NEW B \in Nat, B > 0, NEW n, n = PackedDegree(C, B) + 1,
         NEW seed, NEW cheat, NEW out, out = GeneratePacked(C, seed, B, cheat), out.ok
  PROVE  PackedTriples(out.val, B, C.ids, n)
<1>1. n \in Nat /\ n > 0 /\ n = C.t + B - 1 /\ PackedDegree(C, B) \in Nat
  BY DEF PackedDegree
<1>2. PICK ab : ab = JointRandomPacked(C, Fork(seed, 1), 2, PackedDegree(C, B))
  OBVIOUS
<1>3. ab.ok /\ Sharings(ab.val, 2, C.ids, n)
  <2>1. PICK two \in Nat : two = 2
    OBVIOUS
  <2>2. ab.ok /\ Sharings(ab.val, two, C.ids, PackedDegree(C, B) + 1)
    BY <1>1, <1>2, <2>1, JointPackedSound
  <2> QED
    BY <2>1, <2>2
<1>4. PICK a, b : a = ab.val[1] /\ b = ab.val[2]
  OBVIOUS
<1>5. Held(a, C.ids, n) /\ Held(b, C.ids, n)
  BY <1>3, <1>4 DEF Sharings
<1> DEFINE P(j) == PackedPoly(C, Fork(seed, 3), B, (a.sh[j] * b.sh[j]) % Q, j)
<1>6. PICK m : m = Tabulate([j \in C.ids |-> ReshareProduct(C, j, P(j), a, b, cheat)])
  OBVIOUS
<1>7. PICK F : F = [j \in C.ids |-> CheckPacked(j, B, a, b, m[j])]
  OBVIOUS
<1>8. PICK sent : sent = Loop(Tabulate(F), C.ids)
  OBVIOUS
<1>9. PICK T : T = [k \in 1..B |-> Triple(a, b, Recombine(C, Lagrange(Slots(B)[k], C.ids), m))]
  OBVIOUS
<1>10. out = IF ~PackedFits(C, B) THEN Fail("params") ELSE IF sent.ok THEN Ok(Tabulate(T)) ELSE sent
  BY <1>2, <1>3, <1>4, <1>6, <1>7, <1>8, <1>9 DEF GeneratePacked, Then, Each, Loop
<1>11. PackedFits(C, B) /\ sent.ok /\ out.val = T
  BY <1>10, Results, TabulateIs
<1>12. Cardinality(C.ids) >= 2 * n - 1
  BY <1>1, <1>11, ScalarsFinite DEF PackedFits, Places
<1>13. C.ids \in SUBSET Nat /\ C.ids \in SUBSET Scalar
  BY ScalarInt DEF Places
<1>14. \A j \in C.ids : F[j].ok
  BY <1>8, <1>11, <1>13, EachEnds
<1>15. ASSUME NEW j \in C.ids
       PROVE  /\ Proved(j, a, b, m[j], C.ids, n)
              /\ \A s \in Range(Slots(B)) : EvalCom(m[j].com, s) = m[j].com[1]
  <2>1. PICK mj, p : mj = m[j] /\ p = P(j)
    OBVIOUS
  <2>2. PICK value \in Int : value = (a.sh[j] * b.sh[j]) % Q
    <3>1. a.sh[j] \in Int /\ b.sh[j] \in Int
      BY <1>5, ScalarInt DEF Held
    <3>2. a.sh[j] * b.sh[j] \in Int
      BY <3>1
    <3> QED
      BY <3>2, Reduce, ScalarInt
  <2>3. p \in [1..n -> Scalar]
    <3>1. p = PackedPoly(C, Fork(seed, 3), B, value, j)
      BY <2>1, <2>2
    <3> QED
      BY <3>1, PackedPolySound
  <2>4. mj = ReshareProduct(C, j, p, a, b, cheat)
    BY <1>6, <2>1, TabulateIs
  <2> HIDE DEF P
  <2>5. mj.com \in Com(n) /\ mj.sh \in [C.ids -> Scalar]
    BY <1>1, <2>3, <2>4, ReshareProductTyped
  <2>6. F[j] = IF ProofFails(j, a, b, mj) \/ ~SlotsAgree(B, mj.com, mj.com[1])
               THEN Abort({j}) ELSE SharesOrBlame(j, mj)
    BY <1>7, <2>1 DEF CheckPacked
  <2>7. ~ProofFails(j, a, b, mj) /\ SlotsAgree(B, mj.com, mj.com[1]) /\ SharesOrBlame(j, mj).ok
    BY <1>14, <2>6, Results
  <2>8. a.com \in Com(n) /\ b.com \in Com(n) /\ j \in Scalar
    BY <1>5, <1>13 DEF Held
  <2>9. Proved(j, a, b, mj, C.ids, n)
    BY <1>1, <1>13, <2>5, <2>7, <2>8, CheckSound
  <2> QED
    BY <2>1, <2>7, <2>9 DEF SlotsAgree
<1>16. ASSUME NEW k \in 1..B PROVE Multiplies(T[k], C.ids, n, Slots(B)[k])
  <2>1. PICK s \in Int : s = Slots(B)[k] /\ s \in Range(Slots(B))
    BY SlotsTyped, ScalarInt
  <2>2. T[k] = Triple(a, b, Recombine(C, Lagrange(s, C.ids), m))
    BY <1>9, <2>1
  <2>3. \A j \in C.ids : Proved(j, a, b, m[j], C.ids, n) /\ EvalCom(m[j].com, s) = m[j].com[1]
    BY <1>15, <2>1
  <2>4. Multiplies(T[k], C.ids, n, s)
    BY <1>1, <1>5, <1>12, <2>2, <2>3, RecombineSound
  <2> QED
    BY <2>1, <2>4
<1> QED
  BY <1>9, <1>11, <1>16 DEF PackedTriples

(* What a dealer deals: two random polynomials and its part of the key.    *)
LEMMA PackedDealingTyped ==
  ASSUME NEW C, Places(C.ids), C.t \in Nat, C.t > 0, NEW key, Held(key, C.ids, C.t), NEW seed,
         NEW B \in Nat, B > 0, NEW n, n = PackedDegree(C, B) + 1, NEW j \in C.ids, NEW cheat
  PROVE  PackedDealing(C, key, seed, B, j, cheat) \in [1..3 -> [1..n -> Scalar]]
<1>1. PICK v \in Int : v = (KeyPart(C, key, j) + IF Does(cheat, "key", j) THEN 1 ELSE 0) % Q
  <2>1. C.ids \in SUBSET Scalar /\ 0 \in Int
    BY DEF Places
  <2>2. Lagrange(0, C.ids)[j] = Weight(0, C.ids, j)
    BY <2>1, LagrangeIs
  <2>3. Lagrange(0, C.ids)[j] \in Int
    BY <2>1, <2>2, WeightInt
  <2>4. key.sh[j] \in Int
    BY ScalarInt DEF Held
  <2>5. Lagrange(0, C.ids)[j] * key.sh[j] \in Int
    BY <2>3, <2>4
  <2>6. KeyPart(C, key, j) \in Int
    BY <2>5, Reduce, ScalarInt DEF KeyPart
  <2>7. KeyPart(C, key, j) + 1 \in Int /\ KeyPart(C, key, j) + 0 \in Int
    BY <2>6
  <2>8. (KeyPart(C, key, j) + IF Does(cheat, "key", j) THEN 1 ELSE 0) \in Int
    BY <2>7
  <2> QED
    BY <2>8, Reduce, ScalarInt
<1>2. PICK p : p = PackedPoly(C, Fork(seed, 4), B, v, j)
  OBVIOUS
<1>3. n \in Nat /\ p \in [1..n -> Scalar]
  BY <1>2, PackedPolySound
<1>4. PICK V : V = [1..n -> Scalar]
  OBVIOUS
<1>5. PICK r : r = RandomPolys(Fork(seed, 3), j, 2, n)
  OBVIOUS
<1>6. r \in [1..2 -> V]
  BY <1>4, <1>5, RandomTyped
<1>7. r \in Seq(V) /\ Len(r) = 2
  <2>1. PICK two \in Nat : two = 2
    OBVIOUS
  <2> QED
    BY <1>6, <2>1, FunctionIsSeq
<1>8. PICK d : d = r \o <<p>>
  OBVIOUS
<1>9. d = PackedDealing(C, key, seed, B, j, cheat)
  BY <1>1, <1>2, <1>5, <1>8 DEF PackedDealing
<1>10. p \in V
  BY <1>3, <1>4
<1>11. d \in Seq(V) /\ Len(d) = 3
  <2>1. d = Append(r, p)
    BY <1>7, <1>8, <1>10, AppendIsConcat
  <2>2. d \in Seq(V) /\ Len(d) = Len(r) + 1
    BY <1>7, <1>10, <2>1, AppendProperties
  <2> QED
    BY <1>7, <2>2
<1>12. d \in [1..3 -> V]
  BY <1>11, LenProperties, ElementOfSeq
<1> QED
  BY <1>4, <1>9, <1>12

(* The third sharing is the key at every slot.                             *)
KeyAtSlots(v, X, B) == \A b \in 1..B : EvalCom(v[3].com, Slots(B)[b]) = X

LEMMA PackedSharesSound ==
  ASSUME NEW C, Places(C.ids), C.t \in Nat, C.t > 0, Cardinality(C.ids) >= C.t,
         NEW key, Held(key, C.ids, C.t), NEW seed,
         NEW B \in Nat, B > 0, NEW n, n = PackedDegree(C, B) + 1, NEW cheat,
         NEW out, out = PackedShares(C, key, seed, B, cheat), out.ok
  PROVE  Sharings(out.val, 3, C.ids, n) /\ KeyAtSlots(out.val, key.com[1], B)
<1>1. n \in Nat /\ n > 0
  BY DEF PackedDegree
<1>2. PICK polys : polys = [j \in C.ids |-> PackedDealing(C, key, seed, B, j, cheat)]
  OBVIOUS
<1>3. polys \in [C.ids -> [1..3 -> [1..n -> Scalar]]]
  BY <1>2, PackedDealingTyped
<1>4. polys \in [C.ids -> Polys(3)]
  BY <1>1, <1>3, PolysOf
<1>5. PICK deal, coms : deal = DealAll(C, n, polys, Honest) /\ coms = [i \in C.ids |-> Committed(polys[i])]
  OBVIOUS
<1>6. PICK bad : bad = {j \in C.ids : ~KeyBound(C, key, B, j, coms[j][3])}
  OBVIOUS
<1>7. out = IF deal.ok THEN IF bad # {} THEN Abort({Least(bad)}) ELSE Ok(deal.val) ELSE deal
  <2>1. PICK jd : jd = JointDeal(C, PackedDegree(C, B) + 1, Tabulate(polys))
    OBVIOUS
  <2>2. jd = IF deal.ok THEN Ok([out |-> deal.val, coms |-> coms]) ELSE deal
    BY <1>5, <2>1, TabulateIs DEF JointDeal, Then
  <2>3. out = IF jd.ok
              THEN LET b == {j \in C.ids : ~KeyBound(C, key, B, j, jd.val.coms[j][3])}
                   IN  IF b # {} THEN Abort({Least(b)}) ELSE Ok(jd.val.out)
              ELSE jd
    BY <1>2, <2>1 DEF PackedShares, Then
  <2>4. jd.ok => jd.val.coms = coms /\ jd.val.out = deal.val /\ deal.ok
    BY <2>2, Results
  <2>5. ~jd.ok => ~deal.ok /\ jd = deal
    BY <2>2, Results
  <2> QED
    BY <1>6, <2>3, <2>4, <2>5
<1>8. deal.ok /\ bad = {} /\ out.val = deal.val
  BY <1>7, Results
<1>9. PICK three \in Nat : three = 3
  OBVIOUS
<1>10. /\ Sharings(deal.val, three, C.ids, n)
       /\ \A i \in C.ids, b \in 1..three : Commit(polys[i][b]) \in Com(n)
       /\ \A b \in 1..three : deal.val[b].com = SumCom([i \in C.ids |-> Commit(polys[i][b])])
  BY SMTT(40), <1>1, <1>4, <1>5, <1>8, <1>9, DealSound
<1>11. PICK A : A = [i \in C.ids |-> Commit(polys[i][3])]
  OBVIOUS
<1>12. out.val[3].com = SumCom(A) /\ A \in [C.ids -> Com(n)]
  BY <1>8, <1>9, <1>10, <1>11
<1>13. \A j \in C.ids : coms[j][3] = A[j]
  <2>1. ASSUME NEW j \in C.ids PROVE coms[j][3] = A[j]
    <3>1. DOMAIN polys[j] = 1..3
      BY <1>3
    <3>2. coms[j] = [b \in 1..3 |-> Commit(polys[j][b])]
      BY <1>5, <3>1, TabulateIs DEF Committed
    <3> QED
      BY <1>11, <3>2
  <2> QED
    BY <2>1
<1>14. PICK S \in SUBSET Scalar, z \in Int : S = C.ids /\ z = 0 /\ S # {}
  BY DEF Places
<1>15. IsFiniteSet(S)
  BY ScalarsFinite
<1>16. PICK f : f = [x \in Int |-> EvalCom(key.com, x)]
  OBVIOUS
<1>17. key.com \in Com(C.t) /\ key.com \in [1..C.t -> Int]
  BY ComTyped DEF Held
<1>18. f \in Interpolated(C.t) /\ \A x \in Int : f[x] \in Int
  BY <1>16, <1>17, PolynomialInterpolated, EvalInt
<1>19. Interp(z, f, S) \cong f[z]
  BY <1>14, <1>18 DEF Interpolated
<1>20. f[z] = key.com[1] /\ key.com[1] \in Scalar
  BY <1>14, <1>16, <1>17, AtZeroIsFirst
<1>21. ASSUME NEW b \in 1..B PROVE EvalCom(SumCom(A), Slots(B)[b]) = key.com[1]
  <2>1. PICK s \in Int : s = Slots(B)[b] /\ s \in Range(Slots(B))
    BY SlotsTyped, ScalarInt
  <2>2. PICK E : E = [i \in S |-> EvalCom(A[i], s)]
    OBVIOUS
  <2>3. SumCom(A) \in Com(n) /\ EvalCom(SumCom(A), s) \cong SumOn(E, S)
    <3>1. DOMAIN A = S /\ \A i \in S : A[i] \in Com(n)
      BY <1>12, <1>14
    <3>2. /\ SumCom(A) \in Com(n)
          /\ \A x \in Int : EvalCom(SumCom(A), x) \cong SumOn([i \in S |-> EvalCom(A[i], x)], S)
      BY <1>1, <1>14, <1>15, <3>1, SumComSound
    <3> QED
      BY <2>2, <3>2
  <2>4. PICK W : W = [i \in S |-> Weight(z, S, i) * f[i]]
    OBVIOUS
  <2>5. \A i \in S : E[i] \in Int /\ W[i] \in Int /\ E[i] \cong W[i]
    <3>1. ASSUME NEW i \in S PROVE E[i] \in Int /\ W[i] \in Int /\ E[i] \cong W[i]
      <4>1. i \in Int /\ i \in C.ids
        BY <1>14, ScalarInt
      <4>2. Lagrange(0, C.ids)[i] = Weight(z, S, i) /\ Weight(z, S, i) \in Int
        <5>1. Lagrange(z, S)[i] = Weight(z, S, i)
          BY LagrangeIs
        <5> QED
          BY <1>14, <5>1, WeightInt
      <4>3. f[i] = EvalCom(key.com, i) /\ f[i] \in Int
        BY <1>16, <1>18, <4>1
      <4>4. PICK w \in Int, v \in Int : w = Weight(z, S, i) /\ v = f[i]
        BY <4>2, <4>3
      <4>5. KeyBound(C, key, B, i, A[i])
        BY <1>6, <1>8, <1>13, <4>1
      <4>6. E[i] = (v * w) % Q
        BY <2>1, <2>2, <4>2, <4>3, <4>4, <4>5 DEF KeyBound, SlotsAgree
      <4>7. v * w \in Int /\ w * v = v * w
        OBVIOUS
      <4>8. E[i] \in Scalar /\ E[i] \cong v * w
        BY <4>6, <4>7, Reduce
      <4>9. W[i] = v * w
        BY <2>4, <4>4, <4>7
      <4> QED
        BY <4>7, <4>8, <4>9, ScalarInt
    <3> QED
      BY <3>1
  <2>6. SumOn(E, S) \cong SumOn(W, S)
    BY <1>15, <2>5, SumSame
  <2>7. SumOn(W, S) \cong key.com[1]
    BY <1>19, <1>20, <2>4 DEF Interp
  <2>8. EvalCom(SumCom(A), s) \cong key.com[1]
    BY <2>3, <2>6, <2>7, CongTrans
  <2>9. EvalCom(SumCom(A), s) \in Scalar
    BY <1>1, <2>3, ComTyped
  <2> QED
    BY <1>20, <2>1, <2>8, <2>9, ScalarsEqual
<1> QED
  BY <1>8, <1>9, <1>10, <1>12, <1>21 DEF KeyAtSlots

(* The rounds at the slots.                                                *)
LEMMA SlotInversesSound ==
  ASSUME NEW S \in SUBSET Scalar, NEW n \in Nat, n > 0, NEW B \in Nat, NEW slot, slot = Slots(B),
         NEW tr, PackedTriples(tr, B, S, n), NEW x, Held(x[1], S, n), Held(x[2], S, n),
         NEW cheat, NEW out, out = SlotInverses(n, slot, tr, x, cheat), out.ok
  PROVE  \A b \in 1..B : Inverts(out.val[b], x[1], x[2], slot[b])
<1>1. PICK F : F = [b \in DOMAIN slot |-> InvertMask(slot[b], n, tr[b], x[1], x[2], AtFirst(b, cheat))]
  OBVIOUS
<1>2. out = Loop(Tabulate(F), DOMAIN slot)
  BY <1>1 DEF SlotInverses, Each, Loop
<1>3. DOMAIN slot = 1..B /\ DOMAIN slot \in SUBSET Nat /\ \A b \in 1..B : slot[b] \in Scalar
  BY SlotsTyped
<1>4. out = Ok([b \in DOMAIN slot |-> F[b].val]) /\ \A b \in DOMAIN slot : F[b].ok
  BY <1>2, <1>3, EachEnds
<1>5. ASSUME NEW b \in 1..B PROVE Inverts(out.val[b], x[1], x[2], slot[b])
  <2>1. PICK s \in Int : s = slot[b]
    BY <1>3, ScalarInt
  <2>2. PICK t, u, a, v : t = tr[b] /\ u = x[1] /\ a = x[2] /\ v = F[b]
    OBVIOUS
  <2>3. v = InvertMask(s, n, t, u, a, AtFirst(b, cheat)) /\ v.ok /\ out.val[b] = v.val
    <3>1. v = F[b] /\ v.ok /\ out.val = [i \in DOMAIN slot |-> F[i].val]
      BY <1>3, <1>4, <2>2, Results
    <3>2. out.val[b] = v.val
      BY <1>3, <3>1
    <3>3. v = InvertMask(s, n, t, u, a, AtFirst(b, cheat))
      BY <1>1, <1>3, <2>1, <2>2
    <3> QED
      BY <3>1, <3>2, <3>3
  <2>4. Held(u, S, n) /\ Held(a, S, n) /\ Multiplies(t, S, n, s)
    BY <2>1, <2>2 DEF PackedTriples
  <2>5. Inverts(v.val, u, a, s)
    BY <2>3, <2>4, InvertMaskSound
  <2> QED
    BY <2>1, <2>2, <2>3, <2>5
<1> QED
  BY <1>5

LEMMA SlotNoncesSound ==
  ASSUME NEW S \in SUBSET Scalar, NEW n \in Nat, n > 0, Cardinality(S) >= n, NEW B \in Nat,
         NEW slot, slot = Slots(B), NEW x, Held(x[1], S, n), Held(x[2], S, n),
         NEW vinv, \A b \in 1..B : Inverts(vinv[b], x[1], x[2], slot[b]),
         NEW cheat, NEW out, out = SlotNonces(slot, x, vinv, cheat), out.ok
  PROVE  \A b \in 1..B :
           /\ NoncePoint(out.val[b], Times(x[2], vinv[b]), slot[b])
           /\ InverseOf(x[1], out.val[b].R, S, n, slot[b])
<1>1. PICK F : F = [b \in DOMAIN slot |-> Nonce(slot[b], Times(x[2], vinv[b]), AtFirst(b, cheat))]
  OBVIOUS
<1>2. out = Loop(Tabulate(F), DOMAIN slot)
  BY <1>1 DEF SlotNonces, Each, Loop
<1>3. DOMAIN slot = 1..B /\ DOMAIN slot \in SUBSET Nat /\ \A b \in 1..B : slot[b] \in Scalar
  BY SlotsTyped
<1>4. out = Ok([b \in DOMAIN slot |-> F[b].val]) /\ \A b \in DOMAIN slot : F[b].ok
  BY <1>2, <1>3, EachEnds
<1>5. ASSUME NEW b \in 1..B
      PROVE  /\ NoncePoint(out.val[b], Times(x[2], vinv[b]), slot[b])
             /\ InverseOf(x[1], out.val[b].R, S, n, slot[b])
  <2>1. PICK s \in Int : s = slot[b]
    BY <1>3, ScalarInt
  <2>2. PICK u, a, v, i, k : u = x[1] /\ a = x[2] /\ v = F[b] /\ i = vinv[b] /\ k = Times(a, i)
    OBVIOUS
  <2>3. v = Nonce(s, k, AtFirst(b, cheat)) /\ v.ok /\ out.val[b] = v.val
    <3>1. v = F[b] /\ v.ok /\ out.val = [j \in DOMAIN slot |-> F[j].val]
      BY <1>3, <1>4, <2>2, Results
    <3>2. out.val[b] = v.val
      BY <1>3, <3>1
    <3>3. v = Nonce(s, k, AtFirst(b, cheat))
      BY <1>1, <1>3, <2>1, <2>2
    <3> QED
      BY <3>1, <3>2, <3>3
  <2>4. Held(u, S, n) /\ Held(a, S, n) /\ Inverts(i, u, a, s)
    BY <2>1, <2>2
  <2>5. i \in Int
    BY <2>4, ScalarInt DEF Inverts
  <2>6. Held(k, S, n)
    BY <2>2, <2>4, <2>5, TimesHeld
  <2>7. NoncePoint(v.val, k, s)
    BY <2>3, <2>6, NonceSound
  <2>8. InverseOf(u, v.val.R, S, n, s)
    BY <2>2, <2>4, <2>7, NonceInverse
  <2> QED
    BY <2>1, <2>2, <2>3, <2>7, <2>8
<1> QED
  BY <1>5

LEMMA SlotRecordsSound ==
  ASSUME NEW S \in SUBSET Scalar, NEW n \in Nat, n > 0, NEW B \in Nat, NEW slot, slot = Slots(B),
         NEW tr, PackedTriples(tr, B, S, n), NEW x, Sharings(x, 3, S, n), NEW X \in Int, KeyAtSlots(x, X, B),
         NEW p, NEW ks,
         \A b \in 1..B : NoncePoint(p[b], ks[b], slot[b]) /\ InverseOf(x[1], p[b].R, S, n, slot[b]),
         NEW out, out = SlotRecords(n, slot, tr, x, p), out.ok
  PROVE  \A b \in 1..B : BoundRecord(out.val[b], X, S, n, slot[b])
<1>1. PICK P : P = [b \in DOMAIN slot |-> Product(slot[b], n, tr[b], x[1], x[3])]
  OBVIOUS
<1>2. PICK F : F = [b \in DOMAIN slot |->
                      IF P[b].ok THEN Ok(Record(slot[b], n, p[b], x[1], P[b].val)) ELSE P[b]]
  OBVIOUS
<1>3. out = Loop(Tabulate(F), DOMAIN slot)
  <2>1. F = [b \in DOMAIN slot |-> Then(Product(slot[b], n, tr[b], x[1], x[3]),
                                        LAMBDA z : Ok(Record(slot[b], n, p[b], x[1], z)))]
    BY <1>1, <1>2 DEF Then
  <2> QED
    BY <2>1 DEF SlotRecords, Each, Loop
<1>4. DOMAIN slot = 1..B /\ DOMAIN slot \in SUBSET Nat /\ \A b \in 1..B : slot[b] \in Scalar
  BY SlotsTyped
<1>5. out = Ok([b \in DOMAIN slot |-> F[b].val]) /\ \A b \in DOMAIN slot : F[b].ok
  BY <1>3, <1>4, EachEnds
<1>6. ASSUME NEW b \in 1..B PROVE BoundRecord(out.val[b], X, S, n, slot[b])
  <2>1. PICK s \in Int : s = slot[b]
    BY <1>4, ScalarInt
  <2>2. PICK t, u, y, q, k, z, w, r :
          /\ t = tr[b] /\ u = x[1] /\ y = x[3] /\ q = p[b] /\ k = ks[b] /\ z = P[b]
          /\ w = z.val /\ r = Record(s, n, q, u, w)
    OBVIOUS
  <2>3. F[b] = IF z.ok THEN Ok(r) ELSE z
    BY <1>2, <1>4, <2>1, <2>2
  <2>4. z.ok /\ F[b].val = r
    BY <1>4, <1>5, <2>3, Results
  <2>5. out.val[b] = r
    BY <1>4, <1>5, <2>4, Results
  <2>6. z = Product(s, n, t, u, y)
    BY <1>1, <1>4, <2>1, <2>2
  <2>7. Held(u, S, n) /\ Held(y, S, n) /\ Multiplies(t, S, n, s)
    BY <2>1, <2>2 DEF Sharings, PackedTriples
  <2>8. Times2(w, u, y, S, n, s)
    BY <2>2, <2>4, <2>6, <2>7, ProductSound
  <2>9. Held(w, S, n) /\ Gen * EvalCom(w.com, s) \cong EvalCom(u.com, s) * EvalCom(y.com, s)
    BY <2>8 DEF Times2
  <2>10. NoncePoint(q, k, s) /\ InverseOf(u, q.R, S, n, s)
    BY <2>1, <2>2
  <2>11. SoundRecord(r, S, n, s) /\ r.u = u /\ r.z = w
    <3>1. Held(w, S, n) /\ r = Record(s, n, q, u, w)
      BY <2>2, <2>9
    <3> QED
      BY <2>10, <3>1, RecordSound
  <2>12. EvalCom(y.com, s) = X
    BY <2>1, <2>2, <1>4 DEF KeyAtSlots
  <2>13. PICK U \in Int : U = EvalCom(u.com, s)
    BY <2>7, HeldInt
  <2>14. U * X = X * U
    OBVIOUS
  <2>15. X * EvalCom(u.com, s) \cong Gen * EvalCom(w.com, s)
    BY <2>9, <2>12, <2>13, <2>14 DEF \cong
  <2>16. BoundTo(u, w, X, S, n, s)
    BY <2>7, <2>9, <2>15 DEF BoundTo
  <2> QED
    BY <2>1, <2>5, <2>11, <2>16 DEF BoundRecord
<1> QED
  BY <1>6

(* presign_packed (presign.rs): the same of every slot of a pack, at the   *)
(* point of the slot and for the degree of packed sharings; it succeeds    *)
(* only where the parties are enough to open that degree.                  *)
THEOREM PresignPackedSound ==
  ASSUME NEW C, Places(C.ids), C.t \in Nat, C.t > 0, Cardinality(C.ids) >= 2 * C.t - 1,
         NEW key, Held(key, C.ids, C.t), NEW seed, NEW B \in Nat, NEW cheat,
         NEW n, n = PackedDegree(C, B) + 1,
         NEW out, out = PresignPacked(C, key, seed, B, cheat), out.ok
  PROVE  /\ B > 0 /\ Cardinality(C.ids) >= 2 * n - 1
         /\ \A b \in 1..B : BoundRecord(out.val[b], key.com[1], C.ids, n, Slots(B)[b])
<1>1. PICK g1, g2, x : /\ g1 = GeneratePacked(C, Fork(seed, 1), B, OnlyIf(TripleCheats, cheat))
                       /\ g2 = GeneratePacked(C, Fork(seed, 2), B, Honest)
                       /\ x = PackedShares(C, key, seed, B, cheat)
  OBVIOUS
<1>2. PICK slot : slot = Slots(B)
  OBVIOUS
<1>3. PICK v : v = SlotInverses(n, slot, g1.val, x.val, cheat)
  OBVIOUS
<1>4. PICK p : p = SlotNonces(slot, x.val, v.val, cheat)
  OBVIOUS
<1>5. PICK r : r = SlotRecords(n, slot, g2.val, x.val, p.val)
  OBVIOUS
<1>6. out = IF ~KeysMatch(C, key) \/ B = 0 \/ ~PackedFits(C, B) THEN Fail("params") ELSE
            IF g1.ok THEN IF g2.ok THEN IF x.ok THEN IF v.ok THEN IF p.ok THEN r
            ELSE p ELSE v ELSE x ELSE g2 ELSE g1
  BY <1>1, <1>2, <1>3, <1>4, <1>5 DEF PresignPacked, Then
<1>7. g1.ok /\ g2.ok /\ x.ok /\ v.ok /\ p.ok /\ r.ok /\ out = r /\ B # 0 /\ PackedFits(C, B)
  BY <1>6, Results
<1>8. B > 0 /\ n \in Nat /\ n > 0 /\ n = C.t + B - 1
  BY <1>7 DEF PackedDegree
<1>9. C.ids \in SUBSET Scalar /\ Cardinality(C.ids) \in Nat
  BY ScalarsFinite DEF Places
<1>10. Cardinality(C.ids) >= 2 * n - 1 /\ Cardinality(C.ids) >= n /\ Cardinality(C.ids) >= C.t
  BY <1>7, <1>8, <1>9 DEF PackedFits
<1>11. PackedTriples(g1.val, B, C.ids, n)
  BY <1>1, <1>7, <1>8, GeneratePackedSound
<1>12. PackedTriples(g2.val, B, C.ids, n)
  BY <1>1, <1>7, <1>8, GeneratePackedSound
<1>13. PICK X : X = x.val
  OBVIOUS
<1>14. Sharings(X, 3, C.ids, n) /\ KeyAtSlots(X, key.com[1], B)
  BY <1>1, <1>7, <1>8, <1>10, <1>13, PackedSharesSound
<1>15. Held(X[1], C.ids, n) /\ Held(X[2], C.ids, n)
  BY <1>14 DEF Sharings
<1>16. PICK vv, tt : vv = v.val /\ tt = g1.val
  OBVIOUS
<1>17. v = SlotInverses(n, slot, tt, X, cheat) /\ PackedTriples(tt, B, C.ids, n)
  BY <1>3, <1>11, <1>13, <1>16
<1>18. \A b \in 1..B : Inverts(vv[b], X[1], X[2], slot[b])
  BY <1>2, <1>7, <1>8, <1>9, <1>15, <1>16, <1>17, SlotInversesSound
<1>19. p = SlotNonces(slot, X, vv, cheat)
  BY <1>4, <1>13, <1>16
<1>20. \A b \in 1..B :
           /\ NoncePoint(p.val[b], Times(X[2], vv[b]), slot[b])
           /\ InverseOf(X[1], p.val[b].R, C.ids, n, slot[b])
  BY <1>2, <1>7, <1>8, <1>9, <1>10, <1>15, <1>18, <1>19, SlotNoncesSound
<1>21. PICK ks, q, uu : ks = [b \in 1..B |-> Times(X[2], vv[b])] /\ q = p.val /\ uu = g2.val
  OBVIOUS
<1>22. \A b \in 1..B : NoncePoint(q[b], ks[b], slot[b]) /\ InverseOf(X[1], q[b].R, C.ids, n, slot[b])
  BY <1>20, <1>21
<1>23. r = SlotRecords(n, slot, uu, X, q) /\ PackedTriples(uu, B, C.ids, n)
  BY <1>5, <1>12, <1>13, <1>21
<1>24. PICK K \in Int : K = key.com[1]
  <2>1. key.com \in Com(C.t)
    BY DEF Held
  <2> QED
    BY <2>1, AtZeroIsFirst, ScalarInt
<1>25. KeyAtSlots(X, K, B)
  BY <1>14, <1>24
<1>26. \A b \in 1..B : BoundRecord(r.val[b], K, C.ids, n, slot[b])
  BY <1>2, <1>7, <1>8, <1>9, <1>14, <1>22, <1>23, <1>25, SlotRecordsSound
<1> QED
  BY <1>2, <1>7, <1>8, <1>10, <1>24, <1>26

-----------------------------------------------------------------------------
(* What a quorum reads *)

LEMMA CancelGen ==
  ASSUME NEW a \in Int, NEW b \in Int, Gen * a \cong Gen * b
  PROVE  a \cong b
<1>1. Gen \in Scalar /\ Gen # 0 /\ Gen \in Int
  BY FieldAssumption, ScalarInt
<1>2. ~(Gen \cong 0)
  BY <1>1, ScalarsEqual, ScalarInt
<1> QED
  BY <1>1, <1>2, Cancel

(* Enough shares give the value that was committed to.                     *)
LEMMA ReadSound ==
  ASSUME NEW n \in Nat, NEW S \in SUBSET Scalar, NEW X, Held(X, S, n),
         NEW R, R \subseteq S, Cardinality(R) >= n, NEW s \in Int,
         NEW v, v = Interpolate(s, Restrict(X.sh, R))
  PROVE  v \in Scalar /\ v \in Int /\ EvalCom(X.com, s) \cong Gen * v
<1>1. R \in SUBSET Scalar /\ X.com \in Com(n)
  BY DEF Held
<1>2. PICK f : f = Restrict(X.sh, R)
  OBVIOUS
<1>3. DOMAIN f = R /\ \A j \in R : f[j] \in Int /\ EvalCom(X.com, j) \cong Gen * f[j]
  BY <1>2, ScalarInt DEF Held, Restrict
<1>4. Interpolate(s, f) \in Scalar /\ EvalCom(X.com, s) \cong Gen * Interpolate(s, f)
  BY <1>1, <1>3, InterpolateSound
<1> QED
  BY <1>2, <1>4, ScalarInt

(* The value of u is the inverse of the nonce of R.                        *)
LEMMA ReadInverse ==
  ASSUME NEW n \in Nat, NEW S \in SUBSET Scalar, NEW s \in Int, NEW u, NEW R, InverseOf(u, R, S, n, s),
         NEW v \in Int, EvalCom(u.com, s) \cong Gen * v
  PROVE  (R * v) % Q = Gen
<1>1. R \in Scalar /\ R \in Int /\ Gen \in Int /\ EvalCom(u.com, s) \in Int /\ R * v \in Int
  BY ScalarInt, HeldInt DEF InverseOf
<1>2. PICK y \in Int : y = EvalCom(u.com, s)
  BY <1>1
<1>3. R * y \cong Gen * Gen /\ y \cong Gen * v
  BY <1>2 DEF InverseOf
<1>4. R * y \cong R * (Gen * v)
  <2>1. Gen * v \in Int
    BY <1>1
  <2> QED
    BY <1>1, <1>3, <2>1, CongWith
<1>5. R * (Gen * v) = Gen * (R * v)
  BY <1>1
<1>6. Gen * (R * v) \cong Gen * Gen
  BY <1>3, <1>4, <1>5, CongTrans
<1>7. R * v \cong Gen
  BY <1>1, <1>6, CancelGen
<1> QED
  BY <1>1, <1>7, Reduce, ScalarInt DEF \cong

(* The value of z is that of u times the secret key.                       *)
LEMMA ReadBound ==
  ASSUME NEW n \in Nat, NEW S \in SUBSET Scalar, NEW s \in Int, NEW u, NEW z,
         NEW X \in Int, BoundTo(u, z, X, S, n, s),
         NEW v \in Int, EvalCom(u.com, s) \cong Gen * v, NEW w \in Int, EvalCom(z.com, s) \cong Gen * w
  PROVE  (X * v) % Q = (Gen * w) % Q
<1>1. Gen \in Int /\ EvalCom(u.com, s) \in Int /\ EvalCom(z.com, s) \in Int
  BY ScalarInt, HeldInt DEF BoundTo
<1>2. PICK y \in Int, t \in Int : y = EvalCom(u.com, s) /\ t = EvalCom(z.com, s)
  BY <1>1
<1>3. X * y \cong Gen * t /\ y \cong Gen * v /\ t \cong Gen * w
  BY <1>2 DEF BoundTo
<1>4. X * y \cong X * (Gen * v) /\ Gen * t \cong Gen * (Gen * w)
  <2>1. Gen * v \in Int /\ Gen * w \in Int
    BY <1>1
  <2> QED
    BY <1>1, <1>3, <2>1, CongWith
<1>5. X * (Gen * v) = Gen * (X * v) /\ X * v \in Int /\ Gen * w \in Int
  BY <1>1
<1>6. Gen * (X * v) \cong Gen * (Gen * w)
  BY <1>3, <1>4, <1>5, CongTrans
<1>7. X * v \cong Gen * w
  BY <1>5, <1>6, CancelGen
<1> QED
  BY <1>7 DEF \cong

-----------------------------------------------------------------------------
(* Signatures *)

(* A record by which the parties of M sign under the key X, with the nonce *)
(* point R.                                                                *)
Signs(r, R, X, M, n, s) ==
  /\ r.r = XCoord(R) /\ X \in Scalar
  /\ InverseOf(r.u, R, M, n, s) /\ BoundTo(r.u, r.z, X, M, n, s)

(* The scalar v solves the equation of signatures.                         *)
Solves(v, R, X, m) == v \in Scalar /\ R * v \cong Gen * m + XCoord(R) * X

LEMMA XCoordTyped == \A R \in Int : XCoord(R) \in Scalar /\ XCoord(R) \in Int
<1> SUFFICES ASSUME NEW R \in Int PROVE XCoord(R) \in Scalar
  BY ScalarInt
<1>1. Gen \in Int
  BY ScalarInt
<1>2. R * R - Gen * Gen \in Int
  BY <1>1
<1> QED
  BY <1>2, Reduce DEF XCoord

(* A share of a linear combination.                                        *)
LEMMA ShareIdentity ==
  ASSUME NEW g \in Int, NEW m \in Int, NEW c \in Int, NEW p \in Int, NEW q \in Int,
         NEW a \in Int, NEW d \in Int, NEW y \in Int, NEW v \in Int,
         a \cong g * p, d \cong g * q, y \cong m * a + c * d, v \cong m * p + c * q
  PROVE  y \cong g * v
<1>0. Q \in Int /\ g * p \in Int /\ g * q \in Int /\ m * a + c * d \in Int
      /\ m * p + c * q \in Int /\ g * v \in Int
  BY FieldAssumption
<1>1. PICK k1 \in Int : a = (g * p) + Q * k1
  BY <1>0, CongWitness
<1>2. PICK k2 \in Int : d = (g * q) + Q * k2
  BY <1>0, CongWitness
<1>3. PICK k3 \in Int : y = (m * a + c * d) + Q * k3
  BY <1>0, CongWitness
<1>4. PICK k4 \in Int : v = (m * p + c * q) + Q * k4
  BY <1>0, CongWitness
<1>5. (m) * k1 + (c) * k2 + k3 + (-g) * k4 \in Int
  BY <1>0, <1>1, <1>2, <1>3, <1>4
<1>6. y = (g * v) + Q * ((m) * k1 + (c) * k2 + k3 + (-g) * k4)
  BY <1>0, <1>1, <1>2, <1>3, <1>4
<1> QED
  BY <1>0, <1>5, <1>6, CongWitness

(* The equation of signatures from those of the record.                    *)
LEMMA SignatureIdentity ==
  ASSUME NEW g \in Int, NEW R \in Int, NEW u \in Int, NEW z \in Int, NEW X \in Int,
         NEW m \in Int, NEW r \in Int, NEW e \in Int, NEW v \in Int,
         R * u \cong g * g, X * u \cong g * z, e \cong m * u + r * z, e \cong g * v
  PROVE  g * (g * (R * v)) \cong g * (g * (g * m + r * X))
<1>0. Q \in Int /\ R * u \in Int /\ g * g \in Int /\ X * u \in Int /\ g * z \in Int
      /\ m * u + r * z \in Int /\ g * v \in Int /\ g * (g * (R * v)) \in Int
      /\ g * (g * (g * m + r * X)) \in Int
  BY FieldAssumption
<1>1. PICK k1 \in Int : R * u = (g * g) + Q * k1
  BY <1>0, CongWitness
<1>2. PICK k2 \in Int : X * u = (g * z) + Q * k2
  BY <1>0, CongWitness
<1>3. PICK k3 \in Int : e = (m * u + r * z) + Q * k3
  BY <1>0, CongWitness
<1>4. PICK k4 \in Int : e = (g * v) + Q * k4
  BY <1>0, CongWitness
<1>5. (g * m + r * X) * k1 + (-r * R) * k2 + (g * R) * k3 + (-g * R) * k4 \in Int
  BY <1>0, <1>1, <1>2, <1>3, <1>4
<1>6. g * (g * (R * v)) = (g * (g * (g * m + r * X))) + Q * ((g * m + r * X) * k1 + (-r * R) * k2 +
        (g * R) * k3 + (-g * R) * k4)
  <2>1. PICK p1 \in Int, p2 \in Int, p3 \in Int, p4 \in Int, p5 \in Int, p6 \in Int, p7 \in Int :
          /\ p1 = (m * g) * (g * g) /\ p2 = (r * X) * (g * g)
          /\ p3 = (m * g) * (Q * k1) /\ p4 = (r * X) * (Q * k1) /\ p5 = (r * R) * (Q * k2)
          /\ p6 = (g * R) * (Q * k3) /\ p7 = (g * R) * (Q * k4)
    BY <1>0, <1>1, <1>2, <1>3, <1>4
  <2>2. g * (g * (R * v)) = p1 + p2 + p3 + p4 - p5 + p6 - p7
    <3>1. PICK l \in Int, x1 \in Int, x2 \in Int, x3 \in Int, x4 \in Int :
            /\ l = g * (g * (R * v)) /\ x1 = (g * R) * e /\ x2 = (m * g) * (R * u)
            /\ x3 = (r * R) * (g * z) /\ x4 = (r * R) * (X * u)
      BY <1>0
    <3>2. l = x1 - p7
      <4>1. l = (g * R) * (g * v) /\ g * v = e - Q * k4
        BY <1>0, <1>4, <3>1
      <4> QED
        BY <1>0, <1>4, <2>1, <3>1, <4>1
    <3>3. x1 = x2 + x3 + p6
      BY <1>0, <1>3, <2>1, <3>1
    <3>4. x2 = p1 + p3
      BY <1>0, <1>1, <2>1, <3>1
    <3>5. x3 = x4 - p5
      BY <1>0, <1>2, <2>1, <3>1
    <3>6. x4 = p2 + p4
      <4>1. x4 = (r * X) * (R * u)
        BY <3>1
      <4> QED
        BY <1>0, <1>1, <2>1, <4>1
    <3> QED
      BY <3>1, <3>2, <3>3, <3>4, <3>5, <3>6
  <2>3. g * (g * (g * m + r * X)) = p1 + p2
    BY <1>0, <2>1
  <2>4. Q * ((g * m + r * X) * k1 + (-r * R) * k2 + (g * R) * k3 + (-g * R) * k4)
        = p3 + p4 - p5 + p6 - p7
    BY <1>0, <1>1, <1>2, <1>3, <1>4, <2>1
  <2> QED
    BY <2>1, <2>2, <2>3, <2>4
<1> QED
  BY <1>0, <1>5, <1>6, CongWitness

(* The shares of a signature fit the commitment they are checked against.  *)
LEMMA SignatureHeld ==
  ASSUME NEW n \in Nat, NEW M \in SUBSET Scalar, NEW S \in SUBSET M, NEW u,
         NEW z, Held(u, M, n), Held(z, M, n),
         NEW m \in Int, NEW c \in Int, NEW X,
         X = [sh  |-> [j \in S |-> (m * u.sh[j] + c * z.sh[j]) % Q],
              com |-> AddCom(ScaleCom(u.com, m), ScaleCom(z.com, c))]
  PROVE  /\ Held(X, S, n)
         /\ \A x \in Int : EvalCom(X.com, x) \cong m * EvalCom(u.com, x) + c * EvalCom(z.com, x)
<1>1. u.com \in Com(n) /\ z.com \in Com(n)
  BY DEF Held
<1>2. PICK A, D : A = ScaleCom(u.com, m) /\ D = ScaleCom(z.com, c)
  OBVIOUS
<1>3. /\ A \in Com(n) /\ \A x \in Int : EvalCom(A, x) \cong m * EvalCom(u.com, x)
      /\ D \in Com(n) /\ \A x \in Int : EvalCom(D, x) \cong c * EvalCom(z.com, x)
  BY <1>1, <1>2, ScaleComSound
<1>4. X.com = AddCom(A, D) /\ X.sh = [j \in S |-> (m * u.sh[j] + c * z.sh[j]) % Q]
  BY <1>2
<1>5. X.com \in Com(n) /\ \A x \in Int : EvalCom(X.com, x) \cong EvalCom(A, x) + EvalCom(D, x)
  BY <1>3, <1>4, AddComSound
<1>6. ASSUME NEW x \in Int
      PROVE  EvalCom(X.com, x) \cong m * EvalCom(u.com, x) + c * EvalCom(z.com, x)
  <2>1. PICK a \in Int, d \in Int, p \in Int, q \in Int, y \in Int :
          /\ a = EvalCom(A, x) /\ d = EvalCom(D, x) /\ p = EvalCom(u.com, x) /\ q = EvalCom(z.com, x)
          /\ y = EvalCom(X.com, x)
    BY <1>1, <1>3, <1>5, ComTyped
  <2>2. y \cong a + d /\ a \cong m * p /\ d \cong c * q
    BY <1>3, <1>5, <2>1
  <2>3. m * p \in Int /\ c * q \in Int
    OBVIOUS
  <2>4. a + d \cong m * p + c * q
    BY <2>2, <2>3, CongRing
  <2> QED
    BY <2>1, <2>2, <2>4, CongTrans
<1>7. ASSUME NEW j \in S
      PROVE  X.sh[j] \in Scalar /\ EvalCom(X.com, j) \cong Gen * X.sh[j]
  <2>1. j \in Int /\ Gen \in Int /\ j \in M
    BY ScalarInt
  <2>2. PICK p \in Int, q \in Int, a \in Int, d \in Int, y \in Int :
          /\ p = u.sh[j] /\ q = z.sh[j] /\ a = EvalCom(u.com, j) /\ d = EvalCom(z.com, j)
          /\ y = EvalCom(X.com, j)
    BY <1>1, <1>5, <2>1, ComTyped, ScalarInt DEF Held
  <2>3. a \cong Gen * p /\ d \cong Gen * q /\ y \cong m * a + c * d
    BY <1>6, <2>1, <2>2 DEF Held
  <2>4. m * p + c * q \in Int /\ X.sh[j] = (m * p + c * q) % Q
    BY <1>4, <2>2
  <2>5. PICK v \in Scalar : v = X.sh[j] /\ v \cong m * p + c * q
    BY <2>4, Reduce
  <2>6. v \in Int
    BY ScalarInt
  <2>7. y \cong Gen * v
    BY <2>1, <2>3, <2>5, <2>6, ShareIdentity
  <2> QED
    BY <2>2, <2>5, <2>7
<1>8. X.sh \in [S -> Scalar] /\ {"sh", "com"} \subseteq DOMAIN X
  BY <1>4, <1>7
<1> QED
  BY <1>5, <1>6, <1>7, <1>8 DEF Held

(* What the parties of S send and check, each with its copy of rec.        *)
Copies(presigs, rec, S) == DOMAIN presigs = S /\ \A p \in S : presigs[p] = rec

LEMMA MetaIs ==
  ASSUME NEW S \in SUBSET Scalar, S # {}, NEW rec, NEW presigs, Copies(presigs, rec, S)
  PROVE  Meta(presigs) = rec
<1>1. Least(S) \in S
  BY LeastIn, ScalarInt
<1> QED
  BY <1>1 DEF Meta, Copies

LEMMA SignatureSound ==
  ASSUME NEW n \in Nat, n > 0, NEW M \in SUBSET Scalar, NEW S \in SUBSET M, S # {}, NEW s \in Int,
         NEW rec, NEW R, NEW X, Signs(rec, R, X, M, n, s), NEW presigs, Copies(presigs, rec, S),
         NEW m \in Int, NEW Y, Y = SignatureOf(presigs, ShareCom(rec.u, rec.z, m, rec.r), m)
  PROVE  /\ Held(Y, S, n)
         /\ \A v \in Int : EvalCom(Y.com, s) \cong Gen * v => R * v \cong Gen * m + XCoord(R) * X
<1>1. /\ rec.r = XCoord(R) /\ InverseOf(rec.u, R, M, n, s) /\ BoundTo(rec.u, rec.z, X, M, n, s)
      /\ Held(rec.u, M, n) /\ Held(rec.z, M, n) /\ R \in Int /\ X \in Int
  BY ScalarInt DEF Signs, InverseOf, BoundTo
<1>2. PICK c \in Int : c = rec.r /\ c = XCoord(R)
  BY <1>1, XCoordTyped
<1>3. Y = [sh  |-> [j \in S |-> (m * rec.u.sh[j] + c * rec.z.sh[j]) % Q],
           com |-> AddCom(ScaleCom(rec.u.com, m), ScaleCom(rec.z.com, c))]
  <2>1. Tabulate([j \in DOMAIN presigs |-> SignShare(presigs[j], j, m)])
        = [j \in S |-> (m * rec.u.sh[j] + c * rec.z.sh[j]) % Q]
    BY <1>2, TabulateIs DEF Copies, SignShare
  <2> QED
    BY <1>2, <2>1 DEF SignatureOf, ShareCom
<1>4. Held(Y, S, n) /\ EvalCom(Y.com, s) \cong m * EvalCom(rec.u.com, s) + c * EvalCom(rec.z.com, s)
  BY <1>1, <1>3, SignatureHeld
<1>5. ASSUME NEW v \in Int, EvalCom(Y.com, s) \cong Gen * v
      PROVE  R * v \cong Gen * m + XCoord(R) * X
  <2>1. PICK u \in Int, z \in Int, e \in Int :
          u = EvalCom(rec.u.com, s) /\ z = EvalCom(rec.z.com, s) /\ e = EvalCom(Y.com, s)
    BY <1>1, <1>4, HeldInt
  <2>2. /\ R * u \cong Gen * Gen /\ X * u \cong Gen * z /\ e \cong m * u + c * z /\ e \cong Gen * v
    BY <1>1, <1>4, <1>5, <2>1 DEF InverseOf, BoundTo
  <2>3. Gen \in Int /\ R \in Int /\ X \in Int
    BY <1>1, ScalarInt
  <2>4. Gen * (Gen * (R * v)) \cong Gen * (Gen * (Gen * m + c * X))
    BY <2>2, <2>3, SignatureIdentity
  <2>5. /\ R * v \in Int /\ Gen * m + c * X \in Int
        /\ Gen * (R * v) \in Int /\ Gen * (Gen * m + c * X) \in Int
    BY <2>3
  <2>6. Gen * (R * v) \cong Gen * (Gen * m + c * X)
    BY <2>4, <2>5, CancelGen
  <2>7. R * v \cong Gen * m + c * X
    BY <2>5, <2>6, CancelGen
  <2> QED
    BY <1>2, <2>7
<1> QED
  BY <1>4, <1>5

(* What is left of a good value whose holders in who send altered shares.  *)
IsSpoilt(Y, X, S, n, who) ==
  /\ Openable(Y, n) /\ Y.com = X.com /\ DOMAIN Y.sh = S
  /\ BadShares(Y) \subseteq who

(* Only shares that were altered do not fit.                               *)
LEMMA SpoilBad ==
  ASSUME NEW n \in Nat, NEW S \in SUBSET Scalar, NEW X, Held(X, S, n), NEW who, NEW Y, Y = Spoil(X, who)
  PROVE  IsSpoilt(Y, X, S, n, who)
<1>1. Openable(X, n) /\ BadShares(X) = {} /\ DOMAIN X.sh = S
  BY HeldOpenable
<1>2. "sh" \in DOMAIN X /\ "com" \in DOMAIN X
  BY DEF Held
<1>3. Openable(Y, n) /\ Y.com = X.com /\ DOMAIN Y.sh = DOMAIN X.sh
  BY <1>1, <1>2, SpoilOpenable
<1>4. \A j \in S : j \notin who => Y.sh[j] = X.sh[j]
  BY <1>1, <1>2 DEF Spoil
<1> QED
  BY <1>1, <1>3, <1>4 DEF BadShares, IsSpoilt

LEMMA WrongOnly ==
  ASSUME NEW kind, NEW cheat
  PROVE  /\ WrongIn(kind, cheat) \subseteq {cheat.by}
         /\ cheat = Honest /\ kind # "none" => WrongIn(kind, cheat) = {}
BY DEF WrongIn, Honest

(* combine_at (sign.rs): parties with copies of one good record get a      *)
(* signature that verifies, or one abort, which an honest run never ends   *)
(* in and which names only the party that sent a wrong share, or, without  *)
(* blame, nothing: when they are fewer than its degree asks for.           *)
THEOREM CombineSound ==
  ASSUME NEW n \in Nat, n > 0, NEW M \in SUBSET Scalar,
         NEW S \in SUBSET M, S # {}, NEW s \in Int,
         NEW rec, NEW R, NEW X, Signs(rec, R, X, M, n, s), NEW presigs, Copies(presigs, rec, S),
         NEW m \in Int, NEW cheat, NEW out, out = CombineAt(s, n, presigs, m, cheat)
  PROVE  /\ out.ok => out.val = [r |-> XCoord(R), s |-> out.val.s] /\ Solves(out.val.s, R, X, m)
         /\ ~out.ok => \/ cheat # Honest /\ out.err = "abort"
                       \/ out.err = "few" /\ Cardinality(S) < n
         /\ Blames(out, Culprits(cheat))
<1>1. Meta(presigs) = rec
  BY MetaIs
<1>2. PICK Y : Y = SignatureOf(presigs, ShareCom(rec.u, rec.z, m, rec.r), m)
  OBVIOUS
<1>3. /\ Held(Y, S, n)
      /\ \A v \in Int : EvalCom(Y.com, s) \cong Gen * v => R * v \cong Gen * m + XCoord(R) * X
  BY <1>2, SignatureSound
<1>4. PICK who, Z : who = WrongIn("sign", cheat) /\ Z = Spoil(Y, who)
  OBVIOUS
<1>5. Openable(Z, n) /\ Z.com = Y.com /\ DOMAIN Z.sh = S /\ BadShares(Z) \subseteq who
  <2>1. S \in SUBSET Scalar /\ Held(Y, S, n)
    BY <1>3
  <2>2. Z = Spoil(Y, who)
    BY <1>4
  <2>3. IsSpoilt(Z, Y, S, n, who)
    BY Zenon, <2>1, <2>2, SpoilBad
  <2> QED
    BY <2>3 DEF IsSpoilt
<1>6. PICK open : open = OpenAt(s, n, Z)
  OBVIOUS
<1>7. /\ open.ok => open.val \in Scalar /\ EvalCom(Z.com, s) \cong Gen * open.val
      /\ ~open.ok => \/ BadShares(Z) # {} /\ open = Abort(BadShares(Z))
                     \/ Cardinality(DOMAIN Z.sh) < n /\ open = Fail("few")
  BY <1>5, <1>6, OpenSound
<1>8. out = IF open.ok THEN Ok([r |-> rec.r, s |-> open.val]) ELSE open
  BY <1>1, <1>2, <1>4, <1>6 DEF CombineAt, CombineVerified, Then
<1>9. ASSUME out.ok PROVE out.val = [r |-> XCoord(R), s |-> out.val.s] /\ Solves(out.val.s, R, X, m)
  <2>1. open.ok /\ out.val = [r |-> rec.r, s |-> open.val]
    BY <1>8, <1>9, Results
  <2>2. PICK v \in Int : v = open.val /\ v \in Scalar
    BY <1>7, <2>1, ScalarInt
  <2>3. R * v \cong Gen * m + XCoord(R) * X
    BY <1>3, <1>5, <1>7, <2>1, <2>2
  <2> QED
    BY <2>1, <2>2, <2>3 DEF Signs, Solves
<1>10. ASSUME ~out.ok
       PROVE  \/ BadShares(Z) # {} /\ out = Abort(BadShares(Z))
              \/ Cardinality(S) < n /\ out = Fail("few")
  <2>1. ~open.ok /\ out = open
    BY <1>8, <1>10, Results
  <2> QED
    BY <1>5, <1>7, <2>1
<1>11. ASSUME ~out.ok
       PROVE  \/ cheat # Honest /\ out.err = "abort"
              \/ out.err = "few" /\ Cardinality(S) < n
  <2>1. CASE BadShares(Z) # {} /\ out = Abort(BadShares(Z))
    <3>1. who # {}
      BY <1>5, <2>1
    <3> QED
      BY <1>4, <2>1, <3>1, WrongOnly, Results
  <2>2. CASE Cardinality(S) < n /\ out = Fail("few")
    BY <2>2, Results
  <2> QED
    BY <1>10, <1>11, <2>1, <2>2
<1>12. Blames(out, Culprits(cheat))
  <2>1. CASE out.ok
    BY <2>1, BlameRules
  <2>2. CASE BadShares(Z) # {} /\ out = Abort(BadShares(Z))
    <3>1. BadShares(Z) \subseteq Culprits(cheat)
      BY <1>4, <1>5, SenderBlamed
    <3> QED
      BY <2>2, <3>1, BlameRules
  <2>3. CASE out = Fail("few")
    BY <2>3, BlameRules
  <2> QED
    BY <1>10, <2>1, <2>2, <2>3
<1> QED
  BY <1>9, <1>11, <1>12

(* combine_robust (sign.rs): a bad share does not spoil the signature and  *)
(* nobody but its sender is left out; it fails only when the good shares   *)
(* are too few, which takes too few signers, or a deviation and no share   *)
(* to spare.                                                               *)
THEOREM CombineRobustSound ==
  ASSUME NEW n \in Nat, n > 0, NEW M \in SUBSET Scalar, NEW S \in SUBSET M, S # {},
         NEW rec, NEW R, NEW X, Signs(rec, R, X, M, n, 0), NEW presigs, Copies(presigs, rec, S),
         NEW m \in Int, NEW cheat, NEW out, out = CombineRobust(n, presigs, m, cheat)
  PROVE  /\ out.ok => /\ out.val.sig = [r |-> XCoord(R), s |-> out.val.sig.s]
                      /\ Solves(out.val.sig.s, R, X, m)
         /\ ~out.ok => /\ out.err = "few"
                       /\ Cardinality(S) < n \/ (cheat # Honest /\ Cardinality(S) <= n)
         /\ Expels(out, Culprits(cheat))
<1>1. Meta(presigs) = rec
  BY MetaIs
<1>2. PICK Y : Y = SignatureOf(presigs, ShareCom(rec.u, rec.z, m, rec.r), m)
  OBVIOUS
<1>3. /\ Held(Y, S, n)
      /\ \A v \in Int : EvalCom(Y.com, 0) \cong Gen * v => R * v \cong Gen * m + XCoord(R) * X
  <2>1. PICK s \in Int : s = 0
    OBVIOUS
  <2>2. Signs(rec, R, X, M, n, s)
    BY <2>1
  <2>3. /\ Held(Y, S, n)
        /\ \A v \in Int : EvalCom(Y.com, s) \cong Gen * v => R * v \cong Gen * m + XCoord(R) * X
    BY <1>2, <2>2, SignatureSound
  <2> QED
    BY <2>1, <2>3
<1>4. PICK who, Z : who = WrongIn("sign", cheat) /\ Z = Spoil(Y, who)
  OBVIOUS
<1>5. Openable(Z, n) /\ Z.com = Y.com /\ DOMAIN Z.sh = S /\ BadShares(Z) \subseteq who
  <2>1. S \in SUBSET Scalar /\ Held(Y, S, n)
    BY <1>3
  <2>2. Z = Spoil(Y, who)
    BY <1>4
  <2>3. IsSpoilt(Z, Y, S, n, who)
    BY Zenon, <2>1, <2>2, SpoilBad
  <2> QED
    BY <2>3 DEF IsSpoilt
<1>6. PICK open : open = OpenRobust(n, Z)
  OBVIOUS
<1>7. /\ open.ok => /\ open.val.v \in Scalar /\ EvalCom(Z.com, 0) \cong Gen * open.val.v
                     /\ open.val.bad = BadShares(Z)
      /\ ~open.ok => open = Fail("few") /\ Cardinality(DOMAIN Z.sh \ BadShares(Z)) < n
  <2>1. PICK t \in Nat : t = n /\ n <= t
    OBVIOUS
  <2>2. open = OpenRobust(t, Z)
    BY <1>6, <2>1
  <2>3. /\ open.ok => /\ open.val.v \in Scalar /\ EvalCom(Z.com, 0) \cong Gen * open.val.v
                      /\ open.val.bad = BadShares(Z)
        /\ ~open.ok => open = Fail("few") /\ Cardinality(DOMAIN Z.sh \ BadShares(Z)) < t
    BY <1>5, <2>1, <2>2, OpenRobustSound
  <2> QED
    BY <2>1, <2>3
<1>8. out = IF open.ok THEN Ok([sig |-> [r |-> rec.r, s |-> open.val.v], blamed |-> open.val.bad]) ELSE open
  BY <1>1, <1>2, <1>4, <1>6 DEF CombineRobust, CombineRobustVerified, Then
<1>9. ASSUME out.ok
      PROVE  out.val.sig = [r |-> XCoord(R), s |-> out.val.sig.s] /\ Solves(out.val.sig.s, R, X, m)
  <2>1. open.ok /\ out.val.sig = [r |-> rec.r, s |-> open.val.v]
    BY <1>8, <1>9, Results
  <2>2. PICK v \in Int : v = open.val.v /\ v \in Scalar
    BY <1>7, <2>1, ScalarInt
  <2>3. R * v \cong Gen * m + XCoord(R) * X
    BY <1>3, <1>5, <1>7, <2>1, <2>2
  <2> QED
    BY <2>1, <2>2, <2>3 DEF Signs, Solves
<1>10. ASSUME ~out.ok
       PROVE  out.err = "few" /\ (Cardinality(S) < n \/ (cheat # Honest /\ Cardinality(S) <= n))
  <2>1. ~open.ok /\ out = open
    BY <1>8, <1>10, Results
  <2>2. out.err = "few" /\ Cardinality(S \ BadShares(Z)) < n
    BY <1>5, <1>7, <2>1, Results
  <2>3. IsFiniteSet(S) /\ Cardinality(S) \in Nat
    BY ScalarsFinite
  <2>4. Cardinality(S) < n \/ cheat # Honest
    <3>1. SUFFICES ASSUME cheat = Honest PROVE Cardinality(S) < n
      OBVIOUS
    <3>2. S \ BadShares(Z) = S
      BY <1>4, <1>5, <3>1, WrongOnly
    <3> QED
      BY <2>2, <3>2
  <2>5. Cardinality(S) <= n
    <3>1. PICK j : j = cheat.by
      OBVIOUS
    <3>2. S \ {j} \subseteq S \ BadShares(Z)
      BY <1>4, <1>5, <3>1, WrongOnly
    <3>3. IsFiniteSet(S \ BadShares(Z))
      BY <2>3, FS_Subset
    <3>4. Cardinality(S \ {j}) <= Cardinality(S \ BadShares(Z)) /\ Cardinality(S \ BadShares(Z)) \in Nat
      BY <3>2, <3>3, FS_Subset, FS_CardinalityType
    <3>5. Cardinality(S \ {j}) = IF j \in S THEN Cardinality(S) - 1 ELSE Cardinality(S)
      BY <2>3, FS_RemoveElement
    <3> QED
      BY <2>2, <2>3, <3>4, <3>5
  <2> QED
    BY <2>2, <2>4, <2>5
<1>11. Expels(out, Culprits(cheat))
  <2>1. CASE open.ok
    <3>1. PICK v : v = [sig |-> [r |-> rec.r, s |-> open.val.v], blamed |-> open.val.bad]
      OBVIOUS
    <3>2. out.ok /\ out.val = v /\ v.blamed = BadShares(Z)
      BY <1>7, <1>8, <2>1, <3>1, Results
    <3>3. BadShares(Z) \subseteq Culprits(cheat)
      BY <1>4, <1>5, SenderBlamed
    <3> QED
      BY <3>2, <3>3, BlameRules DEF Expels
  <2>2. CASE ~open.ok
    <3>1. out = Fail("few") /\ "few" # "abort"
      BY <1>7, <1>8, <2>2
    <3>2. ~out.ok
      BY <3>1, Results
    <3> QED
      BY <3>1, <3>2, BlameRules DEF Expels
  <2> QED
    BY <2>1, <2>2
<1> QED
  BY <1>9, <1>10, <1>11

(* The point that is computed again is R or its opposite.                  *)
LEMMA VerifyIdentity ==
  ASSUME NEW w \in Int, NEW R \in Int, NEW v \in Int, NEW s \in Int, NEW c \in Int, NEW e \in Int,
         R * v \cong e, v \cong c * s, s * w \cong 1
  PROVE  w * e \cong c * R
<1>0. Q \in Int /\ R * v \in Int /\ c * s \in Int /\ s * w \in Int /\ 1 \in Int /\ w * e \in Int
      /\ c * R \in Int
  BY FieldAssumption
<1>1. PICK k1 \in Int : R * v = (e) + Q * k1
  BY <1>0, CongWitness
<1>2. PICK k2 \in Int : v = (c * s) + Q * k2
  BY <1>0, CongWitness
<1>3. PICK k3 \in Int : s * w = (1) + Q * k3
  BY <1>0, CongWitness
<1>4. (-w) * k1 + (w * R) * k2 + (c * R) * k3 \in Int
  BY <1>0, <1>1, <1>2, <1>3
<1>5. w * e = (c * R) + Q * ((-w) * k1 + (w * R) * k2 + (c * R) * k3)
  BY <1>0, <1>1, <1>2, <1>3
<1> QED
  BY <1>0, <1>4, <1>5, CongWitness

LEMMA VerifySound ==
  ASSUME NEW R \in Int, NEW X \in Int, NEW m \in Int, NEW v \in Int, R * v \cong Gen * m + XCoord(R) * X,
         NEW c \in {1, -1}, NEW s \in Scalar, s # 0, v \cong c * s, XCoord(R) # 0,
         NEW sig, sig.r = XCoord(R), sig.s = s
  PROVE  Verifies(X, m, sig)
<1>1. s \in Int /\ Gen \in Int /\ c \in Int /\ c * c = 1 /\ 0 \in Scalar
  BY ScalarInt
<1>2. ~(s \cong 0)
  BY <1>1, ScalarsEqual
<1>3. PICK w \in Int : w = Inv(s) /\ s * w \cong 1
  BY <1>1, <1>2, InverseExists, ScalarInt
<1>4. PICK r \in Int : r = XCoord(R)
  BY XCoordTyped
<1>5. PICK e \in Int : e = Gen * m + r * X
  BY <1>1
<1>6. w * e \cong c * R
  <2>1. R * v \cong e
    BY <1>4, <1>5
  <2>2. PICK k \in Int : k = c
    BY <1>1
  <2>3. v \cong k * s
    BY <2>2
  <2>4. s * w \cong 1
    BY <1>3
  <2>5. w * e \cong k * R
    BY <1>1, <2>1, <2>3, <2>4, VerifyIdentity
  <2> QED
    BY <2>2, <2>5
<1>7. w * e = Gen * m * w + r * w * X
  BY <1>1, <1>5
<1>8. PICK P \in Int : P = (Gen * m * w + r * w * X) % Q /\ P \cong c * R
  <2>1. w * e \in Int /\ c * R \in Int
    BY <1>1
  <2>2. PICK P \in Int : P = (w * e) % Q /\ P \cong w * e
    BY <2>1, Reduce, ScalarInt
  <2>3. P \cong c * R
    BY <1>6, <2>2, CongTrans
  <2> QED
    BY <1>7, <2>2, <2>3
<1>9. XCoord(P) = XCoord(R)
  <2>1. PICK d \in Int : d = c * R
    BY <1>1
  <2>2. P * P \cong d * d
    BY <1>8, <2>1, CongRing
  <2>3. d * d = R * R
    <3>1. c = 1 \/ c = -1
      OBVIOUS
    <3>2. CASE c = 1
      BY <2>1, <3>2
    <3>3. CASE c = -1
      BY <2>1, <3>3
    <3> QED
      BY <3>1, <3>2, <3>3
  <2>4. PICK p \in Int, q \in Int, g \in Int : p = P * P /\ q = R * R /\ g = Gen * Gen
    BY <1>1
  <2>5. p - g \cong q - g
    BY <2>2, <2>3, <2>4, CongWith
  <2> QED
    BY <2>4, <2>5 DEF XCoord, \cong
<1> QED
  BY <1>1, <1>3, <1>4, <1>8, <1>9 DEF Verifies

(* What is returned verifies, in the lower half; or r or s is zero.        *)
Signature(sig, R, X, m) == Verifies(X, m, sig) /\ sig.r = XCoord(R) /\ 2 * sig.s <= Q

ZeroScalars(R, X, m) == XCoord(R) = 0 \/ (Gen * m + XCoord(R) * X) % Q = 0

LEMMA ScalarsSound ==
  ASSUME NEW R \in Int, NEW X \in Int, NEW m \in Int, NEW sig, sig = [r |-> XCoord(R), s |-> sig.s],
         Solves(sig.s, R, X, m), NEW out, out = FromScalars(sig)
  PROVE  /\ out.ok => Signature(out.val, R, X, m)
         /\ ~out.ok => out.err = "zero" /\ ZeroScalars(R, X, m)
<1>1. PICK v \in Scalar : v = sig.s
  BY DEF Solves
<1>2. PICK r \in Int : r = XCoord(R)
  BY XCoordTyped
<1>3. sig = [r |-> r, s |-> v] /\ sig.r = r
  BY <1>1, <1>2
<1>4. v \in Int /\ Q \in Int /\ Gen \in Int
  BY ScalarInt
<1>5. R * v \cong Gen * m + r * X
  BY <1>1, <1>2 DEF Solves
<1>6. CASE r = 0 \/ v = 0
  <2>1. out = Fail("zero")
    BY <1>3, <1>6 DEF FromScalars
  <2>2. ~out.ok /\ out.err = "zero"
    BY <2>1, Results
  <2>3. ASSUME v = 0 PROVE (Gen * m + r * X) % Q = 0
    <3>1. R * v = 0 /\ 0 \in Scalar
      BY <2>3, ScalarInt
    <3>2. 0 % Q = 0
      BY <3>1, Reduce, ScalarInt
    <3> QED
      BY <1>5, <3>1, <3>2 DEF \cong
  <2> QED
    BY <1>2, <1>6, <2>2, <2>3 DEF ZeroScalars
<1>7. CASE ~(r = 0 \/ v = 0)
  <2>1. PICK new : /\ out = Ok(new) /\ new.r = r /\ new.s \in Scalar /\ new.s # 0
                   /\ 2 * new.s <= Q /\ \E c \in {1, -1} : v \cong c * new.s
    <3>1. CASE 2 * v > Q
      <4>1. out = Ok([sig EXCEPT !.s = Q - sig.s])
        BY <1>3, <1>7, <3>1 DEF FromScalars
      <4>2. PICK new : new = [sig EXCEPT !.s = Q - sig.s]
        OBVIOUS
      <4>3. new.r = r /\ new.s = Q - v
        BY <1>3, <4>2
      <4>4. PICK s \in Int : s = Q - v
        BY <1>4
      <4>5. s \in Scalar /\ s # 0 /\ 2 * s <= Q
        BY <1>4, <1>7, <3>1, <4>4 DEF Scalar
      <4>6. v \cong (-1) * s
        <5>1. v = (-1) * s + Q * 1 /\ (-1) * s \in Int
          BY <1>4, <4>4
        <5> QED
          BY <1>4, <5>1, CongWitness
      <4>7. PICK c \in {1, -1} : c = -1
        OBVIOUS
      <4>8. v \cong c * new.s /\ new.s \in Scalar /\ new.s # 0 /\ 2 * new.s <= Q
        BY <4>3, <4>4, <4>5, <4>6, <4>7
      <4>9. out = Ok(new)
        BY <4>1, <4>2
      <4> QED
        BY <4>3, <4>8, <4>9
    <3>2. CASE ~(2 * v > Q)
      <4>1. out = Ok(sig)
        BY <1>3, <1>7, <3>2 DEF FromScalars
      <4>2. 1 * v = v /\ 2 * v <= Q /\ sig.s = v
        BY <1>3, <1>4, <3>2
      <4>3. v \cong 1 * v
        BY <4>2 DEF \cong
      <4>4. PICK c \in {1, -1} : c = 1
        OBVIOUS
      <4>5. v \cong c * sig.s /\ sig.s \in Scalar /\ sig.s # 0 /\ 2 * sig.s <= Q
        BY <1>7, <4>2, <4>3, <4>4
      <4> QED
        BY <1>3, <4>1, <4>5
    <3> QED
      BY <3>1, <3>2
  <2>2. out.ok /\ out.val = new
    BY <2>1, Results
  <2>3. PICK s \in Scalar : s = new.s
    BY <2>1
  <2>4. PICK c \in {1, -1} : v \cong c * s
    BY <2>1, <2>3
  <2>5. Verifies(X, m, new)
    BY <1>2, <1>4, <1>5, <1>7, <2>1, <2>3, <2>4, VerifySound
  <2> QED
    BY <1>2, <2>1, <2>2, <2>5 DEF Signature
<1> QED
  BY <1>6, <1>7

-----------------------------------------------------------------------------
(* Derived keys and scaled nonces *)

LEMMA TweakIdentity ==
  ASSUME NEW g \in Int, NEW X \in Int, NEW Y \in Int, NEW t \in Int, NEW u \in Int,
         NEW z \in Int, NEW p \in Int, NEW w \in Int,
         Y \cong X + g * t, w \cong z + p, p \cong t * u, X * u \cong g * z
  PROVE  Y * u \cong g * w
<1>0. Q \in Int /\ X + g * t \in Int /\ z + p \in Int /\ t * u \in Int /\ X * u \in Int
      /\ g * z \in Int /\ Y * u \in Int /\ g * w \in Int
  BY FieldAssumption
<1>1. PICK k1 \in Int : Y = (X + g * t) + Q * k1
  BY <1>0, CongWitness
<1>2. PICK k2 \in Int : w = (z + p) + Q * k2
  BY <1>0, CongWitness
<1>3. PICK k3 \in Int : p = (t * u) + Q * k3
  BY <1>0, CongWitness
<1>4. PICK k4 \in Int : X * u = (g * z) + Q * k4
  BY <1>0, CongWitness
<1>5. (u) * k1 + (-g) * k2 + (-g) * k3 + k4 \in Int
  BY <1>0, <1>1, <1>2, <1>3, <1>4
<1>6. Y * u = (g * w) + Q * ((u) * k1 + (-g) * k2 + (-g) * k3 + k4)
  BY <1>0, <1>1, <1>2, <1>3, <1>4
<1> QED
  BY <1>0, <1>5, <1>6, CongWitness

LEMMA NonceIdentity ==
  ASSUME NEW g \in Int, NEW R \in Int, NEW S \in Int, NEW c \in Int, NEW i \in Int,
         NEW u \in Int, NEW w \in Int,
         S \cong R * c, c * i \cong 1, w \cong i * u, R * u \cong g * g
  PROVE  S * w \cong g * g
<1>0. Q \in Int /\ R * c \in Int /\ c * i \in Int /\ 1 \in Int /\ i * u \in Int /\ R * u \in Int
      /\ g * g \in Int /\ S * w \in Int
  BY FieldAssumption
<1>1. PICK k1 \in Int : S = (R * c) + Q * k1
  BY <1>0, CongWitness
<1>2. PICK k2 \in Int : c * i = (1) + Q * k2
  BY <1>0, CongWitness
<1>3. PICK k3 \in Int : w = (i * u) + Q * k3
  BY <1>0, CongWitness
<1>4. PICK k4 \in Int : R * u = (g * g) + Q * k4
  BY <1>0, CongWitness
<1>5. (w) * k1 + (R * u) * k2 + (R * c) * k3 + k4 \in Int
  BY <1>0, <1>1, <1>2, <1>3, <1>4
<1>6. S * w = (g * g) + Q * ((w) * k1 + (R * u) * k2 + (R * c) * k3 + k4)
  BY <1>0, <1>1, <1>2, <1>3, <1>4
<1> QED
  BY <1>0, <1>5, <1>6, CongWitness

LEMMA ScaleIdentity ==
  ASSUME NEW g \in Int, NEW Y \in Int, NEW i \in Int, NEW u \in Int, NEW z \in Int,
         NEW w \in Int, NEW x \in Int,
         Y * u \cong g * z, w \cong i * u, x \cong i * z
  PROVE  Y * w \cong g * x
<1>0. Q \in Int /\ Y * u \in Int /\ g * z \in Int /\ i * u \in Int /\ i * z \in Int
      /\ Y * w \in Int /\ g * x \in Int
  BY FieldAssumption
<1>1. PICK k1 \in Int : Y * u = (g * z) + Q * k1
  BY <1>0, CongWitness
<1>2. PICK k2 \in Int : w = (i * u) + Q * k2
  BY <1>0, CongWitness
<1>3. PICK k3 \in Int : x = (i * z) + Q * k3
  BY <1>0, CongWitness
<1>4. (i) * k1 + (Y) * k2 + (-g) * k3 \in Int
  BY <1>0, <1>1, <1>2, <1>3
<1>5. Y * w = (g * x) + Q * ((i) * k1 + (Y) * k2 + (-g) * k3)
  BY <1>0, <1>1, <1>2, <1>3
<1> QED
  BY <1>0, <1>4, <1>5, CongWitness

(* A value that is tweaked is bound to the derived key.                    *)
LEMMA TweakBound ==
  ASSUME NEW n \in Nat, NEW M \in SUBSET Scalar, NEW s \in Int, NEW u, NEW z, NEW X \in Int,
         BoundTo(u, z, X, M, n, s), NEW tau \in Int, NEW Y, Y = (X + Gen * tau) % Q,
         NEW w, w = Plus(z, Times(u, tau))
  PROVE  Y \in Scalar /\ BoundTo(u, w, Y, M, n, s)
<1>1. Held(u, M, n) /\ Held(z, M, n) /\ Gen \in Int
  BY ScalarInt DEF BoundTo
<1>2. PICK v : v = Times(u, tau)
  OBVIOUS
<1>3. Held(v, M, n) /\ EvalCom(v.com, s) \cong tau * EvalCom(u.com, s)
  BY <1>1, <1>2, TimesHeld
<1>4. w = Plus(z, v) /\ M \subseteq M
  BY <1>2
<1>5. Held(w, M, n) /\ EvalCom(w.com, s) \cong EvalCom(z.com, s) + EvalCom(v.com, s)
  BY <1>1, <1>3, <1>4, PlusHeld
<1>6. PICK a \in Int, b \in Int, p \in Int, e \in Int :
        a = EvalCom(u.com, s) /\ b = EvalCom(z.com, s) /\ p = EvalCom(v.com, s) /\ e = EvalCom(w.com, s)
  BY <1>1, <1>3, <1>5, HeldInt
<1>7. PICK y \in Int : y = Y /\ y \in Scalar /\ y \cong X + Gen * tau
  <2>1. X + Gen * tau \in Int
    BY <1>1
  <2> QED
    BY <2>1, Reduce, ScalarInt
<1>8. e \cong b + p /\ p \cong tau * a /\ X * a \cong Gen * b
  BY <1>3, <1>5, <1>6 DEF BoundTo
<1>9. y * a \cong Gen * e
  BY ZenonT(40), <1>1, <1>7, <1>8, TweakIdentity
<1> QED
  BY <1>1, <1>5, <1>6, <1>7, <1>9 DEF BoundTo

LEMMA TweakSigns ==
  ASSUME NEW n \in Nat, NEW M \in SUBSET Scalar, NEW s \in Int,
         NEW rec, {"r", "u", "z"} \subseteq DOMAIN rec, NEW R, NEW X, Signs(rec, R, X, M, n, s),
         NEW tau \in Int, NEW new, new = ApplyTweak(rec, tau)
  PROVE  Signs(new, R, (X + Gen * tau) % Q, M, n, s)
<1>1. X \in Int /\ BoundTo(rec.u, rec.z, X, M, n, s)
  BY ScalarInt DEF Signs
<1>2. new.u = rec.u /\ new.r = rec.r /\ new.z = Plus(rec.z, Times(rec.u, tau))
  BY DEF ApplyTweak
<1>3. PICK Y : Y = (X + Gen * tau) % Q
  OBVIOUS
<1>4. Y \in Scalar /\ BoundTo(new.u, new.z, Y, M, n, s)
  BY <1>1, <1>2, <1>3, TweakBound
<1> QED
  BY <1>2, <1>3, <1>4 DEF Signs

(* Scaled by gamma, the nonce keeps its inverse, and the key.              *)
LEMMA RerandSigns ==
  ASSUME NEW n \in Nat, NEW M \in SUBSET Scalar, NEW s \in Int,
         NEW rec, {"r", "u", "z", "R"} \subseteq DOMAIN rec, rec.R \in Scalar,
         NEW X, Signs(rec, rec.R, X, M, n, s),
         NEW tau \in Int, NEW gamma \in Scalar \ {0}, NEW new, new = Rerandomised(rec, gamma, tau)
  PROVE  Signs(new, (rec.R * gamma) % Q, (X + Gen * tau) % Q, M, n, s)
<1>1. X \in Int /\ BoundTo(rec.u, rec.z, X, M, n, s) /\ InverseOf(rec.u, rec.R, M, n, s) /\ Held(rec.u, M, n)
  BY ScalarInt DEF Signs, BoundTo
<1>2. PICK R \in Int, c \in Int : R = rec.R /\ c = gamma
  BY ScalarInt
<1>3. PICK i \in Int : i = Inv(gamma) /\ c * i \cong 1
  <2>1. ~(c \cong 0)
    BY <1>2, ScalarsEqual, ScalarInt
  <2> QED
    BY <1>2, <2>1, InverseExists, ScalarInt
<1>4. PICK Y, S : Y = (X + Gen * tau) % Q /\ S = (rec.R * gamma) % Q
  OBVIOUS
<1>5. PICK z : z = Plus(rec.z, Times(rec.u, tau))
  OBVIOUS
<1>6. new.u = Times(rec.u, i) /\ new.z = Times(z, i) /\ new.r = XCoord(S)
  BY <1>3, <1>4, <1>5 DEF Rerandomised, RerandFactors
<1>7. Y \in Scalar /\ BoundTo(rec.u, z, Y, M, n, s) /\ Held(z, M, n)
  BY <1>1, <1>4, <1>5, TweakBound DEF BoundTo
<1>8. /\ Held(new.u, M, n) /\ EvalCom(new.u.com, s) \cong i * EvalCom(rec.u.com, s)
      /\ Held(new.z, M, n) /\ EvalCom(new.z.com, s) \cong i * EvalCom(z.com, s)
  BY <1>1, <1>6, <1>7, TimesHeld
<1>9. PICK a \in Int, b \in Int, p \in Int, e \in Int :
        a = EvalCom(rec.u.com, s) /\ b = EvalCom(z.com, s) /\ p = EvalCom(new.u.com, s)
        /\ e = EvalCom(new.z.com, s)
  BY <1>1, <1>7, <1>8, HeldInt
<1>10. PICK y \in Int, t \in Int : y = Y /\ t = S /\ t \in Scalar /\ t \cong R * c
  <2>1. R * c \in Int
    OBVIOUS
  <2> QED
    BY <1>2, <1>4, <1>7, <2>1, Reduce, ScalarInt
<1>11. p \cong i * a /\ e \cong i * b /\ R * a \cong Gen * Gen /\ y * a \cong Gen * b /\ Gen \in Int
  BY <1>1, <1>2, <1>7, <1>8, <1>9, <1>10, ScalarInt DEF InverseOf, BoundTo
<1>12. t * p \cong Gen * Gen
  BY <1>3, <1>10, <1>11, NonceIdentity
<1>13. y * p \cong Gen * e
  BY <1>11, ScaleIdentity
<1>14. InverseOf(new.u, S, M, n, s)
  BY <1>8, <1>9, <1>10, <1>12 DEF InverseOf
<1>15. BoundTo(new.u, new.z, Y, M, n, s)
  BY <1>8, <1>9, <1>10, <1>13 DEF BoundTo
<1> QED
  BY <1>4, <1>6, <1>7, <1>14, <1>15 DEF Signs

-----------------------------------------------------------------------------
(* A triple that nobody spoils *)

(* Dealer j re-shares its product as it should.                            *)
Straight(cheat, j) ==
  /\ ~Does(cheat, "product", j) /\ ~Does(cheat, "slot", j) /\ ~Does(cheat, "proof", j)
  /\ \A i : ~Hits(cheat, "reshare", j, i)

(* An honest re-sharing is the polynomial it commits to, proved.           *)
HonestReshare(m, S, g, x, H) ==
  /\ m.com = Commit(g) /\ DOMAIN m.sh = S /\ \A i \in S : m.sh[i] = (EvalPoly(g, i) + 0) % Q
  /\ m.proof.x1 = (Gen * x) % Q /\ m.proof.x2 = (H * x) % Q /\ m.proof.sound

LEMMA ReshareHonest ==
  ASSUME NEW C, NEW j, NEW g, NEW a, NEW b, NEW cheat, Straight(cheat, j),
         NEW m, m = ReshareProduct(C, j, g, a, b, cheat), NEW x, x = a.sh[j], NEW H, H = EvalCom(b.com, j)
  PROVE  HonestReshare(m, C.ids, g, x, H)
<1> DEFINE p == CASE Does(cheat, "product", j) -> [g EXCEPT ![1] = (g[1] + 1) % Q]
                  [] Does(cheat, "slot", j)    -> [g EXCEPT ![2] = (g[2] + 1) % Q]
                  [] OTHER                      -> g
           sent == [i \in C.ids |-> (EvalPoly(p, i) + IF Hits(cheat, "reshare", j, i) THEN 1 ELSE 0) % Q]
<1>1. m = [com   |-> Commit(p), sh |-> Tabulate(sent),
           proof |-> [Prove(a.sh[j], EvalCom(b.com, j)) EXCEPT !.sound = ~Does(cheat, "proof", j)]]
  BY DEF ReshareProduct
<1>2. ~Does(cheat, "product", j) /\ ~Does(cheat, "slot", j) /\ ~Does(cheat, "proof", j)
  BY DEF Straight
<1>3. \A i : ~Hits(cheat, "reshare", j, i)
  BY DEF Straight
<1>4. p = g
  BY <1>2
<1>5. PICK sh : sh = sent
  OBVIOUS
<1> HIDE DEF p, sent
<1>6. m.com = Commit(g) /\ DOMAIN m.sh = C.ids /\ \A i \in C.ids : m.sh[i] = (EvalPoly(g, i) + 0) % Q
  <2>1. m.com = Commit(g)
    BY <1>1, <1>4
  <2>2. m.sh = sh
    BY <1>1, <1>5, TabulateIs
  <2>3. DOMAIN sh = C.ids
    BY <1>5 DEF sent
  <2>4. ASSUME NEW i \in C.ids PROVE sh[i] = (EvalPoly(g, i) + 0) % Q
    <3>1. (IF Hits(cheat, "reshare", j, i) THEN 1 ELSE 0) = 0
      BY <1>3
    <3>2. sh[i] = (EvalPoly(p, i) + IF Hits(cheat, "reshare", j, i) THEN 1 ELSE 0) % Q
      BY <1>5 DEF sent
    <3> QED
      BY <1>4, <3>1, <3>2
  <2> QED
    BY <2>1, <2>2, <2>3, <2>4
<1>7. PICK d : d = ~Does(cheat, "proof", j) /\ d = TRUE
  BY <1>2
<1>9. m.proof = [Prove(x, H) EXCEPT !.sound = d]
  BY <1>1, <1>7
<1>10. m.proof.x1 = (Gen * x) % Q /\ m.proof.x2 = (H * x) % Q /\ m.proof.sound = d
  BY <1>9 DEF Prove
<1> QED
  BY <1>6, <1>7, <1>10 DEF HonestReshare

(* What is sent for a product is the product.                              *)
LEMMA ProductPolySound ==
  ASSUME NEW C, NEW n \in Nat, n > 0, n = C.t, NEW seed, NEW j, NEW a, NEW b,
         a.sh[j] \in Scalar, b.sh[j] \in Scalar, NEW g, g = ProductPoly(C, seed, j, a, b)
  PROVE  g \in [1..n -> Scalar] /\ g[1] = (a.sh[j] * b.sh[j]) % Q
<1>1. PICK c : c = (a.sh[j] * b.sh[j]) % Q
  OBVIOUS
<1>2. c \in Scalar
  <2>1. a.sh[j] \in Int /\ b.sh[j] \in Int
    BY ScalarInt
  <2>2. a.sh[j] * b.sh[j] \in Int
    BY <2>1
  <2> QED
    BY <1>1, <2>2, Reduce
<1>3. PICK k : k = [l \in 1..(n - 1) |-> Coin(Fork(seed, 3), j, l)]
  OBVIOUS
<1>4. k \in [1..(n - 1) -> Scalar]
  BY <1>3, RandomTyped
<1>5. g = RandomPoly(c, k)
  BY <1>1, <1>3 DEF ProductPoly
<1> QED
  BY <1>1, <1>2, <1>4, <1>5, RandomPolyTyped

(* It takes the product of the shares of j at zero.                        *)
TakesProduct(g, j, a, b) == g[1] \cong a.sh[j] * b.sh[j]

(* No party finds fault with what j sends.                                 *)
Accepted(j, a, b, m) == ~ProofFails(j, a, b, m) /\ SharesOrBlame(j, m).ok /\ BadShares(m) = {}

(* It is accepted, whatever polynomial takes the product at zero.          *)
LEMMA ReshareFits ==
  ASSUME NEW C, Places(C.ids), NEW n \in Nat, n > 0, NEW j \in C.ids, NEW a, NEW b,
         Held(a, C.ids, n), Held(b, C.ids, n),
         NEW g \in [1..n -> Scalar], TakesProduct(g, j, a, b), NEW cheat, Straight(cheat, j),
         NEW m, m = ReshareProduct(C, j, g, a, b, cheat)
  PROVE  Accepted(j, a, b, m) /\ m.com = Commit(g)
<1>1. C.ids \in SUBSET Scalar /\ j \in Scalar /\ j \in Int
  BY ScalarInt DEF Places
<1>3. PICK x \in Scalar, y \in Scalar : x = a.sh[j] /\ y = b.sh[j]
  BY DEF Held
<1>4. x \in Int /\ y \in Int /\ Gen \in Int
  BY ScalarInt
<1>5. g \in [1..n -> Int] /\ g[1] \in Int /\ g[1] \cong x * y
  <2>1. g \in [1..n -> Int]
    BY ScalarInt
  <2>2. 1 \in 1..n
    OBVIOUS
  <2> QED
    BY <1>3, <2>1, <2>2 DEF TakesProduct
<1>7. /\ m.com = Commit(g) /\ DOMAIN m.sh = C.ids /\ \A i \in C.ids : m.sh[i] = (EvalPoly(g, i) + 0) % Q
      /\ m.proof.x1 = (Gen * x) % Q /\ m.proof.x2 = (EvalCom(b.com, j) * x) % Q /\ m.proof.sound
  <2>1. PICK H : H = EvalCom(b.com, j)
    OBVIOUS
  <2>2. HonestReshare(m, C.ids, g, x, H)
    BY <1>3, <2>1, ReshareHonest
  <2> QED
    BY <2>1, <2>2 DEF HonestReshare
<1>8. /\ Commit(g) \in Com(n) /\ Commit(g)[1] \cong Gen * g[1]
      /\ \A i \in Int : EvalPoly(g, i) \in Scalar /\ EvalCom(Commit(g), i) \cong Gen * EvalPoly(g, i)
  BY <1>5, CommitSound
<1>9. PICK A \in Scalar, H \in Scalar : A = EvalCom(a.com, j) /\ H = EvalCom(b.com, j)
  BY <1>1, HeldInt
<1>10. A \in Int /\ H \in Int /\ A \cong Gen * x /\ H \cong Gen * y
  BY <1>1, <1>3, <1>9, ScalarInt DEF Held
<1>11. m.proof.x1 = A
  <2>1. Gen * x \in Int
    BY <1>4
  <2>2. (Gen * x) % Q \in Scalar /\ (Gen * x) % Q \cong Gen * x
    BY <2>1, Reduce
  <2>3. (Gen * x) % Q \cong A
    BY <1>10, <2>2 DEF \cong
  <2> QED
    BY <1>7, <2>2, <2>3, ScalarsEqual
<1>12. m.proof.x2 = m.com[1]
  <2>1. PICK c \in Scalar : c = m.com[1] /\ c \cong Gen * g[1]
    BY <1>7, <1>8, AtZeroIsFirst
  <2>2. PICK q \in Int : q = g[1] /\ q \cong x * y
    BY <1>5
  <2>3. H * x \in Int /\ x * y \in Int /\ Gen * (x * y) \in Int /\ (Gen * y) * x \in Int /\ Gen * y \in Int
    BY <1>4, <1>10
  <2>4. PICK h \in Scalar : h = (H * x) % Q /\ h \cong H * x
    BY <2>3, Reduce
  <2>5. H * x \cong (Gen * y) * x
    BY <1>4, <1>10, <2>3, CongWith
  <2>6. Gen * q \cong Gen * (x * y)
    BY <1>4, <2>2, <2>3, CongWith
  <2>7. (Gen * y) * x = Gen * (x * y)
    BY <1>4
  <2>8. h \cong c
    BY <2>1, <2>2, <2>4, <2>5, <2>6, <2>7 DEF \cong
  <2>9. h = c
    BY <2>8, ScalarsEqual
  <2> QED
    BY <1>7, <1>9, <2>1, <2>4, <2>9
<1>13. ~ProofFails(j, a, b, m)
  <2>1. \E w \in Scalar : m.proof.x1 = (Gen * w) % Q /\ m.proof.x2 = (EvalCom(b.com, j) * w) % Q
    BY <1>7
  <2> QED
    BY <1>7, <1>9, <1>11, <1>12, <2>1 DEF ProofFails, ProofBinds, VerifyDleq
<1>14. BadShares(m) = {}
  <2>1. ASSUME NEW i \in C.ids PROVE VerifyShare(m.com, i, m.sh[i])
    <3>1. i \in Int
      BY <1>1, ScalarInt
    <3>2. PICK e \in Int : e = EvalPoly(g, i) /\ e \in Scalar
      BY <1>8, <3>1, ScalarInt
    <3>3. e + 0 = e /\ e % Q = e
      BY <3>2, Reduce
    <3>4. m.sh[i] = e
      BY <1>7, <3>2, <3>3
    <3>5. EvalCom(m.com, i) \cong Gen * e /\ m.com \in Com(n)
      BY <1>7, <1>8, <3>1, <3>2
    <3> QED
      BY <3>1, <3>2, <3>4, <3>5, ShareFits
  <2>2. DOMAIN m.sh = C.ids
    BY <1>7
  <2> QED
    BY <2>1, <2>2 DEF BadShares
<1>15. SharesOrBlame(j, m) = Ok(m)
  BY <1>14 DEF SharesOrBlame
<1> QED
  BY <1>7, <1>13, <1>14, <1>15, Results DEF Accepted

(* A product, re-shared, is accepted.                                      *)
LEMMA CheckHonest ==
  ASSUME NEW C, Places(C.ids), NEW n \in Nat, n > 0, n = C.t, NEW seed, NEW j \in C.ids, NEW a, NEW b,
         Held(a, C.ids, n), Held(b, C.ids, n), NEW cheat, Straight(cheat, j),
         NEW m, m = ReshareProduct(C, j, ProductPoly(C, seed, j, a, b), a, b, cheat)
  PROVE  Accepted(j, a, b, m)
<1>1. PICK x \in Scalar, y \in Scalar : x = a.sh[j] /\ y = b.sh[j]
  BY DEF Held
<1>2. PICK g : g = ProductPoly(C, seed, j, a, b)
  OBVIOUS
<1>3. g \in [1..n -> Scalar] /\ g[1] = (x * y) % Q
  BY <1>1, <1>2, ProductPolySound
<1>4. x * y \in Int
  BY ScalarInt
<1>5. TakesProduct(g, j, a, b)
  BY <1>1, <1>3, <1>4, Reduce DEF TakesProduct
<1>6. m = ReshareProduct(C, j, g, a, b, cheat)
  BY <1>2
<1> QED
  BY <1>3, <1>5, <1>6, ReshareFits

LEMMA HonestStraight == \A j : Straight(Honest, j)
BY NobodyDoes DEF Straight

LEMMA GenerateHonest ==
  ASSUME NEW C, Places(C.ids), C.t \in Nat, C.t > 0, NEW seed, NEW out, out = Generate(C, seed, Honest)
  PROVE  out.ok
<1>1. PICK A, B : A = JointRandom(C, Fork(seed, 1)) /\ B = JointRandom(C, Fork(seed, 2))
  OBVIOUS
<1>2. PICK a, b : a = A.val /\ b = B.val
  OBVIOUS
<1>3. A.ok /\ B.ok /\ Held(a, C.ids, C.t) /\ Held(b, C.ids, C.t)
  BY <1>1, <1>2, FactorsDealt
<1>4. PICK m : m = Reshares(C, seed, a, b, Honest)
  OBVIOUS
<1>5. PICK F : F = [j \in C.ids |-> CheckReshare(j, a, b, m[j])]
  OBVIOUS
<1>6. PICK sent : sent = Loop(Tabulate(F), C.ids)
  OBVIOUS
<1>7. PICK tr : tr = Triple(a, b, Recombine(C, Lagrange(0, C.ids), m))
  OBVIOUS
<1>8. out = IF sent.ok THEN Ok(tr) ELSE sent
  BY <1>1, <1>2, <1>3, <1>4, <1>5, <1>6, <1>7 DEF Generate, Factors, Then, Each, Loop
<1>9. ASSUME NEW j \in C.ids PROVE F[j].ok
  <2>1. PICK n \in Nat : n = C.t /\ n > 0
    OBVIOUS
  <2>2. Held(a, C.ids, n) /\ Held(b, C.ids, n)
    BY <1>3, <2>1
  <2>3. PICK mj : mj = m[j]
    OBVIOUS
  <2>4. mj = ReshareProduct(C, j, ProductPoly(C, seed, j, a, b), a, b, Honest)
    BY <1>4, <2>3, TabulateIs DEF Reshares
  <2>5. Accepted(j, a, b, mj)
    BY <2>1, <2>2, <2>4, CheckHonest, HonestStraight
  <2>6. CheckReshare(j, a, b, mj).ok
    BY <2>5 DEF CheckReshare, Accepted
  <2> QED
    BY <1>5, <2>3, <2>6
<1>10. C.ids \in SUBSET Nat
  BY ScalarInt DEF Places
<1>11. PICK verdict : verdict = Tabulate(F)
  OBVIOUS
<1>12. \A j \in C.ids : verdict[j].ok
  BY <1>9, <1>11, TabulateIs
<1>13. sent = Ok([i \in C.ids |-> verdict[i].val])
  BY <1>6, <1>10, <1>11, <1>12, LoopEnds
<1>14. sent.ok
  BY <1>13, Results
<1> QED
  BY <1>8, <1>14, Results

-----------------------------------------------------------------------------
(* Calls that sign *)

(* What a call that no store fails returns: a signature, or an error for   *)
(* cause.                                                                  *)
Answer(out, R, X, m, cheat, S, n) ==
  /\ out.ok => Signature(out.val, R, X, m)
  /\ ~out.ok => \/ out.err = "abort" /\ cheat # Honest
                \/ out.err = "zero" /\ ZeroScalars(R, X, m)
                \/ out.err = "few" /\ Cardinality(S) < n
  /\ Blames(out, Culprits(cheat))

LEMMA RunAtSound ==
  ASSUME NEW n \in Nat, n > 0, NEW M \in SUBSET Scalar,
         NEW S \in SUBSET M, S # {}, NEW s \in Int,
         NEW rec, NEW R, NEW X, Signs(rec, R, X, M, n, s), NEW presigs, Copies(presigs, rec, S),
         NEW m \in Int, NEW cheat, NEW com, com = CombineAt(s, n, presigs, m, cheat),
         NEW out, out = IF com.ok THEN FromScalars(com.val) ELSE com
  PROVE  Answer(out, R, X, m, cheat, S, n)
<1>1. /\ com.ok => com.val = [r |-> XCoord(R), s |-> com.val.s] /\ Solves(com.val.s, R, X, m)
      /\ ~com.ok => \/ cheat # Honest /\ com.err = "abort"
                    \/ com.err = "few" /\ Cardinality(S) < n
      /\ Blames(com, Culprits(cheat))
  BY CombineSound
<1>2. CASE ~com.ok
  BY <1>1, <1>2 DEF Answer
<1>3. CASE com.ok
  <2>1. PICK sig : sig = com.val
    OBVIOUS
  <2>2. sig = [r |-> XCoord(R), s |-> sig.s] /\ Solves(sig.s, R, X, m)
    BY <1>1, <1>3, <2>1
  <2>3. out = FromScalars(sig)
    BY <1>3, <2>1
  <2>4. R \in Int /\ X \in Int
    BY ScalarInt DEF Signs, InverseOf
  <2>5. /\ out.ok => Signature(out.val, R, X, m)
        /\ ~out.ok => out.err = "zero" /\ ZeroScalars(R, X, m)
    BY <2>2, <2>3, <2>4, ScalarsSound
  <2>6. Blames(out, Culprits(cheat))
    BY <2>5 DEF Blames
  <2> QED
    BY <2>5, <2>6 DEF Answer
<1> QED
  BY <1>2, <1>3

(* The call that goes on without a wrong share needs one more signer.      *)
AnswerRobust(out, R, X, m, cheat, S, n) ==
  /\ out.ok => Signature(out.val.sig, R, X, m)
  /\ ~out.ok => \/ /\ out.err = "few"
                   /\ Cardinality(S) < n \/ (cheat # Honest /\ Cardinality(S) <= n)
                \/ out.err = "zero" /\ ZeroScalars(R, X, m)
  /\ Expels(out, Culprits(cheat))

LEMMA RunRobustSound ==
  ASSUME NEW n \in Nat, n > 0, NEW M \in SUBSET Scalar, NEW S \in SUBSET M, S # {},
         NEW rec, NEW R, NEW X, Signs(rec, R, X, M, n, 0), NEW presigs, Copies(presigs, rec, S),
         NEW m \in Int, NEW cheat, NEW out, out = RunSignRobust(n, presigs, m, cheat)
  PROVE  AnswerRobust(out, R, X, m, cheat, S, n)
<1>1. PICK com : com = CombineRobust(n, presigs, m, cheat)
  OBVIOUS
<1>2. /\ com.ok => /\ com.val.sig = [r |-> XCoord(R), s |-> com.val.sig.s]
                   /\ Solves(com.val.sig.s, R, X, m)
      /\ ~com.ok => /\ com.err = "few"
                    /\ Cardinality(S) < n \/ (cheat # Honest /\ Cardinality(S) <= n)
      /\ Expels(com, Culprits(cheat))
  BY <1>1, CombineRobustSound
<1>3. PICK sig, final : sig = com.val.sig /\ final = FromScalars(sig)
  OBVIOUS
<1>4. out = IF com.ok
            THEN IF final.ok THEN Ok([sig |-> final.val, blamed |-> com.val.blamed]) ELSE final
            ELSE com
  BY <1>1, <1>3 DEF RunSignRobust, Then
<1>5. CASE ~com.ok
  BY <1>2, <1>4, <1>5 DEF AnswerRobust
<1>6. CASE com.ok
  <2>1. sig = [r |-> XCoord(R), s |-> sig.s] /\ Solves(sig.s, R, X, m)
    BY <1>2, <1>3, <1>6
  <2>2. R \in Int /\ X \in Int
    BY ScalarInt DEF Signs, InverseOf
  <2>3. /\ final.ok => Signature(final.val, R, X, m)
        /\ ~final.ok => final.err = "zero" /\ ZeroScalars(R, X, m)
    BY <1>3, <2>1, <2>2, ScalarsSound
  <2>4. CASE final.ok
    <3>1. out = Ok([sig |-> final.val, blamed |-> com.val.blamed])
      BY <1>4, <1>6, <2>4
    <3>2. PICK v : v = [sig |-> final.val, blamed |-> com.val.blamed]
      OBVIOUS
    <3>3. out.ok /\ out.val = v /\ v.sig = final.val /\ v.blamed = com.val.blamed
      BY <3>1, <3>2, Results
    <3>4. Expels(out, Culprits(cheat))
      BY <1>2, <1>6, <3>3 DEF Expels, Blames
    <3> QED
      BY <2>3, <2>4, <3>3, <3>4 DEF AnswerRobust
  <2>5. CASE ~final.ok
    BY <1>4, <1>6, <2>3, <2>5 DEF AnswerRobust, Expels, Blames
  <2> QED
    BY <2>4, <2>5
<1> QED
  BY <1>5, <1>6

(* Records that differ in nothing the signers of S use.                    *)
Alike(a, b, S) ==
  a.r = b.r /\ a.z = b.z /\ a.u.com = b.u.com /\ \A j \in S : a.u.sh[j] = b.u.sh[j]

(* Only the shares of the signers count.                                   *)
LEMMA SameSignature ==
  ASSUME NEW S \in SUBSET Scalar, S # {}, NEW p, NEW q, NEW a, NEW b, Copies(p, a, S), Copies(q, b, S),
         Alike(a, b, S), NEW s, NEW n, NEW m, NEW cheat
  PROVE  CombineAt(s, n, p, m, cheat) = CombineAt(s, n, q, m, cheat)
<1>1. Meta(p) = a /\ Meta(q) = b
  BY MetaIs
<1>2. ShareCom(a.u, a.z, m, a.r) = ShareCom(b.u, b.z, m, b.r)
  BY DEF ShareCom, Alike
<1>3. [j \in DOMAIN p |-> SignShare(p[j], j, m)] = [j \in DOMAIN q |-> SignShare(q[j], j, m)]
  <2>1. DOMAIN p = S /\ DOMAIN q = S
    BY DEF Copies
  <2>2. ASSUME NEW j \in S PROVE SignShare(p[j], j, m) = SignShare(q[j], j, m)
    BY DEF SignShare, Copies, Alike
  <2> QED
    BY <2>1, <2>2
<1>4. PICK com : com = ShareCom(a.u, a.z, m, a.r) /\ com = ShareCom(b.u, b.z, m, b.r)
  BY <1>2
<1>5. SignatureOf(p, com, m) = SignatureOf(q, com, m)
  BY <1>3 DEF SignatureOf
<1> QED
  BY <1>1, <1>4, <1>5 DEF CombineAt, Alike

-----------------------------------------------------------------------------
(* A record without its key *)

(* Signers without a gap are at their own places.                          *)
Numbered(S, c) == S = 1..c

LEMMA PositionIs ==
  ASSUME NEW c \in Nat, NEW S, Numbered(S, c), NEW j \in S
  PROVE  Position(S, j) = j
<1>1. j \in Int /\ j >= 1 /\ j <= c
  BY DEF Numbered
<1>2. {i \in S : i <= j} = 1..j
  BY <1>1 DEF Numbered
<1>3. Cardinality(1..j) = j
  BY <1>1, FS_Interval
<1> QED
  BY <1>2, <1>3 DEF Position

LEMMA ByPositionHeld ==
  ASSUME NEW n \in Nat, NEW c \in Nat, NEW S, Numbered(S, c),
         NEW M \in SUBSET Scalar, S \subseteq M, NEW X, Held(X, M, n)
  PROVE  Held(ByPosition(S, X), S, n) /\ ByPosition(S, X).com = X.com
<1>1. PICK f : f = [j \in S |-> X.sh[Position(S, j)]]
  OBVIOUS
<1>2. \A j \in S : f[j] = X.sh[j]
  BY <1>1, PositionIs
<1>3. f \in [S -> Scalar]
  <2>1. ASSUME NEW j \in S PROVE f[j] \in Scalar
    BY <1>2 DEF Held
  <2> QED
    BY <1>1, <2>1
<1>4. PICK Z : Z = [X EXCEPT !.sh = f]
  OBVIOUS
<1>5. ByPosition(S, X) = Z
  BY <1>1, <1>4, TabulateIs DEF ByPosition
<1>6. Z.sh = f /\ Z.com = X.com /\ DOMAIN Z = DOMAIN X
  BY <1>4 DEF Held
<1>7. Held(Z, S, n)
  BY <1>2, <1>3, <1>6 DEF Held
<1> QED
  BY <1>5, <1>6, <1>7

(* What making z online comes to.                                          *)
Bound(out, u, key, S, n, cheat) ==
  /\ out.ok => Times2(out.val, u, key, S, n, 0)
  /\ ~out.ok => \/ cheat # Honest /\ out.err = "abort"
                \/ out.err = "few" /\ Cardinality(S) < n
  /\ Blames(out, Culprits(cheat))

(* Both masks are opened by all the signers: z is u times the key.         *)
LEMMA KiBindSound ==
  ASSUME NEW n \in Nat, n > 0, NEW S \in SUBSET Scalar, NEW tr, Multiplies(tr, S, n, 0),
         NEW u, Held(u, S, n), NEW key, Held(key, S, n), NEW cheat,
         NEW out, out = KiBind(n, tr, u, key, cheat)
  PROVE  Bound(out, u, key, S, n, cheat)
<1>1. PICK s \in Int : s = 0
  OBVIOUS
<1>2. Multiplies(tr, S, n, s) /\ Held(tr.a, S, n) /\ Held(tr.b, S, n)
  BY <1>1 DEF Multiplies
<1>3. PICK X, Y, who, Z : /\ X = Minus(u, tr.a) /\ Y = Minus(key, tr.b)
                          /\ who = WrongIn("mask", cheat) /\ Z = Spoil(X, who)
  OBVIOUS
<1>4. /\ Held(X, S, n) /\ EvalCom(X.com, s) \cong EvalCom(u.com, s) - EvalCom(tr.a.com, s)
      /\ Held(Y, S, n) /\ EvalCom(Y.com, s) \cong EvalCom(key.com, s) - EvalCom(tr.b.com, s)
  BY <1>2, <1>3, MinusHeld
<1>5. /\ Openable(Z, n) /\ Z.com = X.com /\ DOMAIN Z.sh = S /\ BadShares(Z) \subseteq who
  <2>1. S \in SUBSET Scalar /\ Held(X, S, n)
    BY <1>4
  <2>2. Z = Spoil(X, who)
    BY <1>3
  <2>3. IsSpoilt(Z, X, S, n, who)
    BY Zenon, <2>1, <2>2, SpoilBad
  <2> QED
    BY <2>3 DEF IsSpoilt
<1>6. Openable(Y, n) /\ BadShares(Y) = {} /\ DOMAIN Y.sh = S
  BY <1>4, HeldOpenable
<1>7. PICK D, E : D = OpenAt(s, n, Z) /\ E = OpenAt(s, n, Y)
  OBVIOUS
<1>8. out = IF D.ok THEN IF E.ok THEN Ok(Beaver(tr, D.val, E.val)) ELSE E ELSE D
  BY <1>1, <1>3, <1>7 DEF KiBind, Then, Open, KiZ
<1>9. n <= n
  OBVIOUS
<1>10. /\ D.ok => D.val \in Scalar /\ EvalCom(Z.com, s) \cong Gen * D.val
       /\ ~D.ok => \/ BadShares(Z) # {} /\ D = Abort(BadShares(Z))
                   \/ Cardinality(S) < n /\ D = Fail("few")
  BY <1>5, <1>7, <1>9, OpenSound
<1>11. /\ E.ok => E.val \in Scalar /\ EvalCom(Y.com, s) \cong Gen * E.val
       /\ ~E.ok => Cardinality(S) < n /\ E = Fail("few")
  BY <1>6, <1>7, <1>9, OpenSound
<1>12. ASSUME ~out.ok
       PROVE  \/ BadShares(Z) # {} /\ out = Abort(BadShares(Z))
              \/ Cardinality(S) < n /\ out = Fail("few")
  <2>1. CASE ~D.ok
    BY <1>8, <1>10, <2>1
  <2>2. CASE D.ok
    <3>1. ~E.ok /\ out = E
      BY <1>8, <1>12, <2>2, Results
    <3> QED
      BY <1>11, <3>1
  <2> QED
    BY <2>1, <2>2
<1>13. ASSUME ~out.ok
       PROVE  \/ cheat # Honest /\ out.err = "abort"
              \/ out.err = "few" /\ Cardinality(S) < n
  <2>1. CASE BadShares(Z) # {} /\ out = Abort(BadShares(Z))
    <3>1. who # {}
      BY <1>5, <2>1
    <3> QED
      BY <1>3, <2>1, <3>1, WrongOnly, Results
  <2>2. CASE Cardinality(S) < n /\ out = Fail("few")
    BY <2>2, Results
  <2> QED
    BY <1>12, <1>13, <2>1, <2>2
<1>14. ASSUME out.ok PROVE Times2(out.val, u, key, S, n, 0)
  <2>1. D.ok /\ E.ok /\ out.val = Beaver(tr, D.val, E.val)
    BY <1>8, <1>14, Results
  <2>2. PICK d, e : d = D.val /\ e = E.val
    OBVIOUS
  <2>3. Masked(u, tr.a, d, s) /\ Masked(key, tr.b, e, s)
    BY <1>4, <1>5, <1>10, <1>11, <2>1, <2>2, CongTrans DEF Masked
  <2>4. u.com \in Com(n) /\ key.com \in Com(n)
    BY DEF Held
  <2>5. Times2(Beaver(tr, d, e), u, key, S, n, s)
    BY <1>2, <2>3, <2>4, BeaverSound
  <2> QED
    BY <1>1, <2>1, <2>2, <2>5
<1>15. Blames(out, Culprits(cheat))
  <2>1. CASE out.ok
    BY <2>1, BlameRules
  <2>2. CASE BadShares(Z) # {} /\ out = Abort(BadShares(Z))
    <3>1. BadShares(Z) \subseteq Culprits(cheat)
      BY <1>3, <1>5, SenderBlamed
    <3> QED
      BY <2>2, <3>1, BlameRules
  <2>3. CASE out = Fail("few")
    BY <2>3, BlameRules
  <2> QED
    BY <1>12, <2>1, <2>2, <2>3
<1> QED
  BY <1>13, <1>14, <1>15 DEF Bound

(* run_sign_ki (sim.rs): a record without its key, signed with by parties  *)
(* 1..c, gives a signature that verifies under the key, or a failure that  *)
(* its deviation explains.                                                 *)
THEOREM RunSignKiSound ==
  ASSUME NEW C, Places(C.ids), C.ids \subseteq 1..(Q - 1), C.t \in Nat, C.t > 0,
         Cardinality(C.ids) >= 2 * C.t - 1, NEW key, Held(key, C.ids, C.t),
         NEW c \in Nat, NEW S \in SUBSET C.ids, Numbered(S, c), S # {},
         NEW M \in SUBSET Scalar, S \subseteq M, NEW rec, {"u", "r", "z", "R"} \subseteq DOMAIN rec,
         NEW R, rec.r = XCoord(R), InverseOf(rec.u, R, M, C.t, 0), NEW presigs, Copies(presigs, rec, S),
         NEW m \in Int, NEW seed, NEW cheat,
         NEW out, out = RunSignKi(C, Among(S, key), presigs, m, seed, cheat)
  PROVE  Answer(out, R, key.com[1], m, cheat, S, C.t)
<1>1. PICK n \in Nat : n = C.t /\ n > 0
  OBVIOUS
<1>2. C.ids \in SUBSET Scalar /\ S \in SUBSET Scalar
  BY DEF Places
<1>3. PICK k : k = Among(S, key)
  OBVIOUS
<1>4. Held(k, S, n) /\ k.com = key.com /\ DOMAIN k.sh = S
  <2>1. Held(k, S, n) /\ k.com = key.com
    BY <1>1, <1>2, <1>3, AmongHeld
  <2> QED
    BY <2>1 DEF Held
<1>5. PICK u : u = [sh |-> [j \in S |-> rec.u.sh[j]], com |-> rec.u.com]
  OBVIOUS
<1>6. /\ Held(u, S, n) /\ u.com = rec.u.com /\ \A j \in S : u.sh[j] = rec.u.sh[j]
      /\ R \in Scalar /\ InverseOf(u, R, S, n, 0)
  <2>1. Held(rec.u, M, n) /\ R \in Scalar /\ R * EvalCom(rec.u.com, 0) \cong Gen * Gen
    BY <1>1 DEF InverseOf
  <2>2. u.com = rec.u.com /\ \A j \in S : u.sh[j] = rec.u.sh[j]
    BY <1>5
  <2>3. Held(u, S, n)
    BY <1>5, <2>1, <2>2 DEF Held
  <2> QED
    BY <2>1, <2>2, <2>3 DEF InverseOf
<1>7. Meta(presigs) = rec /\ DOMAIN presigs = S
  BY <1>2, MetaIs DEF Copies
<1>8. [sh |-> Tabulate([j \in S |-> presigs[j].u.sh[j]]), com |-> Meta(presigs).u.com] = u
  <2>1. Tabulate([j \in S |-> presigs[j].u.sh[j]]) = [j \in S |-> rec.u.sh[j]]
    BY TabulateIs DEF Copies
  <2> QED
    BY <1>5, <1>7, <2>1
<1>9. PICK full : full = [ids |-> 1..Cardinality(C.ids), t |-> C.t]
  OBVIOUS
<1>10. PICK g : g = Generate(full, seed, Honest)
  OBVIOUS
<1>11. PICK own : own = Triple(ByPosition(S, g.val.a), ByPosition(S, g.val.b), ByPosition(S, g.val.c))
  OBVIOUS
<1>12. PICK bind : bind = KiBind(n, own, u, k, cheat)
  OBVIOUS
<1>13. PICK com : com = CombineKi(n, presigs, bind.val, m, cheat)
  OBVIOUS
<1>14. out = IF DOMAIN k.sh # S THEN Fail("params") ELSE
             IF g.ok THEN IF bind.ok THEN IF com.ok THEN FromScalars(com.val) ELSE com ELSE bind ELSE g
  BY <1>1, <1>3, <1>7, <1>8, <1>9, <1>10, <1>11, <1>12, <1>13 DEF RunSignKi, Then
<1>15. /\ Places(full.ids) /\ full.t = n /\ Cardinality(full.ids) >= 2 * full.t - 1
       /\ S \subseteq full.ids /\ full.ids \in SUBSET Scalar
  <2>1. IsFiniteSet(1..(Q - 1)) /\ Cardinality(1..(Q - 1)) = Q - 1
    <3>1. Q - 1 \in Int /\ 1 \in Int /\ ~(1 > Q - 1) /\ Q - 1 - 1 + 1 = Q - 1
      BY FieldAssumption
    <3> QED
      BY <3>1, FS_Interval
  <2>2. IsFiniteSet(C.ids) /\ Cardinality(C.ids) <= Q - 1
    BY <2>1, FS_Subset
  <2>3. PICK N \in Nat : N = Cardinality(C.ids)
    BY <2>2, FS_CardinalityType
  <2>4. Cardinality(S) <= N /\ Cardinality(S) = c /\ c > 0
    <3>1. Cardinality(S) <= N
      BY <2>2, <2>3, FS_Subset
    <3>2. Cardinality(1..c) = IF 1 > c THEN 0 ELSE c - 1 + 1
      BY FS_Interval
    <3>3. c > 0
      BY DEF Numbered
    <3> QED
      BY <3>1, <3>2, <3>3 DEF Numbered
  <2>5. full.ids = 1..N /\ full.t = n
    BY <1>1, <1>9, <2>3
  <2>6. 1..N \subseteq Scalar /\ 1 \in 1..N /\ S \subseteq 1..N
    BY <2>2, <2>3, <2>4, FieldAssumption DEF Scalar, Numbered
  <2>7. Cardinality(1..N) = N /\ N >= 2 * n - 1
    <3>1. PICK a \in Int, b \in Int : a = 1 /\ b = N
      OBVIOUS
    <3>2. Cardinality(a..b) = IF a > b THEN 0 ELSE b - a + 1
      BY FS_Interval
    <3>3. b >= 1 /\ b >= 2 * n - 1
      BY <1>1, <2>3, <2>4, <3>1
    <3> QED
      BY <3>1, <3>2, <3>3
  <2> QED
    BY <2>5, <2>6, <2>7 DEF Places
<1>16. g.ok
  BY <1>1, <1>10, <1>15, GenerateHonest
<1>17. Multiplies(g.val, full.ids, n, 0)
  BY <1>1, <1>10, <1>15, <1>16, GenerateSound
<1>18. Multiplies(own, S, n, 0)
  <2>1. PICK ta, tb, tc : ta = g.val.a /\ tb = g.val.b /\ tc = g.val.c
    OBVIOUS
  <2>2. /\ Held(ta, full.ids, n) /\ Held(tb, full.ids, n) /\ Held(tc, full.ids, n)
        /\ Gen * EvalCom(tc.com, 0) \cong EvalCom(ta.com, 0) * EvalCom(tb.com, 0)
    BY <1>17, <2>1 DEF Multiplies
  <2>3. PICK F : F = full.ids
    OBVIOUS
  <2>4. Held(ta, F, n) /\ Held(tb, F, n) /\ Held(tc, F, n) /\ F \in SUBSET Scalar /\ S \subseteq F
    BY <1>15, <2>2, <2>3
  <2>5. /\ Held(ByPosition(S, ta), S, n) /\ ByPosition(S, ta).com = ta.com
        /\ Held(ByPosition(S, tb), S, n) /\ ByPosition(S, tb).com = tb.com
        /\ Held(ByPosition(S, tc), S, n) /\ ByPosition(S, tc).com = tc.com
    BY <2>4, ByPositionHeld
  <2>6. own.a = ByPosition(S, ta) /\ own.b = ByPosition(S, tb) /\ own.c = ByPosition(S, tc)
    BY <1>11, <2>1 DEF Triple
  <2> QED
    BY <2>2, <2>5, <2>6 DEF Multiplies
<1>19. Bound(bind, u, k, S, n, cheat)
  <2>1. n > 0 /\ S \in SUBSET Scalar /\ Held(u, S, n) /\ Held(k, S, n)
    BY <1>1, <1>2, <1>4, <1>6
  <2> QED
    BY <1>12, <1>18, <2>1, KiBindSound
<1>20. CASE ~bind.ok
  <2>1. out = bind
    BY <1>4, <1>14, <1>16, <1>20
  <2> QED
    BY <1>1, <1>19, <1>20, <2>1 DEF Answer, Bound
<1>21. CASE bind.ok
  <2>1. PICK z, X : z = bind.val /\ X = key.com[1]
    OBVIOUS
  <2>2. BoundTo(u, z, X, S, n, 0)
    <3>1. Times2(z, u, k, S, n, 0) /\ k.com \in Com(n) /\ k.com[1] = X
      BY <1>4, <1>19, <1>21, <2>1 DEF Held, Bound
    <3> QED
      BY <1>1, <1>2, <1>6, <3>1, ProductBound
  <2>3. X \in Scalar
    <3>1. key.com \in [1..n -> Scalar] /\ 1 \in 1..n
      BY <1>1 DEF Held, Com
    <3> QED
      BY <2>1, <3>1
  <2>4. PICK v, w, p, q : /\ v = [rec EXCEPT !.z = z] /\ w = [rec EXCEPT !.z = z, !.u = u]
                          /\ p = [j \in S |-> v] /\ q = [j \in S |-> w]
    OBVIOUS
  <2>5. /\ v.r = rec.r /\ v.z = z /\ v.u = rec.u /\ w.r = rec.r /\ w.z = z /\ w.u = u
        /\ Copies(p, v, S) /\ Copies(q, w, S)
    BY <2>4 DEF Copies
  <2>6. PICK s \in Int : s = 0
    OBVIOUS
  <2>7. Signs(w, R, X, S, n, s)
    BY <1>6, <2>2, <2>3, <2>5, <2>6 DEF Signs
  <2>8. com = CombineAt(s, n, p, m, cheat)
    <3>1. [j \in DOMAIN presigs |-> [presigs[j] EXCEPT !.z = z]] = p
      BY <2>4 DEF Copies
    <3> QED
      BY <1>13, <2>1, <2>6, <3>1 DEF CombineKi, Combine
  <2>9. CombineAt(s, n, p, m, cheat) = CombineAt(s, n, q, m, cheat)
    <3>1. Alike(v, w, S)
      BY <1>6, <2>5 DEF Alike
    <3> QED
      BY <1>2, <2>5, <3>1, SameSignature
  <2>10. out = IF com.ok THEN FromScalars(com.val) ELSE com
    BY <1>4, <1>14, <1>16, <1>21
  <2>11. S \in SUBSET S
    OBVIOUS
  <2>12. com = CombineAt(s, n, q, m, cheat)
    BY <2>8, <2>9
  <2>13. Answer(out, R, X, m, cheat, S, n)
    BY <1>1, <1>2, <2>5, <2>7, <2>10, <2>11, <2>12, RunAtSound
  <2> QED
    BY <1>1, <2>1, <2>13
<1> QED
  BY <1>20, <1>21

-----------------------------------------------------------------------------
(* Blame for a dealing *)

(* What a dealer computes with its polynomials fits what it commits to.    *)
LEMMA ShareForFits ==
  ASSUME NEW count \in Nat, NEW len \in Nat, NEW p \in [1..count -> [1..len -> Scalar]],
         NEW i, NEW j \in Scalar, NEW cheat, ~Hits(cheat, "deal", i, j), NEW b \in 1..count
  PROVE  VerifyShare(Commit(p[b]), j, ShareFor(i, p, j, cheat)[b])
<1>1. j \in Int /\ p[b] \in [1..len -> Scalar] /\ p[b] \in [1..len -> Int]
  BY ScalarInt
<1>2. PICK e \in Scalar : e = EvalPoly(p[b], j)
  BY <1>1, CommitSound
<1>3. e \in Int /\ e + 0 = e /\ e % Q = e
  <2>1. e \in Int
    BY ScalarInt
  <2> QED
    BY <2>1, Reduce
<1>4. ShareFor(i, p, j, cheat)[b] = e
  BY <1>2, <1>3, TabulateIs DEF ShareFor
<1>5. Commit(p[b]) \in Com(len) /\ EvalCom(Commit(p[b]), j) \cong Gen * e
  BY <1>1, <1>2, CommitSound
<1> QED
  BY <1>3, <1>4, <1>5, ShareFits

(* A complaint blames the receiver of an altered share, or a dealer that   *)
(* computed it wrongly or revealed another commitment.                     *)
LEMMA DealerBlames ==
  ASSUME NEW count \in Nat, NEW len \in Nat, NEW p \in [1..count -> [1..len -> Scalar]],
         NEW i, NEW j \in Scalar, NEW cheat, NEW W, Hits(cheat, "deal", i, j) => i \in W,
         NEW defense, defense = ShareFor(i, p, j, cheat),
         NEW coms, coms # Committed(p) => i \in W,
         NEW shares, \A b \in 1..count : shares[b] # defense[b] => j \in W,
         NEW v, v = CheckDealer(len, j, i, Committed(p), coms, shares, defense)
  PROVE  Blames(v, W)
<1>1. Committed(p) = [b \in 1..count |-> Commit(p[b])]
  BY TabulateIs DEF Committed
<1>2. PICK bad : bad = {b \in DOMAIN coms : ~VerifyShare(coms[b], j, shares[b])}
  OBVIOUS
<1>3. PICK wrong \in BOOLEAN : wrong = ((\E b \in DOMAIN coms : Len(coms[b]) # len) \/ coms # Committed(p))
  OBVIOUS
<1>4. v = IF wrong THEN Abort({i}) ELSE IF bad = {} THEN Ok(shares)
          ELSE ResolveComplaint(coms[Least(bad)], i, j, defense[Least(bad)])
  BY <1>2, <1>3 DEF CheckDealer
<1>5. CASE wrong
  <2>1. i \in W
    <3>1. CASE coms # Committed(p)
      BY <3>1
    <3>2. CASE coms = Committed(p)
      <4>1. PICK b \in 1..count : Len(coms[b]) # len
        BY <1>1, <1>3, <1>5, <3>2
      <4>2. p[b] \in [1..len -> Int]
        BY ScalarInt
      <4>3. Commit(p[b]) \in Com(len)
        BY <4>2, CommitSound
      <4> QED
        BY <1>1, <3>2, <4>1, <4>3, ComTyped
    <3> QED
      BY <3>1, <3>2
  <2>2. v = Abort({i})
    BY <1>4, <1>5
  <2> QED
    BY <2>1, <2>2, BlameRules
<1>6. CASE ~wrong /\ bad = {}
  <2>1. v = Ok(shares)
    BY <1>4, <1>6
  <2> QED
    BY <2>1, BlameRules
<1>7. CASE ~wrong /\ bad # {}
  <2>1. coms = [b \in 1..count |-> Commit(p[b])]
    BY <1>1, <1>3, <1>7
  <2>2. bad \in SUBSET Nat /\ bad \subseteq 1..count
    BY <1>2, <2>1
  <2>3. PICK b \in bad : b = Least(bad)
    BY <1>7, <2>2, LeastIn
  <2>4. b \in 1..count /\ ~VerifyShare(coms[b], j, shares[b]) /\ coms[b] = Commit(p[b])
    BY <1>2, <2>1, <2>2
  <2>5. PICK who : who = IF VerifyShare(coms[b], j, defense[b]) THEN j ELSE i
    OBVIOUS
  <2>6. v = Abort({who})
    BY <1>4, <1>7, <2>3, <2>5 DEF ResolveComplaint
  <2>7. who \in W
    <3>1. CASE VerifyShare(coms[b], j, defense[b])
      <4>1. shares[b] # defense[b]
        BY <2>4, <3>1
      <4> QED
        BY <2>4, <2>5, <3>1, <4>1
    <3>2. CASE ~VerifyShare(coms[b], j, defense[b])
      <4>1. Hits(cheat, "deal", i, j)
        BY <2>4, <3>2, ShareForFits
      <4> QED
        BY <2>5, <3>2, <4>1
    <3> QED
      BY <3>1, <3>2
  <2> QED
    BY <2>6, <2>7, BlameRules
<1> QED
  BY <1>5, <1>6, <1>7

LEMMA FinalizeBlames ==
  ASSUME NEW C, Places(C.ids), NEW len \in Nat, NEW count \in Nat, NEW me \in C.ids,
         NEW polys \in [C.ids -> [1..count -> [1..len -> Scalar]]], NEW cheat, NEW v,
         v = Finalize(C, len, me, polys, cheat)
  PROVE  Blames(v, Culprits(cheat))
<1>0. C.ids \in SUBSET Nat /\ me \in Scalar
  BY ScalarInt DEF Places
<1>1. PICK verdict : verdict = Tabulate([i \in C.ids |->
        CheckDealer(len, me, i, Committed(polys[i]), Revealed(i, polys[i], cheat),
                    Delivered(i, polys[i], me, cheat), ShareFor(i, polys[i], me, cheat))])
  OBVIOUS
<1>2. PICK loop : loop = Loop(verdict, C.ids)
  OBVIOUS
<1>3. PICK sums : sums = [b \in DOMAIN polys[me] |-> SumOf([i \in C.ids |-> loop.val[i][b]])]
  OBVIOUS
<1>4. v = IF loop.ok THEN Ok(Tabulate(sums)) ELSE loop
  BY ZenonT(40), <1>1, <1>2, <1>3 DEF Finalize, Then, Each, Loop
<1>5. ASSUME NEW i \in C.ids PROVE Blames(verdict[i], Culprits(cheat))
  <2>1. PICK p \in [1..count -> [1..len -> Scalar]] : p = polys[i]
    OBVIOUS
  <2>2. PICK coms : coms = Revealed(i, p, cheat)
    OBVIOUS
  <2>3. PICK defense : defense = ShareFor(i, p, me, cheat)
    OBVIOUS
  <2>4. PICK shares : shares = Delivered(i, p, me, cheat)
    OBVIOUS
  <2>5. verdict[i] = CheckDealer(len, me, i, Committed(p), coms, shares, defense)
    BY <1>1, <2>1, <2>2, <2>3, <2>4, TabulateIs
  <2>6. Hits(cheat, "deal", i, me) => i \in Culprits(cheat)
    BY DeviatorBlamed DEF Hits
  <2>7. coms # Committed(p) => i \in Culprits(cheat)
    BY <2>2, DeviatorBlamed DEF Revealed
  <2>8. shares # defense => me \in Culprits(cheat)
    BY <2>3, <2>4, TransitBlamed DEF Delivered
  <2>9. \A b \in 1..count : shares[b] # defense[b] => me \in Culprits(cheat)
    BY <2>8
  <2>10. PICK W : W = Culprits(cheat)
    OBVIOUS
  <2>11. PICK one : one = verdict[i]
    OBVIOUS
  <2>12. /\ Hits(cheat, "deal", i, me) => i \in W
         /\ coms # Committed(p) => i \in W
         /\ \A b \in 1..count : shares[b] # defense[b] => me \in W
    BY <2>6, <2>7, <2>9, <2>10
  <2>13. one = CheckDealer(len, me, i, Committed(p), coms, shares, defense)
    BY <2>5, <2>11
  <2>14. me \in Scalar /\ len \in Nat /\ count \in Nat /\ p \in [1..count -> [1..len -> Scalar]]
    BY <1>0
  <2>15. Blames(one, W)
    BY ZenonT(40), <2>3, <2>12, <2>13, <2>14, DealerBlames
  <2> QED
    BY <2>10, <2>11, <2>15
<1>6. Blames(loop, Culprits(cheat))
  BY <1>0, <1>2, <1>5, LoopBlames
<1> QED
  BY <1>4, <1>6, BlameRules

LEMMA DealBlames ==
  ASSUME NEW C, Places(C.ids), NEW len \in Nat, NEW count \in Nat,
         NEW polys \in [C.ids -> [1..count -> [1..len -> Scalar]]], NEW cheat, NEW out,
         out = DealAll(C, len, polys, cheat)
  PROVE  Blames(out, Culprits(cheat))
<1>0. C.ids \in SUBSET Nat
  BY ScalarInt DEF Places
<1>1. PICK verdict : verdict = Tabulate([j \in C.ids |-> Finalize(C, len, j, polys, cheat)])
  OBVIOUS
<1>2. PICK loop : loop = Loop(verdict, C.ids)
  OBVIOUS
<1>3. PICK outs : outs = [b \in DOMAIN polys[Least(C.ids)] |->
        [sh  |-> Tabulate([j \in C.ids |-> loop.val[j][b]]),
         com |-> SumCom([i \in C.ids |-> Revealed(i, polys[i], cheat)[b]])]]
  OBVIOUS
<1>4. out = IF loop.ok THEN Ok(Tabulate(outs)) ELSE loop
  BY ZenonT(40), <1>1, <1>2, <1>3 DEF DealAll, Then, Each, Loop
<1>5. \A j \in C.ids : verdict[j] = Finalize(C, len, j, polys, cheat)
  BY <1>1, TabulateIs
<1>6. \A j \in C.ids : Blames(verdict[j], Culprits(cheat))
  BY <1>5, FinalizeBlames
<1>7. Blames(loop, Culprits(cheat))
  BY <1>0, <1>2, <1>6, LoopBlames
<1> QED
  BY <1>4, <1>7, BlameRules

LEMMA DkgBlames ==
  ASSUME NEW C, Places(C.ids), C.t \in Nat, NEW seed, NEW cheat, NEW out, out = DriveDkg(C, seed, cheat)
  PROVE  Blames(out, Culprits(cheat)) /\ (cheat = Honest => out.ok)
<1>1. PICK polys : polys = Tabulate([i \in C.ids |-> RandomPolys(seed, i, 1, C.t)])
  OBVIOUS
<1>2. PICK d : d = DealAll(C, C.t, polys, cheat)
  OBVIOUS
<1>3. out = IF d.ok THEN Ok(d.val[1]) ELSE d
  BY <1>1, <1>2 DEF DriveDkg, Then
<1>4. PICK count \in Nat : count = 1
  OBVIOUS
<1>5. polys \in [C.ids -> [1..count -> [1..C.t -> Scalar]]]
  <2>1. polys = [i \in C.ids |-> RandomPolys(seed, i, count, C.t)]
    BY <1>1, <1>4, TabulateIs
  <2>2. \A i : RandomPolys(seed, i, count, C.t) \in [1..count -> [1..C.t -> Scalar]]
    BY RandomTyped
  <2> QED
    BY <2>1, <2>2
<1>6. Blames(d, Culprits(cheat))
  BY <1>2, <1>5, DealBlames
<1>7. cheat = Honest => d.ok
  BY <1>2, <1>5, DealHonest
<1> QED
  BY <1>3, <1>6, <1>7, BlameRules, Results

(* Refresh (refresh.rs): its own rounds, and the dealers of a constant.    *)
LEMMA RefreshBlames ==
  ASSUME NEW C, Places(C.ids), C.t \in Nat, C.t > 0, NEW k, Held(k, C.ids, C.t), NEW seed, NEW cheat,
         NEW out, out = Refresh(C, k, seed, cheat)
  PROVE  Blames(out, Culprits(cheat))
<1>0. C.ids \in SUBSET Nat /\ C.ids # {}
  BY ScalarInt DEF Places
<1>1. PICK secret : secret = Tabulate([i \in C.ids |-> IF Does(cheat, "shift", i) THEN 1 ELSE 0])
  OBVIOUS
<1>2. \A i \in C.ids : secret[i] = IF Does(cheat, "shift", i) THEN 1 ELSE 0
  BY <1>1, TabulateIs
<1>3. PICK zero : zero = DealFixedSecrets(C, seed, secret, cheat)
  OBVIOUS
<1>4. PICK bad : bad = Shifted(C, secret)
  OBVIOUS
<1>5. out = IF ~KeysMatch(C, k) THEN Fail("params")
            ELSE IF zero.ok THEN IF bad # {} THEN Abort({Least(bad)}) ELSE Ok(Plus(k, zero.val[1])) ELSE zero
  BY <1>1, <1>3, <1>4 DEF Refresh, Then
<1>6. PICK polys : polys = Tabulate([i \in C.ids |-> << RandomPoly(secret[i], Masks(seed, i, C.t - 1)) >>])
  OBVIOUS
<1>7. PICK count \in Nat : count = 1
  OBVIOUS
<1>8. polys \in [C.ids -> [1..count -> [1..C.t -> Scalar]]]
  <2>1. ASSUME NEW i \in C.ids PROVE polys[i] \in [1..count -> [1..C.t -> Scalar]]
    <3>1. secret[i] \in Scalar
      BY <1>2, ScalarInt
    <3>2. PICK q : q = RandomPoly(secret[i], Masks(seed, i, C.t - 1))
      OBVIOUS
    <3>3. q \in [1..C.t -> Scalar]
      BY <3>1, <3>2, MasksTyped, RandomPolyTyped
    <3>4. polys[i] = <<q>>
      BY <1>6, <3>2, TabulateIs
    <3> QED
      BY <1>7, <3>3, <3>4
  <2>2. DOMAIN polys = C.ids /\ polys = [i \in C.ids |-> polys[i]]
    BY <1>6, TabulateIs
  <2> QED
    BY <2>1, <2>2
<1>9. zero = DealAll(C, C.t, polys, cheat)
  BY <1>3, <1>6 DEF DealFixedSecrets
<1>10. Blames(zero, Culprits(cheat))
  BY <1>8, <1>9, DealBlames
<1>11. bad # {} => Least(bad) \in Culprits(cheat)
  <2> SUFFICES ASSUME bad # {} PROVE Least(bad) \in Culprits(cheat)
    OBVIOUS
  <2>1. bad \subseteq C.ids /\ bad \in SUBSET Nat
    BY <1>0, <1>4 DEF Shifted
  <2>2. PICK i \in bad : i = Least(bad)
    BY <2>1, LeastIn
  <2>3. i \in C.ids /\ (Gen * secret[i]) % Q # 0
    BY <1>4, <2>1 DEF Shifted
  <2>4. secret[i] # 0
    <3>1. Gen * 0 = 0 /\ 0 % Q = 0
      <4>1. Gen \in Int /\ 0 \in Int
        BY ScalarInt
      <4>2. 0 % Q = 0
        BY ScalarInt, Reduce
      <4> QED
        BY <4>1, <4>2
    <3> QED
      BY <2>3, <3>1
  <2>5. Does(cheat, "shift", i)
    BY <1>2, <2>3, <2>4
  <2> QED
    BY <2>2, <2>5, DeviatorBlamed
<1> QED
  BY <1>5, <1>10, <1>11, BlameRules

-----------------------------------------------------------------------------
(* Blame for a hand-over and for triples *)

(* The check of one dealer, or of one sender, names it.                    *)
Names(v, j) == v.ok \/ v = Abort({j})

LEMMA NamedBlamed ==
  ASSUME NEW v, NEW j, Names(v, j), NEW W, ~v.ok => j \in W
  PROVE  Blames(v, W)
<1>1. CASE v.ok
  BY <1>1, BlameRules
<1>2. CASE ~v.ok
  <2>1. v = Abort({j}) /\ j \in W
    BY <1>2 DEF Names
  <2>2. {j} # {} /\ {j} \subseteq W
    BY <2>1
  <2> QED
    BY <2>1, <2>2, BlameRules
<1> QED
  BY <1>1, <1>2

(* A dealer that dealt straight and bound is not blamed by a new party.    *)
LEMMA DealNames ==
  ASSUME NEW new, Places(new.ids), new.t \in Nat, new.t > 0, NEW n \in Nat, NEW S \in SUBSET Scalar,
         NEW k, Held(k, S, n), NEW j \in S, NEW seed, NEW cheat, NEW m \in new.ids,
         NEW deal, deal = ReshareDeal(new, k, j, seed, cheat), NEW v, v = CheckDeal(k, new, m, j, deal)
  PROVE  Names(v, j) /\ (v.ok \/ Does(cheat, "unbound", j) \/ Does(cheat, "deal", j))
<1>1. PICK bound \in BOOLEAN : bound = ~(Len(deal.com) # new.t \/ deal.com[1] # EvalCom(k.com, j))
  OBVIOUS
<1>2. PICK fits \in BOOLEAN : fits = VerifyShare(deal.com, m, deal.sh[m])
  BY DEF VerifyShare
<1>3. v = IF ~bound THEN Abort({j}) ELSE IF fits THEN Ok(deal.sh[m]) ELSE Abort({j})
  <2>1. ResolveComplaint(deal.com, j, m, deal.sh[m]) = Abort({IF fits THEN m ELSE j})
    BY <1>2 DEF ResolveComplaint
  <2>2. v = IF ~bound THEN Abort({j}) ELSE IF fits THEN Ok(deal.sh[m]) ELSE Abort({IF fits THEN m ELSE j})
    BY <1>1, <1>2, <2>1 DEF CheckDeal
  <2> QED
    BY <2>2
<1>4. Names(v, j) /\ (bound /\ fits => v.ok)
  BY <1>3, Results DEF Names
<1>5. SUFFICES ASSUME ~Does(cheat, "unbound", j), ~Does(cheat, "deal", j) PROVE bound /\ fits
  BY <1>4
<1>6. PICK t \in Nat : t = new.t /\ t > 0
  OBVIOUS
<1>7. PICK x \in Scalar : x = k.sh[j]
  BY DEF Held
<1>8. PICK p : p = RandomPoly(x, Masks(seed, j, t - 1))
  OBVIOUS
<1>9. p \in [1..t -> Scalar] /\ p \in [1..t -> Int] /\ p[1] = x
  <2>1. Masks(seed, j, t - 1) \in [1..(t - 1) -> Scalar]
    BY MasksTyped
  <2>2. p \in [1..t -> Scalar] /\ p[1] = x
    BY <1>6, <1>8, <2>1, RandomPolyTyped
  <2> QED
    BY <2>2, ScalarInt
<1>10. PICK sh : sh = [i \in new.ids |-> (EvalPoly(p, i) + IF Hits(cheat, "deal", j, i) THEN 1 ELSE 0) % Q]
  OBVIOUS
<1>11. deal.com = Commit(p) /\ deal.sh = sh
  <2>1. deal = [com |-> IF Does(cheat, "unbound", j) THEN AddConst(Commit(p), 1) ELSE Commit(p),
                sh |-> Tabulate(sh)]
    BY <1>6, <1>7, <1>8, <1>10 DEF ReshareDeal
  <2> QED
    BY <1>5, <2>1, TabulateIs
<1>12. Commit(p) \in Com(t) /\ Commit(p)[1] \cong Gen * x
  BY <1>6, <1>9, CommitSound
<1>13. j \in Int /\ m \in Int
  BY ScalarInt DEF Places
<1>14. bound
  <2>1. PICK A \in Scalar, c \in Scalar : A = EvalCom(k.com, j) /\ c = Commit(p)[1]
    BY <1>6, <1>12, <1>13, AtZeroIsFirst, HeldInt
  <2>2. A \cong Gen * x
    BY <1>7, <2>1 DEF Held
  <2>3. A \cong c
    BY <1>12, <2>1, <2>2 DEF \cong
  <2>4. A = c
    BY <2>3, ScalarsEqual
  <2>5. Len(deal.com) = t
    BY <1>11, <1>12, ComTyped
  <2> QED
    BY <1>1, <1>6, <1>11, <2>1, <2>4, <2>5
<1>15. fits
  <2>1. PICK e \in Scalar : e = EvalPoly(p, m) /\ EvalCom(Commit(p), m) \cong Gen * e
    BY <1>9, <1>13, CommitSound
  <2>2. e \in Int /\ e + 0 = e /\ e % Q = e
    <3>1. e \in Int
      BY ScalarInt
    <3> QED
      BY <3>1, Reduce
  <2>3. ~Hits(cheat, "deal", j, m)
    BY <1>5 DEF Hits
  <2>4. sh[m] = e
    BY <1>10, <2>1, <2>2, <2>3
  <2> QED
    BY <1>2, <1>11, <1>12, <1>13, <2>1, <2>2, <2>4, ShareFits
<1> QED
  BY <1>14, <1>15

LEMMA ReshareBlames ==
  ASSUME NEW old, Places(old.ids), NEW n \in Nat, NEW new, Places(new.ids), new.t \in Nat, new.t > 0,
         NEW k, Held(k, old.ids, n), NEW seed, NEW cheat,
         NEW out, out = Reshare(old, new, k, seed, cheat)
  PROVE  Blames(out, Culprits(cheat))
<1>0. old.ids \in SUBSET Nat /\ old.ids \in SUBSET Scalar /\ new.ids \in SUBSET Nat
  BY ScalarInt DEF Places
<1>1. PICK D : D = Tabulate([j \in old.ids |-> ReshareDeal(new, k, j, seed, cheat)])
  OBVIOUS
<1>2. PICK w : w = Lagrange(0, old.ids)
  OBVIOUS
<1>3. PICK V : V = [m \in new.ids |->
        Loop(Tabulate([j \in old.ids |-> CheckDeal(k, new, m, j, D[j])]), old.ids)]
  OBVIOUS
<1>4. PICK F : F = [m \in new.ids |->
        IF V[m].ok THEN Ok(SumOf([j \in old.ids |-> w[j] * V[m].val[j]])) ELSE V[m]]
  OBVIOUS
<1>5. PICK sums : sums = Loop(Tabulate(F), new.ids)
  OBVIOUS
<1>6. PICK com : com = SumCom([j \in old.ids |-> ScaleCom(D[j].com, w[j])])
  OBVIOUS
<1>7. out = IF ~KeysMatch(old, k) THEN Fail("params")
            ELSE IF sums.ok THEN Ok([sh |-> sums.val, com |-> com]) ELSE sums
  <2>1. F = [m \in new.ids |->
              LET v == Loop(Tabulate([j \in old.ids |-> CheckDeal(k, new, m, j, D[j])]), old.ids)
              IN  IF v.ok THEN Ok(SumOf([j \in old.ids |-> w[j] * v.val[j]])) ELSE v]
    BY <1>3, <1>4
  <2> QED
    BY ZenonT(40), <2>1, <1>1, <1>2, <1>5, <1>6 DEF Reshare, Then, Each, Loop
<1>8. ASSUME NEW m \in new.ids PROVE Blames(F[m], Culprits(cheat))
  <2>1. PICK verdict : verdict = [j \in old.ids |-> CheckDeal(k, new, m, j, D[j])]
    OBVIOUS
  <2>2. PICK loop : loop = Loop(verdict, old.ids)
    OBVIOUS
  <2>3. ASSUME NEW j \in old.ids PROVE Blames(verdict[j], Culprits(cheat))
    <3>1. PICK deal, v : deal = D[j] /\ v = verdict[j]
      OBVIOUS
    <3>2. deal = ReshareDeal(new, k, j, seed, cheat) /\ v = CheckDeal(k, new, m, j, deal)
      BY <1>1, <2>1, <3>1, TabulateIs
    <3>3. Names(v, j) /\ (v.ok \/ Does(cheat, "unbound", j) \/ Does(cheat, "deal", j))
      BY <1>0, <3>2, DealNames
    <3>4. ~v.ok => j \in Culprits(cheat)
      BY <3>3, DeviatorBlamed
    <3> QED
      BY <3>1, <3>3, <3>4, NamedBlamed
  <2>4. Blames(loop, Culprits(cheat))
    BY <1>0, <2>2, <2>3, LoopBlames
  <2>5. V[m] = loop
    BY <1>3, <2>1, <2>2, TabulateIs
  <2>6. F[m] = IF loop.ok THEN Ok(SumOf([j \in old.ids |-> w[j] * loop.val[j]])) ELSE loop
    BY <1>4, <2>5
  <2> QED
    BY <2>4, <2>6, BlameRules
<1>9. \A m \in new.ids : Blames(Tabulate(F)[m], Culprits(cheat))
  BY <1>8, TabulateIs
<1>10. Blames(sums, Culprits(cheat))
  BY <1>0, <1>5, <1>9, LoopBlames
<1>11. "params" # "abort"
  OBVIOUS
<1> QED
  BY <1>7, <1>10, <1>11, BlameRules

LEMMA SharesNames ==
  ASSUME NEW j, NEW m, DOMAIN m.sh \in SUBSET Nat
  PROVE  Names(SharesOrBlame(j, m), j)
<1>1. PICK bad : bad = BadShares(m)
  OBVIOUS
<1>2. bad \in SUBSET Nat /\ \A i \in bad : ~VerifyShare(m.com, i, m.sh[i])
  BY <1>1 DEF BadShares
<1>3. SharesOrBlame(j, m) = IF bad = {} THEN Ok(m) ELSE ResolveComplaint(m.com, j, Least(bad), m.sh[Least(bad)])
  BY <1>1 DEF SharesOrBlame
<1>4. CASE bad = {}
  BY <1>3, <1>4, Results DEF Names
<1>5. CASE bad # {}
  <2>1. PICK i \in bad : i = Least(bad)
    BY <1>2, <1>5, LeastIn
  <2>2. ResolveComplaint(m.com, j, i, m.sh[i]) = Abort({j})
    BY <1>2, <2>1 DEF ResolveComplaint
  <2> QED
    BY <1>3, <1>5, <2>1, <2>2 DEF Names
<1> QED
  BY <1>4, <1>5

(* Who does not deal a product straight is one to blame.                   *)
LEMMA CrookedBlamed ==
  ASSUME NEW cheat, NEW j, ~Straight(cheat, j)
  PROVE  j \in Culprits(cheat)
BY DeviatorBlamed DEF Straight, Hits

LEMMA CheckReshareBlames ==
  ASSUME NEW j, NEW a, NEW b, NEW m, DOMAIN m.sh \in SUBSET Nat, NEW cheat,
         Straight(cheat, j) => Accepted(j, a, b, m)
  PROVE  Blames(CheckReshare(j, a, b, m), Culprits(cheat)) /\ (Straight(cheat, j) => CheckReshare(j, a, b, m).ok)
<1>1. PICK v : v = CheckReshare(j, a, b, m)
  OBVIOUS
<1>2. v = IF ProofFails(j, a, b, m) THEN Abort({j}) ELSE SharesOrBlame(j, m)
  BY <1>1 DEF CheckReshare
<1>3. Names(v, j)
  BY <1>2, SharesNames DEF Names
<1>4. Straight(cheat, j) => v.ok
  BY <1>2 DEF Accepted
<1>5. ~v.ok => j \in Culprits(cheat)
  BY <1>4, CrookedBlamed
<1>6. Blames(v, Culprits(cheat))
  BY <1>3, <1>5, NamedBlamed
<1> QED
  BY <1>1, <1>4, <1>6

(* What is re-shared of the product of two held factors.                   *)
LEMMA ResharesAccepted ==
  ASSUME NEW C, Places(C.ids), C.t \in Nat, C.t > 0, NEW seed, NEW a, NEW b, NEW cheat,
         Held(a, C.ids, C.t), Held(b, C.ids, C.t), NEW m, m = Reshares(C, seed, a, b, cheat), NEW j \in C.ids
  PROVE  DOMAIN m[j].sh = C.ids /\ (Straight(cheat, j) => Accepted(j, a, b, m[j]))
<1>1. PICK mj : mj = m[j]
  OBVIOUS
<1>2. mj.sh \in [C.ids -> Scalar]
  BY <1>1, ResharesTyped
<1>3. mj = ReshareProduct(C, j, ProductPoly(C, seed, j, a, b), a, b, cheat)
  BY <1>1, TabulateIs DEF Reshares
<1>4. PICK n \in Nat : n = C.t /\ n > 0
  OBVIOUS
<1>5. Held(a, C.ids, n) /\ Held(b, C.ids, n)
  BY <1>4
<1>6. Straight(cheat, j) => Accepted(j, a, b, mj)
  BY <1>3, <1>4, <1>5, CheckHonest
<1> QED
  BY <1>1, <1>2, <1>6

LEMMA GenerateBlames ==
  ASSUME NEW C, Places(C.ids), C.t \in Nat, C.t > 0, NEW seed, NEW cheat,
         NEW out, out = Generate(C, seed, cheat)
  PROVE  Blames(out, Culprits(cheat))
<1>1. PICK A, B : A = JointRandom(C, Fork(seed, 1)) /\ B = JointRandom(C, Fork(seed, 2))
  OBVIOUS
<1>2. PICK a, b : a = A.val /\ b = B.val
  OBVIOUS
<1>3. A.ok /\ B.ok /\ Held(a, C.ids, C.t) /\ Held(b, C.ids, C.t)
  BY <1>1, <1>2, FactorsDealt
<1>4. PICK m : m = Reshares(C, seed, a, b, cheat)
  OBVIOUS
<1>5. PICK F : F = [j \in C.ids |-> CheckReshare(j, a, b, m[j])]
  OBVIOUS
<1>6. PICK sent : sent = Loop(Tabulate(F), C.ids)
  OBVIOUS
<1>7. PICK tr : tr = Triple(a, b, Recombine(C, Lagrange(0, C.ids), m))
  OBVIOUS
<1>8. out = IF sent.ok THEN Ok(tr) ELSE sent
  BY <1>1, <1>2, <1>3, <1>4, <1>5, <1>6, <1>7 DEF Generate, Factors, Then, Each, Loop
<1>9. C.ids \in SUBSET Nat
  BY ScalarInt DEF Places
<1>10. ASSUME NEW j \in C.ids PROVE Blames(Tabulate(F)[j], Culprits(cheat))
  <2>1. PICK mj : mj = m[j]
    OBVIOUS
  <2>2. DOMAIN mj.sh = C.ids /\ (Straight(cheat, j) => Accepted(j, a, b, mj))
    BY <1>3, <1>4, <2>1, ResharesAccepted
  <2>3. Tabulate(F)[j] = CheckReshare(j, a, b, mj)
    BY <1>5, <2>1, TabulateIs
  <2> QED
    BY <1>9, <2>2, <2>3, CheckReshareBlames
<1>11. Blames(sent, Culprits(cheat))
  BY <1>6, <1>9, <1>10, LoopBlames
<1> QED
  BY <1>8, <1>11, BlameRules

LEMMA GenerateRobustBlames ==
  ASSUME NEW C, Places(C.ids), C.t \in Nat, C.t > 0, NEW seed, NEW cheat,
         NEW out, out = GenerateRobust(C, seed, cheat)
  PROVE  Expels(out, Culprits(cheat))
<1>1. PICK A, B : A = JointRandom(C, Fork(seed, 1)) /\ B = JointRandom(C, Fork(seed, 2))
  OBVIOUS
<1>2. PICK a, b : a = A.val /\ b = B.val
  OBVIOUS
<1>3. A.ok /\ B.ok /\ Held(a, C.ids, C.t) /\ Held(b, C.ids, C.t)
  BY <1>1, <1>2, FactorsDealt
<1>4. PICK m : m = Reshares(C, seed, a, b, cheat)
  OBVIOUS
<1>5. PICK F : F = [j \in C.ids |-> Rebuild(C, j, a, b, m[j])]
  OBVIOUS
<1>6. PICK sent : sent = Loop(Tabulate(F), C.ids)
  OBVIOUS
<1>7. PICK blamed : blamed = {j \in C.ids : BadShares(m[j]) # {}}
  OBVIOUS
<1>8. \E tr : out = IF sent.ok THEN Ok([tr |-> tr, blamed |-> blamed]) ELSE sent
  BY <1>1, <1>2, <1>3, <1>4, <1>5, <1>6, <1>7 DEF GenerateRobust, Factors, Then, Each, Loop
<1>9. C.ids \in SUBSET Nat
  BY ScalarInt DEF Places
<1>10. ASSUME NEW j \in C.ids
       PROVE  /\ Blames(Tabulate(F)[j], Culprits(cheat))
              /\ BadShares(m[j]) # {} => j \in Culprits(cheat)
  <2>1. PICK mj : mj = m[j]
    OBVIOUS
  <2>2. Straight(cheat, j) => Accepted(j, a, b, mj)
    BY <1>3, <1>4, <2>1, ResharesAccepted
  <2>3. PICK v, bad : v = Rebuild(C, j, a, b, mj) /\ bad = BadShares(mj)
    OBVIOUS
  <2>4. PICK few \in BOOLEAN : few <=> Cardinality(C.ids \ bad) < C.t
    OBVIOUS
  <2>5. \E w : v = IF ProofFails(j, a, b, mj) \/ (bad # {} /\ few) THEN Abort({j}) ELSE Ok(w)
    BY <2>3, <2>4 DEF Rebuild
  <2>6. PICK w : v = IF ProofFails(j, a, b, mj) \/ (bad # {} /\ few) THEN Abort({j}) ELSE Ok(w)
    BY <2>5
  <2>7. Names(v, j) /\ (Straight(cheat, j) => v.ok /\ bad = {})
    BY <2>2, <2>3, <2>6, Results DEF Names, Accepted
  <2>8. ~v.ok \/ bad # {} => j \in Culprits(cheat)
    BY <2>7, CrookedBlamed
  <2>9. Blames(v, Culprits(cheat))
    BY <2>7, <2>8, NamedBlamed
  <2>10. Tabulate(F)[j] = v
    BY <1>5, <2>1, <2>3, TabulateIs
  <2> QED
    BY <2>1, <2>3, <2>8, <2>9, <2>10
<1>11. Blames(sent, Culprits(cheat))
  BY <1>6, <1>9, <1>10, LoopBlames
<1>12. blamed \subseteq Culprits(cheat)
  BY <1>7, <1>10
<1>13. PICK tr : out = IF sent.ok THEN Ok([tr |-> tr, blamed |-> blamed]) ELSE sent
  BY <1>8
<1>14. Blames(out, Culprits(cheat))
  BY <1>11, <1>13, BlameRules
<1>15. out.ok => out.val = [tr |-> tr, blamed |-> blamed]
  BY <1>13, Results
<1> QED
  BY <1>12, <1>14, <1>15 DEF Expels

(* value is the product of the shares of j.                                *)
Stands(value, j, a, b) == value \cong a.sh[j] * b.sh[j]

(* A packed product takes its value at every slot.                         *)
LEMMA PackedAccepted ==
  ASSUME NEW C, Places(C.ids), C.t \in Nat, C.t > 0, NEW B \in Nat, B > 0, NEW n, n = PackedDegree(C, B) + 1,
         NEW a, NEW b, Held(a, C.ids, n), Held(b, C.ids, n), NEW seed, NEW j \in C.ids, NEW cheat,
         NEW value \in Int, Stands(value, j, a, b),
         NEW m, m = ReshareProduct(C, j, PackedPoly(C, seed, B, value, j), a, b, cheat)
  PROVE  /\ DOMAIN m.sh = C.ids
         /\ Straight(cheat, j) => Accepted(j, a, b, m) /\ SlotsAgree(B, m.com, m.com[1])
<1>2. PICK g : g = PackedPoly(C, seed, B, value, j)
  OBVIOUS
<1>3. /\ n \in Nat /\ n > 0 /\ g \in [1..n -> Scalar]
      /\ \A k \in 1..B : EvalCom(g, Slots(B)[k]) \cong value
      /\ g[1] \cong value
  BY <1>2, PackedPolySound
<1>4. m = ReshareProduct(C, j, g, a, b, cheat)
  BY <1>2
<1>5. m.com \in Com(n) /\ m.sh \in [C.ids -> Scalar]
  BY <1>3, <1>4, ReshareProductTyped
<1>6. SUFFICES ASSUME Straight(cheat, j) PROVE Accepted(j, a, b, m) /\ SlotsAgree(B, m.com, m.com[1])
  BY <1>5
<1>7. TakesProduct(g, j, a, b)
  BY <1>3, CongTrans DEF TakesProduct, Stands
<1>8. Accepted(j, a, b, m) /\ m.com = Commit(g)
  BY <1>3, <1>4, <1>6, <1>7, ReshareFits
<1>9. PICK A : A = m.com /\ A = Commit(g) /\ A \in Com(n)
  BY <1>5, <1>8
<1>10. g \in [1..n -> Int] /\ g[1] \in Int /\ Gen \in Int /\ 1 \in 1..n
  <2>1. 1 \in 1..n
    BY <1>3
  <2>2. g \in [1..n -> Int] /\ Gen \in Int
    BY <1>3, ScalarInt
  <2> QED
    BY <2>1, <2>2
<1>11. /\ A[1] \cong Gen * g[1] /\ A[1] \in Scalar
       /\ \A x \in Int : EvalCom(A, x) \cong Gen * EvalPoly(g, x) /\ EvalCom(A, x) \in Scalar
  BY <1>3, <1>9, <1>10, CommitSound, AtZeroIsFirst, ComTyped
<1>12. Gen * g[1] \cong Gen * value
  BY <1>3, <1>10, CongWith
<1>13. ASSUME NEW s \in Range(Slots(B)) PROVE EvalCom(A, s) = A[1]
  <2>1. PICK k \in 1..B : s = Slots(B)[k]
    BY SlotsTyped DEF Range
  <2>2. s \in Int
    BY <2>1, SlotsTyped, ScalarInt
  <2>3. EvalPoly(g, s) = EvalCom(g, s) /\ EvalCom(g, s) \in Int
    BY <1>10, <1>3, <2>2, EvalIsFold, EvalInt
  <2>4. PICK e \in Int : e = EvalPoly(g, s) /\ e \cong value
    BY <1>3, <2>1, <2>3
  <2>5. Gen * e \cong Gen * value
    BY <1>10, <2>4, CongWith
  <2>6. EvalCom(A, s) \cong Gen * e /\ EvalCom(A, s) \in Scalar
    BY <1>11, <2>2, <2>4
  <2>7. EvalCom(A, s) \cong A[1]
    BY <1>11, <1>12, <2>5, <2>6 DEF \cong
  <2> QED
    BY <1>11, <2>6, <2>7, ScalarsEqual
<1> QED
  BY <1>8, <1>9, <1>13 DEF SlotsAgree

LEMMA GeneratePackedBlames ==
  ASSUME NEW C, Places(C.ids), C.t \in Nat, C.t > 0, NEW B \in Nat, B > 0,
         NEW seed, NEW cheat, NEW out, out = GeneratePacked(C, seed, B, cheat)
  PROVE  Blames(out, Culprits(cheat))
<1>1. PICK n \in Nat : n = PackedDegree(C, B) + 1 /\ PackedDegree(C, B) \in Nat
  BY DEF PackedDegree
<1>2. PICK ab : ab = JointRandomPacked(C, Fork(seed, 1), 2, PackedDegree(C, B))
  OBVIOUS
<1>3. ab.ok /\ Sharings(ab.val, 2, C.ids, n)
  <2>1. PICK two \in Nat : two = 2
    OBVIOUS
  <2>2. ab.ok /\ Sharings(ab.val, two, C.ids, PackedDegree(C, B) + 1)
    BY <1>1, <1>2, <2>1, JointPackedSound
  <2> QED
    BY <1>1, <2>1, <2>2
<1>4. PICK a, b : a = ab.val[1] /\ b = ab.val[2]
  OBVIOUS
<1>5. Held(a, C.ids, n) /\ Held(b, C.ids, n)
  BY <1>3, <1>4 DEF Sharings
<1>6. PICK m : m = Tabulate([j \in C.ids |-> ReshareProduct(C, j,
        PackedPoly(C, Fork(seed, 3), B, (a.sh[j] * b.sh[j]) % Q, j), a, b, cheat)])
  OBVIOUS
<1>7. PICK F : F = [j \in C.ids |-> CheckPacked(j, B, a, b, m[j])]
  OBVIOUS
<1>8. PICK sent : sent = Loop(Tabulate(F), C.ids)
  OBVIOUS
<1>9. PICK T : T = [k \in 1..B |-> Triple(a, b, Recombine(C, Lagrange(Slots(B)[k], C.ids), m))]
  OBVIOUS
<1>10. out = IF ~PackedFits(C, B) THEN Fail("params") ELSE IF sent.ok THEN Ok(Tabulate(T)) ELSE sent
  BY <1>2, <1>3, <1>4, <1>6, <1>7, <1>8, <1>9 DEF GeneratePacked, Then, Each, Loop
<1>11. C.ids \in SUBSET Nat
  BY ScalarInt DEF Places
<1>12. ASSUME NEW j \in C.ids PROVE Blames(Tabulate(F)[j], Culprits(cheat))
  <2>1. PICK mj, v : mj = m[j] /\ v = CheckPacked(j, B, a, b, mj)
    OBVIOUS
  <2>2. mj = ReshareProduct(C, j, PackedPoly(C, Fork(seed, 3), B, (a.sh[j] * b.sh[j]) % Q, j), a, b, cheat)
    BY <1>6, <2>1, TabulateIs
  <2>3. PICK value \in Int : value = (a.sh[j] * b.sh[j]) % Q /\ Stands(value, j, a, b)
    <3>1. a.sh[j] \in Int /\ b.sh[j] \in Int
      BY <1>5, ScalarInt DEF Held
    <3>2. a.sh[j] * b.sh[j] \in Int
      BY <3>1
    <3> QED
      BY <3>2, Reduce, ScalarInt DEF Stands
  <2>9. PICK s : s = Fork(seed, 3) /\ mj = ReshareProduct(C, j, PackedPoly(C, s, B, value, j), a, b, cheat)
    BY <2>2, <2>3
  <2>4. /\ DOMAIN mj.sh = C.ids
        /\ Straight(cheat, j) => Accepted(j, a, b, mj) /\ SlotsAgree(B, mj.com, mj.com[1])
    BY <1>1, <1>5, <2>3, <2>9, PackedAccepted
  <2>5. v = IF ProofFails(j, a, b, mj) \/ ~SlotsAgree(B, mj.com, mj.com[1])
            THEN Abort({j}) ELSE SharesOrBlame(j, mj)
    BY <2>1 DEF CheckPacked
  <2>6. Names(v, j) /\ (Straight(cheat, j) => v.ok)
    BY <1>11, <2>4, <2>5, SharesNames DEF Names, Accepted
  <2>7. ~v.ok => j \in Culprits(cheat)
    BY <2>6, CrookedBlamed
  <2>8. Tabulate(F)[j] = v
    BY <1>7, <2>1, TabulateIs
  <2> QED
    BY <2>6, <2>7, <2>8, NamedBlamed
<1>13. Blames(sent, Culprits(cheat))
  BY <1>8, <1>11, <1>12, LoopBlames
<1>14. "params" # "abort"
  OBVIOUS
<1> QED
  BY <1>10, <1>13, <1>14, BlameRules

(* In a batch, the triple that was dealt wrongly blames its dealer.        *)
LEMMA CheckBatchBlames ==
  ASSUME NEW j, NEW as, NEW bs, NEW ms, DOMAIN ms \in SUBSET Nat, NEW W,
         \A k \in DOMAIN ms : DOMAIN ms[k].sh \in SUBSET Nat /\ (j \in W \/ Accepted(j, as[k], bs[k], ms[k])),
         NEW out, out = CheckBatch(j, as, bs, ms)
  PROVE  Blames(out, W)
<1> DEFINE together == VerifyBatch([k \in DOMAIN ms |-> EvalCom(bs[k].com, j)],
                                   [k \in DOMAIN ms |-> ms[k].proof])
           F == [k \in DOMAIN ms |->
                  IF \/ ~ProofBinds(j, as[k], ms[k])
                     \/ ~together /\ ~VerifyDleq(EvalCom(bs[k].com, j), ms[k].proof)
                  THEN Abort({j})
                  ELSE SharesOrBlame(j, ms[k])]
<1>1. out = Loop(Tabulate(F), DOMAIN ms)
  BY DEF CheckBatch, Each, Loop
<1>2. PICK f, tg : f = F /\ tg = together
  OBVIOUS
<1>3. \A k \in DOMAIN ms :
        f[k] = IF ~ProofBinds(j, as[k], ms[k]) \/ (~tg /\ ~VerifyDleq(EvalCom(bs[k].com, j), ms[k].proof))
               THEN Abort({j}) ELSE SharesOrBlame(j, ms[k])
  BY <1>2
<1>4. out = Loop(f, DOMAIN ms)
  BY <1>1, <1>2, TabulateIs
<1> HIDE DEF F, together
<1>5. ASSUME NEW k \in DOMAIN ms PROVE Blames(f[k], W)
  <2>1. PICK v, mk : v = f[k] /\ mk = ms[k]
    OBVIOUS
  <2>2. v = IF ~ProofBinds(j, as[k], mk) \/ (~tg /\ ~VerifyDleq(EvalCom(bs[k].com, j), mk.proof))
            THEN Abort({j}) ELSE SharesOrBlame(j, mk)
    BY <1>3, <2>1
  <2>3. DOMAIN mk.sh \in SUBSET Nat /\ (j \in W \/ Accepted(j, as[k], bs[k], mk))
    BY <2>1
  <2>4. Names(v, j)
    BY <2>2, <2>3, SharesNames DEF Names
  <2>5. Accepted(j, as[k], bs[k], mk) => v.ok
    BY <2>2 DEF Accepted, ProofFails
  <2> QED
    BY <2>1, <2>3, <2>4, <2>5, NamedBlamed
<1> QED
  BY <1>4, <1>5, LoopBlames

LEMMA GenerateBatchBlames ==
  ASSUME NEW C, Places(C.ids), C.t \in Nat, C.t > 0, NEW seed, NEW count \in Nat, NEW cheat,
         NEW out, out = GenerateBatch(C, seed, count, cheat)
  PROVE  Blames(out, Culprits(cheat))
<1>1. PICK A : A = JointRandomBatch(C, Fork(seed, 1), 2 * count)
  OBVIOUS
<1>2. PICK as, bs : as = SubSeq(A.val, 1, count) /\ bs = SubSeq(A.val, count + 1, 2 * count)
  OBVIOUS
<1>3. PICK c : c = [k \in 1..count |-> IF cheat.at = k THEN cheat ELSE Honest]
  OBVIOUS
<1>4. PICK m : m = Tabulate([k \in 1..count |-> Reshares(C, Fork(seed, k), as[k], bs[k], c[k])])
  OBVIOUS
<1>5. PICK F : F = [j \in C.ids |-> CheckBatch(j, as, bs, [k \in 1..count |-> m[k][j]])]
  OBVIOUS
<1>6. PICK sent : sent = Loop(Tabulate(F), C.ids)
  OBVIOUS
<1>7. PICK trs : trs = [k \in 1..count |-> Triple(as[k], bs[k], Recombine(C, Lagrange(0, C.ids), m[k]))]
  OBVIOUS
<1>8. out = IF A.ok THEN IF sent.ok THEN Ok(Tabulate(trs)) ELSE sent ELSE A
  <2>1. m = Tabulate([k \in 1..count |->
              Reshares(C, Fork(seed, k), as[k], bs[k], IF cheat.at = k THEN cheat ELSE Honest)])
    BY <1>3, <1>4
  <2> QED
    BY <1>1, <1>2, <1>5, <1>6, <1>7, <2>1 DEF GenerateBatch, Then, Each, Loop
<1>9. C.ids \in SUBSET Nat
  BY ScalarInt DEF Places
<1>10. A.ok /\ Sharings(as, count, C.ids, C.t) /\ Sharings(bs, count, C.ids, C.t)
  <2>1. 2 * count \in Nat
    OBVIOUS
  <2>2. A.ok /\ Sharings(A.val, 2 * count, C.ids, C.t)
    BY <1>1, <2>1, JointBatchSound
  <2> QED
    BY <1>2, <2>2, Halves
<1>11. ASSUME NEW j \in C.ids PROVE Blames(Tabulate(F)[j], Culprits(cheat))
  <2>1. PICK ms : ms = [k \in 1..count |-> m[k][j]]
    OBVIOUS
  <2>2. PICK W : W = Culprits(cheat)
    OBVIOUS
  <2>3. ASSUME NEW k \in 1..count
        PROVE  DOMAIN ms[k].sh \in SUBSET Nat /\ (j \in W \/ Accepted(j, as[k], bs[k], ms[k]))
    <3>1. PICK a, b, mk, ck : a = as[k] /\ b = bs[k] /\ mk = m[k] /\ ck = c[k]
      OBVIOUS
    <3>2. Held(a, C.ids, C.t) /\ Held(b, C.ids, C.t)
      BY <1>10, <3>1 DEF Sharings
    <3>3. mk = Reshares(C, Fork(seed, k), a, b, ck)
      <4>1. PICK g : g = [i \in 1..count |-> Reshares(C, Fork(seed, i), as[i], bs[i], c[i])]
        OBVIOUS
      <4>2. m = g
        BY <1>4, <4>1, TabulateIs
      <4> QED
        BY <3>1, <4>1, <4>2
    <3>4. PICK s : s = Fork(seed, k)
      OBVIOUS
    <3>5. DOMAIN mk[j].sh = C.ids /\ (Straight(ck, j) => Accepted(j, a, b, mk[j]))
      BY <3>2, <3>3, <3>4, ResharesAccepted
    <3>6. Straight(ck, j) \/ j \in W
      <4>1. ck = cheat \/ ck = Honest
        BY <1>3, <3>1
      <4> QED
        BY <2>2, <4>1, CrookedBlamed, HonestStraight
    <3>7. ms[k] = mk[j]
      BY <2>1, <3>1
    <3> QED
      BY <1>9, <3>1, <3>5, <3>6, <3>7
  <2>4. DOMAIN ms = 1..count /\ DOMAIN ms \in SUBSET Nat
    BY <2>1
  <2>5. PICK v : v = CheckBatch(j, as, bs, ms)
    OBVIOUS
  <2>6. Blames(v, W)
    BY <2>3, <2>4, <2>5, CheckBatchBlames
  <2>7. F[j] = v
    BY <1>5, <2>1, <2>5
  <2>8. Tabulate(F)[j] = v
    BY <2>7, TabulateIs
  <2> QED
    BY <2>2, <2>6, <2>8
<1>12. Blames(sent, Culprits(cheat))
  BY <1>6, <1>9, <1>11, LoopBlames
<1> QED
  BY <1>8, <1>10, <1>12, BlameRules

-----------------------------------------------------------------------------
(* Blame for a presignature *)

(* Shares that fit are opened; of those that were made wrong, only the     *)
(* senders are blamed.                                                     *)
LEMMA HeldOpens ==
  ASSUME NEW n \in Nat, NEW S \in SUBSET Scalar, Cardinality(S) >= n, NEW X, Held(X, S, n),
         NEW s \in Int, NEW out, out = OpenAt(s, n, X)
  PROVE  out.ok
<1>1. Openable(X, n) /\ BadShares(X) = {} /\ DOMAIN X.sh = S
  BY HeldOpenable
<1>2. n <= n /\ ~(Cardinality(S) < n)
  BY ScalarsFinite
<1> QED
  BY <1>1, <1>2, OpenSound

LEMMA SpoiltBlames ==
  ASSUME NEW n \in Nat, NEW S \in SUBSET Scalar, Cardinality(S) >= n, NEW X, Held(X, S, n),
         NEW who, NEW s \in Int, NEW out, out = OpenAt(s, n, Spoil(X, who))
  PROVE  Blames(out, who)
<1>1. PICK Y : Y = Spoil(X, who)
  OBVIOUS
<1>2. Openable(Y, n) /\ DOMAIN Y.sh = S /\ BadShares(Y) \subseteq who
  <2>1. IsSpoilt(Y, X, S, n, who)
    BY Zenon, <1>1, SpoilBad
  <2> QED
    BY <2>1 DEF IsSpoilt
<1>3. n <= n /\ ~(Cardinality(S) < n)
  BY ScalarsFinite
<1>4. out.ok \/ (BadShares(Y) # {} /\ out = Abort(BadShares(Y)))
  BY <1>1, <1>2, <1>3, OpenSound
<1> QED
  BY <1>2, <1>4, BlameRules

LEMMA ProductOpens ==
  ASSUME NEW n \in Nat, n > 0, NEW S \in SUBSET Scalar, Cardinality(S) >= n, NEW s \in Int,
         NEW tr, Multiplies(tr, S, n, s), NEW x, NEW y, Held(x, S, n), Held(y, S, n),
         NEW out, out = Product(s, n, tr, x, y)
  PROVE  out.ok
<1>1. PICK X, Y : X = Minus(x, tr.a) /\ Y = Minus(y, tr.b)
  OBVIOUS
<1>2. Held(tr.a, S, n) /\ Held(tr.b, S, n)
  BY DEF Multiplies
<1>3. Held(X, S, n) /\ Held(Y, S, n)
  BY <1>1, <1>2, MinusHeld
<1>4. PICK D, E : D = OpenAt(s, n, X) /\ E = OpenAt(s, n, Y)
  OBVIOUS
<1>5. out = IF D.ok THEN IF E.ok THEN Ok(Beaver(tr, D.val, E.val)) ELSE E ELSE D
  BY <1>1, <1>4 DEF Product, Then
<1>6. D.ok /\ E.ok
  BY <1>3, <1>4, HeldOpens
<1> QED
  BY <1>5, <1>6, Results

(* P2: a wrong share of the masked product.                                *)
LEMMA InvertMaskBlames ==
  ASSUME NEW n \in Nat, n > 0, NEW S \in SUBSET Scalar, Cardinality(S) >= n, NEW s \in Int,
         NEW tr, Multiplies(tr, S, n, s), NEW u, NEW a, Held(u, S, n), Held(a, S, n), NEW cheat,
         NEW out, out = InvertMask(s, n, tr, u, a, cheat)
  PROVE  Blames(out, Culprits(cheat))
<1>1. PICK P : P = Product(s, n, tr, u, a)
  OBVIOUS
<1>2. PICK p, who : p = P.val /\ who = WrongIn("open", cheat)
  OBVIOUS
<1>3. PICK V : V = OpenAt(s, n, Spoil(p, who))
  OBVIOUS
<1>4. out = IF P.ok THEN IF V.ok THEN IF V.val = 0 THEN Fail("zero") ELSE Ok(Inv(V.val)) ELSE V ELSE P
  BY <1>1, <1>2, <1>3 DEF InvertMask, Then
<1>5. P.ok
  BY <1>1, ProductOpens
<1>6. Held(p, S, n)
  BY <1>1, <1>2, <1>5, ProductSound DEF Times2
<1>7. Blames(V, who)
  BY <1>3, <1>6, SpoiltBlames
<1>8. who \subseteq Culprits(cheat)
  BY <1>2, SenderBlamed
<1>9. Blames(V, Culprits(cheat))
  BY <1>7, <1>8 DEF Blames
<1>10. "zero" # "abort"
  OBVIOUS
<1> QED
  BY <1>4, <1>5, <1>9, <1>10, BlameRules

(* P3: a wrong point of the nonce.                                         *)
LEMMA WrongPointsSent ==
  ASSUME NEW n \in Nat, NEW S \in SUBSET Scalar, NEW k, Held(k, S, n), NEW cheat,
         NEW pts, pts = NoncePoints(k, DOMAIN k.sh, cheat)
  PROVE  DOMAIN pts = S /\ WrongPoints(k, pts) \subseteq S /\ WrongPoints(k, pts) \subseteq Culprits(cheat)
<1>1. DOMAIN k.sh = S
  BY DEF Held
<1>2. pts = [j \in S |-> (Gen * k.sh[j] + IF Does(cheat, "nonce", j) THEN Gen ELSE 0) % Q]
  BY <1>1, TabulateIs DEF NoncePoints
<1>3. ASSUME NEW j \in S, pts[j] # EvalCom(k.com, j) PROVE j \in Culprits(cheat)
  <2>1. PICK x \in Int, e \in Scalar : x = k.sh[j] /\ e = EvalCom(k.com, j)
    <3>1. k.sh[j] \in Scalar /\ j \in Int /\ Scalar \subseteq Int
      BY ScalarInt DEF Held
    <3>2. EvalCom(k.com, j) \in Scalar
      BY <3>1, HeldInt
    <3> QED
      BY <3>1, <3>2
  <2>2. PICK g \in Int : g = Gen * x
    BY <2>1, ScalarInt
  <2>3. e \cong g
    BY <2>1, <2>2 DEF Held
  <2>4. g % Q = e
    <3>1. g % Q \in Scalar /\ g % Q \cong g
      BY Reduce
    <3>2. g % Q \cong e
      BY <2>3, <3>1, CongTrans
    <3> QED
      BY <3>1, <3>2, ScalarsEqual
  <2>5. g + 0 = g
    OBVIOUS
  <2>6. ~Does(cheat, "nonce", j) => pts[j] = (g + 0) % Q
    BY <1>2, <2>1, <2>2
  <2>7. Does(cheat, "nonce", j)
    BY <1>3, <2>1, <2>4, <2>5, <2>6
  <2> QED
    BY <2>7, DeviatorBlamed
<1> QED
  BY <1>2, <1>3 DEF WrongPoints

LEMMA NonceBlames ==
  ASSUME NEW n \in Nat, NEW S \in SUBSET Scalar, NEW k, Held(k, S, n), NEW s, NEW cheat,
         NEW out, out = Nonce(s, k, cheat)
  PROVE  Blames(out, Culprits(cheat))
<1>1. PICK pts : pts = NoncePoints(k, DOMAIN k.sh, cheat)
  OBVIOUS
<1>2. PICK bad, P : bad = WrongPoints(k, pts) /\ P = FromPoint(Interpolate(s, pts))
  OBVIOUS
<1>3. out = IF bad # {} THEN Abort({Least(bad)}) ELSE P
  BY <1>1, <1>2 DEF Nonce
<1>4. bad \subseteq S /\ bad \subseteq Culprits(cheat)
  BY <1>1, <1>2, WrongPointsSent
<1>5. CASE bad # {}
  <2>1. PICK j \in bad : j = Least(bad)
    BY <1>4, <1>5, LeastIn, ScalarInt
  <2>2. {j} # {} /\ {j} \subseteq Culprits(cheat)
    BY <1>4, <2>1
  <2> QED
    BY <1>3, <1>5, <2>1, <2>2, BlameRules
<1>6. CASE bad = {}
  <2>1. P.ok \/ P = Fail("zero")
    BY <1>2, FromPointSound
  <2>2. "zero" # "abort"
    OBVIOUS
  <2> QED
    BY <1>3, <1>6, <2>1, <2>2, BlameRules
<1> QED
  BY <1>5, <1>6

(* A deviation injected at one place only, or in the first of a batch.     *)
LEMMA OnlyIfBlames ==
  ASSUME NEW cheat
  PROVE  /\ \A kinds : Culprits(OnlyIf(kinds, cheat)) \subseteq Culprits(cheat)
         /\ \A b : Culprits(AtFirst(b, cheat)) \subseteq Culprits(cheat)
<1>1. \A kinds : OnlyIf(kinds, cheat) = cheat \/ OnlyIf(kinds, cheat) = Honest
  BY DEF OnlyIf
<1>2. \A b : AtFirst(b, cheat) = cheat \/ AtFirst(b, cheat) = Honest
  BY DEF AtFirst
<1> QED
  BY <1>1, <1>2, HonestBlamesNone

(* The triples, the mask and the nonce of one presignature.                *)
LEMMA PresignBlames ==
  ASSUME NEW C, Places(C.ids), C.t \in Nat, C.t > 0, Cardinality(C.ids) >= 2 * C.t - 1,
         NEW key, Held(key, C.ids, C.t), NEW seed, NEW cheat,
         NEW out, out = Presign(C, key, seed, cheat)
  PROVE  Blames(out, Culprits(cheat))
<1>1. PICK c1 : c1 = OnlyIf(TripleCheats, cheat)
  OBVIOUS
<1>2. PICK g1, g2 : g1 = Generate(C, Fork(seed, 1), c1) /\ g2 = Generate(C, Fork(seed, 2), Honest)
  OBVIOUS
<1>3. PICK ru, ra : ru = JointRandom(C, Fork(seed, 3)) /\ ra = JointRandom(C, Fork(seed, 4))
  OBVIOUS
<1>4. PICK v : v = InvertMask(0, C.t, g1.val, ru.val, ra.val, cheat)
  OBVIOUS
<1>5. PICK k : k = Times(ra.val, v.val)
  OBVIOUS
<1>6. PICK p : p = Nonce(0, k, cheat)
  OBVIOUS
<1>7. PICK z : z = Product(0, C.t, g2.val, ru.val, key)
  OBVIOUS
<1>8. PICK rec : rec = Record(0, C.t, p.val, ru.val, z.val)
  OBVIOUS
<1>9. out = IF ~KeysMatch(C, key) THEN Fail("params") ELSE
            IF g1.ok THEN IF g2.ok THEN IF ru.ok THEN IF ra.ok THEN IF v.ok THEN IF p.ok THEN
            IF z.ok THEN Ok(rec) ELSE z ELSE p ELSE v ELSE ra ELSE ru ELSE g2 ELSE g1
  BY <1>1, <1>2, <1>3, <1>4, <1>5, <1>6, <1>7, <1>8 DEF Presign, TwoTriples, Ephemeral, Then
<1>10. PICK n \in Nat, s \in Int : n = C.t /\ s = 0
  OBVIOUS
<1>11. n > 0 /\ C.ids \in SUBSET Scalar /\ Cardinality(C.ids) >= n
  <2>1. C.ids \in SUBSET Scalar
    BY DEF Places
  <2>2. Cardinality(C.ids) \in Nat
    BY <2>1, ScalarsFinite
  <2> QED
    BY <1>10, <2>1, <2>2
<1>12. PICK W : W = Culprits(cheat)
  OBVIOUS
<1>13. Blames(g1, W)
  <2>1. Blames(g1, Culprits(c1))
    BY <1>2, GenerateBlames
  <2>2. Culprits(c1) \subseteq W
    BY <1>1, <1>12, OnlyIfBlames
  <2> QED
    BY <2>1, <2>2, BlamesMore
<1>14. g2.ok
  BY <1>2, GenerateHonest
<1>15. ru.ok /\ ra.ok /\ Held(ru.val, C.ids, n) /\ Held(ra.val, C.ids, n) /\ Held(key, C.ids, n)
  BY <1>3, <1>10, JointRandomSound
<1>16. Multiplies(g2.val, C.ids, n, s) /\ (g1.ok => Multiplies(g1.val, C.ids, n, s))
  BY <1>2, <1>10, <1>14, GenerateSound
<1>17. v = InvertMask(s, n, g1.val, ru.val, ra.val, cheat) /\ z = Product(s, n, g2.val, ru.val, key)
  BY <1>4, <1>7, <1>10
<1>18. g1.ok => Blames(v, W)
  BY <1>11, <1>12, <1>15, <1>16, <1>17, InvertMaskBlames
<1>19. g1.ok /\ v.ok => Blames(p, W)
  <2> SUFFICES ASSUME g1.ok, v.ok PROVE Blames(p, W)
    OBVIOUS
  <2>1. Inverts(v.val, ru.val, ra.val, s)
    BY <1>11, <1>15, <1>16, <1>17, InvertMaskSound
  <2>2. v.val \in Int
    BY <2>1, ScalarInt DEF Inverts
  <2>3. Held(k, C.ids, n)
    BY <1>5, <1>11, <1>15, <2>2, TimesHeld
  <2> QED
    BY <1>6, <1>11, <1>12, <2>3, NonceBlames
<1>20. z.ok
  BY <1>11, <1>15, <1>16, <1>17, ProductOpens
<1>21. "params" # "abort"
  OBVIOUS
<1> QED
  BY <1>9, <1>12, <1>13, <1>14, <1>15, <1>18, <1>19, <1>20, <1>21, BlameRules

LEMMA PresignKiBlames ==
  ASSUME NEW C, Places(C.ids), C.t \in Nat, C.t > 0, Cardinality(C.ids) >= 2 * C.t - 1,
         NEW seed, NEW cheat, NEW out, out = PresignKi(C, seed, cheat)
  PROVE  Blames(out, Culprits(cheat))
<1>1. PICK c1 : c1 = OnlyIf(TripleCheats, cheat)
  OBVIOUS
<1>2. PICK g : g = Generate(C, Fork(seed, 1), c1)
  OBVIOUS
<1>3. PICK ru, ra : ru = JointRandom(C, Fork(seed, 3)) /\ ra = JointRandom(C, Fork(seed, 4))
  OBVIOUS
<1>4. PICK v : v = InvertMask(0, C.t, g.val, ru.val, ra.val, cheat)
  OBVIOUS
<1>5. PICK k : k = Times(ra.val, v.val)
  OBVIOUS
<1>6. PICK p : p = Nonce(0, k, cheat)
  OBVIOUS
<1>7. PICK rec : rec = Record(0, C.t, p.val, ru.val, ru.val)
  OBVIOUS
<1>8. out = IF g.ok THEN IF ru.ok THEN IF ra.ok THEN IF v.ok THEN IF p.ok THEN Ok(rec)
            ELSE p ELSE v ELSE ra ELSE ru ELSE g
  BY <1>1, <1>2, <1>3, <1>4, <1>5, <1>6, <1>7 DEF PresignKi, Ephemeral, Then
<1>9. PICK n \in Nat, s \in Int : n = C.t /\ s = 0
  OBVIOUS
<1>10. n > 0 /\ C.ids \in SUBSET Scalar /\ Cardinality(C.ids) >= n
  <2>1. C.ids \in SUBSET Scalar
    BY DEF Places
  <2>2. Cardinality(C.ids) \in Nat
    BY <2>1, ScalarsFinite
  <2> QED
    BY <1>9, <2>1, <2>2
<1>11. PICK W : W = Culprits(cheat)
  OBVIOUS
<1>12. Blames(g, W)
  <2>1. Blames(g, Culprits(c1))
    BY <1>2, GenerateBlames
  <2>2. Culprits(c1) \subseteq W
    BY <1>1, <1>11, OnlyIfBlames
  <2> QED
    BY <2>1, <2>2, BlamesMore
<1>13. ru.ok /\ ra.ok /\ Held(ru.val, C.ids, n) /\ Held(ra.val, C.ids, n)
  BY <1>3, <1>9, JointRandomSound
<1>14. g.ok => Multiplies(g.val, C.ids, n, s)
  BY <1>2, <1>9, GenerateSound
<1>15. v = InvertMask(s, n, g.val, ru.val, ra.val, cheat)
  BY <1>4, <1>9
<1>16. g.ok => Blames(v, W)
  BY <1>10, <1>11, <1>13, <1>14, <1>15, InvertMaskBlames
<1>17. g.ok /\ v.ok => Blames(p, W)
  <2> SUFFICES ASSUME g.ok, v.ok PROVE Blames(p, W)
    OBVIOUS
  <2>1. Inverts(v.val, ru.val, ra.val, s)
    BY <1>10, <1>13, <1>14, <1>15, InvertMaskSound
  <2>2. v.val \in Int
    BY <2>1, ScalarInt DEF Inverts
  <2>3. Held(k, C.ids, n)
    BY <1>5, <1>10, <1>13, <2>2, TimesHeld
  <2> QED
    BY <1>6, <1>10, <1>11, <2>3, NonceBlames
<1> QED
  BY <1>8, <1>11, <1>12, <1>13, <1>16, <1>17, BlameRules

(* The rounds of a batch.                                                  *)
LEMMA BatchInversesBlames ==
  ASSUME NEW C, C.ids \in SUBSET Scalar, C.t \in Nat, C.t > 0, Cardinality(C.ids) >= C.t,
         NEW count \in Nat, NEW tr, TripleList(tr, 2 * count, C.ids, C.t),
         NEW us, NEW as, Sharings(us, count, C.ids, C.t), Sharings(as, count, C.ids, C.t),
         NEW cheat, NEW out, out = BatchInverses(C, tr, us, as, cheat)
  PROVE  Blames(out, Culprits(cheat))
<1>1. PICK F : F = [b \in DOMAIN us |-> InvertMask(0, C.t, tr[2 * b - 1], us[b], as[b], AtFirst(b, cheat))]
  OBVIOUS
<1>2. out = Loop(Tabulate(F), DOMAIN us)
  BY <1>1 DEF BatchInverses, Each, Loop
<1>3. DOMAIN us = 1..count /\ DOMAIN us \in SUBSET Nat
  BY DEF Sharings
<1>4. ASSUME NEW b \in DOMAIN us PROVE Blames(F[b], Culprits(cheat))
  <2>1. PICK n \in Nat, s \in Int : n = C.t /\ s = 0
    OBVIOUS
  <2>2. PICK t, u, a, v, c : t = tr[2 * b - 1] /\ u = us[b] /\ a = as[b] /\ v = F[b] /\ c = AtFirst(b, cheat)
    OBVIOUS
  <2>3. v = InvertMask(s, n, t, u, a, c)
    BY <1>1, <2>1, <2>2
  <2>4. Held(u, C.ids, n) /\ Held(a, C.ids, n)
    BY <1>3, <2>1, <2>2 DEF Sharings
  <2>5. 2 * b - 1 \in 1..(2 * count)
    BY <1>3
  <2>6. Multiplies(t, C.ids, n, s)
    BY <2>1, <2>2, <2>5 DEF TripleList
  <2>7. n > 0 /\ Cardinality(C.ids) >= n
    BY <2>1
  <2>8. Blames(v, Culprits(c))
    BY <2>3, <2>4, <2>6, <2>7, InvertMaskBlames
  <2>9. Culprits(c) \subseteq Culprits(cheat)
    BY <2>2, OnlyIfBlames
  <2> QED
    BY <2>2, <2>8, <2>9, BlamesMore
<1>5. \A b \in DOMAIN us : Blames(Tabulate(F)[b], Culprits(cheat))
  BY <1>4, TabulateIs
<1> QED
  BY <1>2, <1>3, <1>5, LoopBlames

LEMMA BatchNoncesBlames ==
  ASSUME NEW C, C.ids \in SUBSET Scalar, C.t \in Nat, NEW count \in Nat, NEW as, Sharings(as, count, C.ids, C.t),
         NEW vinv, \A b \in 1..count : vinv[b] \in Int,
         NEW cheat, NEW out, out = BatchNonces(as, vinv, cheat)
  PROVE  Blames(out, Culprits(cheat))
<1>1. PICK F : F = [b \in DOMAIN as |-> Nonce(0, Times(as[b], vinv[b]), AtFirst(b, cheat))]
  OBVIOUS
<1>2. out = Loop(Tabulate(F), DOMAIN as)
  BY <1>1 DEF BatchNonces, Each, Loop
<1>3. DOMAIN as = 1..count /\ DOMAIN as \in SUBSET Nat
  BY DEF Sharings
<1>4. ASSUME NEW b \in DOMAIN as PROVE Blames(F[b], Culprits(cheat))
  <2>1. PICK a, v, i, k, c : a = as[b] /\ v = F[b] /\ i = vinv[b] /\ k = Times(a, i) /\ c = AtFirst(b, cheat)
    OBVIOUS
  <2>2. v = Nonce(0, k, c)
    BY <1>1, <2>1
  <2>3. Held(a, C.ids, C.t) /\ i \in Int
    BY <1>3, <2>1 DEF Sharings
  <2>4. Held(k, C.ids, C.t)
    BY <2>1, <2>3, TimesHeld
  <2>5. Blames(v, Culprits(c))
    BY <2>2, <2>4, NonceBlames
  <2>6. Culprits(c) \subseteq Culprits(cheat)
    BY <2>1, OnlyIfBlames
  <2> QED
    BY <2>1, <2>5, <2>6, BlamesMore
<1>5. \A b \in DOMAIN as : Blames(Tabulate(F)[b], Culprits(cheat))
  BY <1>4, TabulateIs
<1> QED
  BY <1>2, <1>3, <1>5, LoopBlames

LEMMA BatchRecordsBlame ==
  ASSUME NEW C, C.ids \in SUBSET Scalar, C.t \in Nat, C.t > 0, Cardinality(C.ids) >= C.t, NEW count \in Nat,
         NEW tr, TripleList(tr, 2 * count, C.ids, C.t), NEW us, Sharings(us, count, C.ids, C.t),
         NEW key, Held(key, C.ids, C.t), NEW p, NEW W,
         NEW out, out = BatchRecords(C, key, tr, us, p)
  PROVE  Blames(out, W)
<1>1. PICK P : P = [b \in DOMAIN us |-> Product(0, C.t, tr[2 * b], us[b], key)]
  OBVIOUS
<1>2. PICK F : F = [b \in DOMAIN us |->
                      IF P[b].ok THEN Ok(Record(0, C.t, p[b], us[b], P[b].val)) ELSE P[b]]
  OBVIOUS
<1>3. out = Loop(Tabulate(F), DOMAIN us)
  <2>1. F = [b \in DOMAIN us |-> Then(Product(0, C.t, tr[2 * b], us[b], key),
                                      LAMBDA z : Ok(Record(0, C.t, p[b], us[b], z)))]
    BY <1>1, <1>2 DEF Then
  <2> QED
    BY <2>1 DEF BatchRecords, Each, Loop
<1>4. DOMAIN us = 1..count /\ DOMAIN us \in SUBSET Nat
  BY DEF Sharings
<1>5. ASSUME NEW b \in DOMAIN us PROVE Blames(F[b], W)
  <2>1. PICK n \in Nat, s \in Int : n = C.t /\ s = 0
    OBVIOUS
  <2>2. PICK t, u, z : t = tr[2 * b] /\ u = us[b] /\ z = P[b]
    OBVIOUS
  <2>3. z = Product(s, n, t, u, key)
    BY <1>1, <2>1, <2>2
  <2>4. Held(u, C.ids, n) /\ Held(key, C.ids, n)
    BY <1>4, <2>1, <2>2 DEF Sharings
  <2>5. 2 * b \in 1..(2 * count)
    BY <1>4
  <2>6. Multiplies(t, C.ids, n, s)
    BY <2>1, <2>2, <2>5 DEF TripleList
  <2>7. n > 0 /\ Cardinality(C.ids) >= n
    BY <2>1
  <2>8. z.ok
    BY <2>3, <2>4, <2>6, <2>7, ProductOpens
  <2>9. F[b] = Ok(Record(0, C.t, p[b], us[b], P[b].val))
    BY <1>2, <2>2, <2>8
  <2> QED
    BY <2>9, BlameRules
<1>6. \A b \in DOMAIN us : Blames(Tabulate(F)[b], W)
  BY <1>5, TabulateIs
<1> QED
  BY <1>3, <1>4, <1>6, LoopBlames

LEMMA PresignBatchBlames ==
  ASSUME NEW C, Places(C.ids), C.t \in Nat, C.t > 0, Cardinality(C.ids) >= 2 * C.t - 1,
         NEW key, Held(key, C.ids, C.t), NEW seed, NEW count \in Nat, NEW cheat,
         NEW out, out = PresignBatch(C, key, seed, count, cheat)
  PROVE  Blames(out, Culprits(cheat))
<1>1. PICK g, A : g = GenerateBatch(C, Fork(seed, 1), 2 * count, Honest)
                  /\ A = JointRandomBatch(C, Fork(seed, 3), 2 * count)
  OBVIOUS
<1>2. PICK us, as : us = SubSeq(A.val, 1, count) /\ as = SubSeq(A.val, count + 1, 2 * count)
  OBVIOUS
<1>3. PICK tr : tr = g.val
  OBVIOUS
<1>4. PICK v : v = BatchInverses(C, tr, us, as, cheat)
  OBVIOUS
<1>5. PICK vinv : vinv = v.val
  OBVIOUS
<1>6. PICK p : p = BatchNonces(as, vinv, cheat)
  OBVIOUS
<1>7. PICK q : q = p.val
  OBVIOUS
<1>8. PICK r : r = BatchRecords(C, key, tr, us, q)
  OBVIOUS
<1>9. out = IF ~KeysMatch(C, key) \/ count = 0 THEN Fail("params") ELSE
            IF g.ok THEN IF A.ok THEN IF v.ok THEN IF p.ok THEN r ELSE p ELSE v ELSE A ELSE g
  BY <1>1, <1>2, <1>3, <1>4, <1>5, <1>6, <1>7, <1>8 DEF PresignBatch, Then
<1>10. 2 * count \in Nat /\ C.ids \in SUBSET Scalar /\ Cardinality(C.ids) >= C.t
  <2>1. C.ids \in SUBSET Scalar
    BY DEF Places
  <2>2. Cardinality(C.ids) \in Nat
    BY <2>1, ScalarsFinite
  <2> QED
    BY <2>1, <2>2
<1>11. PICK W : W = Culprits(cheat)
  OBVIOUS
<1>12. Blames(g, W)
  BY <1>1, <1>10, GenerateBatchBlames, HonestBlames
<1>13. A.ok /\ Sharings(us, count, C.ids, C.t) /\ Sharings(as, count, C.ids, C.t)
  <2>1. A.ok /\ Sharings(A.val, 2 * count, C.ids, C.t)
    BY <1>1, <1>10, JointBatchSound
  <2> QED
    BY <1>2, <2>1, Halves
<1>14. g.ok => TripleList(tr, 2 * count, C.ids, C.t)
  BY <1>1, <1>3, <1>10, GenerateBatchSound
<1>15. g.ok => Blames(v, W)
  BY <1>4, <1>10, <1>11, <1>13, <1>14, BatchInversesBlames
<1>16. g.ok /\ v.ok => Blames(p, W)
  <2> SUFFICES ASSUME g.ok, v.ok PROVE Blames(p, W)
    OBVIOUS
  <2>1. \A b \in 1..count : Inverts(vinv[b], us[b], as[b], 0)
    BY <1>4, <1>5, <1>10, <1>13, <1>14, BatchInversesSound
  <2>2. \A b \in 1..count : vinv[b] \in Int
    BY <2>1, ScalarInt DEF Inverts
  <2> QED
    BY <1>6, <1>10, <1>11, <1>13, <2>2, BatchNoncesBlames
<1>17. g.ok => Blames(r, W)
  BY <1>8, <1>10, <1>13, <1>14, BatchRecordsBlame
<1>18. "params" # "abort"
  OBVIOUS
<1> QED
  BY <1>9, <1>11, <1>12, <1>13, <1>15, <1>16, <1>17, <1>18, BlameRules

-----------------------------------------------------------------------------
(* Blame for a pack *)

(* A dealer that re-shares its part of the key at every slot is bound.     *)
LEMMA KeyBoundHonest ==
  ASSUME NEW C, Places(C.ids), C.t \in Nat, C.t > 0, NEW key, Held(key, C.ids, C.t), NEW seed,
         NEW B \in Nat, B > 0, NEW n, n = PackedDegree(C, B) + 1, NEW j \in C.ids, NEW cheat,
         ~Does(cheat, "key", j), NEW p, p = PackedDealing(C, key, seed, B, j, cheat)[3]
  PROVE  KeyBound(C, key, B, j, Commit(p))
<1>1. PICK S \in SUBSET Scalar, z \in Int : S = C.ids /\ z = 0
  BY DEF Places
<1>2. PICK w \in Int : w = Lagrange(0, C.ids)[j]
  <2>1. Lagrange(z, S)[j] = Weight(z, S, j)
    BY <1>1, LagrangeIs
  <2>2. Weight(z, S, j) \in Int
    BY <1>1, WeightInt
  <2> QED
    BY <1>1, <2>1, <2>2
<1>3. PICK x \in Int : x = key.sh[j] /\ EvalCom(key.com, j) \cong Gen * x
  BY ScalarInt DEF Held
<1>4. PICK e \in Int : e = EvalCom(key.com, j)
  <2>1. j \in Int
    BY <1>1, ScalarInt
  <2> QED
    BY <2>1, HeldInt
<1>5. PICK part \in Scalar : part = KeyPart(C, key, j) /\ part \cong w * x
  <2>1. w * x \in Int
    OBVIOUS
  <2>2. KeyPart(C, key, j) = (w * x) % Q
    BY <1>2, <1>3 DEF KeyPart
  <2> QED
    BY <2>1, <2>2, Reduce
<1>6. (part + 0) % Q = part /\ part \in Int
  <2>1. part \in Int /\ part + 0 = part
    BY ScalarInt
  <2> QED
    BY <2>1, Reduce
<1>7. p = PackedPoly(C, Fork(seed, 4), B, part, j)
  <2>1. PICK rand : rand = RandomPolys(Fork(seed, 3), j, 2, PackedDegree(C, B) + 1)
    OBVIOUS
  <2>2. PICK pk : pk = PackedPoly(C, Fork(seed, 4), B, part, j)
    OBVIOUS
  <2>3. PackedDealing(C, key, seed, B, j, cheat) = rand \o <<pk>>
    BY <1>5, <1>6, <2>1, <2>2 DEF PackedDealing
  <2>4. n \in Nat /\ pk \in [1..n -> Scalar]
    BY <1>6, <2>2, PackedPolySound
  <2>5. PICK V : V = [1..n -> Scalar]
    OBVIOUS
  <2>6. rand \in [1..2 -> V]
    BY <2>1, <2>4, <2>5, RandomTyped
  <2>7. rand \in Seq(V) /\ Len(rand) = 2
    <3>1. PICK two \in Nat : two = 2
      OBVIOUS
    <3> QED
      BY <2>6, <3>1, FunctionIsSeq
  <2>8. rand \o <<pk>> = Append(rand, pk) /\ pk \in V
    BY <2>4, <2>5, <2>7, AppendIsConcat
  <2>9. Append(rand, pk)[Len(rand) + 1] = pk
    BY <2>7, <2>8, AppendProperties
  <2>10. (rand \o <<pk>>)[3] = pk
    <3>1. PICK d, m : d = Append(rand, pk) /\ m = Len(rand)
      OBVIOUS
    <3>2. m + 1 = 3
      BY <2>7, <3>1
    <3>3. d[m + 1] = pk
      BY <2>9, <3>1
    <3> QED
      BY <2>8, <3>1, <3>2, <3>3
  <2> QED
    BY <2>2, <2>3, <2>10
<1>8. /\ n \in Nat /\ n > 0 /\ p \in [1..n -> Scalar]
      /\ \A b \in 1..B : EvalCom(p, Slots(B)[b]) \cong part
  <2>1. PICK sd : sd = Fork(seed, 4)
    OBVIOUS
  <2>2. p = PackedPoly(C, sd, B, part, j)
    BY <1>7, <2>1
  <2> QED
    BY <1>6, <2>2, PackedPolySound
<1>9. PICK A : A = Commit(p)
  OBVIOUS
<1>10. p \in [1..n -> Int] /\ A \in Com(n) /\ \A y \in Int : EvalCom(A, y) \cong Gen * EvalPoly(p, y)
  <2>1. p \in [1..n -> Int]
    BY <1>8, ScalarInt
  <2> QED
    BY <1>8, <1>9, <2>1, CommitSound
<1>11. PICK v \in Scalar : v = (e * w) % Q /\ v \cong e * w
  <2>1. e * w \in Int
    OBVIOUS
  <2> QED
    BY <2>1, Reduce
<1>12. Gen * part \cong e * w
  <2>1. Gen \in Int
    BY ScalarInt
  <2>2. Gen * part \cong Gen * (w * x)
    <3>1. PICK wx \in Int : wx = w * x
      OBVIOUS
    <3>2. part \cong wx
      BY <1>5, <3>1
    <3> QED
      BY <1>6, <2>1, <3>1, <3>2, CongWith
  <2>3. PICK gx \in Int : gx = Gen * x
    BY <2>1
  <2>4. Gen * (w * x) = gx * w
    BY <2>1, <2>3
  <2>5. gx * w \cong e * w
    <3>1. gx \cong e
      BY <1>3, <1>4, <2>3, CongTrans
    <3> QED
      BY <3>1, CongWith
  <2> QED
    BY <2>2, <2>4, <2>5, CongTrans
<1>13. ASSUME NEW s \in Range(Slots(B)) PROVE EvalCom(A, s) = v
  <2>1. PICK b \in 1..B : s = Slots(B)[b]
    BY SlotsTyped DEF Range
  <2>2. s \in Int
    BY <2>1, SlotsTyped, ScalarInt
  <2>3. PICK y \in Int : y = EvalPoly(p, s) /\ y \cong part
    BY <1>8, <1>10, <2>1, <2>2, EvalIsFold, EvalInt
  <2>4. Gen * y \cong Gen * part
    BY <1>6, <2>3, CongWith, ScalarInt
  <2>5. EvalCom(A, s) \cong Gen * y /\ EvalCom(A, s) \in Scalar
    BY <1>8, <1>10, <2>2, <2>3, ComTyped
  <2>6. EvalCom(A, s) \cong v
    BY <1>11, <1>12, <2>4, <2>5, CongTrans
  <2> QED
    BY <2>5, <2>6, ScalarsEqual
<1>14. SlotsAgree(B, A, v)
  BY <1>13 DEF SlotsAgree
<1> QED
  BY <1>2, <1>4, <1>9, <1>11, <1>14 DEF KeyBound

LEMMA PackedSharesBlame ==
  ASSUME NEW C, Places(C.ids), C.t \in Nat, C.t > 0, NEW key, Held(key, C.ids, C.t), NEW seed,
         NEW B \in Nat, B > 0, NEW cheat, NEW out, out = PackedShares(C, key, seed, B, cheat)
  PROVE  Blames(out, Culprits(cheat))
<1>1. PICK n \in Nat : n = PackedDegree(C, B) + 1
  BY DEF PackedDegree
<1>2. PICK polys : polys = [j \in C.ids |-> PackedDealing(C, key, seed, B, j, cheat)]
  OBVIOUS
<1>3. polys \in [C.ids -> [1..3 -> [1..n -> Scalar]]]
  BY <1>1, <1>2, PackedDealingTyped
<1>4. PICK deal, coms : deal = DealAll(C, n, polys, Honest) /\ coms = [i \in C.ids |-> Committed(polys[i])]
  OBVIOUS
<1>5. PICK bad : bad = {j \in C.ids : ~KeyBound(C, key, B, j, coms[j][3])}
  OBVIOUS
<1>6. out = IF deal.ok THEN IF bad # {} THEN Abort({Least(bad)}) ELSE Ok(deal.val) ELSE deal
  <2>1. PICK jd : jd = JointDeal(C, PackedDegree(C, B) + 1, Tabulate(polys))
    OBVIOUS
  <2>2. jd = IF deal.ok THEN Ok([out |-> deal.val, coms |-> coms]) ELSE deal
    BY <1>1, <1>4, <2>1, TabulateIs DEF JointDeal, Then
  <2>3. out = IF jd.ok
              THEN LET b == {j \in C.ids : ~KeyBound(C, key, B, j, jd.val.coms[j][3])}
                   IN  IF b # {} THEN Abort({Least(b)}) ELSE Ok(jd.val.out)
              ELSE jd
    BY <1>2, <2>1 DEF PackedShares, Then
  <2>4. jd.ok => jd.val.coms = coms /\ jd.val.out = deal.val /\ deal.ok
    BY <2>2, Results
  <2>5. ~jd.ok => ~deal.ok /\ jd = deal
    BY <2>2, Results
  <2> QED
    BY <1>5, <2>3, <2>4, <2>5
<1>7. Blames(deal, Culprits(cheat))
  <2>1. PICK three \in Nat : three = 3
    OBVIOUS
  <2>2. polys \in [C.ids -> [1..three -> [1..n -> Scalar]]]
    BY <1>3, <2>1
  <2>3. Blames(deal, Culprits(Honest))
    BY <1>4, <2>2, DealBlames
  <2> QED
    BY <2>3, HonestBlames
<1>8. ASSUME NEW j \in bad PROVE j \in Culprits(cheat)
  <2>1. PICK p : p = PackedDealing(C, key, seed, B, j, cheat)[3]
    OBVIOUS
  <2>2. j \in C.ids /\ ~KeyBound(C, key, B, j, coms[j][3])
    BY <1>5
  <2>3. coms[j][3] = Commit(p)
    <3>1. polys[j] = PackedDealing(C, key, seed, B, j, cheat) /\ DOMAIN polys[j] = 1..3
      BY <1>2, <1>3, <2>2
    <3>2. coms[j] = [b \in 1..3 |-> Commit(polys[j][b])]
      BY <1>4, <2>2, <3>1, TabulateIs DEF Committed
    <3> QED
      BY <2>1, <3>1, <3>2
  <2>4. ~Does(cheat, "key", j) => KeyBound(C, key, B, j, Commit(p))
    BY <1>1, <2>1, <2>2, KeyBoundHonest
  <2> QED
    BY <2>2, <2>3, <2>4, DeviatorBlamed
<1>9. CASE deal.ok /\ bad # {}
  <2>1. bad \subseteq Nat
    BY <1>5, ScalarInt DEF Places
  <2>2. PICK j \in bad : j = Least(bad)
    BY <1>9, <2>1, LeastIn
  <2>3. {j} # {} /\ {j} \subseteq Culprits(cheat)
    BY <1>8
  <2> QED
    BY <1>6, <1>9, <2>2, <2>3, BlameRules
<1> QED
  BY <1>6, <1>7, <1>9, BlameRules

(* The rounds at the slots.                                                *)
LEMMA SlotInversesBlame ==
  ASSUME NEW S \in SUBSET Scalar, NEW n \in Nat, n > 0, Cardinality(S) >= n, NEW B \in Nat,
         NEW slot, slot = Slots(B), NEW tr, PackedTriples(tr, B, S, n), NEW x,
         Held(x[1], S, n), Held(x[2], S, n),
         NEW cheat, NEW out, out = SlotInverses(n, slot, tr, x, cheat)
  PROVE  Blames(out, Culprits(cheat))
<1>1. PICK F : F = [b \in DOMAIN slot |-> InvertMask(slot[b], n, tr[b], x[1], x[2], AtFirst(b, cheat))]
  OBVIOUS
<1>2. out = Loop(Tabulate(F), DOMAIN slot)
  BY <1>1 DEF SlotInverses, Each, Loop
<1>3. DOMAIN slot = 1..B /\ DOMAIN slot \in SUBSET Nat /\ \A b \in 1..B : slot[b] \in Scalar
  BY SlotsTyped
<1>4. ASSUME NEW b \in DOMAIN slot PROVE Blames(F[b], Culprits(cheat))
  <2>1. PICK s \in Int : s = slot[b]
    BY <1>3, ScalarInt
  <2>2. PICK t, u, a, v, c : t = tr[b] /\ u = x[1] /\ a = x[2] /\ v = F[b] /\ c = AtFirst(b, cheat)
    OBVIOUS
  <2>3. v = InvertMask(s, n, t, u, a, c)
    BY <1>1, <2>1, <2>2
  <2>4. Held(u, S, n) /\ Held(a, S, n) /\ Multiplies(t, S, n, s)
    BY <1>3, <2>1, <2>2 DEF PackedTriples
  <2>5. Blames(v, Culprits(c))
    BY <2>3, <2>4, InvertMaskBlames
  <2>6. Culprits(c) \subseteq Culprits(cheat)
    BY <2>2, OnlyIfBlames
  <2> QED
    BY <2>2, <2>5, <2>6, BlamesMore
<1>5. \A b \in DOMAIN slot : Blames(Tabulate(F)[b], Culprits(cheat))
  BY <1>4, TabulateIs
<1> QED
  BY <1>2, <1>3, <1>5, LoopBlames

LEMMA SlotNoncesBlame ==
  ASSUME NEW S \in SUBSET Scalar, NEW n \in Nat, NEW B \in Nat, NEW slot, slot = Slots(B),
         NEW x, Held(x[2], S, n), NEW vinv, \A b \in 1..B : vinv[b] \in Int,
         NEW cheat, NEW out, out = SlotNonces(slot, x, vinv, cheat)
  PROVE  Blames(out, Culprits(cheat))
<1>1. PICK F : F = [b \in DOMAIN slot |-> Nonce(slot[b], Times(x[2], vinv[b]), AtFirst(b, cheat))]
  OBVIOUS
<1>2. out = Loop(Tabulate(F), DOMAIN slot)
  BY <1>1 DEF SlotNonces, Each, Loop
<1>3. DOMAIN slot = 1..B /\ DOMAIN slot \in SUBSET Nat
  BY SlotsTyped
<1>4. ASSUME NEW b \in DOMAIN slot PROVE Blames(F[b], Culprits(cheat))
  <2>1. PICK a, v, i, k, c, s :
           a = x[2] /\ v = F[b] /\ i = vinv[b] /\ k = Times(a, i) /\ c = AtFirst(b, cheat) /\ s = slot[b]
    OBVIOUS
  <2>2. v = Nonce(s, k, c)
    BY <1>1, <2>1
  <2>3. Held(a, S, n) /\ i \in Int
    BY <1>3, <2>1
  <2>4. Held(k, S, n)
    BY <2>1, <2>3, TimesHeld
  <2>5. Blames(v, Culprits(c))
    BY <2>2, <2>4, NonceBlames
  <2>6. Culprits(c) \subseteq Culprits(cheat)
    BY <2>1, OnlyIfBlames
  <2> QED
    BY <2>1, <2>5, <2>6, BlamesMore
<1>5. \A b \in DOMAIN slot : Blames(Tabulate(F)[b], Culprits(cheat))
  BY <1>4, TabulateIs
<1> QED
  BY <1>2, <1>3, <1>5, LoopBlames

LEMMA SlotRecordsBlame ==
  ASSUME NEW S \in SUBSET Scalar, NEW n \in Nat, n > 0, Cardinality(S) >= n, NEW B \in Nat,
         NEW slot, slot = Slots(B), NEW tr, PackedTriples(tr, B, S, n),
         NEW x, Held(x[1], S, n), Held(x[3], S, n), NEW p, NEW W,
         NEW out, out = SlotRecords(n, slot, tr, x, p)
  PROVE  Blames(out, W)
<1>1. PICK P : P = [b \in DOMAIN slot |-> Product(slot[b], n, tr[b], x[1], x[3])]
  OBVIOUS
<1>2. PICK F : F = [b \in DOMAIN slot |->
                      IF P[b].ok THEN Ok(Record(slot[b], n, p[b], x[1], P[b].val)) ELSE P[b]]
  OBVIOUS
<1>3. out = Loop(Tabulate(F), DOMAIN slot)
  <2>1. F = [b \in DOMAIN slot |-> Then(Product(slot[b], n, tr[b], x[1], x[3]),
                                        LAMBDA z : Ok(Record(slot[b], n, p[b], x[1], z)))]
    BY <1>1, <1>2 DEF Then
  <2> QED
    BY <2>1 DEF SlotRecords, Each, Loop
<1>4. DOMAIN slot = 1..B /\ DOMAIN slot \in SUBSET Nat /\ \A b \in 1..B : slot[b] \in Scalar
  BY SlotsTyped
<1>5. ASSUME NEW b \in DOMAIN slot PROVE Blames(F[b], W)
  <2>1. PICK s \in Int : s = slot[b]
    BY <1>4, ScalarInt
  <2>2. PICK t, u, y, z : t = tr[b] /\ u = x[1] /\ y = x[3] /\ z = P[b]
    OBVIOUS
  <2>3. z = Product(s, n, t, u, y)
    BY <1>1, <2>1, <2>2
  <2>4. Held(u, S, n) /\ Held(y, S, n) /\ Multiplies(t, S, n, s)
    BY <1>4, <2>1, <2>2 DEF PackedTriples
  <2>5. z.ok
    BY <2>3, <2>4, ProductOpens
  <2>6. F[b] = Ok(Record(slot[b], n, p[b], x[1], P[b].val))
    BY <1>2, <2>2, <2>5
  <2> QED
    BY <2>6, BlameRules
<1>6. \A b \in DOMAIN slot : Blames(Tabulate(F)[b], W)
  BY <1>5, TabulateIs
<1> QED
  BY <1>3, <1>4, <1>6, LoopBlames

LEMMA PresignPackedBlames ==
  ASSUME NEW C, Places(C.ids), C.t \in Nat, C.t > 0, Cardinality(C.ids) >= 2 * C.t - 1,
         NEW key, Held(key, C.ids, C.t), NEW seed, NEW B \in Nat, NEW cheat,
         NEW out, out = PresignPacked(C, key, seed, B, cheat)
  PROVE  Blames(out, Culprits(cheat))
<1>1. PICK n : n = PackedDegree(C, B) + 1
  OBVIOUS
<1>2. PICK g1, g2, x : /\ g1 = GeneratePacked(C, Fork(seed, 1), B, OnlyIf(TripleCheats, cheat))
                       /\ g2 = GeneratePacked(C, Fork(seed, 2), B, Honest)
                       /\ x = PackedShares(C, key, seed, B, cheat)
  OBVIOUS
<1>3. PICK slot, t1, t2, X : slot = Slots(B) /\ t1 = g1.val /\ t2 = g2.val /\ X = x.val
  OBVIOUS
<1>4. PICK v, vv : v = SlotInverses(n, slot, t1, X, cheat) /\ vv = v.val
  OBVIOUS
<1>5. PICK p, q : p = SlotNonces(slot, X, vv, cheat) /\ q = p.val
  OBVIOUS
<1>6. PICK r : r = SlotRecords(n, slot, t2, X, q)
  OBVIOUS
<1>7. PICK fits \in BOOLEAN : fits <=> ~(~KeysMatch(C, key) \/ B = 0 \/ ~PackedFits(C, B))
  OBVIOUS
<1>8. out = IF ~fits THEN Fail("params") ELSE
            IF g1.ok THEN IF g2.ok THEN IF x.ok THEN IF v.ok THEN IF p.ok THEN r
            ELSE p ELSE v ELSE x ELSE g2 ELSE g1
  <2>1. out = IF ~KeysMatch(C, key) \/ B = 0 \/ ~PackedFits(C, B) THEN Fail("params") ELSE
              IF g1.ok THEN IF g2.ok THEN IF x.ok THEN IF v.ok THEN IF p.ok THEN r
              ELSE p ELSE v ELSE x ELSE g2 ELSE g1
    BY <1>1, <1>2, <1>3, <1>4, <1>5, <1>6 DEF PresignPacked, Then
  <2> QED
    BY <1>7, <2>1
<1>9. PICK W : W = Culprits(cheat)
  OBVIOUS
<1>10. "params" # "abort"
  OBVIOUS
<1>11. CASE ~fits
  BY <1>8, <1>10, <1>11, BlameRules
<1>12. CASE fits
  <2>1. B > 0 /\ n \in Nat /\ n > 0 /\ n = C.t + B - 1
    BY <1>1, <1>7, <1>12 DEF PackedDegree
  <2>2. C.ids \in SUBSET Scalar /\ Cardinality(C.ids) \in Nat
    BY ScalarsFinite DEF Places
  <2>3. Cardinality(C.ids) >= n /\ Cardinality(C.ids) >= C.t
    <3>1. Cardinality(C.ids) >= 2 * n - 1
      BY <1>7, <1>12, <2>1, <2>2 DEF PackedFits
    <3> QED
      BY <2>1, <2>2, <3>1
  <2>4. Blames(g1, W)
    <3>1. PICK c1, sd : c1 = OnlyIf(TripleCheats, cheat) /\ sd = Fork(seed, 1)
      OBVIOUS
    <3>2. Blames(g1, Culprits(c1))
      BY <1>2, <2>1, <3>1, GeneratePackedBlames
    <3>3. Culprits(c1) \subseteq W
      BY <1>9, <3>1, OnlyIfBlames
    <3> QED
      BY <3>2, <3>3, BlamesMore
  <2>5. Blames(g2, W)
    <3>1. PICK c2, sd : c2 = Honest /\ sd = Fork(seed, 2)
      OBVIOUS
    <3>2. Blames(g2, Culprits(c2))
      BY <1>2, <2>1, <3>1, GeneratePackedBlames
    <3> QED
      BY <3>1, <3>2, HonestBlames
  <2>6. Blames(x, W)
    BY <1>2, <1>9, <2>1, PackedSharesBlame
  <2>7. (g1.ok => PackedTriples(t1, B, C.ids, n)) /\ (g2.ok => PackedTriples(t2, B, C.ids, n))
    BY <1>1, <1>2, <1>3, <2>1, GeneratePackedSound
  <2>8. x.ok => Held(X[1], C.ids, n) /\ Held(X[2], C.ids, n) /\ Held(X[3], C.ids, n)
    <3> SUFFICES ASSUME x.ok PROVE Held(X[1], C.ids, n) /\ Held(X[2], C.ids, n) /\ Held(X[3], C.ids, n)
      OBVIOUS
    <3>1. Sharings(X, 3, C.ids, n)
      BY <1>1, <1>2, <1>3, <2>1, <2>3, PackedSharesSound
    <3> QED
      BY <3>1 DEF Sharings
  <2>9. g1.ok /\ x.ok => Blames(v, W)
    BY <1>3, <1>4, <1>9, <2>1, <2>2, <2>3, <2>7, <2>8, SlotInversesBlame
  <2>10. g1.ok /\ x.ok /\ v.ok => Blames(p, W)
    <3> SUFFICES ASSUME g1.ok, x.ok, v.ok PROVE Blames(p, W)
      OBVIOUS
    <3>1. \A b \in 1..B : Inverts(vv[b], X[1], X[2], slot[b])
      BY <1>3, <1>4, <2>1, <2>2, <2>7, <2>8, SlotInversesSound
    <3>2. \A b \in 1..B : vv[b] \in Int
      BY <3>1, ScalarInt DEF Inverts
    <3> QED
      BY <1>3, <1>5, <1>9, <2>1, <2>2, <2>8, <3>2, SlotNoncesBlame
  <2>11. g2.ok /\ x.ok => Blames(r, W)
    BY <1>3, <1>6, <2>1, <2>2, <2>3, <2>7, <2>8, SlotRecordsBlame
  <2> QED
    BY <1>8, <1>9, <1>12, <2>4, <2>5, <2>6, <2>9, <2>10, <2>11
<1> QED
  BY <1>11, <1>12

-----------------------------------------------------------------------------
(* Who is left out by a presignature that goes on *)

(* Shares that fit are all kept, and too few of them is no abort.          *)
Few(out) == ~out.ok => out = Fail("few") \/ out = Fail("zero")

LEMMA FewBlames ==
  ASSUME NEW out, Few(out), NEW W
  PROVE  Blames(out, W)
<1>1. "few" # "abort" /\ "zero" # "abort"
  OBVIOUS
<1> QED
  BY <1>1, BlameRules DEF Few

LEMMA HeldOpensRobust ==
  ASSUME NEW n \in Nat, NEW S \in SUBSET Scalar, NEW X, Held(X, S, n), NEW out, out = OpenRobust(n, X)
  PROVE  Few(out) /\ (out.ok => out.val.bad = {})
<1>1. Openable(X, n) /\ BadShares(X) = {}
  BY HeldOpenable
<1>2. n <= n
  OBVIOUS
<1>3. (out.ok => out.val.bad = BadShares(X)) /\ (~out.ok => out = Fail("few"))
  BY <1>1, <1>2, OpenRobustSound
<1> QED
  BY <1>1, <1>3 DEF Few

LEMMA SpoiltOpensRobust ==
  ASSUME NEW n \in Nat, NEW S \in SUBSET Scalar, NEW X, Held(X, S, n), NEW who, NEW R \in SUBSET S,
         NEW Y, Y = Among(R, Spoil(X, who)), NEW out, out = OpenRobust(n, Y)
  PROVE  Few(out) /\ (out.ok => out.val.bad \subseteq who)
<1>1. PICK Z : Z = Spoil(X, who)
  OBVIOUS
<1>2. Openable(Z, n) /\ DOMAIN Z.sh = S /\ BadShares(Z) \subseteq who /\ Z.com = X.com
  <2>1. IsSpoilt(Z, X, S, n, who)
    BY Zenon, <1>1, SpoilBad
  <2> QED
    BY <2>1 DEF IsSpoilt
<1>3. Openable(Y, n) /\ Y.com = X.com /\ DOMAIN Y.sh = R
  BY SpoilAmongOpenable
<1>4. \A j \in R : Y.sh[j] = Z.sh[j]
  <2>1. PICK f : f = [j \in R |-> Z.sh[j]]
    OBVIOUS
  <2>2. Y = [Z EXCEPT !.sh = f]
    BY <1>1, <2>1 DEF Among, Restrict
  <2>3. "sh" \in DOMAIN X
    BY DEF Held
  <2>4. "sh" \in DOMAIN Z
    BY <1>1, <2>3, SpoilOpenable, HeldOpenable
  <2>5. Y.sh = f
    BY <2>2, <2>4
  <2> QED
    BY <2>1, <2>5
<1>5. BadShares(Y) \subseteq BadShares(Z)
  BY <1>2, <1>3, <1>4 DEF BadShares
<1>6. n <= n
  OBVIOUS
<1>7. (out.ok => out.val.bad = BadShares(Y)) /\ (~out.ok => out = Fail("few"))
  BY <1>3, <1>6, OpenRobustSound
<1> QED
  BY <1>2, <1>5, <1>7 DEF Few

(* P2, P3 and P4: who is left out deviated.                                *)
LEMMA InvertMaskRobustBlames ==
  ASSUME NEW n \in Nat, n > 0, NEW S \in SUBSET Scalar, NEW tr, Multiplies(tr, S, n, 0),
         NEW u, NEW a, Held(u, S, n), Held(a, S, n), NEW cheat,
         NEW out, out = InvertMaskRobust(n, tr, u, a, cheat)
  PROVE  Few(out) /\ (out.ok => S \ out.val.active \subseteq Culprits(cheat))
<1>1. PICK X1, X2 : X1 = Minus(u, tr.a) /\ X2 = Minus(a, tr.b)
  OBVIOUS
<1>2. PICK D, E : D = OpenRobust(n, X1) /\ E = OpenRobust(n, X2)
  OBVIOUS
<1>3. PICK active, who : active = DOMAIN u.sh \ (D.val.bad \union E.val.bad) /\ who = WrongIn("open", cheat)
  OBVIOUS
<1>4. PICK p, Y : p = Beaver(tr, D.val.v, E.val.v) /\ Y = Among(active, Spoil(p, who))
  OBVIOUS
<1>5. PICK V : V = OpenRobust(n, Y)
  OBVIOUS
<1>6. PICK w : w = [vinv |-> Inv(V.val.v), active |-> active \ V.val.bad]
  OBVIOUS
<1>7. out = IF D.ok THEN IF E.ok THEN IF V.ok THEN IF V.val.v = 0 THEN Fail("zero") ELSE Ok(w)
            ELSE V ELSE E ELSE D
  BY <1>1, <1>2, <1>3, <1>4, <1>5, <1>6 DEF InvertMaskRobust, Then
<1>8. Held(tr.a, S, n) /\ Held(tr.b, S, n)
  BY DEF Multiplies
<1>9. Held(X1, S, n) /\ Held(X2, S, n)
  BY <1>1, <1>8, MinusHeld
<1>10. Few(D) /\ Few(E) /\ (D.ok => D.val.bad = {}) /\ (E.ok => E.val.bad = {})
  BY <1>2, <1>9, HeldOpensRobust
<1>11. CASE ~D.ok \/ ~E.ok
  BY <1>7, <1>10, <1>11, Results DEF Few
<1>12. CASE D.ok /\ E.ok
  <2>1. active = S
    <3>1. DOMAIN u.sh = S
      BY DEF Held
    <3> QED
      BY <1>3, <1>10, <1>12, <3>1
  <2>2. Held(p, S, n)
    <3>1. {} \in SUBSET S
      OBVIOUS
    <3>2. Masked(u, tr.a, D.val.v, 0) /\ Masked(a, tr.b, E.val.v, 0)
      BY <1>1, <1>2, <1>8, <1>12, <3>1, MaskedRobust
    <3>3. PICK s \in Int : s = 0
      OBVIOUS
    <3>4. Multiplies(tr, S, n, s) /\ Masked(u, tr.a, D.val.v, s) /\ Masked(a, tr.b, E.val.v, s)
      BY <3>2, <3>3
    <3>5. u.com \in Com(n) /\ a.com \in Com(n)
      BY DEF Held
    <3>6. Times2(p, u, a, S, n, s)
      BY <1>4, <3>4, <3>5, BeaverSound
    <3> QED
      BY <3>6 DEF Times2
  <2>3. Few(V) /\ (V.ok => V.val.bad \subseteq who)
    <3>1. PICK R \in SUBSET S : R = S
      OBVIOUS
    <3>2. Y = Among(R, Spoil(p, who))
      BY <1>4, <2>1, <3>1
    <3> QED
      BY <1>5, <2>2, <3>2, SpoiltOpensRobust
  <2>4. who \subseteq Culprits(cheat)
    BY <1>3, SenderBlamed
  <2>5. w.active = S \ V.val.bad
    BY <1>6, <2>1
  <2>6. out = IF V.ok THEN IF V.val.v = 0 THEN Fail("zero") ELSE Ok(w) ELSE V
    BY <1>7, <1>12
  <2>7. Few(out)
    BY <2>3, <2>6, Results DEF Few
  <2>8. ASSUME out.ok PROVE S \ out.val.active \subseteq Culprits(cheat)
    <3>1. V.ok /\ out.val = w
      BY <2>6, <2>8, Results
    <3> QED
      BY <2>3, <2>4, <2>5, <3>1
  <2> QED
    BY <2>7, <2>8
<1> QED
  BY <1>11, <1>12

LEMMA NonceRobustBlames ==
  ASSUME NEW n \in Nat, NEW S \in SUBSET Scalar, NEW k, Held(k, S, n), NEW cheat,
         NEW out, out = NonceRobust(n, k, cheat)
  PROVE  Few(out) /\ (out.ok => S \ out.val.active \subseteq Culprits(cheat))
<1>1. PICK pts : pts = NoncePoints(k, DOMAIN k.sh, cheat)
  OBVIOUS
<1>2. PICK wrong, good : wrong = WrongPoints(k, pts) /\ good = DOMAIN pts \ wrong
  OBVIOUS
<1>3. PICK P : P = FromPoint(Interpolate(0, Restrict(pts, good)))
  OBVIOUS
<1>4. PICK w : w = [n |-> P.val, active |-> good]
  OBVIOUS
<1>5. PICK few \in BOOLEAN : few <=> Cardinality(good) < n
  OBVIOUS
<1>6. out = IF few THEN Fail("few") ELSE IF P.ok THEN Ok(w) ELSE P
  <2>1. out = IF Cardinality(good) < n THEN Fail("few") ELSE IF P.ok THEN Ok(w) ELSE P
    BY <1>1, <1>2, <1>3, <1>4 DEF NonceRobust, Then
  <2> QED
    BY <1>5, <2>1
<1>7. P.ok \/ P = Fail("zero")
  BY <1>3, FromPointSound
<1>8. DOMAIN pts = S /\ wrong \subseteq Culprits(cheat)
  BY <1>1, <1>2, WrongPointsSent
<1>9. Few(out)
  BY <1>6, <1>7, Results DEF Few
<1>10. ASSUME out.ok PROVE S \ out.val.active \subseteq Culprits(cheat)
  <2>1. out.val = w
    BY <1>6, <1>7, <1>10, Results
  <2> QED
    BY <1>2, <1>4, <1>8, <2>1
<1> QED
  BY <1>9, <1>10

LEMMA ProductRobustBlames ==
  ASSUME NEW n \in Nat, NEW S \in SUBSET Scalar, NEW tr, Multiplies(tr, S, n, 0),
         NEW x, NEW y, Held(x, S, n), Held(y, S, n), NEW R \in SUBSET S,
         NEW out, out = ProductRobust(n, tr, x, y, R)
  PROVE  Few(out) /\ (out.ok => out.val.active = R)
<1>1. PICK X, Y : X = Among(R, Minus(x, tr.a)) /\ Y = Among(R, Minus(y, tr.b))
  OBVIOUS
<1>2. PICK D, E : D = OpenRobust(n, X) /\ E = OpenRobust(n, Y)
  OBVIOUS
<1>3. PICK w : w = [z |-> Beaver(tr, D.val.v, E.val.v), active |-> R \ (D.val.bad \union E.val.bad)]
  OBVIOUS
<1>4. out = IF D.ok THEN IF E.ok THEN Ok(w) ELSE E ELSE D
  BY <1>1, <1>2, <1>3 DEF ProductRobust, Then
<1>5. Held(X, R, n) /\ Held(Y, R, n) /\ R \in SUBSET Scalar
  <2>1. Held(tr.a, S, n) /\ Held(tr.b, S, n)
    BY DEF Multiplies
  <2>2. Held(Minus(x, tr.a), S, n) /\ Held(Minus(y, tr.b), S, n)
    BY <2>1, MinusHeld
  <2>3. PICK M, L : M = Minus(x, tr.a) /\ L = Minus(y, tr.b)
    OBVIOUS
  <2>4. X = Among(R, M) /\ Y = Among(R, L) /\ Held(M, S, n) /\ Held(L, S, n)
    BY <1>1, <2>2, <2>3
  <2> QED
    BY <2>4, AmongHeld
<1>6. Few(D) /\ Few(E) /\ (D.ok => D.val.bad = {}) /\ (E.ok => E.val.bad = {})
  BY <1>2, <1>5, HeldOpensRobust
<1>7. Few(out)
  BY <1>4, <1>6, Results DEF Few
<1>8. ASSUME out.ok PROVE out.val.active = R
  <2>1. D.ok /\ E.ok /\ out.val = w
    BY <1>4, <1>8, Results
  <2> QED
    BY <1>3, <1>6, <2>1
<1> QED
  BY <1>7, <1>8

LEMMA PresignRobustBlames ==
  ASSUME NEW C, Places(C.ids), C.t \in Nat, C.t > 0, Cardinality(C.ids) >= 2 * C.t - 1,
         NEW key, Held(key, C.ids, C.t), NEW seed, NEW cheat,
         NEW out, out = PresignRobust(C, key, seed, cheat)
  PROVE  Expels(out, Culprits(cheat))
<1>1. PICK c1 : c1 = OnlyIf(TripleCheats, cheat)
  OBVIOUS
<1>2. PICK g1, g2 : g1 = Generate(C, Fork(seed, 1), c1) /\ g2 = Generate(C, Fork(seed, 2), Honest)
  OBVIOUS
<1>3. PICK ru, ra : ru = JointRandom(C, Fork(seed, 3)) /\ ra = JointRandom(C, Fork(seed, 4))
  OBVIOUS
<1>4. PICK t1, t2, u, a : t1 = g1.val /\ t2 = g2.val /\ u = ru.val /\ a = ra.val
  OBVIOUS
<1>5. PICK v : v = InvertMaskRobust(C.t, t1, u, a, cheat)
  OBVIOUS
<1>6. PICK L, k : L = v.val.active /\ k = Times(Among(L, a), v.val.vinv)
  OBVIOUS
<1>7. PICK p, A : p = NonceRobust(C.t, k, cheat) /\ A = p.val.active
  OBVIOUS
<1>8. PICK z : z = ProductRobust(C.t, t2, u, key, A)
  OBVIOUS
<1>9. PICK w : w = [rec |-> Record(0, C.t, p.val.n, Among(z.val.active, u), Among(z.val.active, z.val.z)),
                    blamed |-> C.ids \ z.val.active]
  OBVIOUS
<1>10. out = IF ~KeysMatch(C, key) THEN Fail("params") ELSE
             IF g1.ok THEN IF g2.ok THEN IF ru.ok THEN IF ra.ok THEN IF v.ok THEN IF p.ok THEN
             IF z.ok THEN Ok(w) ELSE z ELSE p ELSE v ELSE ra ELSE ru ELSE g2 ELSE g1
  <2>1. /\ g1 = Generate(C, Fork(seed, 1), OnlyIf(TripleCheats, cheat))
        /\ g2 = Generate(C, Fork(seed, 2), Honest)
        /\ ru = JointRandom(C, Fork(seed, 3)) /\ ra = JointRandom(C, Fork(seed, 4))
        /\ v = InvertMaskRobust(C.t, g1.val, ru.val, ra.val, cheat)
        /\ p = NonceRobust(C.t, Times(Among(v.val.active, ra.val), v.val.vinv), cheat)
        /\ z = ProductRobust(C.t, g2.val, ru.val, key, p.val.active)
        /\ w = [rec |-> Record(0, C.t, p.val.n, Among(z.val.active, ru.val), Among(z.val.active, z.val.z)),
                blamed |-> C.ids \ z.val.active]
    BY ZenonT(40), <1>1, <1>2, <1>3, <1>4, <1>5, <1>6, <1>7, <1>8, <1>9
  <2> QED
    BY ZenonT(40), <2>1 DEF PresignRobust, TwoTriples, Ephemeral, Then
<1>11. PICK n \in Nat, s \in Int : n = C.t /\ s = 0
  OBVIOUS
<1>12. n > 0 /\ C.ids \in SUBSET Scalar
  BY <1>11 DEF Places
<1>13. PICK W : W = Culprits(cheat)
  OBVIOUS
<1>14. Blames(g1, W)
  <2>1. Blames(g1, Culprits(c1))
    BY <1>2, GenerateBlames
  <2>2. Culprits(c1) \subseteq W
    BY <1>1, <1>13, OnlyIfBlames
  <2> QED
    BY <2>1, <2>2, BlamesMore
<1>15. g2.ok
  BY <1>2, GenerateHonest
<1>16. ru.ok /\ ra.ok /\ Held(u, C.ids, n) /\ Held(a, C.ids, n) /\ Held(key, C.ids, n)
  BY <1>3, <1>4, <1>11, JointRandomSound
<1>17. Multiplies(t2, C.ids, n, 0) /\ (g1.ok => Multiplies(t1, C.ids, n, 0))
  BY <1>2, <1>4, <1>11, <1>15, GenerateSound
<1>18. "params" # "abort"
  OBVIOUS
<1>19. CASE ~(KeysMatch(C, key) /\ g1.ok)
  <2>1. out = Fail("params") \/ (~g1.ok /\ out = g1)
    BY <1>10, <1>19
  <2>2. ~out.ok
    BY <2>1, Results
  <2> QED
    BY <1>13, <1>14, <1>18, <2>1, <2>2, BlameRules DEF Expels
<1>20. CASE KeysMatch(C, key) /\ g1.ok
  <2>1. out = IF v.ok THEN IF p.ok THEN IF z.ok THEN Ok(w) ELSE z ELSE p ELSE v
    BY <1>10, <1>15, <1>16, <1>20
  <2>2. Few(v) /\ (v.ok => C.ids \ L \subseteq W)
    <3>1. v = InvertMaskRobust(n, t1, u, a, cheat) /\ Multiplies(t1, C.ids, n, 0)
      BY <1>5, <1>11, <1>17, <1>20
    <3> QED
      BY <1>6, <1>12, <1>13, <1>16, <3>1, InvertMaskRobustBlames
  <2>3. v.ok => L \in SUBSET C.ids /\ Held(k, L, n)
    <3> SUFFICES ASSUME v.ok PROVE L \in SUBSET C.ids /\ Held(k, L, n)
      OBVIOUS
    <3>1. v = InvertMaskRobust(n, t1, u, a, cheat)
      BY <1>5, <1>11
    <3>2. InvertsRobust(v.val, u, a, C.ids)
      BY <1>12, <1>16, <1>17, <1>20, <3>1, InvertMaskRobustSound
    <3>3. L \in SUBSET C.ids /\ v.val.vinv \in Int
      BY <1>6, <3>2, ScalarInt DEF InvertsRobust, Inverts
    <3>4. PICK al, i : al = Among(L, a) /\ i = v.val.vinv
      OBVIOUS
    <3>5. Held(al, L, n) /\ L \in SUBSET Scalar
      BY <1>12, <1>16, <3>3, <3>4, AmongHeld
    <3>6. Held(k, L, n)
      BY <1>6, <3>3, <3>4, <3>5, TimesHeld
    <3> QED
      BY <3>3, <3>6
  <2>4. v.ok => Few(p) /\ (p.ok => L \ A \subseteq W)
    <3> SUFFICES ASSUME v.ok PROVE Few(p) /\ (p.ok => L \ A \subseteq W)
      OBVIOUS
    <3>1. L \in SUBSET Scalar /\ p = NonceRobust(n, k, cheat)
      BY <1>7, <1>11, <1>12, <2>3
    <3> QED
      BY <1>7, <1>13, <2>3, <3>1, NonceRobustBlames
  <2>5. v.ok /\ p.ok => A \in SUBSET C.ids
    <3> SUFFICES ASSUME v.ok, p.ok PROVE A \in SUBSET C.ids
      OBVIOUS
    <3>1. L \in SUBSET Scalar /\ p = NonceRobust(n, k, cheat)
      BY <1>7, <1>11, <1>12, <2>3
    <3>2. PointRobust(p.val, k, L)
      BY <2>3, <3>1, NonceRobustSound
    <3> QED
      BY <1>7, <2>3, <3>2 DEF PointRobust
  <2>6. v.ok /\ p.ok => Few(z) /\ (z.ok => z.val.active = A)
    <3> SUFFICES ASSUME v.ok, p.ok PROVE Few(z) /\ (z.ok => z.val.active = A)
      OBVIOUS
    <3>1. z = ProductRobust(n, t2, u, key, A)
      BY <1>8, <1>11
    <3> QED
      BY <1>12, <1>16, <1>17, <2>5, <3>1, ProductRobustBlames
  <2>7. CASE v.ok /\ p.ok /\ z.ok
    <3>1. out = Ok(w) /\ w.blamed = C.ids \ A
      BY <1>9, <2>1, <2>6, <2>7
    <3>2. C.ids \ A \subseteq W
      BY <2>2, <2>4, <2>7
    <3>3. out.ok /\ out.val.blamed \subseteq W
      BY <3>1, <3>2, Results
    <3> QED
      BY <1>13, <3>3, BlameRules DEF Expels
  <2>8. CASE ~(v.ok /\ p.ok /\ z.ok)
    <3>1. ~out.ok /\ Few(out)
      BY <2>1, <2>2, <2>4, <2>6, <2>8
    <3> QED
      BY <3>1, FewBlames DEF Expels
  <2> QED
    BY <2>7, <2>8
<1> QED
  BY <1>19, <1>20

-----------------------------------------------------------------------------
(* Blame after a restart *)

(* Two attempts name who deviated in the first.                            *)
LEMMA RestartExpels ==
  ASSUME NEW W, NEW first, Expels(first, W), NEW again \in BOOLEAN, again => ~first.ok /\ first.err = "abort",
         NEW second, again => Expels(second, {}), second.ok => "blamed" \in DOMAIN second.val,
         NEW out, out = IF again
                        THEN IF second.ok
                             THEN Ok([second.val EXCEPT !.blamed = second.val.blamed \union first.blamed])
                             ELSE second
                        ELSE first
  PROVE  Expels(out, W)
<1>1. CASE ~again
  BY <1>1
<1>2. CASE again /\ ~second.ok
  BY <1>2 DEF Expels, Blames
<1>3. CASE again /\ second.ok
  <2>1. PICK v : v = [second.val EXCEPT !.blamed = second.val.blamed \union first.blamed]
    OBVIOUS
  <2>2. out = Ok(v)
    BY <1>3, <2>1
  <2>3. v.blamed = second.val.blamed \union first.blamed
    BY <1>3, <2>1
  <2>4. second.val.blamed \subseteq {} /\ first.blamed \subseteq W
    BY <1>3 DEF Expels, Blames
  <2>5. out.ok /\ out.val = v
    BY <2>2, Results
  <2> QED
    BY <2>3, <2>4, <2>5 DEF Expels, Blames
<1> QED
  BY <1>1, <1>2, <1>3

(* The parties of a new committee are places.                              *)
LEMMA FullPlaces ==
  ASSUME NEW n \in Nat, n > 0, n < Q, NEW t
  PROVE  /\ Places(FullCommittee(n, t).ids) /\ FullCommittee(n, t).ids = 1..n
         /\ FullCommittee(n, t).t = t
<1>1. Q \in Nat /\ 1 \in 1..n
  BY FieldAssumption
<1>2. 1..n \subseteq 0..(Q - 1)
  BY <1>1
<1> QED
  BY <1>1, <1>2 DEF Places, Scalar, FullCommittee

(* Those left are enough for another committee.                            *)
LEMMA LeftEnough ==
  ASSUME NEW n \in Nat, n < Q, NEW t \in Nat, t > 0, NEW all, IsFiniteSet(all), Cardinality(all) = n,
         NEW gone, RestartAllowed(all \ gone, t)
  PROVE  /\ Cardinality(all \ gone) \in Nat /\ Cardinality(all \ gone) > 0 /\ Cardinality(all \ gone) < Q
         /\ Cardinality(all \ gone) >= 2 * t - 1
<1>1. PICK left : left = all \ gone
  OBVIOUS
<1>2. IsFiniteSet(left) /\ Cardinality(left) <= n
  BY <1>1, FS_Subset
<1>3. PICK m \in Nat : m = Cardinality(left)
  BY <1>2, FS_CardinalityType
<1>4. m >= 2 * t - 1
  BY <1>1, <1>3 DEF RestartAllowed
<1>5. Q \in Nat
  BY FieldAssumption
<1>6. m > 0 /\ m < Q
  BY <1>2, <1>3, <1>4, <1>5
<1> QED
  BY <1>1, <1>3, <1>4, <1>6

(* run_keygen_with_restart (sim.rs): nobody is excluded who did not        *)
(* deviate.                                                                *)
LEMMA KeygenRestartBlames ==
  ASSUME NEW n \in Nat, n > 0, n < Q, NEW t \in Nat, t > 0, NEW seed, NEW cheat,
         NEW out, out = RunKeygenWithRestart(n, t, seed, cheat)
  PROVE  Expels(out, Culprits(cheat))
<1>1. PICK all : all = 1..n
  OBVIOUS
<1>2. IsFiniteSet(all) /\ Cardinality(all) = n
  BY <1>1, FS_Interval
<1>3. PICK dkg : dkg = DriveDkg(FullCommittee(Cardinality(all), t), Fork(seed, 0), At(0, cheat))
  OBVIOUS
<1>4. PICK first : first = IF dkg.ok THEN Ok([val |-> dkg.val, blamed |-> {}]) ELSE dkg
  OBVIOUS
<1>5. PICK left : left = all \ first.blamed
  OBVIOUS
<1>6. PICK redo : redo = DriveDkg(FullCommittee(Cardinality(left), t), Fork(seed, 1), At(1, cheat))
  OBVIOUS
<1>7. PICK second : second = IF redo.ok THEN Ok([val |-> redo.val, blamed |-> {}]) ELSE redo
  OBVIOUS
<1>8. PICK again \in BOOLEAN : again <=> ~first.ok /\ first.err = "abort" /\ RestartAllowed(left, t)
  OBVIOUS
<1>9. out = IF again
            THEN IF second.ok
                 THEN Ok([second.val EXCEPT !.blamed = second.val.blamed \union first.blamed])
                 ELSE second
            ELSE first
  BY <1>1, <1>3, <1>4, <1>5, <1>6, <1>7, <1>8 DEF RunKeygenWithRestart, WithRestart, Then
<1>10. ASSUME NEW d, NEW W, Blames(d, W), NEW r, r = IF d.ok THEN Ok([val |-> d.val, blamed |-> {}]) ELSE d
       PROVE  Expels(r, W) /\ (r.ok => "blamed" \in DOMAIN r.val)
  <2>1. PICK v : v = [val |-> d.val, blamed |-> {}]
    OBVIOUS
  <2>2. r = IF d.ok THEN Ok(v) ELSE d
    BY <1>10, <2>1
  <2>3. v.blamed = {} /\ "blamed" \in DOMAIN v
    BY <2>1
  <2> QED
    BY <1>10, <2>2, <2>3, Results, BlameRules DEF Expels
<1>11. Expels(first, Culprits(cheat))
  <2>1. PICK C : C = FullCommittee(n, t)
    OBVIOUS
  <2>2. Places(C.ids) /\ C.t \in Nat
    BY <2>1, FullPlaces
  <2>3. dkg = DriveDkg(C, Fork(seed, 0), cheat)
    BY <1>2, <1>3, <2>1 DEF At
  <2>4. Blames(dkg, Culprits(cheat))
    BY <2>2, <2>3, DkgBlames
  <2> QED
    BY <1>4, <1>10, <2>4
<1>12. ASSUME again PROVE Expels(second, {})
  <2>1. RestartAllowed(all \ first.blamed, t)
    BY <1>5, <1>8, <1>12
  <2>2. PICK m \in Nat : m = Cardinality(left) /\ m > 0 /\ m < Q
    BY <1>2, <1>5, <2>1, LeftEnough
  <2>3. PICK C : C = FullCommittee(m, t)
    OBVIOUS
  <2>4. Places(C.ids) /\ C.t \in Nat
    BY <2>2, <2>3, FullPlaces
  <2>5. redo = DriveDkg(C, Fork(seed, 1), Honest)
    BY <1>6, <2>2, <2>3 DEF At
  <2>6. Blames(redo, {})
    BY <2>4, <2>5, DkgBlames, HonestBlamesNone
  <2> QED
    BY <1>7, <1>10, <2>6
<1>13. second.ok => "blamed" \in DOMAIN second.val
  <2>1. CASE redo.ok
    <3>1. PICK v : v = [val |-> redo.val, blamed |-> {}]
      OBVIOUS
    <3>2. second.val = v /\ "blamed" \in DOMAIN v
      BY <1>7, <2>1, <3>1, Results
    <3> QED
      BY <3>2
  <2> QED
    BY <1>7, <2>1
<1>14. again => ~first.ok /\ first.err = "abort"
  BY <1>8
<1> QED
  BY <1>9, <1>11, <1>12, <1>13, <1>14, RestartExpels

(* run_triples_with_restart (sim.rs): the same.                            *)
LEMMA TriplesRestartBlames ==
  ASSUME NEW n \in Nat, n > 0, n < Q, NEW t \in Nat, t > 0, NEW seed, NEW cheat,
         NEW out, out = RunTriplesWithRestart(n, t, seed, cheat)
  PROVE  Expels(out, Culprits(cheat))
<1>1. PICK all : all = 1..n
  OBVIOUS
<1>2. IsFiniteSet(all) /\ Cardinality(all) = n
  BY <1>1, FS_Interval
<1>3. PICK gen : gen = GenerateRobust(FullCommittee(Cardinality(all), t), Fork(seed, 0), At(0, cheat))
  OBVIOUS
<1>4. PICK first : first = IF gen.ok THEN Ok([val |-> gen.val.tr, blamed |-> gen.val.blamed]) ELSE gen
  OBVIOUS
<1>5. PICK left : left = all \ first.blamed
  OBVIOUS
<1>6. PICK redo : redo = GenerateRobust(FullCommittee(Cardinality(left), t), Fork(seed, 1), At(1, cheat))
  OBVIOUS
<1>7. PICK second : second = IF redo.ok THEN Ok([val |-> redo.val.tr, blamed |-> redo.val.blamed]) ELSE redo
  OBVIOUS
<1>8. PICK again \in BOOLEAN : again <=> ~first.ok /\ first.err = "abort" /\ RestartAllowed(left, t)
  OBVIOUS
<1>9. out = IF again
            THEN IF second.ok
                 THEN Ok([second.val EXCEPT !.blamed = second.val.blamed \union first.blamed])
                 ELSE second
            ELSE first
  BY ZenonT(40), <1>1, <1>3, <1>4, <1>5, <1>6, <1>7, <1>8 DEF RunTriplesWithRestart, WithRestart, Then
<1>10. ASSUME NEW d, NEW W, Expels(d, W), NEW r, r = IF d.ok THEN Ok([val |-> d.val.tr, blamed |-> d.val.blamed]) ELSE d
       PROVE  Expels(r, W) /\ (r.ok => "blamed" \in DOMAIN r.val)
  <2>1. PICK v : v = [val |-> d.val.tr, blamed |-> d.val.blamed]
    OBVIOUS
  <2>2. r = IF d.ok THEN Ok(v) ELSE d
    BY <1>10, <2>1
  <2>3. v.blamed = d.val.blamed /\ "blamed" \in DOMAIN v
    BY <2>1
  <2> QED
    BY <1>10, <2>2, <2>3, Results, BlameRules DEF Expels
<1>11. Expels(first, Culprits(cheat))
  <2>1. PICK C : C = FullCommittee(n, t)
    OBVIOUS
  <2>2. Places(C.ids) /\ C.t \in Nat /\ C.t > 0
    BY <2>1, FullPlaces
  <2>3. gen = GenerateRobust(C, Fork(seed, 0), cheat)
    BY <1>2, <1>3, <2>1 DEF At
  <2>4. Expels(gen, Culprits(cheat))
    BY <2>2, <2>3, GenerateRobustBlames
  <2> QED
    BY <1>4, <1>10, <2>4
<1>12. ASSUME again PROVE Expels(second, {})
  <2>1. RestartAllowed(all \ first.blamed, t)
    BY <1>5, <1>8, <1>12
  <2>2. PICK m \in Nat : m = Cardinality(left) /\ m > 0 /\ m < Q
    BY <1>2, <1>5, <2>1, LeftEnough
  <2>3. PICK C : C = FullCommittee(m, t)
    OBVIOUS
  <2>4. Places(C.ids) /\ C.t \in Nat /\ C.t > 0
    BY <2>2, <2>3, FullPlaces
  <2>5. redo = GenerateRobust(C, Fork(seed, 1), Honest)
    BY <1>6, <2>2, <2>3 DEF At
  <2>6. Expels(redo, {})
    BY <2>4, <2>5, GenerateRobustBlames, HonestBlamesNone
  <2> QED
    BY <1>7, <1>10, <2>6
<1>13. second.ok => "blamed" \in DOMAIN second.val
  <2>1. CASE redo.ok
    <3>1. PICK v : v = [val |-> redo.val.tr, blamed |-> redo.val.blamed]
      OBVIOUS
    <3>2. second.val = v /\ "blamed" \in DOMAIN v
      BY <1>7, <2>1, <3>1, Results
    <3> QED
      BY <3>2
  <2> QED
    BY <1>7, <2>1
<1>14. again => ~first.ok /\ first.err = "abort"
  BY <1>8
<1> QED
  BY <1>9, <1>11, <1>12, <1>13, <1>14, RestartExpels

(* run_presign_with_restart (sim.rs): the same, at the survivors' own ids. *)
LEMMA AttemptBlames ==
  ASSUME NEW C, {"ids", "t"} \subseteq DOMAIN C, C.ids \in SUBSET Scalar, C.t \in Nat, C.t > 0,
         NEW key, Held(key, C.ids, C.t), NEW R \in SUBSET C.ids, Cardinality(R) >= 2 * C.t - 1,
         NEW i, NEW seed, NEW cheat,
         NEW pr, pr = PresignRobust([C EXCEPT !.ids = R], Among(R, key), seed, cheat),
         NEW out, out = IF pr.ok THEN Ok([val |-> pr.val.rec, blamed |-> pr.val.blamed, id |-> i]) ELSE pr
  PROVE  Expels(out, Culprits(cheat)) /\ (out.ok => "blamed" \in DOMAIN out.val)
<1>1. PICK n \in Nat : n = C.t
  OBVIOUS
<1>2. n > 0 /\ R \in SUBSET Scalar /\ Cardinality(R) >= 2 * n - 1 /\ Held(key, C.ids, n)
  BY <1>1
<1>3. R # {}
  <2>1. CASE R = {}
    <3>1. Cardinality(R) = 0
      BY <2>1, FS_EmptySet
    <3> QED
      BY <1>2, <3>1
  <2> QED
    BY <2>1
<1>4. PICK D : D = [C EXCEPT !.ids = R]
  OBVIOUS
<1>5. D.ids = R /\ D.t = n
  BY <1>1, <1>4
<1>6. PICK k : k = Among(R, key)
  OBVIOUS
<1>7. Held(k, R, n)
  BY <1>2, <1>6, AmongHeld
<1>8. PICK w : w = [val |-> pr.val.rec, blamed |-> pr.val.blamed, id |-> i]
  OBVIOUS
<1>9. out = IF pr.ok THEN Ok(w) ELSE pr
  BY <1>8
<1>10. w.blamed = pr.val.blamed /\ "blamed" \in DOMAIN w
  BY <1>8
<1>11. pr = PresignRobust(D, k, seed, cheat) /\ Places(D.ids)
  BY <1>2, <1>3, <1>4, <1>5, <1>6 DEF Places
<1>12. D.t \in Nat /\ D.t > 0 /\ Cardinality(D.ids) >= 2 * D.t - 1 /\ Held(k, D.ids, D.t)
  BY <1>2, <1>5, <1>7
<1>13. Expels(pr, Culprits(cheat))
  BY <1>11, <1>12, PresignRobustBlames
<1>14. CASE pr.ok
  <2>1. out.ok /\ out.val = w
    BY <1>9, <1>14, Results
  <2> QED
    BY <1>10, <1>13, <1>14, <2>1 DEF Expels, Blames
<1>15. CASE ~pr.ok
  BY <1>9, <1>13, <1>15
<1> QED
  BY <1>14, <1>15

LEMMA PresignRestartBlames ==
  ASSUME NEW C, {"ids", "t"} \subseteq DOMAIN C, C.ids \in SUBSET Scalar, C.t \in Nat, C.t > 0,
         Cardinality(C.ids) >= 2 * C.t - 1, NEW key, Held(key, C.ids, C.t), NEW id, NEW seed, NEW cheat,
         NEW out, out = RunPresignWithRestart(C, key, id, seed, cheat)
  PROVE  Expels(out, Culprits(cheat))
<1>1. PICK pr : pr = PresignRobust([C EXCEPT !.ids = C.ids], Among(C.ids, key), Fork(seed, 0), At(0, cheat))
  OBVIOUS
<1>2. PICK first : first = IF pr.ok
                           THEN Ok([val |-> pr.val.rec, blamed |-> pr.val.blamed, id |-> id + 0]) ELSE pr
  OBVIOUS
<1>3. PICK left : left = C.ids \ first.blamed
  OBVIOUS
<1>4. PICK again :
        again = PresignRobust([C EXCEPT !.ids = left], Among(left, key), Fork(seed, 1), At(1, cheat))
  OBVIOUS
<1>5. PICK second : second = IF again.ok
                             THEN Ok([val |-> again.val.rec, blamed |-> again.val.blamed, id |-> id + 1])
                             ELSE again
  OBVIOUS
<1>6. out = IF ~first.ok /\ first.err = "abort" /\ RestartAllowed(left, C.t)
            THEN IF second.ok
                 THEN Ok([second.val EXCEPT !.blamed = second.val.blamed \union first.blamed])
                 ELSE second
            ELSE first
  <2> DEFINE Attempt(ids, k) ==
        Then(PresignRobust([C EXCEPT !.ids = ids], Among(ids, key), Fork(seed, k), At(k, cheat)),
             LAMBDA o : Ok([val |-> o.rec, blamed |-> o.blamed, id |-> id + k]))
  <2>1. first = Attempt(C.ids, 0)
    BY <1>1, <1>2 DEF Then
  <2>2. second = Attempt(left, 1)
    BY <1>4, <1>5 DEF Then
  <2>3. out = WithRestart(C.ids, C.t, Attempt)
    BY DEF RunPresignWithRestart
  <2> HIDE DEF Attempt
  <2> QED
    BY <1>3, <2>1, <2>2, <2>3 DEF WithRestart, Then
<1>7. PICK repeat \in BOOLEAN : repeat <=> ~first.ok /\ first.err = "abort" /\ RestartAllowed(left, C.t)
  OBVIOUS
<1>8. out = IF repeat
            THEN IF second.ok
                 THEN Ok([second.val EXCEPT !.blamed = second.val.blamed \union first.blamed])
                 ELSE second
            ELSE first
  BY <1>6, <1>7
<1>9. Expels(first, Culprits(cheat))
  <2>1. C.ids \in SUBSET C.ids
    OBVIOUS
  <2>2. pr = PresignRobust([C EXCEPT !.ids = C.ids], Among(C.ids, key), Fork(seed, 0), cheat)
    BY <1>1 DEF At
  <2> QED
    BY <1>2, <2>1, <2>2, AttemptBlames
<1>10. ASSUME repeat PROVE Expels(second, {}) /\ (second.ok => "blamed" \in DOMAIN second.val)
  <2>1. left \in SUBSET C.ids /\ Cardinality(left) >= 2 * C.t - 1
    BY <1>3, <1>7, <1>10 DEF RestartAllowed
  <2>2. again = PresignRobust([C EXCEPT !.ids = left], Among(left, key), Fork(seed, 1), Honest)
    BY <1>4 DEF At
  <2>3. /\ Expels(second, Culprits(Honest))
        /\ second.ok => "blamed" \in DOMAIN second.val
    BY <1>5, <2>1, <2>2, AttemptBlames
  <2> QED
    BY <2>3, HonestBlamesNone
<1>11. repeat => ~first.ok /\ first.err = "abort"
  BY <1>7
<1>12. CASE ~repeat
  BY <1>8, <1>9, <1>12
<1>13. CASE repeat
  BY <1>8, <1>9, <1>10, <1>11, <1>13, RestartExpels
<1> QED
  BY <1>12, <1>13

-----------------------------------------------------------------------------
(* Blame over signed envelopes *)

LEMMA WithBlames ==
  ASSUME NEW r, ~r.ok, Aborted(r), NEW W, Blames(r, W), NEW more
  PROVE  Blames(With(r, more), W)
<1>1. PICK who : r = Abort(who)
  BY DEF Aborted
<1>2. r = [ok |-> FALSE, err |-> "abort", blamed |-> who]
  BY <1>1 DEF Abort
<1>3. who # {} /\ who \subseteq W
  BY <1>2 DEF Blames
<1>4. PICK w : w = With(r, more)
  OBVIOUS
<1>5. w.ok = FALSE /\ w.err = "abort" /\ w.blamed = who
  BY <1>2, <1>4 DEF With
<1> QED
  BY <1>3, <1>4, <1>5 DEF Blames

(* An envelope that fails its signature blames the sender it names.        *)
LEMMA VerifyBlames ==
  ASSUME NEW C, Places(C.ids), NEW envs, DOMAIN envs = C.ids, NEW W,
         \A i \in C.ids : envs[i].env.from = i /\ (envs[i].by # i \/ envs[i].over # envs[i].env => i \in W),
         NEW r, r = VerifyAll(C, envs)
  PROVE  Blames(r, W)
<1>0. C.ids \in SUBSET Nat
  BY ScalarInt DEF Places
<1>1. PICK verdict : verdict = Tabulate([i \in C.ids |->
        IF VerifySignature(envs[i], Registry(C)[envs[i].env.from]) THEN Ok(envs[i]) ELSE Abort({i})])
  OBVIOUS
<1>2. r = Loop(verdict, C.ids)
  BY <1>1 DEF VerifyAll, Each, Loop
<1>3. ASSUME NEW i \in C.ids
      PROVE  verdict[i] = IF envs[i].by = i /\ envs[i].over = envs[i].env THEN Ok(envs[i]) ELSE Abort({i})
  <2>1. verdict[i] = IF VerifySignature(envs[i], Registry(C)[envs[i].env.from])
                     THEN Ok(envs[i]) ELSE Abort({i})
    <3>1. PICK F : F = [k \in C.ids |->
            IF VerifySignature(envs[k], Registry(C)[envs[k].env.from]) THEN Ok(envs[k]) ELSE Abort({k})]
      OBVIOUS
    <3>2. verdict[i] = F[i]
      BY <1>1, <3>1, TabulateIs
    <3> QED
      BY <3>1, <3>2
  <2>2. Registry(C)[i] = i
    BY TabulateIs DEF Registry
  <2> QED
    BY <2>1, <2>2 DEF VerifySignature
<1>4. \A i \in C.ids : Blames(verdict[i], W)
  <2> SUFFICES ASSUME NEW i \in C.ids PROVE Blames(verdict[i], W)
    OBVIOUS
  <2>1. CASE envs[i].by = i /\ envs[i].over = envs[i].env
    <3>1. verdict[i] = Ok(envs[i])
      BY <1>3, <2>1
    <3> QED
      BY <3>1, BlameRules
  <2>2. CASE ~(envs[i].by = i /\ envs[i].over = envs[i].env)
    <3>1. verdict[i] = Abort({i})
      BY <1>3, <2>2
    <3>2. {i} # {} /\ {i} \subseteq W
      BY <2>2
    <3> QED
      BY <3>1, <3>2, BlameRules
  <2> QED
    BY <2>1, <2>2
<1> QED
  BY <1>0, <1>2, <1>4, LoopBlames
(* Those that pass were not altered after they were signed.                *)
LEMMA VerifiedUnaltered ==
  ASSUME NEW C, NEW envs, NEW S \in SUBSET Nat, DOMAIN envs = S, NEW r, r = VerifyAll(C, envs), r.ok,
         NEW i \in S, NEW e, e = envs[i]
  PROVE  e.over = e.env
<1>1. PICK F : F = [k \in S |->
        IF VerifySignature(envs[k], Registry(C)[envs[k].env.from]) THEN Ok(envs[k]) ELSE Abort({k})]
  OBVIOUS
<1>2. PICK verdict : verdict = Tabulate(F)
  OBVIOUS
<1>3. r = Loop(verdict, S)
  BY <1>1, <1>2 DEF VerifyAll, Each, Loop
<1>4. verdict[i].ok /\ verdict[i] = F[i]
  BY <1>2, <1>3, LoopEnds, TabulateIs
<1>5. VerifySignature(envs[i], Registry(C)[envs[i].env.from])
  BY <1>1, <1>4, Results
<1> QED
  BY <1>5 DEF VerifySignature

(* One receiver: the commitments are the ones revealed.                    *)
LEMMA FinalizeSignedBlames ==
  ASSUME NEW C, Places(C.ids), C.t \in Nat, NEW me \in C.ids,
         NEW polys \in [C.ids -> [1..1 -> [1..C.t -> Scalar]]], NEW cheat,
         NEW coms, \A i \in C.ids : <<coms[i]>> = Revealed(i, polys[i], cheat),
         NEW v, v = FinalizeSigned(C, me, polys, coms, cheat)
  PROVE  Blames(v, Culprits(cheat))
<1>0. C.ids \in SUBSET Nat /\ me \in Scalar
  BY ScalarInt DEF Places
<1>0a. polys \in [C.ids -> Polys(1)]
  BY PolysOf
<1>1. PICK sent : sent = SharesTo(C, me, polys, cheat)
  OBVIOUS
<1>2. PICK accepted : accepted = VerifyAll(C, sent)
  OBVIOUS
<1>3. PICK envs : envs = Received(me, accepted.val, cheat)
  OBVIOUS
<1>4. PICK verdict : verdict = Tabulate([i \in C.ids |->
        CheckDealer(C.t, me, i, Committed(polys[i]), <<coms[i]>>, <<envs[i].env.payload>>,
                    ShareFor(i, polys[i], me, cheat))])
  OBVIOUS
<1>5. PICK sums : sums = Loop(verdict, C.ids)
  OBVIOUS
<1>6. PICK s : s = [i \in C.ids |-> sums.val[i][1]]
  OBVIOUS
<1>7. PICK token : token = [token |-> DealerBlameToken(sums, envs, coms)]
  OBVIOUS
<1>8. v = CASE ~accepted.ok -> With(accepted, [token |-> NoToken])
            [] accepted.ok /\ ~sums.ok -> With(sums, token)
            [] OTHER -> Ok(SumOf(s))
  BY <1>1, <1>2, <1>3, <1>4, <1>5, <1>6, <1>7 DEF FinalizeSigned, Each, Loop
<1>8a. PICK got : got = Received(me, [k \in C.ids |-> sent[k]], cheat)
  OBVIOUS
<1>8b. /\ DOMAIN sent = C.ids
       /\ \A i \in C.ids :
            /\ got[i].env.payload \in Scalar
            /\ sent[i].env.from = i /\ sent[i].by = i
            /\ sent[i].over # sent[i].env <=> Hits(cheat, "forged", i, me)
            /\ \/ Hits(cheat, "forged", i, me) \/ Hits(cheat, "transit", i, me)
               \/ got[i].env.payload = ShareFor(i, polys[i], me, cheat)[1]
  <2> QED
    BY SMTT(30), <1>0, <1>0a, <1>1, <1>8a, EnvelopesTyped
<1>9. DOMAIN sent = C.ids
      /\ \A i \in C.ids : /\ sent[i].env.from = i /\ sent[i].by = i
                          /\ sent[i].over # sent[i].env <=> Hits(cheat, "forged", i, me)
  BY <1>8b
<1>10. PICK W : W = Culprits(cheat)
  OBVIOUS
<1>11. \A i : Hits(cheat, "forged", i, me) => i \in W
  BY <1>10, DeviatorBlamed DEF Hits
<1>12. Blames(accepted, W) /\ (accepted.ok => \A i \in C.ids : sent[i].over = sent[i].env)
  <2>1. \A i \in C.ids : sent[i].env.from = i /\ (sent[i].by # i \/ sent[i].over # sent[i].env => i \in W)
    BY <1>9, <1>11
  <2> QED
    <3>1. DOMAIN sent = C.ids
      BY <1>9
    <3>2. PICK envs0 : envs0 = sent
      OBVIOUS
    <3>3. accepted = VerifyAll(C, envs0) /\ DOMAIN envs0 = C.ids
      BY <1>2, <3>1, <3>2
    <3>4. \A i \in C.ids : envs0[i].env.from = i /\ (envs0[i].by # i \/ envs0[i].over # envs0[i].env => i \in W)
      BY <2>1, <3>2
    <3>5. Blames(accepted, W)
      BY <3>3, <3>4, VerifyBlames
    <3>6. accepted.ok => \A i \in C.ids : envs0[i].over = envs0[i].env
      <4> SUFFICES ASSUME accepted.ok, NEW i \in C.ids PROVE envs0[i].over = envs0[i].env
        OBVIOUS
      <4>0. PICK S \in SUBSET Nat : S = C.ids
        BY <1>0
      <4>1. PICK e : e = envs0[i]
        OBVIOUS
      <4>2. DOMAIN envs0 = S /\ i \in S
        BY <3>3, <4>0
      <4>2a. accepted = VerifyAll(C, envs0) /\ accepted.ok
        BY <3>3
      <4>3. e.over = e.env
        BY <4>1, <4>2, <4>2a, VerifiedUnaltered
      <4> QED
        BY <4>1, <4>3
    <3> QED
      BY <3>2, <3>5, <3>6
<1>13. CASE ~accepted.ok
  <2>1. Aborted(accepted)
    BY <1>0, <1>2, <1>9, <1>13, VerifyFails
  <2>2. v = With(accepted, [token |-> NoToken])
    BY <1>8, <1>13
  <2> QED
    BY <1>10, <1>12, <1>13, <2>1, <2>2, WithBlames
<1>14. CASE accepted.ok
  <2>1. \A i \in C.ids : Hits(cheat, "transit", i, me) \/ envs[i].env.payload = ShareFor(i, polys[i], me, cheat)[1]
    <3>1. accepted.val = [k \in C.ids |-> sent[k]]
      BY <1>0, <1>2, <1>9, <1>14, VerifyPasses
    <3>2. \A i \in C.ids : ~Hits(cheat, "forged", i, me)
      BY <1>9, <1>12, <1>14
    <3> QED
      BY <1>3, <1>8a, <1>8b, <3>1, <3>2
  <2>2. ASSUME NEW i \in C.ids
        PROVE  Blames(verdict[i], W) /\ (~verdict[i].ok => Aborted(verdict[i]))
    <3>1. PICK count \in Nat : count = 1
      OBVIOUS
    <3>1a. PICK len \in Nat : len = C.t
      OBVIOUS
    <3>2. PICK p \in [1..count -> [1..len -> Scalar]] : p = polys[i]
      BY <3>1, <3>1a
    <3>3. PICK vec, shares, defense :
          /\ vec = <<coms[i]>> /\ shares = <<envs[i].env.payload>>
          /\ defense = ShareFor(i, p, me, cheat)
      OBVIOUS
    <3>4. PICK one : one = verdict[i]
      OBVIOUS
    <3>5. one = CheckDealer(len, me, i, Committed(p), vec, shares, defense)
      BY <1>4, <3>1a, <3>2, <3>3, <3>4, TabulateIs
    <3>6. Hits(cheat, "deal", i, me) => i \in W
      BY <1>10, DeviatorBlamed DEF Hits
    <3>7. vec # Committed(p) => i \in W
      <4>1. vec = Revealed(i, p, cheat)
        BY <3>2, <3>3
      <4> QED
        BY <1>10, <4>1, DeviatorBlamed DEF Revealed
    <3>8. \A b \in 1..count : shares[b] # defense[b] => me \in W
      <4>1. Hits(cheat, "transit", i, me) => me \in W
        BY <1>10, TransitBlamed
      <4>2. \A b \in 1..count : b = 1
        BY <3>1
      <4>3. shares[1] # defense[1] => Hits(cheat, "transit", i, me)
        BY <2>1, <3>2, <3>3
      <4> QED
        BY <4>1, <4>2, <4>3
    <3>9. Blames(one, W)
      BY ZenonT(40), <1>0, <3>3, <3>5, <3>6, <3>7, <3>8, DealerBlames
    <3>10. ~one.ok => Aborted(one)
      BY <3>5, DealerFails
    <3> QED
      BY <3>4, <3>9, <3>10
  <2>3. Blames(sums, W) /\ (~sums.ok => Aborted(sums))
    <3>1. Blames(sums, W)
      BY <1>0, <1>5, <2>2, LoopBlames
    <3>2. ASSUME ~sums.ok PROVE Aborted(sums)
      BY <1>0, <1>5, <2>2, <3>2, LoopFails
    <3> QED
      BY <3>1, <3>2
  <2>4. CASE sums.ok
    <3>1. v = Ok(SumOf(s))
      BY <1>8, <1>14, <2>4
    <3> QED
      BY <3>1, BlameRules
  <2>5. CASE ~sums.ok
    <3>1. v = With(sums, token)
      BY <1>8, <1>14, <2>5
    <3> QED
      BY <1>10, <2>3, <2>5, <3>1, WithBlames
  <2> QED
    BY <2>4, <2>5
<1> QED
  BY <1>13, <1>14

(* drive_dkg_signed (transport.rs): a signature that fails names the       *)
(* sender, a share that is wrong its dealer.                               *)
LEMMA DkgSignedBlames ==
  ASSUME NEW C, Places(C.ids), C.t \in Nat, NEW seed, NEW cheat, NEW out,
         out = DriveDkgSigned(C, seed, cheat)
  PROVE  Blames(out, Culprits(cheat))
<1>0. C.ids \in SUBSET Nat /\ C.ids \in SUBSET Scalar /\ C.ids # {}
  BY ScalarInt DEF Places
<1>1. PICK polys : polys = Tabulate([i \in C.ids |-> RandomPolys(seed, i, 1, C.t)])
  OBVIOUS
<1>2. PICK e1, e2 : e1 = Commits(C, polys, cheat) /\ e2 = Reveals(C, polys, cheat)
  OBVIOUS
<1>3. PICK r1, r2 : r1 = VerifyAll(C, e1) /\ r2 = VerifyAll(C, e2)
  OBVIOUS
<1>4. PICK coms : coms = Tabulate([i \in C.ids |-> r2.val[i].env.payload[1]])
  OBVIOUS
<1>5. PICK verdict : verdict = Tabulate([j \in C.ids |-> FinalizeSigned(C, j, polys, coms, cheat)])
  OBVIOUS
<1>6. PICK sums : sums = Loop(verdict, C.ids)
  OBVIOUS
<1>7. PICK X : X = [sh |-> sums.val, com |-> SumCom(coms)]
  OBVIOUS
<1>8. PICK none : none = [token |-> NoToken]
  OBVIOUS
<1>9. \/ ~r1.ok /\ out = With(r1, none)
      \/ ~r2.ok /\ out = With(r2, none)
      \/ r2.ok /\ out = IF sums.ok THEN Ok(X) ELSE sums
  BY <1>1, <1>2, <1>3, <1>4, <1>5, <1>6, <1>7, <1>8 DEF DriveDkgSigned, Then, Each, Loop
<1>10. DOMAIN e1 = C.ids /\ DOMAIN e2 = C.ids
  BY <1>2, TabulateIs DEF Commits, Reveals
<1>11. PICK W : W = Culprits(cheat)
  OBVIOUS
<1>12. \A i \in C.ids : e1[i].env.from = i /\ (e1[i].by # i \/ e1[i].over # e1[i].env => i \in W)
  <2>1. ASSUME NEW i \in C.ids
        PROVE  e1[i].env.from = i /\ e1[i].over = e1[i].env
               /\ (e1[i].by # i => Does(cheat, "stranger", i))
    <3>1. PICK key : key = IF Does(cheat, "stranger", i) THEN 0 ELSE i
      OBVIOUS
    <3>2. e1[i] = SignEnv(1, i, 0, Committed(polys[i]), key)
      BY <1>2, <3>1, TabulateIs DEF Commits
    <3>3. PICK env : env = [round |-> 1, from |-> i, to |-> 0, payload |-> Committed(polys[i])]
      OBVIOUS
    <3>4. e1[i] = [env |-> env, by |-> key, over |-> env] /\ env.from = i
      BY <3>2, <3>3 DEF SignEnv
    <3> QED
      BY <3>1, <3>4
  <2> QED
    BY <1>11, <2>1, DeviatorBlamed
<1>13. \A i \in C.ids : /\ e2[i].env.from = i /\ e2[i].by = i /\ e2[i].over = e2[i].env
                        /\ e2[i].env.payload = Revealed(i, polys[i], cheat)
  <2>1. ASSUME NEW i \in C.ids
        PROVE  /\ e2[i].env.from = i /\ e2[i].by = i /\ e2[i].over = e2[i].env
               /\ e2[i].env.payload = Revealed(i, polys[i], cheat)
    <3>1. PICK shown : shown = Revealed(i, polys[i], cheat)
      OBVIOUS
    <3>2. e2[i] = SignEnv(2, i, 0, shown, i)
      BY <1>2, <3>1, TabulateIs DEF Reveals
    <3>3. PICK env : env = [round |-> 2, from |-> i, to |-> 0, payload |-> shown]
      OBVIOUS
    <3>4. e2[i] = [env |-> env, by |-> i, over |-> env] /\ env.from = i /\ env.payload = shown
      BY <3>2, <3>3 DEF SignEnv
    <3> QED
      BY <3>1, <3>4
  <2> QED
    BY <2>1
<1>14. Blames(r1, W) /\ Blames(r2, W)
  BY <1>3, <1>10, <1>12, <1>13, VerifyBlames
<1>15. CASE ~r1.ok /\ out = With(r1, none)
  <2>1. Aborted(r1)
    BY <1>0, <1>3, <1>10, <1>15, VerifyFails
  <2> QED
    BY <1>11, <1>14, <1>15, <2>1, WithBlames
<1>16. CASE ~r2.ok /\ out = With(r2, none)
  <2>1. Aborted(r2)
    BY <1>0, <1>3, <1>10, <1>16, VerifyFails
  <2> QED
    BY <1>11, <1>14, <1>16, <2>1, WithBlames
<1>17. CASE r2.ok /\ out = IF sums.ok THEN Ok(X) ELSE sums
  <2>1. polys \in [C.ids -> [1..1 -> [1..C.t -> Scalar]]]
    <3>1. polys = [i \in C.ids |-> RandomPolys(seed, i, 1, C.t)]
      BY <1>1, TabulateIs
    <3> QED
      BY <3>1, RandomTyped
  <2>2. ASSUME NEW i \in C.ids PROVE <<coms[i]>> = Revealed(i, polys[i], cheat)
    <3>1. r2.val = [k \in C.ids |-> e2[k]]
      BY <1>0, <1>3, <1>10, <1>17, VerifyPasses
    <3>2. PICK shown : shown = Revealed(i, polys[i], cheat)
      OBVIOUS
    <3>3. coms[i] = shown[1]
      <4>1. coms = [k \in C.ids |-> r2.val[k].env.payload[1]]
        BY <1>4, TabulateIs
      <4>2. coms[i] = r2.val[i].env.payload[1]
        BY <4>1
      <4>3. r2.val[i] = e2[i]
        BY <3>1
      <4>4. e2[i].env.payload = shown
        BY <1>13, <3>2
      <4> QED
        BY <4>2, <4>3, <4>4
    <3>4. DOMAIN polys[i] = 1..1
      BY <2>1
    <3>5. shown = <<shown[1]>>
      <4>1. CASE Does(cheat, "reveal", i)
        <5>1. PICK a : a = AddConst(Commit(polys[i][1]), 1)
          OBVIOUS
        <5>2. shown = <<a>>
          BY <3>2, <4>1, <5>1 DEF Revealed
        <5> QED
          BY <5>2
      <4>2. CASE ~Does(cheat, "reveal", i)
        <5>1. shown = [b \in 1..1 |-> Commit(polys[i][b])]
          BY <3>2, <3>4, <4>2, TabulateIs DEF Revealed, Committed
        <5>2. PICK a : a = Commit(polys[i][1])
          OBVIOUS
        <5>3. shown = [b \in 1..1 |-> a]
          BY <5>1, <5>2
        <5> QED
          BY <5>3
      <4> QED
        BY <4>1, <4>2
    <3> QED
      BY <3>2, <3>3, <3>5
  <2>3. ASSUME NEW j \in C.ids PROVE Blames(verdict[j], W)
    <3>1. PICK v : v = verdict[j]
      OBVIOUS
    <3>2. v = FinalizeSigned(C, j, polys, coms, cheat)
      BY <1>5, <3>1, TabulateIs
    <3>3. Blames(v, Culprits(cheat))
      BY <2>1, <2>2, <3>2, FinalizeSignedBlames
    <3> QED
      BY <1>11, <3>1, <3>3
  <2>4. Blames(sums, W)
    BY <1>0, <1>6, <2>3, LoopBlames
  <2> QED
    BY <1>11, <1>17, <2>4, BlameRules
<1> QED
  BY <1>9, <1>15, <1>16, <1>17

===============================================================================
