------------------------------- MODULE Sharing -------------------------------
(***************************************************************************)
(* Shamir sharing over a prime field, Feldman commitments, verified        *)
(* openings and product proofs (src/src/primitives).                       *)
(*                                                                         *)
(* The field is the integers modulo a small prime Q. A point of the curve  *)
(* is its multiple of a fixed base point, again modulo Q, and Gen is the   *)
(* generator: discrete logarithms are easy here, and no property is about  *)
(* them being hard. A polynomial is the sequence of its coefficients, a    *)
(* commitment the sequence of their points. A shared value is a record of  *)
(* the shares sh, by party, and of the commitment com to the polynomial.   *)
(*                                                                         *)
(* Calls return Ok(value) or the error they would return in Rust: an       *)
(* identifiable abort, or a named failure.                                 *)
(***************************************************************************)
EXTENDS Integers, Sequences, SequencesExt

CONSTANTS Q,    \* the order of the field and of the group
          Gen   \* the generator, as a multiple of the base point

ASSUME FieldAssumption ==
    /\ Q \in Nat /\ Q > 3
    /\ \A a \in 2..(Q - 1) : Q % a # 0
    /\ Gen \in 1..(Q - 1)

Scalar == 0..(Q - 1)

\* The same function; TLC keeps the table that the comparison needs.
Tabulate(f) == CHOOSE g \in {f} : g = f

\* A record with more fields.
With(r, more) == [x \in DOMAIN r \union DOMAIN more |-> IF x \in DOMAIN r THEN r[x] ELSE more[x]]

-----------------------------------------------------------------------------
(* Results. *)

Ok(v)      == [ok |-> TRUE, val |-> v]
Abort(who) == [ok |-> FALSE, err |-> "abort", blamed |-> who]
Fail(why)  == [ok |-> FALSE, err |-> why, blamed |-> {}]

\* The ? operator: go on with the value, or return the error.
Then(r, F(_)) == IF r.ok THEN F(r.val) ELSE r

\* The k least elements: maps are ordered by party, and "the first t" are these.
Lowest(k, S) == {i \in S : Cardinality({j \in S : j < i}) < k}

-----------------------------------------------------------------------------
(* The field. *)

Inv(a) == CHOOSE b \in Scalar : (a * b) % Q = 1

SumOf(f)  == FoldFunction(LAMBDA a, b : (a + b) % Q, 0, f)
ProdOf(f) == FoldFunction(LAMBDA a, b : (a * b) % Q, 1, f)

\* ECDSA's r: the abscissa of a point, modulo Q. Opposite points share it, and
\* one pair of points has r = 0.
XCoord(R) == (R * R - Gen * Gen) % Q

-----------------------------------------------------------------------------
(* Polynomials and interpolation (shamir.rs). *)

EvalPoly(p, x) == FoldRight(LAMBDA c, acc : (acc * x + c) % Q, p, 0)

\* The secret goes first, the random coefficients follow.
RandomPoly(secret, masks) == <<secret>> \o masks

SlotPoint(b) == (-b) % Q

\* Coefficient l of a product of polynomials.
MulPoly(p, r) ==
    Tabulate([l \in 1..(Len(p) + Len(r) - 1) |->
        SumOf([i \in {i \in DOMAIN p : l - i + 1 \in DOMAIN r} |-> p[i] * r[l - i + 1]])])

\* The polynomial (X + 0)(X + 1)...(X + B - 1), zero at every slot point.
Vanishing(B) == FoldLeft(LAMBDA v, b : MulPoly(v, <<b, 1>>), <<1>>, [b \in 1..B |-> b - 1])

\* A sharing of the constant vector (value, ..., value): value + V * mask.
RandomPackedConst(value, B, mask) ==
    LET v == IF mask = <<>> THEN [l \in 1..B |-> 0] ELSE MulPoly(Vanishing(B), mask)
    IN  [v EXCEPT ![1] = (v[1] + value) % Q]

Lagrange(x, S) ==
    Tabulate([i \in S |->
        (ProdOf([k \in S \ {i} |-> x - k]) * Inv(ProdOf([k \in S \ {i} |-> i - k]))) % Q])

Interpolate(x, f) ==
    LET w == Lagrange(x, DOMAIN f) IN SumOf([i \in DOMAIN f |-> w[i] * f[i]])

-----------------------------------------------------------------------------
(* Commitments (vss.rs). *)

Commit(p) == Tabulate([l \in DOMAIN p |-> (Gen * p[l]) % Q])

EvalCom(A, x) == FoldRight(LAMBDA P, acc : (acc * x + P) % Q, A, 0)

VerifyShare(A, j, s) == EvalCom(A, j) = (Gen * s) % Q

\* Appending the identity point is appending a zero coefficient.
AddCom(A, B) ==
    LET At(C, l) == IF l \in DOMAIN C THEN C[l] ELSE 0
    IN  Tabulate([l \in DOMAIN A \union DOMAIN B |-> (At(A, l) + At(B, l)) % Q])

ScaleCom(A, c) == Tabulate([l \in DOMAIN A |-> (A[l] * c) % Q])

AddConst(A, c) == [A EXCEPT ![1] = (A[1] + Gen * c) % Q]

SumCom(coms) == FoldFunction(AddCom, <<>>, coms)

-----------------------------------------------------------------------------
(* The same linear maps on what the parties hold and on the commitment. *)

Plus(X, Y)  == [sh |-> Tabulate([j \in DOMAIN X.sh |-> (X.sh[j] + Y.sh[j]) % Q]),
                com |-> AddCom(X.com, Y.com)]
Times(X, c) == [sh |-> Tabulate([j \in DOMAIN X.sh |-> (X.sh[j] * c) % Q]),
                com |-> ScaleCom(X.com, c)]
Shift(X, c) == [sh |-> Tabulate([j \in DOMAIN X.sh |-> (X.sh[j] + c) % Q]),
                com |-> AddConst(X.com, c)]
Minus(X, Y) == Plus(X, Times(Y, Q - 1))

\* The parties of S only; one party's share off by one.
Among(S, X) == [X EXCEPT !.sh = Restrict(X.sh, S)]
Spoil(X, who) == [X EXCEPT !.sh = [j \in DOMAIN X.sh |-> IF j \in who THEN (X.sh[j] + 1) % Q ELSE X.sh[j]]]

-----------------------------------------------------------------------------
(* Openings (open.rs): t is the number of shares that determine the value. *)

BadShares(X) == {j \in DOMAIN X.sh : ~VerifyShare(X.com, j, X.sh[j])}

\* From the first t of the valid shares S.
FromFirst(x, t, X, S) == Interpolate(x, Restrict(X.sh, Lowest(t, S)))

OpenAt(x, t, X) ==
    LET bad == BadShares(X)
    IN  CASE bad # {} -> Abort(bad)
          [] bad = {} /\ Cardinality(DOMAIN X.sh) < t -> Fail("few")
          [] OTHER -> Ok(FromFirst(x, t, X, DOMAIN X.sh))

Open(t, X) == OpenAt(0, t, X)

\* A mutant of OpenRobust: it asks for a share more.
OpenRobustStrict(t, X) ==
    LET good == DOMAIN X.sh \ BadShares(X)
    IN  IF Cardinality(good) <= t THEN Fail("few")
        ELSE Ok([v |-> FromFirst(0, t, X, good), bad |-> DOMAIN X.sh \ good])

OpenRobust(t, X) ==
    LET good == DOMAIN X.sh \ BadShares(X)
    IN  IF Cardinality(good) < t THEN Fail("few")
        ELSE Ok([v |-> FromFirst(0, t, X, good), bad |-> DOMAIN X.sh \ good])

-----------------------------------------------------------------------------
(* Product proofs (dleq.rs): log_Gen(x1) = log_H(x2). A proof that verifies *)
(* is one made from a witness; sound is FALSE for one that was altered.     *)

Prove(x, H) == [x1 |-> (Gen * x) % Q, x2 |-> (H * x) % Q, sound |-> TRUE]

VerifyDleq(H, proof) ==
    /\ proof.sound
    /\ \E x \in Scalar : proof.x1 = (Gen * x) % Q /\ proof.x2 = (H * x) % Q

\* The aggregate check of one prover's proofs accepts what each check accepts.
VerifyBatch(H, proofs) == \A b \in DOMAIN proofs : VerifyDleq(H[b], proofs[b])

=============================================================================
