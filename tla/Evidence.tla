------------------------------ MODULE Evidence ------------------------------
(***************************************************************************)
(* The key generation over signed envelopes, and the blame token it leaves *)
(* when a dealer's share is bad (src/src/runtime/transport.rs).            *)
(*                                                                         *)
(* A signed envelope is a record of the envelope env, the owner by of the  *)
(* key that signed it and what was signed, over: the encoding of an        *)
(* envelope determines it, so over is an envelope. The payload of round    *)
(* one is a hash, of round two to everybody a commitment, of round two to  *)
(* one party a share; to is zero for a broadcast.                          *)
(*                                                                         *)
(* The transport hands over what it was given. A deviation of kind         *)
(* "forged" alters the share from by to at after it was signed, one of     *)
(* kind "stranger" has by's commit signed with an unregistered key.        *)
(***************************************************************************)
EXTENDS Dealing

SignEnv(round, from, to, payload, key) ==
    LET env == [round |-> round, from |-> from, to |-> to, payload |-> payload]
    IN  [env |-> env, by |-> key, over |-> env]

VerifySignature(se, key) == se.by = key /\ se.over = se.env

\* Every party registers one key, named by its id; zero is nobody's.
Registry(C) == Tabulate([i \in C.ids |-> i])

\* What the senders of a round hand to the transport, by sender.
Commits(C, polys, cheat) == Tabulate([i \in C.ids |->
    SignEnv(1, i, 0, Committed(polys[i]), IF Does(cheat, "stranger", i) THEN 0 ELSE i)])

Reveals(C, polys, cheat) == Tabulate([i \in C.ids |-> SignEnv(2, i, 0, Revealed(i, polys[i], cheat), i)])

SharesTo(C, j, polys, cheat) == Tabulate([i \in C.ids |->
    LET s == SignEnv(2, i, j, ShareFor(i, polys[i], j, cheat)[1], i)
    IN  IF Hits(cheat, "forged", i, j) THEN [s EXCEPT !.env.payload = (@ + 1) % Q] ELSE s])

\* An envelope whose signature fails blames the sender it names.
VerifyAll(C, envs) == Each(DOMAIN envs, LAMBDA i :
    IF VerifySignature(envs[i], Registry(C)[envs[i].env.from]) THEN Ok(envs[i]) ELSE Abort({i}))

\* The share that arrived at j and was verified is altered before it is used.
Received(j, envs, cheat) == Tabulate([i \in DOMAIN envs |->
    IF Hits(cheat, "transit", i, j) THEN [envs[i] EXCEPT !.env.payload = (@ + 1) % Q] ELSE envs[i]])

-----------------------------------------------------------------------------
(* Tokens. *)

NoToken == [given |-> FALSE]

\* The abort must name one dealer whose share fails its commitment.
DealerBlameToken(error, envs, coms) ==
    LET d == CHOOSE d \in error.blamed : TRUE
    IN  CASE error.err # "abort" \/ Cardinality(error.blamed) # 1 -> NoToken
          [] VerifyShare(coms[d], envs[d].env.to, envs[d].env.payload) -> NoToken
          [] OTHER -> [given |-> TRUE, blamed |-> error.blamed, se |-> envs[d], com |-> coms[d]]


\* The auditor's check, from the token and the parties' keys.
TokenVerifies(token, registry) ==
    LET env == token.se.env
    IN  /\ token.blamed = {env.from}
        /\ env.round = 2 /\ env.to # 0
        /\ env.from \in DOMAIN registry
        /\ VerifySignature(token.se, registry[env.from])
        /\ ~VerifyShare(token.com, env.to, env.payload)

-----------------------------------------------------------------------------
(* The session. Every party works on the envelopes it accepted; the error  *)
(* of the first party that fails carries the token.                        *)

FinalizeSigned(C, me, polys, coms, cheat) ==
    LET late(error) == With(error, [token |-> NoToken])
        accepted == VerifyAll(C, SharesTo(C, me, polys, cheat))
        envs == Received(me, accepted.val, cheat)
        sums == Each(C.ids, LAMBDA i :
                    CheckDealer(C.t, me, i, Committed(polys[i]), <<coms[i]>>, <<envs[i].env.payload>>,
                                ShareFor(i, polys[i], me, cheat)))
    IN  CASE ~accepted.ok -> late(accepted)
          [] accepted.ok /\ ~sums.ok -> With(sums, [token |-> DealerBlameToken(sums, envs, coms)])
          [] OTHER -> Ok(SumOf([i \in C.ids |-> sums.val[i][1]]))

DriveDkgSigned(C, seed, cheat) ==
    LET polys == Tabulate([i \in C.ids |-> RandomPolys(seed, i, 1, C.t)])
        r1 == VerifyAll(C, Commits(C, polys, cheat))
        r2 == VerifyAll(C, Reveals(C, polys, cheat))
        coms == Tabulate([i \in C.ids |-> r2.val[i].env.payload[1]])
    IN  IF ~r1.ok THEN With(r1, [token |-> NoToken])
        ELSE IF ~r2.ok THEN With(r2, [token |-> NoToken])
        ELSE Then(Each(C.ids, LAMBDA j : FinalizeSigned(C, j, polys, coms, cheat)),
                  LAMBDA sh : Ok([sh |-> sh, com |-> SumCom(coms)]))

=============================================================================
