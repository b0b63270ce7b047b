-------------------------------- MODULE Wire --------------------------------
(***************************************************************************)
(* The canonical encoding of messages (src/src/runtime/transport.rs, the   *)
(* payloads of src/node/src/party/party.rs) and the frames that carry them *)
(* between two nodes (src/node/src/net/wire.rs).                           *)
(*                                                                         *)
(* Bytes are grouped: a unit is a field of w bytes with the value v, a     *)
(* number. A reader sees values and widths only, never what field a unit   *)
(* was written as. A payload is a record of its tag, the sequence of tag   *)
(* bytes it starts with, and its fields.                                   *)
(***************************************************************************)
EXTENDS Integers, Sequences, SequencesExt

CONSTANTS Q,        \* scalars and points are below Q; the point 0 is the identity
          SigIds    \* what signatures there are: numbers, never zero

ASSUME WireAssumption == Q \in Nat \ {0} /\ SigIds \subseteq Nat \ {0}

U(w, v) == [w |-> w, v |-> v]
\* The bytes of every prefix of u, and of u.
Sums(u) == LET sum[k \in 0..Len(u)] == IF k = 0 THEN 0 ELSE sum[k - 1] + u[k].w IN sum
Bytes(u)    == Sums(u)[Len(u)]
PutBytes(u) == <<U(8, Bytes(u))>> \o u

\* The result of a decoder: a value and the units it left, or nothing.
None          == [ok |-> FALSE]
Some(v, rest) == [ok |-> TRUE, v |-> v, rest |-> rest]
And(r, F(_, _)) == IF r.ok THEN F(r.v, r.rest) ELSE None

TakeNum(u) == IF u = <<>> THEN None ELSE Some(Head(u).v, Tail(u))
TakeIn(S, u) == IF u # <<>> /\ Head(u).v \in S THEN TakeNum(u) ELSE None

\* A byte string whose length comes first.
TakeBytes(u) == And(TakeNum(u), LAMBDA n, rest :
    LET sum  == Sums(rest)
        ends == {k \in 0..Len(rest) : sum[k] = n}
    IN  IF ends = {} THEN None
        ELSE LET k == CHOOSE k \in ends : TRUE
             IN  Some(SubSeq(rest, 1, k), SubSeq(rest, k + 1, Len(rest))))

TakeMany(n, u, Take(_)) ==
    LET items[k \in 0..n] ==
            IF k = 0 THEN Some(<<>>, u)
            ELSE And(items[k - 1], LAMBDA got, rest :
                     And(Take(rest), LAMBDA v, left : Some(Append(got, v), left)))
    IN  items[n]

-----------------------------------------------------------------------------
(* Fields. *)

PutPoint(v) == U(IF v = 0 THEN 1 ELSE 33, v)

PutList(s, Put(_)) == <<U(8, Len(s))>> \o FlattenSeq([i \in DOMAIN s |-> Put(s[i])])
TakeList(u, Take(_)) == And(TakeNum(u), LAMBDA n, rest : TakeMany(n, rest, Take))

PutPair(p) == <<U(8, p[1]), U(32, p[2])>>
TakePair(u) == And(TakeNum(u), LAMBDA a, rest :
               And(TakeIn(0..(Q - 1), rest), LAMBDA b, left : Some(<<a, b>>, left)))

\* A count of points greater than the bytes that are left is refused at once.
TakeCom(u) ==
    IF u # <<>> /\ Head(u).v > Bytes(Tail(u)) THEN None
    ELSE TakeList(u, LAMBDA rest : TakeIn(0..(Q - 1), rest))

PutField(kind, v) ==
    CASE kind = "u64"    -> <<U(8, v)>>
      [] kind = "scalar" -> <<U(32, v)>>
      [] kind = "point"  -> <<PutPoint(v)>>
      [] kind = "hash"   -> PutBytes(<<U(32, v)>>)
      [] kind = "com"    -> PutList(v, LAMBDA P : <<PutPoint(P)>>)
      [] kind = "ids"    -> PutList(v, LAMBDA i : <<U(8, i)>>)
      [] kind = "pairs"  -> PutList(v, PutPair)

TakeField(kind, u) ==
    CASE kind = "u64"   -> TakeNum(u)
      [] kind \in {"scalar", "point"} -> TakeIn(0..(Q - 1), u)
      [] kind = "hash"  -> And(TakeBytes(u), LAMBDA b, rest :
                               IF Len(b) = 1 /\ b[1].w = 32 THEN Some(b[1].v, rest) ELSE None)
      [] kind = "com"   -> TakeCom(u)
      [] kind = "ids"   -> TakeList(u, TakeNum)
      [] kind = "pairs" -> TakeList(u, TakePair)

-----------------------------------------------------------------------------
(* Payloads: the fields that follow each tag. *)

Schema ==
    <<1, 1>> :> <<"u64", "hash">>                                        \* Dkg(Commit)
 @@ <<1, 2>> :> <<"u64", "com">>                                         \* Dkg(Reveal)
 @@ <<1, 3>> :> <<"u64", "u64", "scalar">>                               \* Dkg(Share)
 @@ <<2>>    :> <<"ids">>                                                \* Complaints
 @@ <<3>>    :> <<"pairs">>                                              \* Defenses
 @@ <<4>>    :> <<"u64", "scalar">>                                      \* SignShare
 @@ <<5>>    :> <<"com", "point", "point", "point", "point", "scalar">>  \* TripleDeal
 @@ <<6>>    :> <<"scalar">>                                             \* Reshare
 @@ <<7>>    :> <<"scalar", "scalar">>                                   \* BeaverOpen
 @@ <<8>>    :> <<"scalar">>                                             \* OpenShare
 @@ <<9>>    :> <<"point">>                                              \* NoncePoint
 @@ <<11>>   :> <<"pairs">>                                              \* ReshareSupply

Requests == <<10>>   \* ReshareRequests: signed envelopes by dealer

TakeTag(u) == And(TakeNum(u), LAMBDA a, rest :
              IF a = 1 THEN And(TakeNum(rest), LAMBDA b, left : Some(<<1, b>>, left))
              ELSE Some(<<a>>, rest))

PutTag(tag) == [k \in DOMAIN tag |-> U(1, tag[k])]

PutFlat(p) ==
    PutTag(p.tag) \o FlattenSeq([k \in DOMAIN p.fields |-> PutField(Schema[p.tag][k], p.fields[k])])

TakeFlat(u) == And(TakeTag(u), LAMBDA tag, rest :
    IF tag \notin DOMAIN Schema THEN None
    ELSE And(FoldLeft(LAMBDA r, kind : And(r, LAMBDA got, more :
                          And(TakeField(kind, more), LAMBDA v, left : Some(Append(got, v), left))),
                      Some(<<>>, rest), Schema[tag]),
             LAMBDA fields, left : Some([tag |-> tag, fields |-> fields], left)))

-----------------------------------------------------------------------------
(* Envelopes, around an encoded payload. to is zero for a broadcast.       *)

PutEnvelope(e, body) ==
    PutBytes(<<e.sid>>) \o <<U(1, e.phase), U(1, e.round), U(8, e.from)>>
    \o (IF e.to = 0 THEN <<U(1, 0)>> ELSE <<U(1, 1), U(8, e.to)>>)
    \o PutBytes(body)

TakeTo(u) == And(TakeIn({0, 1}, u), LAMBDA some, rest :
                 IF some = 0 THEN Some(0, rest) ELSE TakeNum(rest))

TakeEnvelope(u) ==
    And(TakeBytes(u),         LAMBDA sid, u1 :
    And(TakeIn(1..5, u1),     LAMBDA phase, u2 :
    And(TakeNum(u2),          LAMBDA round, u3 :
    And(TakeNum(u3),          LAMBDA from, u4 :
    And(TakeTo(u4),           LAMBDA to, u5 :
    And(TakeBytes(u5),        LAMBDA body, u6 :
        IF Len(sid) # 1 THEN None
        ELSE Some([sid |-> sid[1], phase |-> phase, round |-> round, from |-> from, to |-> to,
                   payload |-> body], u6)))))))

PutSigned(s, body) == PutEnvelope(s.env, body) \o <<U(64, s.sig)>>

TakeSigned(u) ==
    And(TakeEnvelope(u),      LAMBDA env, rest :
    And(TakeIn(SigIds, rest), LAMBDA sig, left : Some([env |-> env, sig |-> sig], left)))

\* The payload has to use up its bytes.
TakeOver(u, Take(_)) ==
    And(TakeSigned(u),        LAMBDA s, left :
    And(Take(s.env.payload),  LAMBDA payload, over :
        IF over # <<>> THEN None ELSE Some([s EXCEPT !.env.payload = payload], left)))

\* The requests of a reconstruction carry the envelopes of re-shares.
PutPayload(p) ==
    IF p.tag = Requests
    THEN PutTag(p.tag) \o PutList(p.fields, LAMBDA r :
             <<U(8, r.dealer)>> \o PutSigned(r.se, PutFlat(r.se.env.payload)))
    ELSE PutFlat(p)

TakeRequest(u) == And(TakeNum(u), LAMBDA dealer, rest :
                  And(TakeOver(rest, TakeFlat), LAMBDA se, left :
                      Some([dealer |-> dealer, se |-> se], left)))

TakePayload(u) ==
    IF u # <<>> /\ Head(u).v = 10
    THEN And(TakeList(Tail(u), TakeRequest), LAMBDA reqs, rest :
             Some([tag |-> Requests, fields |-> reqs], rest))
    ELSE TakeFlat(u)

-----------------------------------------------------------------------------
(* The messages of the mesh: originals, and echoes of broadcasts.          *)

Original(s)     == [kind |-> 1, echoer |-> 0, original |-> s, sig |-> 0]
Echo(e, s, sig) == [kind |-> 2, echoer |-> e, original |-> s, sig |-> sig]

PutMessage(m) ==
    LET s == PutSigned(m.original, PutPayload(m.original.env.payload))
    IN  IF m.kind = 1 THEN <<U(1, 1)>> \o s
        ELSE <<U(1, 2), U(8, m.echoer)>> \o s \o <<U(64, m.sig)>>

TakeMessage(u) == And(TakeIn({1, 2}, u), LAMBDA kind, u1 :
    IF kind = 1
    THEN And(TakeOver(u1, TakePayload), LAMBDA s, left : Some(Original(s), left))
    ELSE And(TakeNum(u1),                 LAMBDA e, u2 :
         And(TakeOver(u2, TakePayload), LAMBDA s, u3 :
         And(TakeIn(SigIds, u3),          LAMBDA sig, left : Some(Echo(e, s, sig), left)))))

-----------------------------------------------------------------------------
(* Bounds on the size of a message in a committee of n, by its tag.        *)

MaxSid == 128
\* Mutant: the overhead of an echo is that of an original.
EchoAsOriginal == 128 + MaxSid

OriginalOverhead == 128 + MaxSid
EchoOverhead     == 200 + MaxSid

PayloadMax(tag, n) ==
    CASE tag[1] = 1            -> 64 + 40 * n
      [] tag[1] = 2            -> 16 + 8 * n
      [] tag[1] = 3            -> 16 + 40 * n
      [] tag[1] = 4            -> 64
      [] tag[1] = 5            -> 256 + 40 * n
      [] tag[1] \in {6, 8, 9}  -> 48
      [] tag[1] = 7            -> 96
      [] tag[1] = 10           -> 16 + 400 * n
      [] tag[1] = 11           -> 16 + 48 * n

FamilyMax(n)  == 16 + 400 * n
MaxFrame(n)   == EchoOverhead + FamilyMax(n)
VariantMax(m, n) == (IF m.kind = 1 THEN OriginalOverhead ELSE EchoOverhead)
                    + PayloadMax(m.original.env.payload.tag, n)

\* A frame: the number of bytes that follow, in four bytes.
FrameOf(m) == <<U(4, Bytes(PutMessage(m)))>> \o PutMessage(m)

=============================================================================
