-------------------------------- MODULE Link --------------------------------
(***************************************************************************)
(* One connection of the mesh, from the writing node to the reader thread  *)
(* of the other: frames are written, arrive in pieces, and are read and    *)
(* checked before they are handled (write_frame and read_frame of          *)
(* src/node/src/net/wire.rs, reader_loop and handle of                     *)
(* src/node/src/net/mesh.rs).                                              *)
(*                                                                         *)
(* The reader's socket has a read timeout, the poll. A poll that ends in   *)
(* the middle of a frame loses what was read of it.                        *)
(***************************************************************************)
EXTENDS Wire, FiniteSets

CONSTANTS N,            \* the committee: parties 1..N
          Envelopes,    \* the envelopes there are: a sequence
          Echoers,      \* the parties whose echoes are on this link
          Later,        \* the envelopes that may be written after the first message
          MaxSent,      \* messages written
          MaxTroubles   \* units altered and long pauses: they befall the first messages only

ASSUME LinkAssumption == N \in Nat \ {0} /\ Later \subseteq DOMAIN Envelopes /\ MaxSent \in Nat /\ MaxTroubles \in Nat

VARIABLES sent,      \* history: the messages written
          flight,    \* what was written and did not arrive yet
          arrived,   \* what arrived and was not read yet
          got,       \* history: the messages that were handled
          open,      \* FALSE once the reader dropped the connection
          faults,    \* the units that were altered
          pauses     \* the pauses within a frame that were longer than the poll

vars == <<sent, flight, arrived, got, open, faults, pauses>>

-----------------------------------------------------------------------------
(* Signatures. A signature is a number that names its signer and the one   *)
(* thing it was made over.                                                 *)

SigOf(key, k, what) == 1 + what + 2 * k + 64 * key
AllSigs == {SigOf(p, k, w) : p \in 1..N, k \in DOMAIN Envelopes, w \in 0..1}

Signed(k) == [env |-> Envelopes[k], sig |-> SigOf(Envelopes[k].from, k, 0)]

\* Mutant: the signature covers the payload, not what the envelope says about it.
VerifyPayload(se) == \E k \in DOMAIN Envelopes :
    /\ se.sig = SigOf(se.env.from, k, 0)
    /\ PutPayload(se.env.payload) = PutPayload(Envelopes[k].payload)

VerifySignature(se) == \E k \in DOMAIN Envelopes :
    /\ se.sig = SigOf(se.env.from, k, 0)
    /\ se.env.from = Envelopes[k].from
    /\ PutEnvelope(se.env, PutPayload(se.env.payload))
       = PutEnvelope(Envelopes[k], PutPayload(Envelopes[k].payload))

ValidOriginal(se) == se.env.from \in 1..N /\ VerifySignature(se)

\* Only broadcasts are echoed, and only by others.
Verify(m) ==
    /\ ValidOriginal(m.original)
    /\ m.kind = 2 =>
         /\ m.echoer # m.original.env.from /\ m.original.env.to = 0
         /\ m.echoer \in 1..N
         /\ \E k \in DOMAIN Envelopes :
              m.sig = SigOf(m.echoer, k, 1) /\ m.original = Signed(k)

Messages(K) == {Original(Signed(k)) : k \in K} \union
               {Echo(e, Signed(k), SigOf(e, k, 1)) :
                   e \in Echoers, k \in {j \in K : Envelopes[j].to = 0}}

Honest(m) == m.kind = 2 => m.echoer # m.original.env.from

-----------------------------------------------------------------------------
Init == /\ sent = <<>> /\ flight = <<>> /\ arrived = <<>> /\ got = <<>>
        /\ open = TRUE /\ faults = 0 /\ pauses = 0

Write == \E m \in Messages(IF sent = <<>> THEN DOMAIN Envelopes ELSE Later) :
    /\ Len(sent) < MaxSent /\ Honest(m) /\ flight = <<>>
    /\ sent' = Append(sent, m)
    /\ flight' = FrameOf(m)
    /\ UNCHANGED <<arrived, got, open, faults, pauses>>

Troubled == faults + pauses < MaxTroubles /\ Len(sent) <= MaxTroubles

\* A unit is altered to a value that is near, or that is no scalar.
Alter == \E k \in DOMAIN flight : \E v \in {flight[k].v + 1, Q} \ {flight[k].v} :
    /\ Troubled /\ faults' = faults + 1
    /\ flight' = [flight EXCEPT ![k].v = v]
    /\ UNCHANGED <<sent, arrived, got, open, pauses>>

Arrive == /\ flight # <<>>
          /\ arrived' = arrived \o flight /\ flight' = <<>>
          /\ UNCHANGED <<sent, got, open, faults, pauses>>

\* A part of the frame arrives, and the rest is later than the poll.
Pause == \E k \in 1..(Len(flight) - 1) :
    /\ Troubled /\ pauses' = pauses + 1
    /\ arrived = <<>>
    /\ arrived' = SubSeq(flight, 1, k) /\ flight' = SubSeq(flight, k + 1, Len(flight))
    /\ UNCHANGED <<sent, got, open, faults>>

-----------------------------------------------------------------------------
(* The reader. *)

\* What the next bytes hold: nothing yet, a part of a frame, a message, or a
\* frame that the reader refuses.
Wanting(u) == u = <<>>
Partial(u) == u # <<>> /\ Head(u).w = 4 /\ Head(u).v <= MaxFrame(N) /\ Bytes(Tail(u)) < Head(u).v

\* read_frame, when the bytes it asks for are there. A header read at another
\* place than a header's is taken for a frame that is refused.
NextFrame(u) ==
    LET body == TakeBytes(u)
        m == TakeMessage(body.v)
    IN  IF \/ Head(u).w # 4
           \/ Head(u).v > MaxFrame(N)
           \/ ~body.ok
           \/ ~m.ok
           \/ m.rest # <<>>
        THEN None
        ELSE Some(m.v, body.rest)

\* A frame within the bound of its variant goes to handle, which drops it
\* silently if it does not verify.
Read ==
    /\ open /\ ~Wanting(arrived) /\ ~Partial(arrived)
    /\ LET f == NextFrame(arrived)
       IN  IF ~f.ok \/ Head(arrived).v > VariantMax(f.v, N)
           THEN open' = FALSE /\ arrived' = <<>> /\ UNCHANGED got
           ELSE /\ arrived' = f.rest
                /\ got' = IF Verify(f.v) THEN Append(got, f.v) ELSE got
                /\ UNCHANGED open
    /\ UNCHANGED <<sent, flight, faults, pauses>>

\* The poll ends within a frame: the loop goes on with the bytes that follow.
PollEnds ==
    /\ open /\ Partial(arrived)
    /\ arrived' = <<>>
    /\ UNCHANGED <<sent, flight, got, open, faults, pauses>>

Next == Write \/ Alter \/ Arrive \/ Pause \/ Read \/ PollEnds

Spec == Init /\ [][Next]_vars

-----------------------------------------------------------------------------
(* Properties. *)

\* What is handled is what was written, in order, whatever was altered on the way:
\* a message of which one field differs never passes for another one.
HandledAsWritten == \E S \in SUBSET DOMAIN sent :
    got = [k \in 1..Cardinality(S) |->
             sent[CHOOSE i \in S : Cardinality({j \in S : j <= i}) = k]]

\* Every message a party sends fits the bounds, decodes and verifies: if nothing is
\* altered or delayed, all that arrived is handled and the connection stays.
HonestFramesPass ==
    faults = 0 /\ pauses = 0 =>
        /\ open
        /\ Wanting(arrived) /\ Wanting(flight) => got = sent

\* The poll is for noticing a shutdown only: a link that alters nothing stays open.
PollIsHarmless == faults = 0 => open

=============================================================================
