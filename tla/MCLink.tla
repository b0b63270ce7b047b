---- MODULE MCLink ----
EXTENDS Link

\* A session id as long as they may be, and payloads of a committee of three.
Env(phase, round, from, to, tag, fields) ==
    [sid |-> U(MaxSid, 1), phase |-> phase, round |-> round, from |-> from, to |-> to,
     payload |-> [tag |-> tag, fields |-> fields]]

Flat == <<
    Env(1, 1, 1, 0, <<1, 1>>, <<1, 5>>),
    Env(1, 2, 1, 0, <<1, 2>>, <<1, <<3, 0, 4>>>>),
    Env(1, 2, 1, 2, <<1, 3>>, <<1, 2, 5>>),
    Env(1, 3, 1, 0, <<2>>, <<<<2, 3>>>>),
    Env(1, 4, 1, 0, <<3>>, <<<< <<2, 5>>, <<3, 1>> >>>>),
    Env(4, 1, 1, 0, <<4>>, <<1, 5>>),
    Env(2, 1, 1, 0, <<5>>, <<<<3, 2, 4>>, 5, 3, 0, 6, 7>>),
    Env(2, 1, 2, 1, <<6>>, <<5>>),
    Env(2, 1, 3, 1, <<6>>, <<0>>),
    Env(3, 1, 1, 0, <<7>>, <<5, 1>>),
    Env(3, 2, 1, 0, <<8>>, <<5>>),
    Env(3, 3, 1, 0, <<9>>, <<0>>),
    Env(2, 5, 1, 0, <<11>>, <<<< <<2, 5>>, <<3, 0>> >>>>) >>

MCEnvelopes == Append(Flat,
    Env(2, 4, 1, 0, Requests,
        << [dealer |-> 2, se |-> [env |-> Flat[8], sig |-> 1 + 2 * 8 + 64 * 2]],
           [dealer |-> 3, se |-> [env |-> Flat[9], sig |-> 1 + 2 * 9 + 64 * 3]] >>))

MCSigIds == 1..255
====
