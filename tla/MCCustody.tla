---- MODULE MCCustody ----
EXTENDS Custody

\* Coins: a small congruential generator, keyed by session, party and position.
MCFork(seed, n) == (seed * 37 + n + 11) % 9973
MCDraw(seed, p, k) ==
    ((((seed * seed) % 9973) * (p * 13 + 7) + k * k * 31 + seed * k + p) % 9973) % Q

MCPairs == {<<1, 3>>, <<3, 4>>}
MCNewIds == {3, 4, 5, 6}
MCRequests == {[m |-> 5, tau |-> 0, gamma |-> 1], [m |-> 3, tau |-> 7, gamma |-> 4]}

\* Two quorums without a common party; the second can also sign for the new committee.
MCSignerSets == {{1, 2, 3}, {4, 5}}
====
