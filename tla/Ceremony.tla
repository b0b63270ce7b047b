------------------------------ MODULE Ceremony ------------------------------
(***************************************************************************)
(* A ceremony of the per-party nodes (node/src/party/party.rs): the stages *)
(* of a session, its blame, and, for key generation and presignature, the  *)
(* restart without the blamed over the same identities                     *)
(* (keygen_with_restart, presign_with_restart_over).                       *)
(*                                                                         *)
(* An attempt is a sequence of stages, of these kinds.                     *)
(*   deal: every member broadcasts a dealing that the others can check,    *)
(*     sends every member a share, and then everybody complains, defends   *)
(*     and adjudicates: the joint sharings (joint_vss_run: commit and      *)
(*     reveal) and the triples (triple_run: commitment and product proof). *)
(*   redeal: the dealing of a robust triple (triple_robust_run).  Who got  *)
(*     a bad share shows it, signed by its dealer; if there is one,        *)
(*     everybody makes public what that dealer sent it, and the share is   *)
(*     computed from the others.                                           *)
(*   open: every member broadcasts a share that the others can check; a    *)
(*     bad one only costs its sender its place in the rest of the attempt  *)
(*     (the robust openings and nonce points of presign_robust_run).       *)
(*   openall: the same, but a bad one ends the attempt (presign_run).      *)
(*   sign, signall: the signature shares of a key-independent record, in   *)
(*     the two ways; the round also ends with what is there at the         *)
(*     deadline (sign_ki_robust_run, sign_ki_run).                         *)
(* A plan is the stages of a session and whether its driver restarts.      *)
(*                                                                         *)
(* Abstractions.                                                           *)
(*   - A broadcast reaches everybody as the same value or not at all: the  *)
(*     echo broadcast, in a round where its sets agree (EchoBroadcast).    *)
(*   - A round that does not complete in time ends the driver with an      *)
(*     error (Timeout), which may happen in any round but a signing one.   *)
(*   - A dealing is fine, malformed, or found wrong by everybody (hash,    *)
(*     length, proof); a share is good (it fits the dealing), bad or       *)
(*     malformed.  The zero values, of negligible probability, are left    *)
(*     out.                                                                *)
(*   - A faulty party signs whatever another faulty one shows for it; a    *)
(*     share of an honest dealer can be shown as it was sent, or one of    *)
(*     another session can ("stale").                                      *)
(*   - A faulty member says one thing per round, when an honest member     *)
(*     waits for it.                                                       *)
(***************************************************************************)
EXTENDS Integers, Sequences, FiniteSets, FiniteSetsExt

CONSTANTS
  Node,        \* the party ids
  Faulty,
  T,           \* the threshold: fewer than T members are faulty
  Plans        \* the sessions there are: records [stages, restarts]

ASSUME NodeAssumption == Node \subseteq Nat /\ IsFiniteSet(Node) /\ Faulty \subseteq Node
ASSUME ThresholdAssumption ==
  T \in Nat \ {0} /\ Cardinality(Node) >= 2 * T - 1 /\ Cardinality(Faulty) < T
(* Signatures are made last, and the sessions that restart make none: they *)
(* begin with a dealing.                                                   *)
ASSUME PlansAssumption == \A s \in Plans :
  /\ s.stages # <<>> /\ s.restarts \in BOOLEAN
  /\ s.stages \in Seq({"deal", "redeal", "open", "openall", "sign", "signall"})
  /\ \A i \in 1 .. Len(s.stages) :
       s.stages[i] \in {"sign", "signall"} => i = Len(s.stages) /\ ~ s.restarts
  /\ s.restarts => s.stages[1] \in {"deal", "redeal"}
ASSUME OutsiderAssumption == 0 \notin Node

Honest == Node \ Faulty

(* The first of several parties in the order of the ids.                   *)
First(S) == CHOOSE p \in S : \A q \in S : p <= q

Dealing == {"deal", "redeal"}
Signing == {"sign", "signall"}
Opening == {"open", "openall"} \cup Signing

VARIABLES
  plan,        \* the session that runs
  at,          \* at[n]: the place of honest n
  committee,   \* committee[n]: the members of n's attempt
  active,      \* active[n]: those whose openings n still waits for
  blamed,      \* blamed[n]: everybody n has blamed, as its driver keeps it
  outcome,     \* outcome[n]: how n's driver ended, or "running"
  said,        \* the broadcasts: [at, from, what, names]
  shares       \* the shares: [at, from, to, share]

Stages == plan.stages

(* A place in the ceremony: attempt, stage and round.                      *)
Place ==
  [attempt: Nat, stage: 1 .. Len(Stages),
   round: Dealing \cup Opening \cup {"complain", "defend", "request", "supply"}]
Start(k, s) == [attempt |-> k, stage |-> s, round |-> Stages[s]]

(* What a member may broadcast in a round, and the parties it names: those  *)
(* it complains about, the accusers it answers with a good share (a bad    *)
(* share and no share have the same verdict), the dealers whose shares it  *)
(* shows, those whose shares it supplies.                                  *)
(* At most one: the least name of a list decides, and the one accuser that *)
(* is judged.  A request may name a party that is none.                    *)
Lists == {S \in SUBSET Node : Cardinality(S) <= 1}

Said(round) ==
  CASE round \in Dealing -> {"fine", "malformed", "wrong"} \X {{}}
    [] round \in {"open", "openall"} -> {"good", "bad", "malformed"} \X {{}}
    [] round \in Signing -> {"good", "bad", "malformed", "other"} \X {{}}
    [] round = "request" -> ({"list", "stale"} \X (Lists \cup {{0}})) \cup {<<"malformed", {}>>}
    [] OTHER -> ({"list"} \X Lists) \cup {<<"malformed", {}>>}

vars == <<plan, at, committee, active, blamed, outcome, said, shares>>

TypeOK ==
  /\ plan \in Plans /\ at \in [Honest -> Place]
  /\ committee \in [Honest -> SUBSET Node] /\ active \in [Honest -> SUBSET Node]
  /\ blamed \in [Honest -> SUBSET Node]
  /\ \A n \in Honest :
       /\ active[n] \subseteq committee[n] /\ n \in active[n]
       /\ at[n].attempt <= Cardinality(Node) - Cardinality(committee[n])
  /\ outcome \in [Honest -> {"running", "output", "expelled", "refused", "aborted", "failed", "panicked"}]
  /\ \A m \in said :
       /\ m.at \in Place /\ m.from \in Node
       /\ m.from \in Faulty => <<m.what, m.names>> \in Said(m.at.round)
  /\ \A m \in shares : m.share \in {"good", "bad", "malformed"} /\ m.at.round \in Dealing

-----------------------------------------------------------------------------
(* Messages *)

Message(p, n, what, names) == [at |-> p, from |-> n, what |-> what, names |-> names]
From(p, n) == CHOOSE m \in said : m.at = p /\ m.from = n
What(p, n) == From(p, n).what
Names(p, n) == From(p, n).names
Heard(p, ids) == \A i \in ids : \E m \in said : m.at = p /\ m.from = i

Share(p, d, n) == (CHOOSE m \in shares : m.at = p /\ m.from = d /\ m.to = n).share
Dealt(p, n, ids) == \A d \in ids : \E m \in shares : m.at = p /\ m.from = d /\ m.to = n

(* Honest n begins stage s of attempt k: it deals, or broadcasts its share.*)
Enter(n, k, s, ids) ==
  LET p == Start(k, s) IN
  /\ at' = [at EXCEPT ![n] = p]
  /\ said' = said \cup {Message(p, n, IF Stages[s] \in Dealing THEN "fine" ELSE "good", {})}
  /\ shares' = shares \cup IF Stages[s] \in Dealing
       THEN {[at |-> p, from |-> n, to |-> i, share |-> "good"] : i \in ids}
       ELSE {}

Goes(n, round) == at' = [at EXCEPT ![n].round = round]

Ends(n, how) ==
  /\ outcome' = [outcome EXCEPT ![n] = how]
  /\ UNCHANGED <<at, said, shares>>

-----------------------------------------------------------------------------
(* Blame and restart *)

MayRestartWithT(ids) == Cardinality(ids) >= T

(* The committee may go on without the blamed.                             *)
MayRestart(ids) == Cardinality(ids) >= 2 * T - 1

SidReused(k) == k

(* The session id of an aborted attempt is never used again.               *)
Poisoned(k) == k + 1

(* n's attempt ends in an abort that blames B.                             *)
Abort(n, B) ==
  LET survivors == committee[n] \ B IN
  /\ blamed' = [blamed EXCEPT ![n] = @ \cup B]
  /\ \/ /\ ~ plan.restarts
        /\ Ends(n, "aborted")
        /\ UNCHANGED <<committee, active>>
     \/ /\ plan.restarts /\ ~ MayRestart(survivors)
        /\ Ends(n, "refused")
        /\ UNCHANGED <<committee, active>>
     \/ /\ plan.restarts /\ MayRestart(survivors) /\ n \notin survivors
        /\ Ends(n, "expelled")
        /\ UNCHANGED <<committee, active>>
     \/ /\ plan.restarts /\ MayRestart(survivors) /\ n \in survivors
        /\ committee' = [committee EXCEPT ![n] = survivors]
        /\ active' = [active EXCEPT ![n] = survivors]
        /\ Enter(n, Poisoned(at[n].attempt), 1, survivors)
        /\ UNCHANGED outcome

(* n goes on to the next stage, or outputs: the parties it caught on the   *)
(* way are blamed then, and only then.                                     *)
Pass(n, remaining) ==
  /\ active' = [active EXCEPT ![n] = remaining]
  /\ UNCHANGED committee
  /\ IF at[n].stage = Len(Stages)
       THEN /\ Ends(n, "output")
            /\ blamed' = [blamed EXCEPT ![n] = @ \cup (committee[n] \ remaining)]
       ELSE /\ Enter(n, at[n].attempt, at[n].stage + 1, committee[n])
            /\ UNCHANGED <<blamed, outcome>>

-----------------------------------------------------------------------------
(* The rounds of a dealing *)

Running(n, round) == outcome[n] = "running" /\ at[n].round = round

(* n goes on to a round with a list of parties, which may be empty.        *)
Reports(n, round, names) ==
  /\ Goes(n, round)
  /\ said' = said \cup {Message([at[n] EXCEPT !.round = round], n, "list", names)}
  /\ UNCHANGED <<committee, active, blamed, outcome, shares>>

(* n has all dealings and shares: it aborts, or complains about the shares *)
(* that do not fit.                                                        *)
Check(n) ==
  LET p == at[n]
      ids == committee[n]
      malformed == {d \in ids : What(p, d) = "malformed"}
      misdealt == {d \in ids : Share(p, d, n) = "malformed"}
      wrong == {d \in ids : What(p, d) = "wrong"}
      bad == {d \in ids : Share(p, d, n) = "bad"}
  IN /\ Running(n, "deal") \/ Running(n, "redeal")
     /\ Heard(p, ids) /\ Dealt(p, n, ids)
     /\ \/ malformed # {} /\ Abort(n, {First(malformed)})
        \/ malformed = {} /\ misdealt # {} /\ Abort(n, {First(misdealt)})
        \/ malformed \cup misdealt = {} /\ wrong # {} /\ Abort(n, {First(wrong)})
        \/ /\ malformed \cup misdealt \cup wrong = {}
           /\ Reports(n, IF p.round = "deal" THEN "complain" ELSE "request", bad)

(* n has all complaints: it defends itself with the shares it dealt.       *)
Defend(n) ==
  LET p == at[n]
      ids == committee[n]
      malformed == {a \in ids : What(p, a) = "malformed"}
  IN /\ Running(n, "complain")
     /\ Heard(p, ids)
     /\ \/ malformed # {} /\ Abort(n, {First(malformed)})
        \/ malformed = {} /\ Reports(n, "defend", {i \in ids : n \in Names(p, i)})

BlameNobody(p, a, d) == {}

(* The first complaint decides: a good defense blames the accuser, any     *)
(* other the dealer.  A complaint about a party that is no member stops    *)
(* the program: there is no defense to look up.                            *)
Blame(p, a, d) == IF a \in Names(p, d) THEN {a} ELSE {d}

(* The dealers a complains about, when the defenses are in.                *)
Complaints(p, a) == Names([p EXCEPT !.round = "complain"], a)

Accusers(p, ids) == {a \in ids : Complaints(p, a) # {}}

Adjudicate(n) ==
  LET p == at[n]
      ids == committee[n]
      accusers == Accusers(p, ids)
      a == First(accusers)
      d == First(Complaints(p, a))
  IN /\ Running(n, "defend")
     /\ Heard(p, ids)
     /\ \/ accusers = {} /\ Pass(n, active[n])
        \/ accusers # {} /\ d \in ids /\ Abort(n, Blame(p, a, d))
        \/ /\ accusers # {} /\ d \notin ids
           /\ Ends(n, "panicked") /\ UNCHANGED <<committee, active, blamed>>

-----------------------------------------------------------------------------
(* The rounds of a robust triple after its dealing *)

GenuineAnySession(p, v, d, ids) ==                  \* a mutant of Genuine
  /\ d \in ids
  /\ \/ What(p, v) = "stale" \/ {v, d} \subseteq Faulty
     \/ LET q == Start(p.attempt, p.stage) IN Dealt(q, v, {d}) /\ Share(q, d, v) = "bad"

(* v shows a share that d signed for it in this session and that does not  *)
(* fit d's dealing.                                                        *)
Genuine(p, v, d, ids) ==
  /\ What(p, v) = "list" /\ d \in ids
  /\ \/ {v, d} \subseteq Faulty
     \/ LET q == Start(p.attempt, p.stage) IN Dealt(q, v, {d}) /\ Share(q, d, v) = "bad"

FalseRequest(p, v, ids) ==
  What(p, v) = "malformed" \/ \E d \in Names(p, v) : ~ Genuine(p, v, d, ids)

(* A request that looks right but for its dealer, who is not a party: there *)
(* is no key to look up.                                                   *)
NamesOutsider(p, v, ids) == What(p, v) = "list" /\ ~ (Names(p, v) \subseteq ids)

(* The dealers whose sharing is reconstructed.                             *)
Reconstructed(p, ids) == UNION {Names(p, v) : v \in ids}

(* n has all requests: the first false one aborts; if there are others, n  *)
(* makes public what it got from the dealers they show.                    *)
Judge(n) ==
  LET p == at[n]
      ids == committee[n]
      liars == {v \in ids : FalseRequest(p, v, ids)}
      v == First(liars)
      set == Reconstructed(p, ids)
  IN /\ Running(n, "request")
     /\ Heard(p, ids)
     /\ \/ liars # {} /\ ~ NamesOutsider(p, v, ids) /\ Abort(n, {v})
        \/ /\ liars # {} /\ NamesOutsider(p, v, ids)
           /\ Ends(n, "panicked") /\ UNCHANGED <<committee, active, blamed>>
        \/ liars = {} /\ set = {} /\ Pass(n, active[n])
        \/ /\ liars = {} /\ set # {}
           /\ Reports(n, "supply", {d \in set : Share(Start(p.attempt, p.stage), d, n) = "good"})

OneIsEnough(p, d, ids) == \E v \in ids : d \in Names(p, v)     \* a mutant of Recoverable

(* T good shares make the dealer's polynomial.                             *)
Recoverable(p, d, ids) == Cardinality({v \in ids : d \in Names(p, v)}) >= T

(* n has all supplies: it computes what it should have got, or blames the  *)
(* dealer that gave a good share to too few.                               *)
Recover(n) ==
  LET p == at[n]
      ids == committee[n]
      set == Reconstructed([p EXCEPT !.round = "request"], ids)
      malformed == {v \in ids : What(p, v) = "malformed"}
      lost == {d \in set : ~ Recoverable(p, d, ids)}
  IN /\ Running(n, "supply")
     /\ Heard(p, ids)
     /\ \/ malformed # {} /\ Abort(n, {First(malformed)})
        \/ malformed = {} /\ lost # {} /\ Abort(n, {First(lost)})
        \/ malformed = {} /\ lost = {} /\ Pass(n, active[n] \ set)

-----------------------------------------------------------------------------
(* An opening *)

Open(n) ==
  LET p == at[n]
      malformed == {i \in active[n] : What(p, i) = "malformed"}
      valid == {i \in active[n] : What(p, i) = "good"}
  IN /\ Running(n, "open")
     /\ Heard(p, active[n])
     /\ \/ malformed # {} /\ Abort(n, {First(malformed)})
        \/ /\ malformed = {}
           /\ IF Cardinality(valid) >= T THEN Pass(n, valid)
              ELSE Ends(n, "failed") /\ UNCHANGED <<committee, active, blamed>>

(* The opening of the drivers that stop at a bad share.                    *)
OpenAll(n) ==
  LET p == at[n]
      malformed == {i \in active[n] : What(p, i) = "malformed"}
      bad == {i \in active[n] : What(p, i) = "bad"}
  IN /\ Running(n, "openall")
     /\ Heard(p, active[n])
     /\ \/ malformed # {} /\ Abort(n, {First(malformed)})
        \/ malformed = {} /\ bad # {} /\ Abort(n, bad)
        \/ malformed \cup bad = {} /\ Pass(n, active[n])

(* The signature shares n combines: all, or some when the deadline comes   *)
(* first.  Those of another record are dropped.                            *)
Collected(n) == SUBSET {i \in active[n] : Heard(at[n], {i})}
Those(n, S, what) == {i \in S : What(at[n], i) = what}

Combine(n) ==
  /\ Running(n, "sign")
  /\ \E S \in Collected(n) :
       \/ Those(n, S, "malformed") # {} /\ Abort(n, {First(Those(n, S, "malformed"))})
       \/ /\ Those(n, S, "malformed") = {} /\ Cardinality(Those(n, S, "good")) >= T
          /\ Pass(n, active[n] \ Those(n, S, "bad"))
       \/ /\ Those(n, S, "malformed") = {} /\ Cardinality(Those(n, S, "good")) < T
          /\ Ends(n, "failed") /\ UNCHANGED <<committee, active, blamed>>

CombineAll(n) ==
  /\ Running(n, "signall")
  /\ \E S \in Collected(n) :
       \/ Those(n, S, "malformed") # {} /\ Abort(n, {First(Those(n, S, "malformed"))})
       \/ /\ Those(n, S, "malformed") = {} /\ Those(n, S, "bad") # {}
          /\ Abort(n, Those(n, S, "bad"))
       \/ /\ Those(n, S, "malformed") \cup Those(n, S, "bad") = {}
          /\ IF Cardinality(Those(n, S, "good")) >= T THEN Pass(n, active[n])
             ELSE Ends(n, "failed") /\ UNCHANGED <<committee, active, blamed>>

(* A round is still incomplete at the deadline.                            *)
Complete(n) ==
  LET p == at[n] IN
  /\ Heard(p, IF p.round \in Opening THEN active[n] ELSE committee[n])
  /\ p.round \in Dealing => Dealt(p, n, committee[n])

Timeout(n) ==
  /\ outcome[n] = "running" /\ at[n].round \notin Signing /\ ~ Complete(n)
  /\ Ends(n, "failed")
  /\ UNCHANGED <<committee, active, blamed>>

-----------------------------------------------------------------------------
(* Faulty members *)

Awaited(f, p) == \E n \in Honest : outcome[n] = "running" /\ at[n] = p /\ f \in committee[n]

Say(f, p) ==
  /\ Awaited(f, p) /\ ~ Heard(p, {f})
  /\ \E s \in Said(p.round) : said' = said \cup {Message(p, f, s[1], s[2])}
  /\ UNCHANGED <<at, committee, active, blamed, outcome, shares>>

Give(f, p, n) ==
  /\ outcome[n] = "running" /\ at[n] = p /\ f \in committee[n]
  /\ p.round \in Dealing /\ ~ Dealt(p, n, {f})
  /\ \E s \in {"good", "bad", "malformed"} :
       shares' = shares \cup {[at |-> p, from |-> f, to |-> n, share |-> s]}
  /\ UNCHANGED <<at, committee, active, blamed, outcome, said>>

-----------------------------------------------------------------------------
Init ==
  LET p == Start(0, 1) IN
  /\ plan \in Plans
  /\ at = [n \in Honest |-> p]
  /\ committee = [n \in Honest |-> Node] /\ active = [n \in Honest |-> Node]
  /\ blamed = [n \in Honest |-> {}]
  /\ outcome = [n \in Honest |-> "running"]
  /\ said = {Message(p, n, IF p.round \in Dealing THEN "fine" ELSE "good", {}) : n \in Honest}
  /\ shares = IF p.round \in Dealing
       THEN {[at |-> p, from |-> n, to |-> i, share |-> "good"] : n \in Honest, i \in Node}
       ELSE {}

Step(n) ==
  \/ Check(n) \/ Defend(n) \/ Adjudicate(n)
  \/ Judge(n) \/ Recover(n)
  \/ Open(n) \/ OpenAll(n) \/ Combine(n) \/ CombineAll(n)

Next ==
  /\ \/ \E n \in Honest : Step(n) \/ Timeout(n)
     \/ \E f \in Faulty : \E n \in Honest : Say(f, at[n]) \/ Give(f, at[n], n)
  /\ UNCHANGED plan

Spec == Init /\ [][Next]_vars

-----------------------------------------------------------------------------
(* Properties *)

(* A share that is malformed is seen by its receiver alone, who aborts and *)
(* blames its dealer before it looks at what everybody sees                *)
(* (joint_vss_run).  If another dealer misdeals in the same round, another *)
(* honest member may abort that round and blame that one; then they differ *)
(* in the blame, and go on with different committees.  So honest members   *)
(* need not agree when two faulty ones misdeal together; they do when who  *)
(* gives a malformed share is the only one to misdeal in that round.       *)
LoneMisdealers ==
  \A m \in shares : m.share = "malformed" =>
    /\ \A x \in shares : x.at = m.at /\ x.share = "malformed" => x.from = m.from
    /\ \A x \in said : x.at = m.at /\ x.what = "wrong" => x.from = m.from

(* The members that reach a result have run the same attempt with the same *)
(* committee, and have the same result and the same blame: nobody outputs  *)
(* from an attempt that another honest member has left for the next one    *)
(* (every round needs all members; the restart of keygen_with_restart uses *)
(* nothing else), and a robust triple that is mended for one is mended for *)
(* all.  A signing round is no such round: it may end early.               *)
Decided == {"output", "aborted"}

OneCommittee ==
  LoneMisdealers => \A n, o \in Honest :
    {outcome[n], outcome[o]} \subseteq Decided /\ Signing \cap {at[n].round, at[o].round} = {} =>
      /\ outcome[n] = outcome[o] /\ at[n].attempt = at[o].attempt
      /\ committee[n] = committee[o] /\ active[n] = active[o] /\ blamed[n] = blamed[o]

(* Once an honest member has finished a dealing, every honest member of    *)
(* its committee holds a good share of every dealing in it, or finds it    *)
(* in what is public, whether or not it still takes part: the secret is    *)
(* shared by all of them (the complaint round of joint_vss_run and         *)
(* triple_run, the reconstruction of triple_robust_run).  Again this takes *)
(* a committee that all agree on.                                          *)
Finished(n, p) ==
  /\ p.attempt = at[n].attempt
  /\ \/ p.stage < at[n].stage
     \/ p.stage = at[n].stage /\ outcome[n] = "output"

Public(p, d) ==
  Cardinality({m.from : m \in {x \in said : x.at = [p EXCEPT !.round = "supply"] /\ d \in x.names}}) >= T

SharedByAll ==
  LoneMisdealers => \A n \in Honest : \A s \in {i \in 1 .. Len(Stages) : Stages[i] \in Dealing} :
    LET p == Start(at[n].attempt, s) IN
    Finished(n, p) =>
      \A o \in Honest \cap committee[n] : \A d \in committee[n] :
        Dealt(p, o, {d}) /\ (Share(p, d, o) = "good" \/ (p.round = "redeal" /\ Public(p, d)))

(* Blame on an honest member takes a dealer that gave it a bad share and   *)
(* then defended itself with a good one (complaint_round compares the      *)
(* defense with the commitment, not with the share that was sent): who     *)
(* deals, accuses and opens honestly is blamed for nothing else, and in a  *)
(* robust triple never, whatever is shown for it.  Members that do not     *)
(* agree on the committee do not hear the same accusers, and one of them   *)
(* may be blamed for a defense it was never asked for.                     *)
HonestBlameNeedsBadShare ==
  LoneMisdealers => \A n, h \in Honest : h \in blamed[n] =>
    \E m \in shares :
      /\ m.from \in Faulty /\ m.to = h /\ m.share = "bad"
      /\ LET p == [m.at EXCEPT !.round = "defend"] IN
         Heard(p, {m.from}) /\ h \in Names(p, m.from)

(* Whoever a faulty member gets expelled, the committee of a running       *)
(* attempt holds at least T honest members, those who are needed to output *)
(* (policy::restart_committee).                                            *)
HonestEnough ==
  \A n \in Honest : Cardinality(committee[n] \ Faulty) >= T
=============================================================================
